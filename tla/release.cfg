SPECIFICATION Spec
CONSTANTS
    MaxAttempts = 3
    CIAttempts = 2
    NativeAttempts = 2
    Defects <- OnePerJob
    Files = {"archive", "manifest"}
    TagRequired = FALSE
INVARIANTS ReleasedIsVerified SucceededIsWhole OnlyBadEvidenceIsRejected
CHECK_DEADLOCK FALSE
