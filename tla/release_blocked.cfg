SPECIFICATION Spec
CONSTANTS
    MaxAttempts = 2
    CIAttempts = 1
    NativeAttempts = 1
    Defects <- OnePerJob
    Files = {"archive", "manifest"}
    TagRequired = TRUE
INVARIANTS DriftedBundleIsAccepted
CHECK_DEADLOCK FALSE
