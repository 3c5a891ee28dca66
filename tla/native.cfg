SPECIFICATION FairSpec
CONSTANTS
    CIAttempts = 2
    NativeAttempts = 2
    Groups = {"native-apple", "native-embedded"}
    Defects <- OnePerCheck
INVARIANTS AuthorizedByOneAttempt PartsAreLatest PartsAreComplete RefusedForCause
PROPERTIES NativeRunEnds ImplementsNativeRun
CHECK_DEADLOCK FALSE
