SPECIFICATION FairSpec
CONSTANTS
    v1 = v1
    v2 = v2
    r1 = r1
    r2 = r2
    Runs = {r1, r2}
    Versions = {v1, v2}
    TagOf <- SameTag
    Missing = {}
    Attempts = 2
INVARIANTS LeavesReadableFirst DoneIsPublished OnlyTagsPublished RerunPushesNothing
PROPERTIES RunEnds EventuallyPublished
