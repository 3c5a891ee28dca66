SPECIFICATION Spec
CONSTANTS
    BuildDefects = {"slices"}
    BundleDefects = {"signature", "tag", "artifact", "checksum", "slices"}
INVARIANTS PackageIsRestored CommandUsesVerified InstallIsAllOrNothing InstallRefusedForCause LeftAsFound
