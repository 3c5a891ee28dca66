-------------------------- MODULE MCNativeArtifacts --------------------------
EXTENDS NativeArtifacts, TLC

\* One defect for each check that can be left out, and one that passes them all.
OnePerCheck == "native-apple" :> {"archive", "checksum"} @@ "native-embedded" :> {"symlink", "files"}
=============================================================================
