-------------------------- MODULE MCReleasePipeline --------------------------
EXTENDS ReleasePipeline

\* A defect that prepare has to find, and one that build has to find.
OnePerJob == {"signature", "checksum"}
=============================================================================
