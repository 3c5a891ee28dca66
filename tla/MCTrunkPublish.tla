---------------------------- MODULE MCTrunkPublish ----------------------------
EXTENDS TrunkPublish, TLC

CONSTANTS v1, v2, r1, r2

\* Both runs are of one tag; no tag names the other version.
SameTag == r1 :> v1 @@ r2 :> v1
=============================================================================
