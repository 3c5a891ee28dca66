----------------------------- MODULE LinkContract -----------------------------
(***************************************************************************)
(* What the consumer of a BearerManager is promised about each global link *)
(* id (LinkSink in Sources/HopContract/Bearers.swift): it comes up once,   *)
(* goes down once after that, and is never used again.                     *)
(***************************************************************************)
CONSTANT Links
VARIABLE link

LinkInit == link = [g \in Links |-> "unused"]

LinkUp(g) == link[g] = "unused" /\ link' = [link EXCEPT ![g] = "up"]

LinkDown(g) == link[g] = "up" /\ link' = [link EXCEPT ![g] = "down"]

LinkNext == \E g \in Links : LinkUp(g) \/ LinkDown(g)

LinkSpec == LinkInit /\ [][LinkNext]_link
=============================================================================
