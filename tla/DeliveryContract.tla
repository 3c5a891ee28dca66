--------------------------- MODULE DeliveryContract ---------------------------
(***************************************************************************)
(* What the durable queues of a HopNode promise a host that keeps its own  *)
(* store (Sources/Hop/Hop.swift, the accept-to-remove queues): an item     *)
(* stays queued, across any crash, until the host has kept it, and only    *)
(* then is its sender told that it was delivered.                          *)
(***************************************************************************)
CONSTANT Items
VARIABLES queued, kept, acked

DeliveryInit == queued = {} /\ kept = {} /\ acked = {}

\* The mesh delivers an item to this node, which queues it durably.
Queue(i) == i \notin acked /\ queued' = queued \cup {i} /\ UNCHANGED <<kept, acked>>

\* The host writes the item to its own store.
Keep(i) == kept' = kept \cup {i} /\ UNCHANGED <<queued, acked>>

\* The host accepts an item it has kept: the sender gets its receipt.  The
\* durable queue has no copy of it if the node ran on an ephemeral store.
Ack(i) ==
    /\ i \in kept
    /\ acked' = acked \cup {i}
    /\ queued' \in {queued, queued \ {i}}
    /\ UNCHANGED kept

DeliveryNext == \E i \in Items : Queue(i) \/ Keep(i) \/ Ack(i)

DeliverySpec == DeliveryInit /\ [][DeliveryNext]_<<queued, kept, acked>>
=============================================================================
