---------------------------- MODULE QueueProperties ----------------------------
(***************************************************************************)
(* What the durable queues of DurableQueues must guarantee to a host.      *)
(***************************************************************************)
EXTENDS DurableQueues

\* Every variable of the model keeps its type (the node's store and queues, the
\* host's store, the locals of the poll functions).
QueueTypeOK ==
    /\ store \in Stores \cup {"closed"}
    /\ stored \in [Stores -> SUBSET Items]
    /\ acked \subseteq Items
    /\ invites \in [Stores -> SUBSET Invites]
    /\ kept \subseteq Items
    /\ pc \in [Threads -> {"idle", "polling", "handling", "threw", "inviting"}]
    /\ mode \in [Threads -> Modes]
    /\ batch \in [Threads -> SUBSET (Items \cup Invites)]
    /\ cur \in [Threads -> Items \cup {NoItem}]
    /\ caught \in [Threads -> Items \cup {NoItem}]
    /\ threw \in [Threads -> SUBSET Items]

\* A sender sees "delivered" only for an item the receiving host has in its own
\* store, whichever poll or accept call removed it and wherever the process died
\* in between ("a rejected host write must not emit the ACK").
AckedIsKept == acked \subseteq kept

\* An item queued on the database leaves it only for the host's store: no poll,
\* no throwing handler, no second thread and no crash between a callback and its
\* acceptance loses an item nobody has kept.
NothingLost ==
    [][\A i \in Items : i \in stored["disk"] \ stored'["disk"] => i \in kept']_vars

\* The queues implement the abstract delivery contract: a crash, a refused or a
\* throwing callback is a stuttering step of it.
Delivery == INSTANCE DeliveryContract WITH queued <- stored["disk"]
ImplementsDelivery == Delivery!DeliverySpec

\* A poll in which a handler threw does not return as if all had gone well, and
\* one in which none threw does not throw.
ErrorsSurface ==
    [][\A t \in Threads : pc[t] = "polling" /\ pc'[t] \in {"idle", "threw"} /\ store' = store
          => (pc'[t] = "threw" <=> threw[t] # {})]_vars

\* Once crashes end and the node stays on its database, every item queued there
\* is kept by the host and removed, however often handlers throw or refuse.
EventuallyAccepted ==
    (<>[](store = "disk")) => \A i \in Items : []<>(i \notin stored["disk"])
=============================================================================
