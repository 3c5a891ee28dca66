---------------------------- MODULE DurableQueues ----------------------------
(***************************************************************************)
(* Sources/Hop/Hop.swift: how a host drains the durable queues of a        *)
(* HopNode.  Inbox messages, service responses and hps publications share  *)
(* one shape (accept to remove); service requests have the same queue with *)
(* handlers that may throw; hps invites are take-and-clear.                *)
(*                                                                         *)
(* The queues themselves live in libhop, which is not in the repository:   *)
(* they are modelled from the contract Hop.swift states and its tests      *)
(* exercise.  A poll hands the host every item queued when it began, one   *)
(* callback at a time, and removes and acknowledges an item when the       *)
(* callback returns true.  Several host threads may poll at once and the   *)
(* process may die between any two steps; the host's own store survives.   *)
(* A call that changes no state (an accept with an id that is not 32 bytes *)
(* or not queued, rejectServiceRequest) is a stuttering step.              *)
(***************************************************************************)
EXTENDS Naturals

CONSTANTS
    Items,       \* the items peers send to this node
    Requests,    \* those of them that are hops:// service requests
    Invites,     \* hps invites
    Threads,     \* the host threads that poll
    Poller,      \* the one of them that liveness relies on: it polls again and again
    NoItem       \* the value of cur[t] and caught[t] when there is none

ASSUME QueuesOK ==
    /\ Requests \subseteq Items
    /\ Items \cap Invites = {}
    /\ NoItem \notin Items
    /\ Poller \in Threads

\* A node opened on a usable database keeps its queues there; one that could
\* not open it (a bad path, a wrong key) runs on memory and says so.
Stores == {"disk", "memory"}

\* pollInbox and its like, poll...Accepting, and pollServiceRequests.
Modes == {"peek", "accepting", "completing"}

\* How the host's handler ends: it returns nothing, true, false, or throws.
Outcomes == {"done", "yes", "no", "throw"}

VARIABLES
    store,       \* the store of the open node, or "closed"
    stored,      \* the items queued in each store
    acked,       \* items accepted: their senders see them delivered
    invites,     \* the invites queued in each store
    kept,        \* the items the host has written to its own durable store
    pc, mode, batch, cur,   \* the poll of each thread: items left, item in hand
    caught,      \* the error a poll has caught so far
    threw        \* the items whose handlers threw in this poll

node == <<store, stored, acked, invites>>
poll == <<mode, batch, cur, caught, threw>>
vars == <<node, kept, pc, poll>>

Init ==
    /\ store = "closed"
    /\ stored = [s \in Stores |-> {}]
    /\ invites = [s \in Stores |-> {}]
    /\ acked = {}
    /\ kept = {}
    /\ pc = [t \in Threads |-> "idle"]
    /\ mode = [t \in Threads |-> "peek"]
    /\ batch = [t \in Threads |-> {}]
    /\ cur = [t \in Threads |-> NoItem]
    /\ caught = [t \in Threads |-> NoItem]
    /\ threw = [t \in Threads |-> {}]

Goto(t, p) == pc' = [pc EXCEPT ![t] = p]
-----------------------------------------------------------------------------
(* The node: opening, dying, and what the mesh delivers to it. *)

\* HopNode.open / openKeyed: on the database, or on memory if it is unusable.
Open(s) ==
    /\ store = "closed"
    /\ store' = s
    /\ UNCHANGED <<stored, acked, invites, kept, pc, poll>>

\* The process dies: memory, polls and invites in hand are gone.
Crash ==
    /\ store # "closed"
    /\ store' = "closed"
    /\ stored' = [stored EXCEPT !["memory"] = {}]
    /\ invites' = [invites EXCEPT !["memory"] = {}]
    /\ pc' = [t \in Threads |-> "idle"]
    /\ batch' = [t \in Threads |-> {}]
    /\ cur' = [t \in Threads |-> NoItem]
    /\ caught' = [t \in Threads |-> NoItem]
    /\ threw' = [t \in Threads |-> {}]
    /\ UNCHANGED <<acked, kept, mode>>

\* An item reaches the node; its sender retries it until it is acknowledged.
Arrive(i) ==
    /\ store # "closed" /\ i \notin stored[store] /\ i \notin acked
    /\ stored' = [stored EXCEPT ![store] = @ \cup {i}]
    /\ UNCHANGED <<store, acked, invites, kept, pc, poll>>

\* An invite reaches the node; a peer may send one again.
Invite(v) ==
    /\ store # "closed" /\ v \notin invites[store]
    /\ invites' = [invites EXCEPT ![store] = @ \cup {v}]
    /\ UNCHANGED <<store, stored, acked, kept, pc, poll>>

\* An item leaves the queue and its sender gets its receipt.
Remove(i) ==
    /\ stored' = [stored EXCEPT ![store] = @ \ {i}]
    /\ acked' = IF i \in stored[store] THEN acked \cup {i} ELSE acked
-----------------------------------------------------------------------------
(* The accept-to-remove queues. *)

\* What the poll's C callback returns to libhop for an outcome of the handler:
\* the plain polls refuse every item, pollServiceRequests accepts whatever its
\* handler completed, and no item is accepted when the handler threw.
PeekAccepts(m, outcome) == outcome \in {"yes", "done"}
ThrowAccepts(m, outcome) == outcome = "yes" \/ m = "completing"
NeverCompletes(m, outcome) == outcome = "yes"
Accepted(m, outcome) == outcome = "yes" \/ (m = "completing" /\ outcome = "done")

\* The error the poll carries after an outcome: the last one it caught.  The
\* mutant forgets the error.
CatchNothing(t, outcome) == caught[t]
Catch(t, outcome) == IF outcome = "throw" THEN cur[t] ELSE caught[t]

\* A poll of one queue begins, with the items queued at this moment.  Only
\* pollServiceRequests completes, and only the other queues have a plain poll.
Queues == {Requests, Items \ Requests}
StartPoll(t, m, queue) ==
    /\ pc[t] = "idle" /\ store # "closed"
    /\ stored[store] \cap queue # {}
    /\ m = "completing" => queue = Requests
    /\ m = "peek" => queue # Requests
    /\ batch' = [batch EXCEPT ![t] = stored[store] \cap queue]
    /\ mode' = [mode EXCEPT ![t] = m]
    /\ Goto(t, "polling")
    /\ UNCHANGED <<node, kept, cur, caught, threw>>

\* libhop calls back with the next item, and the host's handler gets it.
Surface(t) ==
    /\ pc[t] = "polling"
    /\ \E i \in batch[t] : /\ cur' = [cur EXCEPT ![t] = i]
                           /\ batch' = [batch EXCEPT ![t] = @ \ {i}]
    /\ Goto(t, "handling")
    /\ UNCHANGED <<node, kept, mode, caught, threw>>

\* The handler writes the item to the host's own store.
Keep(t) ==
    /\ pc[t] = "handling" /\ cur[t] \notin kept
    /\ kept' = kept \cup {cur[t]}
    /\ UNCHANGED <<node, pc, poll>>

\* The handler ends.  A host reports success only for what it has kept; only
\* the handlers of service requests can throw.
Return(t, outcome) ==
    /\ pc[t] = "handling"
    /\ outcome \in {"yes", "no"} => mode[t] = "accepting"
    /\ outcome = "done" => mode[t] # "accepting"
    /\ outcome = "throw" => cur[t] \in Requests
    /\ outcome = "yes" \/ (outcome = "done" /\ mode[t] = "completing") => cur[t] \in kept
    /\ IF Accepted(mode[t], outcome) THEN Remove(cur[t]) ELSE UNCHANGED <<stored, acked>>
    /\ caught' = [caught EXCEPT ![t] = Catch(t, outcome)]
    /\ threw' = [threw EXCEPT ![t] = IF outcome = "throw" THEN @ \cup {cur[t]} ELSE @]
    /\ cur' = [cur EXCEPT ![t] = NoItem]
    /\ Goto(t, "polling")
    /\ UNCHANGED <<store, invites, kept, mode, batch>>

\* The poll returns, or rethrows the error it carries.
EndPoll(t) ==
    /\ pc[t] = "polling" /\ batch[t] = {}
    /\ Goto(t, IF caught[t] = NoItem THEN "idle" ELSE "threw")
    /\ threw' = [threw EXCEPT ![t] = IF caught[t] = NoItem THEN {} ELSE @]
    /\ UNCHANGED <<node, kept, mode, batch, cur, caught>>

\* The caller of the poll handles the error.
Rescue(t) ==
    /\ pc[t] = "threw"
    /\ Goto(t, "idle")
    /\ caught' = [caught EXCEPT ![t] = NoItem]
    /\ threw' = [threw EXCEPT ![t] = {}]
    /\ UNCHANGED <<node, kept, mode, batch, cur>>

\* acceptInbox, acceptServiceRequest, acceptServiceResponse, acceptHpsMessage:
\* from a thread of its own or from within a handler, of an item kept before.
Accept(t, i) ==
    /\ pc[t] \in {"idle", "handling"} /\ store # "closed"
    /\ i \in kept /\ i \in stored[store]
    /\ Remove(i)
    /\ UNCHANGED <<store, invites, kept, pc, poll>>
-----------------------------------------------------------------------------
(* The take-and-clear queue. *)

\* What libhop does when hop_poll_hps_invites is called: it clears the queue.
TakeInvites == invites' = [invites EXCEPT ![store] = {}]

\* pollHpsInvites: the callback gets each of the invites that were queued.
PollInvites(t) ==
    /\ pc[t] = "idle" /\ store # "closed" /\ invites[store] # {}
    /\ TakeInvites
    /\ batch' = [batch EXCEPT ![t] = invites[store]]
    /\ Goto(t, "inviting")
    /\ UNCHANGED <<store, stored, acked, kept, mode, cur, caught, threw>>

\* The host is shown an invite; what it does with one is its own affair.
SurfaceInvite(t) ==
    /\ pc[t] = "inviting"
    /\ \E v \in batch[t] :
        /\ batch' = [batch EXCEPT ![t] = @ \ {v}]
        /\ Goto(t, IF batch[t] = {v} THEN "idle" ELSE "inviting")
    /\ UNCHANGED <<node, kept, mode, cur, caught, threw>>

\* hpsDeclineInvite: drop a received invite durably.
Decline(v) ==
    /\ store # "closed" /\ v \in invites[store]
    /\ invites' = [invites EXCEPT ![store] = @ \ {v}]
    /\ UNCHANGED <<store, stored, acked, kept, pc, poll>>
-----------------------------------------------------------------------------
\* The next step of a poll in progress.
Step(t) == \/ Surface(t) \/ Keep(t) \/ EndPoll(t) \/ Rescue(t) \/ SurfaceInvite(t)
           \/ \E outcome \in Outcomes : Return(t, outcome)

Next ==
    \/ Crash
    \/ \E s \in Stores : Open(s)
    \/ \E i \in Items : Arrive(i)
    \/ \E v \in Invites : Invite(v) \/ Decline(v)
    \/ \E t \in Threads : \/ Step(t) \/ PollInvites(t)
                          \/ \E m \in Modes, q \in Queues : StartPoll(t, m, q)
                          \/ \E i \in Items : Accept(t, i)

Spec == Init /\ [][Next]_vars

\* The handler reports that the item in hand is done with.
Succeed(t) == Return(t, "yes") \/ (mode[t] = "completing" /\ Return(t, "done"))

\* The threads run, one of them keeps polling, and its handler, given items again
\* and again, in the end keeps one and reports success.  The others owe nothing:
\* they may poll, refuse and throw for ever.
FairSpec ==
    /\ Spec
    /\ \A t \in Threads : WF_vars(Step(t))
    /\ SF_vars(StartPoll(Poller, "accepting", Items \ Requests))
    /\ SF_vars(StartPoll(Poller, "completing", Requests))
    /\ SF_vars(Keep(Poller))
    /\ SF_vars(Succeed(Poller))
=============================================================================
