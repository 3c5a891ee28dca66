------------------------- MODULE DurableQueuesProofs -------------------------
(***************************************************************************)
(* Proofs about DurableQueues, for any items, threads and interleaving.    *)
(***************************************************************************)
EXTENDS QueueProperties, TLAPS

\* What a thread has in hand while it polls comes from the queue it polls; this
\* is what makes the type invariant and the delivery contract inductive.
InHand ==
    \A t \in Threads :
        /\ pc[t] = "polling" => batch[t] \subseteq Items
        /\ pc[t] = "handling" => cur[t] \in Items /\ batch[t] \subseteq Items
        /\ pc[t] = "inviting" => batch[t] \subseteq Invites

QInv == QueueTypeOK /\ InHand /\ AckedIsKept

LEMMA QInit == Init => QInv
BY QueuesOK DEF Init, QInv, QueueTypeOK, InHand, AckedIsKept, Stores, Modes

\* No step of the node, of the mesh or of a poll breaks the invariant.
LEMMA QStep == QInv /\ [Next]_vars => QInv'
<1> SUFFICES ASSUME QInv, [Next]_vars PROVE QInv'
    OBVIOUS
<1> USE QueuesOK DEF QInv, QueueTypeOK, InHand, AckedIsKept, Stores, Modes, Goto,
                     node, poll
<1>1. CASE Crash
    BY <1>1 DEF Crash
<1>2. ASSUME NEW s \in Stores, Open(s) PROVE QInv'
    BY <1>2 DEF Open
<1>3. ASSUME NEW i \in Items, Arrive(i) PROVE QInv'
    BY <1>3 DEF Arrive
<1>4. ASSUME NEW v \in Invites, Invite(v) PROVE QInv'
    BY <1>4 DEF Invite
<1>5. ASSUME NEW v \in Invites, Decline(v) PROVE QInv'
    BY <1>5 DEF Decline
<1>6. ASSUME NEW t \in Threads, Surface(t) PROVE QInv'
    BY <1>6 DEF Surface
<1>7. ASSUME NEW t \in Threads, Keep(t) PROVE QInv'
    BY <1>7 DEF Keep
<1>8. ASSUME NEW t \in Threads, EndPoll(t) PROVE QInv'
    BY <1>8 DEF EndPoll
<1>9. ASSUME NEW t \in Threads, Rescue(t) PROVE QInv'
    BY <1>9 DEF Rescue
<1>10. ASSUME NEW t \in Threads, SurfaceInvite(t) PROVE QInv'
    BY <1>10 DEF SurfaceInvite
<1>11. ASSUME NEW t \in Threads, NEW o \in Outcomes, Return(t, o) PROVE QInv'
    BY <1>11 DEF Return, Accepted, Remove, Catch, Outcomes
<1>12. ASSUME NEW t \in Threads, PollInvites(t) PROVE QInv'
    BY <1>12 DEF PollInvites, TakeInvites
<1>13. ASSUME NEW t \in Threads, NEW m \in Modes, NEW q \in Queues, StartPoll(t, m, q)
       PROVE QInv'
    BY <1>13 DEF StartPoll, Queues
<1>14. ASSUME NEW t \in Threads, NEW i \in Items, Accept(t, i) PROVE QInv'
    BY <1>14 DEF Accept, Remove
<1>15. CASE UNCHANGED vars
    BY <1>15 DEF vars
<1>16. QED
    BY <1>1, <1>2, <1>3, <1>4, <1>5, <1>6, <1>7, <1>8, <1>9, <1>10, <1>11, <1>12,
       <1>13, <1>14, <1>15 DEF Next, Step

THEOREM QueueInvariant == Spec => []QInv
BY QInit, QStep, PTL DEF Spec

\* Every variable of the queues keeps its type, whatever the threads, the mesh
\* and the crashes do.
THEOREM QueueTypeCorrect == Spec => []QueueTypeOK
BY QueueInvariant, PTL DEF QInv

\* A sender sees "delivered" only for what the receiving host has in its store.
THEOREM DeliveredIsKept == Spec => []AckedIsKept
BY QueueInvariant, PTL DEF QInv
-----------------------------------------------------------------------------
\* Every step of the queues is a step of the delivery contract, or none of it.
LEMMA DeliveryStep == QInv /\ [Next]_vars =>
    [Delivery!DeliveryNext]_<<stored["disk"], kept, acked>>
<1> SUFFICES ASSUME QInv, [Next]_vars
             PROVE  Delivery!DeliveryNext \/ UNCHANGED <<stored["disk"], kept, acked>>
    OBVIOUS
<1> USE QueuesOK DEF QInv, QueueTypeOK, InHand, AckedIsKept, Stores, Modes, Goto,
                     node, poll, Delivery!DeliveryNext
<1>1. CASE Crash
    BY <1>1 DEF Crash
<1>2. ASSUME NEW s \in Stores, Open(s) PROVE UNCHANGED <<stored, kept, acked>>
    BY <1>2 DEF Open
<1>3. ASSUME NEW i \in Items, Arrive(i)
      PROVE  Delivery!Queue(i) \/ UNCHANGED <<stored["disk"], kept, acked>>
    BY <1>3 DEF Arrive, Delivery!Queue
<1>4. ASSUME NEW v \in Invites, Invite(v) \/ Decline(v)
      PROVE  UNCHANGED <<stored, kept, acked>>
    BY <1>4 DEF Invite, Decline
<1>5. ASSUME NEW t \in Threads,
             Surface(t) \/ EndPoll(t) \/ Rescue(t) \/ PollInvites(t)
      PROVE  UNCHANGED <<stored, kept, acked>>
    BY <1>5 DEF Surface, EndPoll, Rescue, PollInvites
<1>6. ASSUME NEW t \in Threads, Keep(t) PROVE Delivery!Keep(cur[t]) /\ cur[t] \in Items
    BY <1>6 DEF Keep, Delivery!Keep
<1>7. ASSUME NEW t \in Threads, SurfaceInvite(t)
      PROVE  UNCHANGED <<stored, kept, acked>>
    BY <1>7 DEF SurfaceInvite
<1>8. ASSUME NEW i \in Items, i \in kept, Remove(i), kept' = kept
      PROVE  Delivery!Ack(i) \/ UNCHANGED <<stored["disk"], kept, acked>>
    BY <1>8 DEF Remove, Delivery!Ack
<1>9. ASSUME NEW t \in Threads, NEW o \in Outcomes, Return(t, o)
      PROVE  \/ UNCHANGED <<stored, kept, acked>>
             \/ cur[t] \in Items /\ cur[t] \in kept /\ Remove(cur[t]) /\ kept' = kept
    BY <1>9 DEF Return, Accepted, Outcomes
<1>10. ASSUME NEW t \in Threads, NEW m \in Modes, NEW q \in Queues, StartPoll(t, m, q)
       PROVE  UNCHANGED <<stored, kept, acked>>
    BY <1>10 DEF StartPoll
<1>11. ASSUME NEW t \in Threads, NEW i \in Items, Accept(t, i)
       PROVE  i \in kept /\ Remove(i) /\ kept' = kept
    BY <1>11 DEF Accept
<1>12. CASE UNCHANGED vars
    BY <1>12 DEF vars
<1>13. QED
    BY <1>1, <1>2, <1>3, <1>4, <1>5, <1>6, <1>7, <1>8, <1>9, <1>10, <1>11, <1>12
    DEF Next, Step

\* The durable queues implement the abstract delivery contract: items leave the
\* database only once kept, receipts follow, and crashes are invisible.
THEOREM DeliveryRefinement == Spec => ImplementsDelivery
<1>1. Init => Delivery!DeliveryInit
    BY DEF Init, Stores, Delivery!DeliveryInit
<1>2. QED
    BY <1>1, QueueInvariant, DeliveryStep, PTL DEF Spec, ImplementsDelivery, Delivery!DeliverySpec

\* An item leaves the database only for the host's own store.
THEOREM NothingIsLost == Spec => NothingLost
<1>1. QInv /\ [Next]_vars =>
      [\A i \in Items : i \in stored["disk"] \ stored'["disk"] => i \in kept']_vars
  <2> SUFFICES ASSUME QInv, [Next]_vars, NEW i \in Items, i \in stored["disk"],
                      i \notin stored'["disk"]
               PROVE  i \in kept'
      OBVIOUS
  <2>1. Delivery!DeliveryNext
      BY DeliveryStep
  <2>2. PICK j \in Items : Delivery!Queue(j) \/ Delivery!Keep(j) \/ Delivery!Ack(j)
      BY <2>1 DEF Delivery!DeliveryNext
  <2>3. QED
      BY <2>2 DEF Delivery!Queue, Delivery!Keep, Delivery!Ack
<1>2. QED
    BY <1>1, QueueInvariant, PTL DEF Spec, NothingLost
-----------------------------------------------------------------------------
\* A poll carries an error exactly when a handler threw in it.
ErrorCarried == \A t \in Threads : caught[t] = NoItem <=> threw[t] = {}

LEMMA ErrorStep == ASSUME QInv, ErrorCarried, [Next]_vars PROVE ErrorCarried'
<1> USE QueuesOK DEF QInv, QueueTypeOK, InHand, ErrorCarried, Goto, node, poll
<1>1. CASE Crash
    BY <1>1 DEF Crash
<1>2. ASSUME NEW t \in Threads, EndPoll(t) \/ Rescue(t) PROVE ErrorCarried'
    BY <1>2 DEF EndPoll, Rescue
<1>3. ASSUME NEW t \in Threads, NEW o \in Outcomes, Return(t, o) PROVE ErrorCarried'
  <2>1. cur[t] \in Items /\ cur[t] # NoItem
      BY <1>3 DEF Return
  <2>2. /\ caught' = [caught EXCEPT ![t] = IF o = "throw" THEN cur[t] ELSE caught[t]]
        /\ threw' = [threw EXCEPT ![t] = IF o = "throw" THEN threw[t] \cup {cur[t]} ELSE threw[t]]
      BY <1>3 DEF Return, Catch
  <2>3. QED
      BY <2>1, <2>2
<1>4. CASE \/ (\E s \in Stores : Open(s)) \/ UNCHANGED vars
           \/ (\E i \in Items : Arrive(i))
           \/ (\E v \in Invites : Invite(v) \/ Decline(v))
           \/ \E t \in Threads : \/ Keep(t) \/ Surface(t) \/ SurfaceInvite(t) \/ PollInvites(t)
                                 \/ \E m \in Modes, q \in Queues : StartPoll(t, m, q)
                                 \/ \E i \in Items : Accept(t, i)
  <2>1. UNCHANGED <<caught, threw>>
      BY <1>4 DEF Open, Arrive, Invite, Decline, Keep, Surface, SurfaceInvite, PollInvites,
                  StartPoll, Accept, vars
  <2>2. QED
      BY <2>1
<1>5. QED
    BY <1>1, <1>2, <1>3, <1>4 DEF Next, Step

\* A poll leaves its loop only by EndPoll, unless the process dies.
LEMMA PollEnds ==
    ASSUME QInv, Next, NEW t \in Threads, pc[t] = "polling", pc'[t] \in {"idle", "threw"},
           store' = store
    PROVE  EndPoll(t)
<1> USE DEF QInv, QueueTypeOK, Goto, node, poll
<1>1. ASSUME NEW u \in Threads, u # t, Step(u) \/ PollInvites(u) PROVE FALSE
    BY <1>1 DEF Step, Surface, Keep, EndPoll, Rescue, SurfaceInvite, Return, PollInvites
<1>2. ASSUME NEW u \in Threads, \/ \E m \in Modes, q \in Queues : StartPoll(u, m, q)
                                \/ \E i \in Items : Accept(u, i)
      PROVE  FALSE
    BY <1>2 DEF StartPoll, Accept
<1>3. Step(t) => EndPoll(t)
    BY DEF Step, Surface, Keep, Rescue, SurfaceInvite, Return
<1>4. ~PollInvites(t) /\ ~Crash
    BY DEF PollInvites, Crash
<1>5. ASSUME \/ (\E s \in Stores : Open(s)) \/ (\E i \in Items : Arrive(i))
             \/ (\E v \in Invites : Invite(v) \/ Decline(v))
      PROVE  FALSE
    BY <1>5 DEF Open, Arrive, Invite, Decline
<1>6. QED
    BY <1>1, <1>2, <1>3, <1>4, <1>5 DEF Next

\* A poll throws if, and only if, a handler threw in it.
THEOREM ErrorsAreRethrown == Spec => ErrorsSurface
<1>1. Init => ErrorCarried
    BY DEF Init, ErrorCarried
<1>2. ASSUME QInv, ErrorCarried, [Next]_vars
      PROVE  [\A t \in Threads : pc[t] = "polling" /\ pc'[t] \in {"idle", "threw"} /\ store' = store
                => (pc'[t] = "threw" <=> threw[t] # {})]_vars
  <2> SUFFICES ASSUME Next, NEW t \in Threads, pc[t] = "polling", pc'[t] \in {"idle", "threw"},
                      store' = store
               PROVE  pc'[t] = "threw" <=> threw[t] # {}
      BY <1>2
  <2>1. EndPoll(t)
      BY <1>2, PollEnds
  <2>2. QED
      BY <1>2, <2>1 DEF EndPoll, Goto, ErrorCarried, QInv, QueueTypeOK
<1>3. QED
    BY <1>1, <1>2, ErrorStep, QueueInvariant, PTL DEF Spec, ErrorsSurface
=============================================================================
