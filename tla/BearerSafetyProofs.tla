------------------------- MODULE BearerSafetyProofs -------------------------
(***************************************************************************)
(* Proofs, for every instance and any interleaving, that a disabled        *)
(* transport is torn down, that bytes follow linkUp, and that the          *)
(* pre-authentication deadline covers every link and spares the secured.   *)
(***************************************************************************)
EXTENDS BearerManagerProofs

(* What a step of one thread leaves alone. *)

\* A host changes its own locals only, and no lane's.
LEMMA HostFrame ==
    ASSUME TypeInv, NEW k \in Hosts, HostNext(k)
    PROVE  /\ \A t \in Threads \ {k} : pc'[t] = pc[t] /\ downs'[t] = downs[t]
           /\ \A h \in Hosts \ {k} : /\ work'[h] = work[h] /\ cur'[h] = cur[h]
                                     /\ route'[h] = route[h] /\ expired'[h] = expired[h]
           /\ out' = out
<1> DEFINE Frame == /\ \A t \in Threads \ {k} : pc'[t] = pc[t] /\ downs'[t] = downs[t]
                    /\ \A h \in Hosts \ {k} :
                         /\ work'[h] = work[h] /\ cur'[h] = cur[h]
                         /\ route'[h] = route[h] /\ expired'[h] = expired[h]
                    /\ out' = out
<1> SUFFICES Frame
  OBVIOUS
<1> USE DEF TypeInv, TypeOK, Threads, Goto, registry, maps, transport, consumer, locals
<1>1. CASE Start(k)
  BY <1>1 DEF Start
<1>2. CASE Stop(k) \/ Snapshot(k)
  BY <1>2 DEF Stop, Snapshot
<1>3. CASE \E n \in Names : Enable(k, n) \/ Disable(k, n)
  BY <1>3 DEF Enable, Disable
<1>4. CASE \E b \in Bearers : Register(k, b)
  BY <1>4 DEF Register
<1>5. CASE \E g \in Links : Send(k, g) \/ MarkSecured(k, g)
  BY <1>5 DEF Send, MarkSecured, EndPending
<1>6. CASE CheckPreauthDeadlines(k)
  BY <1>6 DEF CheckPreauthDeadlines
<1>7. CASE Append(k)
  BY <1>7 DEF Append
<1>8. CASE MarkStarted(k) \/ MarkStopped(k)
  BY <1>8 DEF MarkStarted, MarkStopped, Enter
<1>9. CASE BearerStarts(k) \/ BearerStops(k) \/ BearerStopsForTearDown(k)
  BY <1>9 DEF BearerStarts, BearerStops, BearerStopsForTearDown
<1>10. CASE TearDown(k)
  BY <1>10 DEF TearDown
<1>11. CASE BearerReturns(k) \/ Close(k)
  BY <1>11 DEF BearerReturns, Close
<1>12. CASE CloseReturns(k)
  BY <1>12 DEF CloseReturns
<1>13. CASE DeliverDown(k)
  BY <1>13 DEF DeliverDown
<1>14. QED
  BY <1>1, <1>2, <1>3, <1>4, <1>5, <1>6, <1>7, <1>8, <1>9, <1>10, <1>11, <1>12, <1>13
  DEF HostNext, HostCall, HostStep

\* A lane changes its own locals only, and nothing of the hosts.
LEMMA LaneFrame ==
    ASSUME TypeInv, NEW b \in Bearers, LaneNext(b)
    PROVE  /\ \A t \in Threads \ {b} : pc'[t] = pc[t] /\ downs'[t] = downs[t]
           /\ \A c \in Bearers \ {b} : out'[c] = out[c]
           /\ UNCHANGED <<registry, running, clock, secured, work, cur, route, expired>>
<1> DEFINE Frame == /\ \A t \in Threads \ {b} : pc'[t] = pc[t] /\ downs'[t] = downs[t]
                    /\ \A c \in Bearers \ {b} : out'[c] = out[c]
                    /\ UNCHANGED <<registry, running, clock, secured, work, cur, route, expired>>
<1> SUFFICES Frame
  OBVIOUS
<1> USE DEF TypeInv, TypeOK, Threads, Goto, maps, transport, consumer, locals
<1>1. CASE \E l \in Locals : Up(b, l)
  BY <1>1 DEF Up
<1>2. CASE \E l \in Locals : UpRefused(b, l)
  BY <1>2 DEF UpRefused
<1>3. CASE \E l \in Locals : Bytes(b, l)
  BY <1>3 DEF Bytes
<1>4. CASE \E l \in Locals : Down(b, l)
  BY <1>4 DEF Down
<1>5. CASE DeliverUp(b) \/ DeliverBytes(b)
  BY <1>5 DEF DeliverUp, DeliverBytes
<1>6. CASE DeliverDown(b)
  BY <1>6 DEF DeliverDown
<1>7. QED
  BY <1>1, <1>2, <1>3, <1>4, <1>5, <1>6 DEF LaneNext, LaneCall, LaneStep

\* Only up() puts a route into fromGlobal.
LEMMA RoutesStay ==
    ASSUME IInv, [Next]_vars, NEW g \in Links, Routed(g)'
    PROVE  \/ fromGlobal'[g] = fromGlobal[g]
           \/ g = nextGlobal /\ \E b \in Bearers, l \in Locals : Up(b, l)
<1> USE DEF IInv, TypeInv, TypeOK
<1>1. ASSUME NEW b \in Bearers, NEW l \in Locals, Up(b, l), g # nextGlobal
      PROVE  fromGlobal'[g] = fromGlobal[g]
  BY <1>1 DEF Up, Mint
<1>2. ASSUME NEW b \in Bearers, NEW l \in Locals, Down(b, l)
      PROVE  fromGlobal'[g] = fromGlobal[g]
  BY <1>2 DEF Down, Forget, Routed
<1>3. ASSUME NEW h \in Hosts, CloseReturns(h)
      PROVE  fromGlobal'[g] = fromGlobal[g]
  BY <1>3 DEF CloseReturns, Forget, Routed, maps
<1>4. ASSUME NEW h \in Hosts, TearDown(h)
      PROVE  fromGlobal'[g] = fromGlobal[g]
  BY <1>4 DEF TearDown, DropLinks, Routed
<1>5. ASSUME \/ \E h \in Hosts : DeliverDown(h)
             \/ \E b \in Bearers : DeliverUp(b) \/ DeliverDown(b)
      PROVE  fromGlobal'[g] = fromGlobal[g]
  BY <1>5 DEF DeliverUp, DeliverDown, maps
<1>6. ASSUME QuietStep PROVE fromGlobal'[g] = fromGlobal[g]
  BY <1>6 DEF QuietStep
<1>7. QED
  BY <1>1, <1>2, <1>3, <1>4, <1>5, <1>6, QuietActions
  DEF Next, HostNext, LaneNext, HostCall, HostStep, LaneCall, LaneStep

\* The links torn down with a bearer are those that are routed over it.
LEMMA OrphansAreRouted ==
    ASSUME IInv, NEW b \in Bearers, NEW g \in Links, Routed(g), fromGlobal[g][1] = b
    PROVE  g \in LinksOf(b)
<1>1. PICK r \in Routes : fromGlobal[g] = r
  BY DEF Routed, IInv, TypeInv, TypeOK
<1>2. PICK l \in Locals : r = <<b, l>>
  BY <1>1 DEF Routes
<1>3. toGlobal[r] = g
  BY <1>1 DEF IInv, LinkInv, MapsInverse
<1>4. g # NoLink
  BY ConstantsOK DEF Links, NoLink
<1>5. QED
  BY <1>2, <1>3, <1>4 DEF LinksOf
-----------------------------------------------------------------------------
(* A disabled transport has no link, but for one that is being torn down.   *)

\* Only setEnabled(n, false) disables a name.
LEMMA OnlyDisableDisables ==
    ASSUME [Next]_vars, NEW n \in disabledNames', n \notin disabledNames
    PROVE  \E h \in Hosts, m \in Names : Disable(h, m)
<1> USE DEF registry
<1>1. ASSUME NEW h \in Hosts, HostCall(h), ~\E m \in Names : Disable(h, m)
      PROVE  disabledNames' \subseteq disabledNames
  BY <1>1 DEF HostCall, Start, Stop, Enable, Register, Send, MarkSecured, CheckPreauthDeadlines
<1>2. ASSUME NEW h \in Hosts, HostStep(h)
      PROVE  disabledNames' \subseteq disabledNames
  BY <1>2 DEF HostStep, Snapshot, Append, MarkStarted, BearerStarts, MarkStopped, BearerStops,
      BearerStopsForTearDown, TearDown, BearerReturns, Close, CloseReturns, DeliverDown
<1>3. ASSUME NEW b \in Bearers, LaneNext(b)
      PROVE  disabledNames' \subseteq disabledNames
  BY <1>3 DEF LaneNext, LaneCall, LaneStep, Up, UpRefused, Bytes, Down, DeliverUp,
      DeliverBytes, DeliverDown
<1>4. Tick \/ UNCHANGED vars => disabledNames' \subseteq disabledNames
  BY DEF Tick, vars
<1>5. QED
  BY <1>1, <1>2, <1>3, <1>4 DEF Next, HostNext

\* What is registered stays registered.
LEMMA BearersGrow == [Next]_vars => bearers \subseteq bearers'
<1> USE DEF registry
<1>1. ASSUME NEW h \in Hosts, HostCall(h) PROVE bearers \subseteq bearers'
  BY <1>1 DEF HostCall, Start, Stop, Enable, Disable, Register, Send, MarkSecured,
      CheckPreauthDeadlines
<1>2. ASSUME NEW h \in Hosts, HostStep(h) PROVE bearers \subseteq bearers'
  BY <1>2 DEF HostStep, Snapshot, Append, MarkStarted, BearerStarts, MarkStopped, BearerStops,
      BearerStopsForTearDown, TearDown, BearerReturns, Close, CloseReturns, DeliverDown
<1>3. ASSUME NEW b \in Bearers, LaneNext(b) PROVE bearers \subseteq bearers'
  BY <1>3 DEF LaneNext, LaneCall, LaneStep, Up, UpRefused, Bytes, Down, DeliverUp,
      DeliverBytes, DeliverDown
<1>4. Tick \/ UNCHANGED vars => bearers \subseteq bearers'
  BY DEF Tick, vars
<1>5. QED
  BY <1>1, <1>2, <1>3, <1>4 DEF Next, HostNext

\* A tear-down that is due stays due until it is done.
LEMMA TearDownStaysDue ==
    ASSUME IInv, [Next]_vars, NEW h \in Hosts, NEW b \in Bearers, TearDownDue(h, b),
           ~(TearDown(h) /\ cur[h] = b)
    PROVE  TearDownDue(h, b)'
<1> USE DEF IInv, TypeInv, TypeOK, TearDownDue, Threads, HostPCs, Goto, Continue
<1>1. CASE HostCall(h)
  BY <1>1 DEF HostCall, Start, Stop, Enable, Disable, Register, Send, MarkSecured,
      CheckPreauthDeadlines, Idle
<1>2. CASE MarkStarted(h) \/ BearerStarts(h) \/ BearerStops(h) \/ Snapshot(h) \/ Append(h)
           \/ BearerReturns(h) \/ Close(h) \/ CloseReturns(h)
  BY <1>2 DEF MarkStarted, BearerStarts, BearerStops, Snapshot, Append, BearerReturns, Close,
      CloseReturns
<1>3. CASE MarkStopped(h)
  BY <1>3 DEF MarkStopped, Enter
<1>4. CASE BearerStopsForTearDown(h)
  BY <1>4 DEF BearerStopsForTearDown, locals
<1>5. CASE TearDown(h)
  BY <1>5 DEF TearDown
<1>6. CASE DeliverDown(h)
  BY <1>6 DEF DeliverDown, AfterDowns
<1>7. ASSUME NEW k \in Hosts, k # h, HostNext(k) PROVE TearDownDue(h, b)'
  BY <1>7, HostFrame
<1>8. ASSUME NEW c \in Bearers, LaneNext(c) PROVE TearDownDue(h, b)'
  BY <1>8, LaneFrame, ConstantsOK
<1>9. CASE Tick \/ UNCHANGED vars
  BY <1>9 DEF Tick, vars, locals
<1>10. QED
  BY <1>1, <1>2, <1>3, <1>4, <1>5, <1>6, <1>7, <1>8, <1>9 DEF Next, HostNext, HostStep

LEMMA TornDownStep ==
    ASSUME IInv, Registered \subseteq bearers, DisabledIsTornDown, [Next]_vars
    PROVE  DisabledIsTornDown'
<1> SUFFICES ASSUME NEW g \in Links, Routed(g)', NEW b, b = fromGlobal'[g][1],
                    b \in Registered, NameOf[b] \in disabledNames'
             PROVE  \E h \in Hosts : TearDownDue(h, b)'
  BY DEF DisabledIsTornDown
<1>1. b \in Bearers /\ b \in bearers
  BY ConstantsOK
<1>2. ASSUME NEW c \in Bearers, NEW l \in Locals, Up(c, l), g = nextGlobal PROVE FALSE
  <2>1. fromGlobal'[g] = <<c, l>>
    BY <1>2 DEF Up, Mint, IInv, TypeInv, TypeOK
  <2>2. NameOf[b] \notin disabledNames /\ disabledNames' = disabledNames
    BY <1>2, <2>1 DEF Up, Accepts, registry
  <2>3. QED
    BY <2>2
<1>3. CASE fromGlobal'[g] = fromGlobal[g] /\ NameOf[b] \in disabledNames
  <2>1. Routed(g) /\ b = fromGlobal[g][1]
    BY <1>3 DEF Routed
  <2>2. PICK h \in Hosts : TearDownDue(h, b)
    BY <1>3, <2>1 DEF DisabledIsTornDown
  <2>3. ~(TearDown(h) /\ cur[h] = b)
    BY <1>1, <2>1, OrphansAreRouted DEF TearDown, DropLinks, Routed
  <2>4. QED
    BY <1>1, <2>2, <2>3, TearDownStaysDue
<1>4. CASE NameOf[b] \notin disabledNames
  <2>1. PICK h \in Hosts, m \in Names : Disable(h, m)
    BY <1>4, OnlyDisableDisables
  <2>2. NameOf[b] = m
    BY <1>4, <2>1 DEF Disable
  <2>3. work'[h] = Matching(m) /\ pc'[h] = Continue(Matching(m), "disabling")
    BY <2>1 DEF Disable, Goto, IInv, TypeInv, TypeOK, Threads
  <2>4. b \in work'[h] /\ pc'[h] = "disabling"
    BY <1>1, <2>2, <2>3 DEF Matching, Continue
  <2>5. QED
    BY <2>4 DEF TearDownDue
<1>5. QED
  BY <1>2, <1>3, <1>4, RoutesStay

\* Once a registered transport is disabled, its links are routed only until the
\* call that disabled it has torn them down, however toggles, restarts, sweeps
\* and late callbacks interleave.
THEOREM DisabledTornDown == Spec => []DisabledIsTornDown
<1>1. Init => Registered \subseteq bearers /\ DisabledIsTornDown
  BY ConstantsOK DEF Init, DisabledIsTornDown, Routed
<1>2. Registered \subseteq bearers /\ [Next]_vars => (Registered \subseteq bearers)'
  BY BearersGrow
<1>3. QED
  BY <1>1, <1>2, TornDownStep, LinkInvariant, PTL DEF Spec
-----------------------------------------------------------------------------
(* Bytes come after linkUp.                                                 *)

\* A link that is routed and that the sink has not been told of has its linkUp
\* pending on the lane of its bearer.
UnseenIsPending ==
    \A g \in Links : Routed(g) /\ seen[g] = "none" =>
        pc[fromGlobal[g][1]] = "inUp" /\ out[fromGlobal[g][1]] = g

\* The link whose bytes a lane is about to deliver has been reported up.
BytesAreOfSeen ==
    \A b \in Bearers : pc[b] = "inBytes" =>
        out[b] \in Links /\ seen[out[b]] \notin {"none", "early"}

\* Only linkUp and linkDown change what the sink knows.
LEMMA WhoReports ==
    ASSUME IInv, [Next]_vars
    PROVE  \/ seen' = seen
           \/ \E b \in Bearers : DeliverUp(b)
           \/ \E t \in Threads : DeliverDown(t)
<1>1. ASSUME \/ \E b \in Bearers, l \in Locals : Up(b, l) \/ Down(b, l)
             \/ \E h \in Hosts : CloseReturns(h) \/ TearDown(h)
      PROVE  seen' = seen
  BY <1>1 DEF Up, Down, CloseReturns, TearDown, consumer
<1>2. QuietStep => seen' = seen
  BY DEF QuietStep
<1>3. QED
  BY <1>1, <1>2, QuietActions
  DEF Next, HostNext, LaneNext, HostCall, HostStep, LaneCall, LaneStep, Threads

\* Of one link: it is the one that a lane, or a thread that has taken it off the
\* maps, has reported.
LEMMA SeenMoves ==
    ASSUME IInv, [Next]_vars, NEW g \in Links, seen'[g] # seen[g]
    PROVE  \/ \E b \in Bearers : DeliverUp(b) /\ out[b] = g /\ seen'[g] = AfterUp(seen[g])
           \/ \E t \in Threads : /\ DeliverDown(t) /\ g \in downs[t] /\ g \notin downs'[t]
                                 /\ seen'[g] = AfterDown(seen[g])
<1> USE DEF IInv, TypeInv, TypeOK
<1>1. ASSUME NEW b \in Bearers, DeliverUp(b)
      PROVE  out[b] = g /\ seen'[g] = AfterUp(seen[g])
  BY <1>1 DEF DeliverUp
<1>2. ASSUME NEW t \in Threads, DeliverDown(t)
      PROVE  g \in downs[t] /\ g \notin downs'[t] /\ seen'[g] = AfterDown(seen[g])
  BY <1>2 DEF DeliverDown
<1>3. QED
  BY <1>1, <1>2, WhoReports

\* A lane that is calling the sink goes on by that call alone.
LEMMA LaneInCall ==
    ASSUME IInv, [Next]_vars, NEW b \in Bearers, pc[b] # "idle"
    PROVE  \/ DeliverUp(b) \/ DeliverBytes(b) \/ DeliverDown(b)
           \/ pc'[b] = pc[b] /\ out'[b] = out[b]
<1>1. ASSUME NEW h \in Hosts, HostNext(h) PROVE pc'[b] = pc[b] /\ out'[b] = out[b]
  BY <1>1, HostFrame, ConstantsOK DEF IInv, Threads
<1>2. ASSUME NEW c \in Bearers, c # b, LaneNext(c) PROVE pc'[b] = pc[b] /\ out'[b] = out[b]
  BY <1>2, LaneFrame DEF IInv, Threads
<1>3. LaneCall(b) => pc[b] = "idle"
  BY DEF LaneCall, Up, UpRefused, Bytes, Down
<1>4. Tick \/ UNCHANGED vars => pc'[b] = pc[b] /\ out'[b] = out[b]
  BY DEF Tick, vars, locals
<1>5. QED
  BY <1>1, <1>2, <1>3, <1>4 DEF Next, LaneNext, LaneStep

LEMMA UnseenStep == ASSUME IInv, UnseenIsPending, [Next]_vars PROVE UnseenIsPending'
<1> SUFFICES ASSUME NEW g \in Links, Routed(g)', seen'[g] = "none", NEW b, b = fromGlobal'[g][1]
             PROVE  pc'[b] = "inUp" /\ out'[b] = g
  BY DEF UnseenIsPending
<1>1. ASSUME NEW c \in Bearers, NEW l \in Locals, Up(c, l), g = nextGlobal
      PROVE  pc'[b] = "inUp" /\ out'[b] = g
  BY <1>1 DEF Up, Mint, Goto, IInv, TypeInv, TypeOK, Threads
<1>2. CASE fromGlobal'[g] = fromGlobal[g]
  <2>1. seen[g] = "none"
    BY SeenMoves DEF AfterUp, AfterDown
  <2>2. Routed(g) /\ b \in Bearers
    BY <1>2 DEF Routed, IInv, TypeInv, TypeOK, Routes
  <2>3. pc[b] = "inUp" /\ out[b] = g
    BY <1>2, <2>1, <2>2 DEF UnseenIsPending
  <2>4. ~DeliverUp(b)
    BY <2>3 DEF DeliverUp, AfterUp, IInv, TypeInv, TypeOK
  <2>5. ~DeliverBytes(b) /\ ~DeliverDown(b)
    BY <2>3 DEF DeliverBytes, DeliverDown
  <2>6. QED
    BY <2>2, <2>3, <2>4, <2>5, LaneInCall
<1>3. QED
  BY <1>1, <1>2, RoutesStay

\* A lane enters bytes() from rest, for a link that is routed.
LEMMA BytesBegins ==
    ASSUME IInv, [Next]_vars, NEW b \in Bearers, pc[b] # "inBytes", pc'[b] = "inBytes"
    PROVE  /\ LaneNext(b) /\ pc[b] = "idle" /\ seen' = seen /\ out'[b] \in Links
           /\ Routed(out'[b]) /\ fromGlobal[out'[b]][1] = b
<1> USE DEF IInv, TypeInv, TypeOK, Threads, Goto
<1>1. LaneNext(b)
  <2>1. ASSUME NEW h \in Hosts, HostNext(h) PROVE FALSE
    BY <2>1, HostFrame, ConstantsOK
  <2>2. ASSUME NEW c \in Bearers, c # b, LaneNext(c) PROVE FALSE
    BY <2>2, LaneFrame
  <2>3. QED
    BY <2>1, <2>2 DEF Next, Tick, vars
<1>2. PICK l \in Locals : Bytes(b, l)
  BY <1>1 DEF LaneNext, LaneCall, LaneStep, Up, UpRefused, Down, DeliverUp, DeliverBytes,
      DeliverDown, AfterDowns, Continue
<1> DEFINE r == <<b, l>>  g == toGlobal[r]
<1>3. r \in Routes /\ r[1] = b /\ g \in Links /\ pc[b] = "idle" /\ out'[b] = g /\ seen' = seen
  BY <1>2 DEF Bytes, Routes, consumer
<1>4. NoRoute \notin Routes
  BY ConstantsOK DEF Routes
<1>5. fromGlobal[g] = r
  BY <1>3 DEF LinkInv, MapsInverse
<1>6. QED
  BY <1>1, <1>3, <1>4, <1>5 DEF Routed

LEMMA BytesStep == ASSUME IInv, UnseenIsPending, BytesAreOfSeen, [Next]_vars
                   PROVE  BytesAreOfSeen'
<1> SUFFICES ASSUME NEW b \in Bearers, pc'[b] = "inBytes"
             PROVE  out'[b] \in Links /\ seen'[out'[b]] \notin {"none", "early"}
  BY DEF BytesAreOfSeen
<1>1. CASE pc[b] = "inBytes"
  <2>1. ~DeliverUp(b) /\ ~DeliverBytes(b) /\ ~DeliverDown(b)
    <3>1. pc \in [Threads -> HostPCs \cup LanePCs] /\ b \in Threads
      BY DEF IInv, TypeInv, TypeOK, Threads
    <3>2. QED
      BY <1>1, <3>1 DEF DeliverUp, DeliverBytes, DeliverDown, Goto
  <2>2. out'[b] = out[b] /\ out[b] \in Links /\ seen[out[b]] \notin {"none", "early"}
    BY <1>1, <2>1, LaneInCall DEF BytesAreOfSeen
  <2>3. QED
    BY <2>2, SeenMoves DEF AfterUp, AfterDown
<1>2. CASE pc[b] # "inBytes"
  <2> DEFINE g == out'[b]
  <2>1. /\ pc[b] = "idle" /\ seen' = seen /\ g \in Links
        /\ Routed(g) /\ fromGlobal[g][1] = b
    BY <1>2, BytesBegins
  <2>2. seen[g] # "none"
    BY <2>1 DEF UnseenIsPending
  <2>3. seen[g] # "early"
    BY <2>1 DEF IInv, LinkInv, OneReporter, Reported
  <2>4. QED
    BY <2>1, <2>2, <2>3
<1>3. QED
  BY <1>1, <1>2

\* The sink gets bytes only of a link whose linkUp it has been given, though that
\* call is made after the lock that published the link is released.
THEOREM BytesInOrder == Spec => BytesAfterUp
<1>1. Init => UnseenIsPending /\ BytesAreOfSeen
  BY DEF Init, UnseenIsPending, BytesAreOfSeen, Routed, Threads
<1>2. ASSUME IInv, BytesAreOfSeen, NEW b \in Bearers, DeliverBytes(b)
      PROVE  seen[out[b]] \in {"up", "down", "ghost"}
  <2>1. out[b] \in Links /\ seen[out[b]] \notin {"none", "early"}
    BY <1>2 DEF DeliverBytes, BytesAreOfSeen
  <2>2. seen[out[b]] # "twice" /\ seen[out[b]] \in LinkViews
    BY <1>2, <2>1 DEF IInv, LinkInv, OneReporter, TypeInv, TypeOK
  <2>3. QED
    BY <2>1, <2>2 DEF LinkViews
<1>3. IInv /\ BytesAreOfSeen /\ [Next]_vars =>
        [\A b \in Bearers : DeliverBytes(b) => seen[out[b]] \in {"up", "down", "ghost"}]_vars
  BY <1>2
<1>4. QED
  BY <1>1, <1>3, UnseenStep, BytesStep, LinkInvariant, PTL DEF Spec, BytesAfterUp
-----------------------------------------------------------------------------
(* The pre-authentication deadline.                                         *)

\* A host holds routes that its sweep has taken only while it sweeps.
ExpiredHeld ==
    \A h \in Hosts : expired[h] # {} => pc[h] \in {"closing", "inClose", "sweepDown"}

\* A link that was marked secured waits for nothing any more.
SecuredNotPending == \A g \in secured : pendingLinks[g] = NoRoute /\ Minted(g)

DeadlineInv == NoLinkEscapesDeadline /\ ExpiredHeld /\ SecuredNotPending

\* An entry leaves the pending maps with its link, by markSecured, or by a sweep.
LEMMA PendingMoves ==
    ASSUME IInv, [Next]_vars, NEW g \in Links,
           pendingLinks'[g] # pendingLinks[g] \/ pendingOpenedMs'[g] # pendingOpenedMs[g]
    PROVE  \/ g = nextGlobal /\ \E b \in Bearers, l \in Locals : Up(b, l)
           \/ pendingLinks'[g] = NoRoute /\ ~Routed(g)'
           \/ pendingLinks'[g] = NoRoute /\ g \in secured'
           \/ \E h \in Hosts : CheckPreauthDeadlines(h)
<1> DEFINE Same == pendingLinks'[g] = pendingLinks[g] /\ pendingOpenedMs'[g] = pendingOpenedMs[g]
<1> USE DEF maps
<1>1. ASSUME NEW b \in Bearers, NEW l \in Locals, Up(b, l), g # nextGlobal
      PROVE  Same
  BY <1>1 DEF Up, Mint, IInv, TypeInv, TypeOK
<1>2. ASSUME NEW r \in Routes, toGlobal[r] \in Links, Forget(r)
      PROVE  Same \/ (pendingLinks'[g] = NoRoute /\ ~Routed(g)')
  BY <1>2 DEF Forget, EndPending, Routed, IInv, TypeInv, TypeOK
<1>3. ASSUME NEW b \in Bearers, NEW l \in Locals, Down(b, l)
      PROVE  Same \/ (pendingLinks'[g] = NoRoute /\ ~Routed(g)')
  <2>1. <<b, l>> \in Routes /\ toGlobal[<<b, l>>] \in Links /\ Forget(<<b, l>>)
    BY <1>3 DEF Down, Routes, IInv, TypeInv, TypeOK
  <2>2. QED
    BY <2>1, <1>2
<1>4. ASSUME NEW h \in Hosts, CloseReturns(h)
      PROVE  Same \/ (pendingLinks'[g] = NoRoute /\ ~Routed(g)')
  <2>1. route[h] \in Routes
    BY <1>4 DEF CloseReturns, IInv, TypeInv, ControlOK
  <2>2. CASE toGlobal[route[h]] = NoLink
    BY <1>4, <2>2 DEF CloseReturns
  <2>3. CASE toGlobal[route[h]] # NoLink
    <3>1. toGlobal[route[h]] \in Links /\ Forget(route[h])
      BY <1>4, <2>1, <2>3 DEF CloseReturns, IInv, TypeInv, TypeOK
    <3>2. QED
      BY <2>1, <3>1, <1>2
  <2>4. QED
    BY <2>2, <2>3
<1>5. ASSUME NEW h \in Hosts, NEW k \in Links, MarkSecured(h, k)
      PROVE  Same \/ (pendingLinks'[g] = NoRoute /\ g \in secured')
  BY <1>5 DEF MarkSecured, EndPending, IInv, TypeInv, TypeOK
<1>6. ASSUME NEW h \in Hosts,
             \/ Start(h) \/ Stop(h) \/ \E n \in Names : Enable(h, n) \/ Disable(h, n)
             \/ \E b \in Bearers : Register(h, b)
             \/ \E k \in Links : Send(h, k)
      PROVE  Same
  BY <1>6 DEF Start, Stop, Enable, Disable, Register, Send
<1>7. ASSUME NEW h \in Hosts, HostStep(h), ~CloseReturns(h) PROVE Same
  BY <1>7 DEF HostStep, Snapshot, Append, MarkStarted, BearerStarts, MarkStopped, BearerStops,
      BearerStopsForTearDown, TearDown, BearerReturns, Close, DeliverDown
<1>8. ASSUME NEW b \in Bearers, LaneStep(b) \/ \E l \in Locals : UpRefused(b, l) \/ Bytes(b, l)
      PROVE  Same
  BY <1>8 DEF LaneStep, DeliverUp, DeliverBytes, DeliverDown, UpRefused, Bytes
<1>9. Tick \/ UNCHANGED vars => Same
  BY DEF Tick, vars
<1>10. QED
  BY <1>1, <1>3, <1>4, <1>5, <1>6, <1>7, <1>8, <1>9
  DEF Next, HostNext, HostCall, LaneNext, LaneCall

\* Links stay minted, and secured links secured; only markSecured adds some.
LEMMA SecuredMoves ==
    ASSUME IInv, [Next]_vars
    PROVE  /\ secured \subseteq secured'
           /\ \A g \in secured' \ secured : Minted(g) /\ pendingLinks'[g] = NoRoute
           /\ \A g \in Links : Minted(g) => Minted(g)'
<1> DEFINE Calm == secured' = secured /\ nextGlobal' = nextGlobal
<1> USE DEF Minted, consumer, maps
<1>1. ASSUME NEW h \in Hosts, NEW g \in Links, MarkSecured(h, g)
      PROVE  /\ secured' = secured \cup {g} /\ nextGlobal' = nextGlobal
             /\ Minted(g) /\ pendingLinks'[g] = NoRoute
  BY <1>1 DEF MarkSecured, EndPending, IInv, LinkInv, SeenMinted, TypeInv, TypeOK
<1>2. ASSUME NEW b \in Bearers, NEW l \in Locals, Up(b, l)
      PROVE  secured' = secured /\ nextGlobal' = nextGlobal + 1
  BY <1>2 DEF Up, Mint
<1>3. ASSUME NEW h \in Hosts, HostCall(h), ~\E g \in Links : MarkSecured(h, g) PROVE Calm
  BY <1>3 DEF HostCall, Start, Stop, Enable, Disable, Register, Send, CheckPreauthDeadlines
<1>4. ASSUME NEW h \in Hosts, HostStep(h) PROVE Calm
  BY <1>4 DEF HostStep, Snapshot, Append, MarkStarted, BearerStarts, MarkStopped, BearerStops,
      BearerStopsForTearDown, TearDown, BearerReturns, Close, CloseReturns, DeliverDown, Forget
<1>5. ASSUME NEW b \in Bearers, LaneNext(b), ~\E l \in Locals : Up(b, l) PROVE Calm
  BY <1>5 DEF LaneNext, LaneCall, LaneStep, UpRefused, Bytes, Down, Forget, DeliverUp,
      DeliverBytes, DeliverDown
<1>6. Tick \/ UNCHANGED vars => Calm
  BY DEF Tick, vars
<1>7. Links \subseteq Int /\ nextGlobal \in Int
  BY ConstantsOK DEF Links, IInv, TypeInv, TypeOK
<1>8. QED
  BY <1>1, <1>2, <1>3, <1>4, <1>5, <1>6, <1>7 DEF Next, HostNext, LaneNext, LaneCall

\* A sweep holds a route until it has closed it.
LEMMA SweepHoldsOn ==
    ASSUME IInv, ExpiredHeld, [Next]_vars, NEW h \in Hosts, NEW r \in Routes, SweepHolds(h, r),
           ~(CloseReturns(h) /\ route[h] = r)
    PROVE  SweepHolds(h, r)'
<1> USE DEF SweepHolds, IInv, TypeInv, TypeOK, Threads, Goto, Continue
<1>1. HostCall(h) => FALSE
  BY DEF HostCall, Start, Stop, Enable, Disable, Register, Send, MarkSecured,
      CheckPreauthDeadlines, Idle, ExpiredHeld
<1>2. CASE Close(h)
  BY <1>2 DEF Close
<1>3. CASE CloseReturns(h)
  BY <1>3 DEF CloseReturns
<1>4. CASE DeliverDown(h)
  BY <1>4 DEF DeliverDown
<1>5. ASSUME HostStep(h), ~Close(h), ~CloseReturns(h), ~DeliverDown(h) PROVE FALSE
  BY <1>5 DEF HostStep, Snapshot, Append, MarkStarted, BearerStarts, MarkStopped, BearerStops,
      BearerStopsForTearDown, TearDown, BearerReturns, ExpiredHeld
<1>6. ASSUME NEW k \in Hosts, k # h, HostNext(k) PROVE SweepHolds(h, r)'
  BY <1>6, HostFrame
<1>7. ASSUME NEW c \in Bearers, LaneNext(c) PROVE SweepHolds(h, r)'
  BY <1>7, LaneFrame, ConstantsOK
<1>8. CASE Tick \/ UNCHANGED vars
  BY <1>8 DEF Tick, vars, locals
<1>9. QED
  BY <1>1, <1>2, <1>3, <1>4, <1>5, <1>6, <1>7, <1>8 DEF Next, HostNext

LEMMA ExpiredStep == ASSUME IInv, ExpiredHeld, [Next]_vars PROVE ExpiredHeld'
<1> SUFFICES ASSUME NEW h \in Hosts, expired'[h] # {}
             PROVE  pc'[h] \in {"closing", "inClose", "sweepDown"}
  BY DEF ExpiredHeld
<1> USE DEF ExpiredHeld, IInv, TypeInv, TypeOK, Threads, Goto, Continue, locals
<1>1. CASE HostCall(h)
  BY <1>1 DEF HostCall, Start, Stop, Enable, Disable, Register, Send, MarkSecured,
      CheckPreauthDeadlines, Idle
<1>2. CASE Close(h)
  BY <1>2 DEF Close
<1>3. CASE CloseReturns(h)
  BY <1>3 DEF CloseReturns
<1>4. CASE DeliverDown(h)
  BY <1>4 DEF DeliverDown, AfterDowns
<1>5. ASSUME HostStep(h), ~Close(h), ~CloseReturns(h), ~DeliverDown(h) PROVE FALSE
  BY <1>5 DEF HostStep, Snapshot, Append, MarkStarted, BearerStarts, MarkStopped, BearerStops,
      BearerStopsForTearDown, TearDown, BearerReturns
<1>6. ASSUME NEW k \in Hosts, k # h, HostNext(k)
      PROVE  pc'[h] \in {"closing", "inClose", "sweepDown"}
  BY <1>6, HostFrame
<1>7. ASSUME NEW c \in Bearers, LaneNext(c)
      PROVE  pc'[h] \in {"closing", "inClose", "sweepDown"}
  BY <1>7, LaneFrame, ConstantsOK
<1>8. CASE Tick \/ UNCHANGED vars
  BY <1>8 DEF Tick, vars
<1>9. QED
  BY <1>1, <1>2, <1>3, <1>4, <1>5, <1>6, <1>7, <1>8 DEF Next, HostNext

\* A sweep keeps hold of the routes of the links whose entries it removes.
LEMMA SweepTakes ==
    ASSUME IInv, NEW h \in Hosts, CheckPreauthDeadlines(h), NEW g \in Links, Routed(g),
           pendingLinks[g] = fromGlobal[g], pendingOpenedMs[g] # NotPending
    PROVE  \/ pendingLinks'[g] = fromGlobal[g] /\ pendingOpenedMs'[g] # NotPending
           \/ SweepHolds(h, fromGlobal[g])'
<1> DEFINE late == Expiring(clock)  routes == {pendingLinks[k] : k \in late}
<1>1. /\ pendingLinks' = [k \in Links |-> IF k \in late THEN NoRoute ELSE pendingLinks[k]]
      /\ pendingOpenedMs' = [k \in Links |-> IF k \in Known(routes) THEN NotPending
                                             ELSE pendingOpenedMs[k]]
      /\ expired' = [expired EXCEPT ![h] = routes]
      /\ fromGlobal' = fromGlobal
  BY DEF CheckPreauthDeadlines
<1>2. CASE g \in late
  BY <1>1, <1>2 DEF SweepHolds, IInv, TypeInv, TypeOK
<1>3. CASE g \in Known(routes)
  <2>1. PICK k \in late : g = toGlobal[pendingLinks[k]]
    BY <1>3 DEF Known
  <2>2. PICK r \in Routes : r = pendingLinks[k]
    BY <2>1 DEF Expiring, IInv, TypeInv, TypeOK
  <2>3. toGlobal[r] = g
    BY <2>1, <2>2
  <2>4. fromGlobal[g] = r /\ r \in routes
    BY <2>1, <2>2, <2>3 DEF IInv, LinkInv, MapsInverse
  <2>5. QED
    BY <1>1, <2>4 DEF SweepHolds, IInv, TypeInv, TypeOK
<1>4. CASE g \notin late /\ g \notin Known(routes)
  BY <1>1, <1>4
<1>5. QED
  BY <1>2, <1>3, <1>4

LEMMA EscapesStep == ASSUME IInv, DeadlineInv, [Next]_vars PROVE NoLinkEscapesDeadline'
<1> DEFINE Entry(g) == pendingLinks[g] = fromGlobal[g] /\ pendingOpenedMs[g] # NotPending
<1> SUFFICES ASSUME NEW g \in Links, Routed(g)', g \notin secured'
             PROVE  Entry(g)' \/ \E h \in Hosts : SweepHolds(h, fromGlobal[g])'
  BY DEF NoLinkEscapesDeadline
<1>1. ASSUME NEW b \in Bearers, NEW l \in Locals, Up(b, l), g = nextGlobal PROVE Entry(g)'
  <2>1. /\ fromGlobal'[g] = <<b, l>> /\ pendingLinks'[g] = <<b, l>>
        /\ pendingOpenedMs'[g] = clock
    BY <1>1 DEF Up, Mint, IInv, TypeInv, TypeOK
  <2>2. clock # NotPending
    BY ConstantsOK DEF IInv, TypeInv, TypeOK, Clock, NotPending
  <2>3. QED
    BY <2>1, <2>2
<1>2. CASE fromGlobal'[g] = fromGlobal[g] /\ ~\E b \in Bearers, l \in Locals : Up(b, l) /\ g = nextGlobal
  <2>1. Routed(g) /\ g \notin secured /\ fromGlobal[g] \in Routes
    BY <1>2, SecuredMoves DEF Routed, IInv, TypeInv, TypeOK
  <2>2. CASE Entry(g)
    <3>1. CASE pendingLinks'[g] = pendingLinks[g] /\ pendingOpenedMs'[g] = pendingOpenedMs[g]
      BY <1>2, <2>2, <3>1
    <3>2. ASSUME NEW h \in Hosts, CheckPreauthDeadlines(h)
          PROVE  Entry(g)' \/ SweepHolds(h, fromGlobal[g])'
      BY <1>2, <2>1, <2>2, <3>2, SweepTakes DEF SweepHolds
    <3>3. QED
      BY <1>2, <3>1, <3>2, PendingMoves
  <2>3. ASSUME NEW h \in Hosts, SweepHolds(h, fromGlobal[g])
        PROVE  SweepHolds(h, fromGlobal[g])'
    <3> DEFINE r == fromGlobal[g]
    <3>1. ~(CloseReturns(h) /\ route[h] = r)
      <4> SUFFICES ASSUME CloseReturns(h), route[h] = r PROVE FALSE
        OBVIOUS
      <4>1. toGlobal[r] = g /\ g # NoLink
        BY <2>1, ConstantsOK DEF IInv, LinkInv, MapsInverse, Links, NoLink
      <4>2. Forget(r)
        BY <4>1 DEF CloseReturns
      <4>3. QED
        BY <4>1, <4>2 DEF Forget, Routed, IInv, TypeInv, TypeOK
    <3>2. SweepHolds(h, r)'
      BY <2>1, <2>3, <3>1, SweepHoldsOn, <1>2 DEF DeadlineInv, SweepHolds
    <3>3. QED
      BY <3>2
  <2>4. QED
    BY <1>2, <2>1, <2>2, <2>3 DEF DeadlineInv, NoLinkEscapesDeadline
<1>3. QED
  BY <1>1, <1>2, RoutesStay

LEMMA SecuredStep == ASSUME IInv, SecuredNotPending, [Next]_vars PROVE SecuredNotPending'
<1> SUFFICES ASSUME NEW g \in secured' PROVE pendingLinks'[g] = NoRoute /\ Minted(g)'
  BY DEF SecuredNotPending
<1>1. g \in Links
  BY TypeStep DEF IInv, TypeInv, TypeOK
<1>2. Minted(g) /\ Minted(g)'
  BY <1>1, SecuredMoves DEF SecuredNotPending
<1>3. g # nextGlobal
  BY <1>1, <1>2, ConstantsOK DEF Minted, IInv, TypeInv, TypeOK, Links
<1>4. ASSUME NEW h \in Hosts, CheckPreauthDeadlines(h), pendingLinks[g] = NoRoute
      PROVE  pendingLinks'[g] = NoRoute
  BY <1>1, <1>4 DEF CheckPreauthDeadlines
<1>5. QED
  BY <1>1, <1>2, <1>3, <1>4, SecuredMoves, PendingMoves DEF SecuredNotPending

LEMMA DeadlineInvariant == Spec => []DeadlineInv
<1>1. Init => DeadlineInv
  BY DEF Init, DeadlineInv, NoLinkEscapesDeadline, ExpiredHeld, SecuredNotPending, Routed
<1>2. IInv /\ DeadlineInv /\ [Next]_vars => DeadlineInv'
  BY EscapesStep, ExpiredStep, SecuredStep DEF DeadlineInv
<1>3. QED
  BY <1>1, <1>2, LinkInvariant, PTL DEF Spec

\* No unauthenticated link escapes the deadline, whatever the sweep races with.
THEOREM DeadlineCovers == Spec => []NoLinkEscapesDeadline
BY DeadlineInvariant, PTL DEF DeadlineInv

\* A sweep takes only links that are late and that no markSecured has reached.
THEOREM SweepIsDeserved == Spec => SweepSparesSecured
<1>1. ASSUME IInv, SecuredNotPending, [Next]_vars, NEW h \in Hosts, NEW g \in Links,
             pc[h] = "idle", pc'[h] = "closing", pendingLinks'[g] # pendingLinks[g]
      PROVE  g \notin secured /\ clock > pendingOpenedMs[g] + Deadline
  <2> USE DEF IInv, TypeInv, TypeOK, Threads, Goto
  <2>1. HostNext(h)
    <3>1. ASSUME NEW k \in Hosts, k # h, HostNext(k) PROVE FALSE
      BY <1>1, <3>1, HostFrame
    <3>2. ASSUME NEW b \in Bearers, LaneNext(b) PROVE FALSE
      BY <1>1, <3>2, LaneFrame, ConstantsOK
    <3>3. QED
      BY <1>1, <3>1, <3>2 DEF Next, Tick, vars
  <2>2. ~HostStep(h)
    BY <1>1 DEF HostStep, Snapshot, Append, MarkStarted, BearerStarts, MarkStopped, BearerStops,
        BearerStopsForTearDown, TearDown, BearerReturns, Close, CloseReturns, DeliverDown
  <2>3. CheckPreauthDeadlines(h)
    BY <1>1, <2>1, <2>2 DEF HostNext, HostCall, Start, Stop, Enable, Disable, Register, Send,
        MarkSecured, Continue
  <2>4. g \in Expiring(clock)
    BY <1>1, <2>3 DEF CheckPreauthDeadlines
  <2>5. g \notin secured
    BY <1>1, <2>4 DEF Expiring, SecuredNotPending
  <2>6. /\ pendingOpenedMs[g] # NotPending /\ clock >= pendingOpenedMs[g]
        /\ clock - pendingOpenedMs[g] > Deadline
    BY <2>4 DEF Expiring, PastDeadline, Elapsed
  <2>7. clock \in Int /\ pendingOpenedMs[g] \in Int /\ Deadline \in Int
    <3>1. Clock \subseteq Int /\ Deadline \in Int
      BY ConstantsOK DEF Clock
    <3>2. clock \in Clock /\ pendingOpenedMs[g] \in Clock \cup {NotPending}
      BY <1>1
    <3>3. QED
      BY <2>6, <3>1, <3>2
  <2>8. QED
    BY <2>5, <2>6, <2>7
<1>2. IInv /\ SecuredNotPending /\ [Next]_vars =>
        [\A h \in Hosts, g \in Links :
           pc[h] = "idle" /\ pc'[h] = "closing" /\ pendingLinks'[g] # pendingLinks[g]
           => g \notin secured /\ clock > pendingOpenedMs[g] + Deadline]_vars
  BY <1>1
<1>3. QED
  BY <1>2, LinkInvariant, DeadlineInvariant, PTL DEF Spec, SweepSparesSecured, DeadlineInv
-----------------------------------------------------------------------------
(* Calls do not run for ever.                                               *)

\* How far a thread is from the head of its loop.
Stage(p) == CASE p = "inDisable" -> 3
              [] p \in {"tearing", "inClose"} -> 2
              [] p \in {"inStart", "inStop", "downing", "sweepDown"} -> 1
              [] OTHER -> 0

\* What is left of the call of host h: the bearers or the routes of its loop, then
\* the stages of the present one, then the links still to be reported.
InHost(h) == <<pc[h], work[h], expired[h], downs[h]>>
LessToDo(h) ==
    \/ pc[h] = "snapshot" /\ pc'[h] = "stopping"
    \/ /\ pc[h] # "snapshot" /\ pc'[h] # "snapshot"
       /\ work'[h] \subseteq work[h] /\ expired'[h] \subseteq expired[h]
       /\ \/ work'[h] # work[h] \/ expired'[h] # expired[h]
          \/ Stage(pc'[h]) < Stage(pc[h])
          \/ /\ Stage(pc'[h]) = Stage(pc[h])
             /\ downs'[h] \subseteq downs[h] /\ downs'[h] # downs[h]

CallsShorten ==
    [][\A h \in Hosts : pc[h] # "idle" /\ pc'[h] # "idle"
                        => LessToDo(h) \/ UNCHANGED InHost(h)]_vars

LEMMA CallShortens ==
    ASSUME IInv, Next, NEW h \in Hosts, pc[h] # "idle", pc'[h] # "idle"
    PROVE  LessToDo(h) \/ UNCHANGED InHost(h)
<1> USE DEF LessToDo, InHost, Stage, Goto, Continue, IInv, TypeInv, TypeOK, Threads
<1>1. CASE HostCall(h)
  BY <1>1 DEF HostCall, Start, Stop, Enable, Disable, Register, Send, MarkSecured,
      CheckPreauthDeadlines, Idle
<1>2. CASE Snapshot(h) \/ Append(h) \/ BearerReturns(h)
  BY <1>2 DEF Snapshot, Append, BearerReturns
<1>3. CASE MarkStarted(h) \/ MarkStopped(h)
  BY <1>3 DEF MarkStarted, MarkStopped, Enter
<1>4. CASE BearerStarts(h) \/ BearerStops(h) \/ BearerStopsForTearDown(h) \/ TearDown(h)
  BY <1>4 DEF BearerStarts, BearerStops, BearerStopsForTearDown, TearDown, locals
<1>5. CASE Close(h)
  BY <1>5 DEF Close
<1>6. CASE CloseReturns(h)
  BY <1>6 DEF CloseReturns
<1>7. CASE DeliverDown(h)
  <2>1. /\ pc[h] \in {"downing", "sweepDown"} /\ UNCHANGED <<work, expired>>
        /\ downs'[h] \subseteq downs[h] /\ downs'[h] # downs[h]
    BY <1>7 DEF DeliverDown, HostPCs
  <2>2. pc'[h] \in {pc[h], "disabling", "closing"}
    BY <1>7, <2>1 DEF DeliverDown, AfterDowns
  <2>3. QED
    BY <2>1, <2>2
<1>8. ASSUME NEW k \in Hosts, k # h, HostNext(k) PROVE UNCHANGED InHost(h)
  BY <1>8, HostFrame
<1>9. ASSUME NEW b \in Bearers, LaneNext(b) PROVE UNCHANGED InHost(h)
  BY <1>9, LaneFrame, ConstantsOK
<1>10. CASE Tick
  BY <1>10 DEF Tick, locals
<1>11. QED
  BY <1>1, <1>2, <1>3, <1>4, <1>5, <1>6, <1>7, <1>8, <1>9, <1>10 DEF Next, HostNext, HostStep

\* A call into the manager has less to do after each of its steps, and nothing that
\* the other threads do gives it more: with finitely many bearers and links it makes
\* finitely many steps, and it returns if its thread is run and its calls return.
THEOREM CallsAreFinite == Spec => CallsShorten
<1>1. IInv /\ Next => \A h \in Hosts : pc[h] # "idle" /\ pc'[h] # "idle"
                                       => LessToDo(h) \/ UNCHANGED InHost(h)
  BY CallShortens
<1>2. QED
  BY <1>1, LinkInvariant, PTL DEF Spec, CallsShorten
=============================================================================
