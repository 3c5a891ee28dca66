------------------------- MODULE BearerSerialProofs -------------------------
(***************************************************************************)
(* Proofs of what holds between calls when one thread makes them all, the  *)
(* way the tests and the smoke programs use a BearerManager (SerialSpec).  *)
(***************************************************************************)
EXTENDS BearerSafetyProofs

LEMMA SerialIsNext == [SerialNext]_vars => [Next]_vars
BY DEF SerialNext, Next

\* A behaviour of one thread is one of many: what was shown of those holds here.
LEMMA SerialInvariant == SerialSpec => [](IInv /\ UnseenIsPending)
<1>1. Init => UnseenIsPending
  BY DEF Init, UnseenIsPending, Routed
<1>2. Init => IInv
  BY TypeInit, LinkInit DEF IInv
<1>3. IInv /\ [Next]_vars => IInv'
  BY TypeStep, LinkStep DEF IInv
<1>4. QED
  BY <1>1, <1>2, <1>3, SerialIsNext, UnseenStep, PTL DEF SerialSpec
-----------------------------------------------------------------------------
(* One call at a time. *)

\* Two threads are in the manager only where a bearer that is being called calls
\* back on its lane.
OneCall ==
    \A t \in Threads : \A u \in Threads \ {t} : pc[t] # "idle" /\ pc[u] # "idle" =>
        \/ t \in Hosts /\ pc[t] \in InBearer /\ u \in Bearers
        \/ u \in Hosts /\ pc[u] \in InBearer /\ t \in Bearers

LEMMA OneCallStep == ASSUME IInv, OneCall, [SerialNext]_vars PROVE OneCall'
<1> USE DEF OneCall, Alone
<1>1. ASSUME NEW h \in Hosts, Alone(h), HostNext(h) PROVE OneCall'
  <2>1. \A u \in Threads \ {h} : pc[u] = "idle" /\ pc'[u] = "idle"
    BY <1>1, HostFrame, ConstantsOK DEF IInv
  <2>2. QED
    BY <2>1
<1>2. ASSUME NEW b \in Bearers, Alone(b), LaneNext(b) PROVE OneCall'
  <2>1. \A u \in Threads \ {b} : pc'[u] = pc[u] /\ (pc[u] = "idle" \/ pc[u] \in InBearer)
    BY <1>2, LaneFrame DEF IInv
  <2>2. \A c \in Bearers : pc[c] \notin InBearer
    BY DEF IInv, TypeInv, TypeOK, LanePCs, InBearer
  <2>3. \A u \in Threads \ {b} : pc'[u] # "idle" => u \in Hosts /\ pc'[u] \in InBearer
    BY <2>1, <2>2 DEF Threads
  <2>4. \A t, u \in Threads \ {b} : t # u => pc[t] = "idle" \/ pc[u] = "idle"
    BY <2>1, <2>2, ConstantsOK DEF Threads
  <2>5. QED
    BY <1>2, <2>1, <2>3, <2>4
<1>3. CASE Tick \/ UNCHANGED vars
  BY <1>3 DEF Tick, vars
<1>4. QED
  BY <1>1, <1>2, <1>3 DEF SerialNext
-----------------------------------------------------------------------------
(* The consumer's view of a link. *)

ThreeViews == \A g \in Links : seen[g] \in {"none", "up", "down"}

\* A link that was taken off the maps is still up for the consumer.
HeldIsUp == \A t \in Threads : \A g \in downs[t] : seen[g] = "up"

\* The bytes that a lane is about to deliver are of a link that is up.
BytesAreOfUp == \A b \in Bearers : pc[b] = "inBytes" => seen[out[b]] = "up"

ViewInv == OneCall /\ ThreeViews /\ HeldIsUp /\ BytesAreOfUp

LanesIdle == \A b \in Bearers : pc[b] = "idle"

\* When no lane is in a call, the consumer has been told of every routed link.
LEMMA RoutedIsUp ==
    ASSUME IInv, UnseenIsPending, ThreeViews, LanesIdle, NEW g \in Links, Routed(g)
    PROVE  seen[g] = "up"
<1>1. fromGlobal[g][1] \in Bearers
  BY DEF Routed, IInv, TypeInv, TypeOK, Routes
<1>2. seen[g] # "none"
  BY <1>1 DEF UnseenIsPending, LanesIdle
<1>3. seen[g] # "down"
  BY DEF IInv, LinkInv, OneReporter, Reported
<1>4. QED
  BY <1>2, <1>3 DEF ThreeViews

\* A host takes only routed links off the maps.
LEMMA HostTakes ==
    ASSUME IInv, NEW h \in Hosts, HostNext(h), NEW g \in downs'[h], g \notin downs[h]
    PROVE  Routed(g) /\ g \in Links /\ seen' = seen
<1> USE DEF IInv, TypeInv, TypeOK, Threads
<1>1. CASE HostCall(h)
  BY <1>1 DEF HostCall, Start, Stop, Enable, Disable, Register, Send, MarkSecured,
      CheckPreauthDeadlines, locals
<1>2. CASE TearDown(h)
  <2> DEFINE b == cur[h]
  <2>1. b \in Bearers /\ g \in LinksOf(b) /\ seen' = seen
    BY <1>2 DEF TearDown, ControlOK, consumer
  <2>2. PICK l \in Locals : g = toGlobal[<<b, l>>] /\ g # NoLink
    BY <2>1 DEF LinksOf
  <2>3. PICK r \in Routes : r = <<b, l>>
    BY <2>1 DEF Routes
  <2>4. fromGlobal[g] = r /\ g \in Links
    BY <2>2, <2>3 DEF LinkInv, MapsInverse
  <2>5. QED
    BY <2>1, <2>4, ConstantsOK DEF Routed, Routes
<1>3. CASE CloseReturns(h)
  <2> DEFINE r == route[h]
  <2>1. r \in Routes /\ seen' = seen
    BY <1>3 DEF CloseReturns, ControlOK, consumer
  <2>2. g = toGlobal[r] /\ g # NoLink
    BY <1>3 DEF CloseReturns
  <2>3. fromGlobal[g] = r /\ g \in Links
    BY <2>1, <2>2 DEF LinkInv, MapsInverse
  <2>4. QED
    BY <2>1, <2>3, ConstantsOK DEF Routed, Routes
<1>4. CASE DeliverDown(h)
  BY <1>4 DEF DeliverDown
<1>5. ASSUME HostStep(h), ~TearDown(h), ~CloseReturns(h), ~DeliverDown(h) PROVE FALSE
  BY <1>5 DEF HostStep, Snapshot, Append, MarkStarted, BearerStarts, MarkStopped, BearerStops,
      BearerStopsForTearDown, BearerReturns, Close, locals
<1>6. QED
  BY <1>1, <1>2, <1>3, <1>4, <1>5 DEF HostNext

\* And a lane, from rest.
LEMMA LaneTakes ==
    ASSUME IInv, NEW b \in Bearers, LaneNext(b), NEW g \in downs'[b], g \notin downs[b]
    PROVE  Routed(g) /\ g \in Links /\ seen' = seen /\ pc[b] = "idle"
<1> USE DEF IInv, TypeInv, TypeOK, Threads
<1>1. ASSUME NEW l \in Locals, Down(b, l) PROVE Routed(g) /\ g \in Links /\ seen' = seen /\ pc[b] = "idle"
  <2>1. PICK r \in Routes : r = <<b, l>>
    BY DEF Routes
  <2>2. g = toGlobal[r] /\ g # NoLink /\ seen' = seen /\ pc[b] = "idle"
    BY <1>1, <2>1 DEF Down, consumer
  <2>3. fromGlobal[g] = r /\ g \in Links
    BY <2>1, <2>2 DEF LinkInv, MapsInverse
  <2>4. QED
    BY <2>2, <2>3, ConstantsOK DEF Routed, Routes
<1>2. CASE DeliverDown(b)
  BY <1>2 DEF DeliverDown
<1>3. ASSUME \/ \E l \in Locals : Up(b, l) \/ UpRefused(b, l) \/ Bytes(b, l)
             \/ DeliverUp(b) \/ DeliverBytes(b)
      PROVE  FALSE
  BY <1>3 DEF Up, UpRefused, Bytes, DeliverUp, DeliverBytes, locals
<1>4. QED
  BY <1>1, <1>2, <1>3 DEF LaneNext, LaneCall, LaneStep

\* A thread that is alone in the manager, and at rest if it is a lane, sees every
\* lane at rest.
LEMMA AloneHost == ASSUME NEW h \in Hosts, Alone(h) PROVE LanesIdle
BY ConstantsOK DEF Alone, LanesIdle, Threads

LEMMA AloneLane == ASSUME TypeInv, NEW b \in Bearers, Alone(b)
                   PROVE  \A c \in Bearers \ {b} : pc[c] = "idle"
BY ConstantsOK DEF Alone, Threads, TypeInv, TypeOK, LanePCs, InBearer

\* linkUp finds a link that is new to the consumer, linkDown one that is up.
LEMMA UpOfNew ==
    ASSUME IInv, ThreeViews, NEW b \in Bearers, DeliverUp(b)
    PROVE  out[b] \in Links /\ seen[out[b]] = "none" /\ seen' = [seen EXCEPT ![out[b]] = "up"]
<1>1. out[b] \in Links /\ seen[out[b]] \in {"none", "early"}
  BY DEF DeliverUp, IInv, LinkInv, UpOnce
<1>2. seen' = [seen EXCEPT ![out[b]] = AfterUp(seen[out[b]])]
  BY DEF DeliverUp
<1>3. QED
  BY <1>1, <1>2 DEF ThreeViews, AfterUp

LEMMA DownOfUp ==
    ASSUME IInv, HeldIsUp, NEW t \in Threads, DeliverDown(t)
    PROVE  \E g \in Links : /\ g \in downs[t] /\ seen[g] = "up"
                            /\ seen' = [seen EXCEPT ![g] = "down"]
                            /\ downs' = [downs EXCEPT ![t] = downs[t] \ {g}]
<1>1. PICK g \in downs[t] : /\ seen' = [seen EXCEPT ![g] = AfterDown(seen[g])]
                            /\ downs' = [downs EXCEPT ![t] = downs[t] \ {g}]
  BY DEF DeliverDown
<1>2. g \in Links /\ seen[g] = "up"
  BY DEF HeldIsUp, IInv, TypeInv, TypeOK
<1>3. QED
  BY <1>1, <1>2 DEF AfterDown

LEMMA ViewsStep == ASSUME IInv, ViewInv, [Next]_vars PROVE ThreeViews'
<1>1. ASSUME NEW b \in Bearers, DeliverUp(b) PROVE ThreeViews'
  BY <1>1, UpOfNew DEF ViewInv, ThreeViews, IInv, TypeInv, TypeOK
<1>2. ASSUME NEW t \in Threads, DeliverDown(t) PROVE ThreeViews'
  BY <1>2, DownOfUp DEF ViewInv, ThreeViews, IInv, TypeInv, TypeOK
<1>3. seen' = seen => ThreeViews'
  BY DEF ViewInv, ThreeViews
<1>4. QED
  BY <1>1, <1>2, <1>3, WhoReports

LEMMA HeldStep ==
    ASSUME IInv, UnseenIsPending, ViewInv, [SerialNext]_vars PROVE HeldIsUp'
<1> SUFFICES ASSUME NEW t \in Threads, NEW g \in downs'[t] PROVE seen'[g] = "up"
  BY DEF HeldIsUp
<1>1. CASE g \in downs[t]
  <2>1. g \in Links /\ seen[g] = "up"
    BY <1>1 DEF ViewInv, HeldIsUp, IInv, TypeInv, TypeOK
  <2>2. ASSUME NEW b \in Bearers, DeliverUp(b), out[b] = g PROVE FALSE
    BY <2>1, <2>2, UpOfNew DEF ViewInv
  <2>3. ASSUME NEW u \in Threads, g \in downs[u], g \notin downs'[u] PROVE FALSE
    BY <1>1, <2>1, <2>3 DEF IInv, LinkInv, OneReporter
  <2>4. QED
    BY <2>1, <2>2, <2>3, SeenMoves, SerialIsNext
<1>2. CASE g \notin downs[t]
  <2>1. ASSUME NEW h \in Hosts, Alone(h), HostNext(h) PROVE seen'[g] = "up"
    <3>1. t = h
      BY <1>2, <2>1, HostFrame DEF IInv
    <3>2. Routed(g) /\ g \in Links /\ seen' = seen
      BY <1>2, <2>1, <3>1, HostTakes
    <3>3. QED
      BY <2>1, <3>2, AloneHost, RoutedIsUp DEF ViewInv
  <2>2. ASSUME NEW b \in Bearers, Alone(b), LaneNext(b) PROVE seen'[g] = "up"
    <3>1. t = b
      BY <1>2, <2>2, LaneFrame DEF IInv
    <3>2. Routed(g) /\ g \in Links /\ seen' = seen /\ pc[b] = "idle"
      BY <1>2, <2>2, <3>1, LaneTakes
    <3>3. LanesIdle
      BY <2>2, <3>2, AloneLane DEF LanesIdle, IInv
    <3>4. QED
      BY <3>2, <3>3, RoutedIsUp DEF ViewInv
  <2>3. Tick \/ UNCHANGED vars => downs' = downs
    BY DEF Tick, vars, locals
  <2>4. QED
    BY <1>2, <2>1, <2>2, <2>3 DEF SerialNext
<1>3. QED
  BY <1>1, <1>2

LEMMA BytesUpStep ==
    ASSUME IInv, UnseenIsPending, ViewInv, [SerialNext]_vars PROVE BytesAreOfUp'
<1> SUFFICES ASSUME NEW b \in Bearers, pc'[b] = "inBytes" PROVE seen'[out'[b]] = "up"
  BY DEF BytesAreOfUp
<1>1. CASE pc[b] = "inBytes"
  <2>1. ASSUME NEW h \in Hosts, Alone(h) PROVE FALSE
    BY <1>1, <2>1, AloneHost DEF LanesIdle
  <2>2. ASSUME NEW c \in Bearers, Alone(c), LaneNext(c) PROVE FALSE
    <3>1. c = b
      BY <1>1, <2>2, AloneLane DEF IInv
    <3>2. DeliverBytes(b)
      BY <1>1, <2>2, <3>1 DEF LaneNext, LaneCall, LaneStep, Up, UpRefused, Bytes, Down,
          DeliverUp, DeliverDown
    <3>3. QED
      BY <3>2 DEF DeliverBytes, Goto, IInv, TypeInv, TypeOK, Threads
  <2>3. CASE Tick \/ UNCHANGED vars
    BY <1>1, <2>3 DEF Tick, vars, consumer, locals, ViewInv, BytesAreOfUp
  <2>4. QED
    BY <2>1, <2>2, <2>3 DEF SerialNext
<1>2. CASE pc[b] # "inBytes"
  <2>1. /\ pc[b] = "idle" /\ seen' = seen /\ out'[b] \in Links /\ Routed(out'[b])
    BY <1>2, BytesBegins, SerialIsNext
  <2>2. ASSUME NEW c \in Bearers, Alone(c), LaneNext(c) PROVE LanesIdle
    <3>1. c = b
      BY <1>2, <2>2, LaneFrame DEF IInv, Threads
    <3>2. QED
      BY <2>1, <2>2, <3>1, AloneLane DEF LanesIdle, IInv
  <2>3. Tick \/ UNCHANGED vars => pc'[b] = pc[b]
    BY DEF Tick, vars
  <2>4. LanesIdle
    BY <1>2, <2>2, <2>3, AloneHost DEF SerialNext
  <2>5. QED
    BY <2>1, <2>4, RoutedIsUp DEF ViewInv
<1>3. QED
  BY <1>1, <1>2

LEMMA ViewInit == Init => ViewInv
BY ConstantsOK DEF Init, ViewInv, OneCall, ThreeViews, HeldIsUp, BytesAreOfUp, Threads

LEMMA ViewInvariant == SerialSpec => []ViewInv
<1>1. IInv /\ UnseenIsPending /\ ViewInv /\ [SerialNext]_vars => ViewInv'
  BY OneCallStep, ViewsStep, HeldStep, BytesUpStep, SerialIsNext DEF ViewInv
<1>2. QED
  BY <1>1, ViewInit, SerialInvariant, PTL DEF SerialSpec

\* Between calls the consumer's table of live links is the manager's.
THEOREM TablesAgree == SerialSpec => []ConsumerMatchesRoutes
<1>1. ASSUME IInv, UnseenIsPending, ViewInv PROVE ConsumerMatchesRoutes
  <2> SUFFICES ASSUME AllIdle, NEW g \in Links
               PROVE  seen[g] \in {"up", "ghost"} <=> Routed(g)
    BY DEF ConsumerMatchesRoutes
  <2>1. LanesIdle /\ \A t \in Threads : downs[t] = {}
    BY <1>1 DEF AllIdle, LanesIdle, Threads, IInv, LinkInv, DownsHeld
  <2>2. Routed(g) => seen[g] = "up"
    BY <1>1, <2>1, RoutedIsUp DEF ViewInv
  <2>3. seen[g] = "up" => Minted(g)
    BY <1>1 DEF IInv, LinkInv, SeenMinted
  <2>4. seen[g] = "up" => Routed(g)
    BY <1>1, <2>1, <2>3 DEF IInv, LinkInv, OneReporter, Reported
  <2>5. QED
    BY <1>1, <2>2, <2>4 DEF ViewInv, ThreeViews
<1>2. QED
  BY <1>1, SerialInvariant, ViewInvariant, PTL

\* The consumer gets bytes only for links that it sees as up.
THEOREM BytesOnlyOfUp == SerialSpec => BytesOnlyWhileUp
<1>1. ViewInv => \A b \in Bearers : DeliverBytes(b) => seen[out[b]] = "up"
  BY DEF ViewInv, BytesAreOfUp, DeliverBytes
<1>2. QED
  BY <1>1, ViewInvariant, PTL DEF BytesOnlyWhileUp

\* Every link lives by the contract of LinkSink: it comes up once, goes down once
\* after that and is not used again.
THEOREM LinksKeepContract == SerialSpec => ImplementsLinkContract
<1> DEFINE view == [g \in Links |-> IF seen[g] = "none" THEN "unused" ELSE seen[g]]
<1>1. Init => Contract!LinkInit
  BY DEF Init, Contract!LinkInit
<1>2. ASSUME IInv, ViewInv, [Next]_vars PROVE [Contract!LinkNext]_view
  <2> USE DEF Contract!LinkNext, Contract!LinkUp, Contract!LinkDown
  <2>0. seen \in [Links -> LinkViews]
    BY <1>2 DEF IInv, TypeInv, TypeOK
  <2>1. ASSUME NEW b \in Bearers, DeliverUp(b) PROVE Contract!LinkNext
    <3>1. PICK g \in Links : seen[g] = "none" /\ seen' = [seen EXCEPT ![g] = "up"]
      BY <1>2, <2>1, UpOfNew DEF ViewInv
    <3>2. view[g] = "unused" /\ view' = [view EXCEPT ![g] = "up"]
      BY <2>0, <3>1
    <3>3. QED
      BY <3>2
  <2>2. ASSUME NEW t \in Threads, DeliverDown(t) PROVE Contract!LinkNext
    <3>1. PICK g \in Links : seen[g] = "up" /\ seen' = [seen EXCEPT ![g] = "down"]
      BY <1>2, <2>2, DownOfUp DEF ViewInv
    <3>2. view[g] = "up" /\ view' = [view EXCEPT ![g] = "down"]
      BY <2>0, <3>1
    <3>3. QED
      BY <3>2
  <2>3. seen' = seen => view' = view
    OBVIOUS
  <2>4. QED
    BY <1>2, <2>1, <2>2, <2>3, WhoReports
<1>3. QED
  BY <1>1, <1>2, SerialIsNext, SerialInvariant, ViewInvariant, PTL
  DEF SerialSpec, ImplementsLinkContract, Contract!LinkSpec
-----------------------------------------------------------------------------
(* Which transports run, and which are muted. *)

\* A call deals only with registered bearers.
KnownInv ==
    /\ stoppedBearers \subseteq bearers /\ running \subseteq bearers
    /\ \A h \in Hosts :
        /\ work[h] \subseteq bearers
        /\ pc[h] \in {"inStart", "inStop", "inDisable"} => cur[h] \in bearers

IsOn(b) == NameOf[b] \notin disabledNames

\* The bearers that host h is about to start, to stop because their name was
\* disabled, and to stop because the manager was.
YetToStart(h) == {b \in work[h] : pc[h] \in {"starting", "inStart"}}
YetToDisable(h) ==
    {b \in work[h] : pc[h] \in {"disabling", "inDisable", "tearing", "downing"}}
        \cup {b \in {cur[h]} : pc[h] = "inDisable"}
YetToStop(h) ==
    {b \in bearers : pc[h] = "snapshot"}
        \cup {b \in work[h] : pc[h] \in {"stopping", "inStop"}}
        \cup {b \in {cur[h]} : pc[h] = "inStop"}

\* What the call that host h is in decided at its first step still stands.
InCall(h) ==
    /\ pc[h] \in {"starting", "inStart"} => started
    /\ pc[h] \in {"snapshot", "stopping", "inStop"} => ~started
    /\ \A b \in YetToStart(h) : IsOn(b)
    /\ pc[h] = "inStart" => IsOn(cur[h])
    /\ \A b \in YetToDisable(h) : ~IsOn(b)

\* The radios and the mutes are as the toggles say, but for bearers that are yet
\* to be started (s), disabled (d) and stopped (p).
Settled(s, d, p) ==
    /\ started => \A b \in bearers : IsOn(b) /\ b \in stoppedBearers => b \in s
    /\ \A b \in running : ~IsOn(b) => b \in d
    /\ ~started => running \subseteq p

Between(h) == Settled(YetToStart(h), YetToDisable(h), YetToStop(h))

ToggleInv ==
    /\ KnownInv
    /\ \A h \in Hosts : InCall(h)
    /\ (\A h \in Hosts : pc[h] = "idle") => Settled({}, {}, {})
    /\ \A h \in Hosts : pc[h] # "idle" => Between(h)

LEMMA KnownHost ==
    ASSUME TypeInv, KnownInv, NEW h \in Hosts, HostNext(h)
    PROVE  KnownInv'
<1> DEFINE Own == /\ stoppedBearers' \subseteq bearers' /\ running' \subseteq bearers'
                  /\ bearers \subseteq bearers'
                  /\ work'[h] \subseteq bearers'
                  /\ pc'[h] \in {"inStart", "inStop", "inDisable"} => cur'[h] \in bearers'
<1>1. Own
  <2> USE DEF TypeInv, TypeOK, KnownInv, Threads, Goto, Continue, registry, transport, locals
  <2>1. CASE \/ Start(h) \/ Stop(h) \/ Snapshot(h)
             \/ \E n \in Names : Enable(h, n) \/ Disable(h, n)
    BY <2>1 DEF Start, Stop, Snapshot, Enable, Disable, Live, ToStart, Matching, Idle
  <2>2. CASE \/ \E b \in Bearers : Register(h, b)
             \/ \E g \in Links : Send(h, g) \/ MarkSecured(h, g)
             \/ CheckPreauthDeadlines(h) \/ Append(h) \/ BearerReturns(h) \/ Close(h)
    BY <2>2 DEF Register, Send, MarkSecured, CheckPreauthDeadlines, Append, BearerReturns, Close
  <2>3. CASE MarkStarted(h) \/ MarkStopped(h)
    BY <2>3 DEF MarkStarted, MarkStopped, Enter
  <2>4. CASE BearerStarts(h) \/ BearerStops(h) \/ BearerStopsForTearDown(h) \/ TearDown(h)
    BY <2>4 DEF BearerStarts, BearerStops, BearerStopsForTearDown, TearDown
  <2>5. CASE CloseReturns(h) \/ DeliverDown(h)
    BY <2>5 DEF CloseReturns, DeliverDown, AfterDowns
  <2>6. QED
    BY <2>1, <2>2, <2>3, <2>4, <2>5 DEF HostNext, HostCall, HostStep
<1>2. QED
  BY <1>1, HostFrame DEF KnownInv, Threads

\* Each step of a call leaves the rest of the call with less to do, and no
\* transport in a state it should not be in once that is done.
LEMMA CallStep ==
    ASSUME TypeInv, KnownInv, NEW h \in Hosts, HostNext(h), InCall(h), Between(h)
    PROVE  InCall(h)' /\ Between(h)'
<1> DEFINE Good == InCall(h)' /\ Between(h)'
<1> USE DEF TypeInv, TypeOK, Threads, Goto, Continue, registry, transport, locals,
      InCall, Between, Settled, YetToStart, YetToDisable, YetToStop, IsOn
<1>1. CASE Start(h)
  BY <1>1 DEF Start, Live, Idle
<1>2. CASE \E n \in Names : Enable(h, n)
  BY <1>2 DEF Enable, ToStart, Matching, Idle, KnownInv
<1>3. CASE \E n \in Names : Disable(h, n)
  BY <1>3 DEF Disable, Matching, Idle, KnownInv
<1>4. CASE Stop(h) \/ Snapshot(h)
  BY <1>4 DEF Stop, Snapshot, Idle, KnownInv
<1>5. CASE MarkStarted(h)
  BY <1>5 DEF MarkStarted, Enter
<1>6. CASE MarkStopped(h)
  BY <1>6 DEF MarkStopped, Enter
<1>7. CASE BearerStarts(h)
  BY <1>7 DEF BearerStarts
<1>8. CASE BearerStops(h) \/ BearerStopsForTearDown(h)
  BY <1>8 DEF BearerStops, BearerStopsForTearDown
<1>9. CASE TearDown(h)
  BY <1>9 DEF TearDown
<1>10. CASE (\E b \in Bearers : Register(h, b)) \/ Append(h)
  BY <1>10 DEF Register, Append, Idle, KnownInv
<1>11. CASE \/ \E g \in Links : Send(h, g) \/ MarkSecured(h, g)
            \/ CheckPreauthDeadlines(h) \/ BearerReturns(h) \/ Close(h) \/ CloseReturns(h)
  BY <1>11 DEF Send, MarkSecured, CheckPreauthDeadlines, BearerReturns, Close, CloseReturns, Idle
<1>12. CASE DeliverDown(h)
  BY <1>12 DEF DeliverDown, AfterDowns, HostPCs
<1>13. QED
  BY <1>1, <1>2, <1>3, <1>4, <1>5, <1>6, <1>7, <1>8, <1>9, <1>10, <1>11, <1>12
  DEF HostNext, HostCall, HostStep

LEMMA ToggleStep ==
    ASSUME TypeInv, ToggleInv, [SerialNext]_vars
    PROVE  ToggleInv'
<1>1. ASSUME NEW h \in Hosts, Alone(h), HostNext(h) PROVE ToggleInv'
  <2>1. \A k \in Hosts \ {h} : pc[k] = "idle" /\ pc'[k] = "idle"
    BY <1>1, HostFrame, ConstantsOK DEF Alone, Threads
  <2>2. ASSUME NEW k \in Hosts, pc[k] = "idle", Settled({}, {}, {}) PROVE Between(k)
    BY <2>2 DEF Between, Settled, YetToStart, YetToDisable, YetToStop
  <2>3. Between(h)
    BY <2>1, <2>2 DEF ToggleInv
  <2>4. KnownInv' /\ InCall(h)' /\ Between(h)'
    BY <1>1, <2>3, KnownHost, CallStep DEF ToggleInv
  <2>5. \A k \in Hosts \ {h} : InCall(k)'
    BY <2>1 DEF InCall, YetToStart, YetToDisable
  <2>6. pc'[h] = "idle" => Settled({}, {}, {})'
    BY <2>4 DEF Between, Settled, YetToStart, YetToDisable, YetToStop
  <2>7. QED
    BY <2>1, <2>4, <2>5, <2>6 DEF ToggleInv
<1>2. CASE (\E b \in Bearers : LaneNext(b)) \/ Tick \/ UNCHANGED vars
  <2>1. /\ UNCHANGED <<bearers, disabledNames, stoppedBearers, started, running, work, cur>>
        /\ \A h \in Hosts : pc'[h] = pc[h]
    <3>1. ASSUME NEW b \in Bearers, LaneNext(b)
          PROVE  /\ UNCHANGED <<bearers, disabledNames, stoppedBearers, started, running, work, cur>>
                 /\ \A h \in Hosts : pc'[h] = pc[h]
      BY <3>1, LaneFrame, ConstantsOK DEF registry, Threads
    <3>2. QED
      BY <1>2, <3>1 DEF Tick, vars, registry, transport, locals
  <2>2. KnownInv'
    BY <2>1 DEF ToggleInv, KnownInv
  <2>3. \A h \in Hosts : InCall(h)' /\ (pc'[h] # "idle" => Between(h)')
    BY <2>1 DEF ToggleInv, InCall, Between, Settled, YetToStart, YetToDisable, YetToStop, IsOn
  <2>4. (\A h \in Hosts : pc'[h] = "idle") => Settled({}, {}, {})'
    BY <2>1 DEF ToggleInv, Settled, IsOn
  <2>5. QED
    BY <2>2, <2>3, <2>4 DEF ToggleInv
<1>3. QED
  BY <1>1, <1>2 DEF SerialNext

LEMMA ToggleInit == Init => ToggleInv
BY ConstantsOK DEF Init, ToggleInv, KnownInv, InCall, Settled, YetToStart, YetToDisable, Threads

LEMMA ToggleInvariant == SerialSpec => []ToggleInv
<1>1. IInv => TypeInv
  BY DEF IInv
<1>2. QED
  BY <1>1, ToggleInit, ToggleStep, SerialInvariant, PTL DEF SerialSpec

LEMMA SettledAtRest == ToggleInv /\ AllIdle => Settled({}, {}, {})
BY DEF ToggleInv, AllIdle, Threads

\* No sequence of calls leaves an enabled transport of a started manager muted.
THEOREM EnabledIsHeard == SerialSpec => []EnabledIsNotMuted
<1>1. ToggleInv => EnabledIsNotMuted
  BY SettledAtRest DEF EnabledIsNotMuted, Settled, IsOn
<1>2. QED
  BY <1>1, ToggleInvariant, PTL

\* Nor the radio of a disabled transport running.
THEOREM DisabledIsOff == SerialSpec => []DisabledStaysDown
<1>1. ToggleInv => DisabledStaysDown
  BY SettledAtRest DEF DisabledStaysDown, Settled, IsOn
<1>2. QED
  BY <1>1, ToggleInvariant, PTL

\* Nor any radio running while the manager is stopped.
THEOREM StoppedIsOff == SerialSpec => []StoppedStaysDown
<1>1. ToggleInv => StoppedStaysDown
  BY SettledAtRest DEF StoppedStaysDown, Settled
<1>2. QED
  BY <1>1, ToggleInvariant, PTL
=============================================================================
