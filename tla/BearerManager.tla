---------------------------- MODULE BearerManager ----------------------------
(***************************************************************************)
(* Sources/HopContract/Bearers.swift: the registry and multiplexer that    *)
(* drives every transport ("bearer") as one, mints a process-global id per *)
(* link and forwards link events to its sink, the consumer.                *)
(*                                                                         *)
(* Every critical section of the NSLock is one action.  Every call the     *)
(* manager makes with the lock released (into a bearer, or into the sink)  *)
(* is an action of its own, so that other threads run in between.  The     *)
(* threads are the hosts, which call the public API, and one lane per      *)
(* bearer, on which that bearer reports its links one callback at a time.  *)
(* Registration order, payloads, roles and peer ids are abstracted away.   *)
(* A call that changes no state (an idempotent toggle, bytes or a down for *)
(* an unknown link, a send on a dead id) is a stuttering step.             *)
(***************************************************************************)
EXTENDS Integers

CONSTANTS
    Bearers,      \* the transports the host may register
    NoBearer,     \* the value of cur[h] when host h is dealing with no bearer
    NoRoute,      \* the value of a lookup that finds no route
    Names,        \* the transport names ("BT", "LAN", ...)
    NameOf,       \* transportName of each bearer; several bearers may share one
    Locals,       \* the link ids a bearer uses, each for one connection
    Hosts,        \* the threads that call the public API
    HostOps,      \* the operations the hosts of this instance call
    Registered,   \* the bearers registered before the first step
    BaseLinkId,   \* the first global id, init(baseLinkId:)
    MaxLinks,     \* bound: global ids the instance may mint
    Deadline,     \* deadlineMs of the pre-authentication sweep
    MaxClock      \* bound: readings of the wall clock

Ops == {"register", "setEnabled", "startStop", "send", "markSecured", "preauth"}

ASSUME ConstantsOK ==
    /\ NoBearer \notin Bearers
    /\ NoRoute \notin Bearers \X Locals
    /\ NameOf \in [Bearers -> Names]
    /\ Hosts \cap Bearers = {}
    /\ HostOps \subseteq Ops
    /\ Registered \subseteq Bearers
    /\ BaseLinkId \in Nat \ {0}
    /\ MaxLinks \in Nat \ {0}
    /\ Deadline \in Nat
    /\ MaxClock \in Nat

Threads == Hosts \cup Bearers
Links == BaseLinkId .. (BaseLinkId + MaxLinks - 1)
NoLink == 0
Routes == Bearers \X Locals
Clock == 0 .. MaxClock
NotPending == -1

VARIABLES
    \* the fields of BearerManager
    bearers, nextGlobal, toGlobal, fromGlobal, pendingLinks, pendingOpenedMs,
    disabledNames, stoppedBearers, started,
    \* the transports: connections reported so far, radios that run, the clock
    used, running, clock,
    \* the consumer: how each link looks to the sink, links marked secured
    seen, secured,
    \* the threads: where each is, and the locals it carries between steps
    pc, work, cur, route, expired, downs, out

registry == <<bearers, disabledNames, stoppedBearers, started>>
maps == <<nextGlobal, toGlobal, fromGlobal, pendingLinks, pendingOpenedMs>>
transport == <<used, running, clock>>
consumer == <<seen, secured>>
locals == <<work, cur, route, expired, downs, out>>
vars == <<registry, maps, transport, consumer, pc, locals>>

HostPCs == {"idle", "append", "snapshot", "starting", "inStart", "stopping",
            "inStop", "disabling", "inDisable", "tearing", "downing",
            "inSend", "inSecured", "closing", "inClose", "sweepDown"}
LanePCs == {"idle", "inUp", "inBytes", "inDown"}

\* How a link looks to the sink: never reported, up, up then down, down with
\* no up yet, up after its down, and downed more than once.
LinkViews == {"none", "up", "down", "early", "ghost", "twice"}

Init ==
    /\ bearers = Registered
    /\ nextGlobal = BaseLinkId
    /\ toGlobal = [r \in Routes |-> NoLink]
    /\ fromGlobal = [g \in Links |-> NoRoute]
    /\ pendingLinks = [g \in Links |-> NoRoute]
    /\ pendingOpenedMs = [g \in Links |-> NotPending]
    /\ disabledNames = {} /\ stoppedBearers = {} /\ started = FALSE
    /\ used = {} /\ running = {} /\ clock = 0
    /\ seen = [g \in Links |-> "none"] /\ secured = {}
    /\ pc = [t \in Threads |-> "idle"]
    /\ work = [h \in Hosts |-> {}]
    /\ cur = [h \in Hosts |-> NoBearer]
    /\ route = [h \in Hosts |-> NoRoute]
    /\ expired = [h \in Hosts |-> {}]
    /\ downs = [t \in Threads |-> {}]
    /\ out = [b \in Bearers |-> NoLink]
-----------------------------------------------------------------------------
(* Helpers of the critical sections. *)

\* acceptsLinksLocked: may a link of this bearer reach the consumer right now?
\* The mutant forgets the name check, which only start/stop used to make.
AcceptsIgnoringNames(b) == b \notin stoppedBearers
Accepts(b) == NameOf[b] \notin disabledNames /\ b \notin stoppedBearers

\* The registered bearers that carry a name; the mutant picks one of them.
MatchingOne(n) == LET all == {b \in bearers : NameOf[b] = n} IN
                  IF all = {} THEN {} ELSE {CHOOSE b \in all : TRUE}
Matching(n) == {b \in bearers : NameOf[b] = n}

\* The bearers setEnabled(n, true) starts; the mutant starts them too early.
ToStartEarly(n) == Matching(n)
ToStart(n) == IF started THEN Matching(n) ELSE {}

\* The bearers start() starts.  Mutants: every bearer, and not a stopped one.
LiveAll == bearers
LiveUnstopped == {b \in bearers \ stoppedBearers : NameOf[b] \notin disabledNames}
Live == {b \in bearers : NameOf[b] \notin disabledNames}

\* The live links of a bearer: toGlobal[oid]?.values.
LinksOfEveryLocal(b) == {toGlobal[<<b, l>>] : l \in Locals}
LinksOf(b) == {toGlobal[<<b, l>>] : l \in Locals} \ {NoLink}

\* nowMs - opened is a subtraction of unsigned readings, here modulo the width of
\* the clock; below zero the code would trap.
Elapsed(now, opened) ==
    IF now >= opened THEN now - opened ELSE now - opened + MaxClock + 1

\* The deadline test of the sweep, with its guard against a clock set back.  The
\* mutant goes without the guard.
PastDeadlineUnguarded(now, opened) == Elapsed(now, opened) > Deadline
PastDeadline(now, opened) == now >= opened /\ Elapsed(now, opened) > Deadline

\* The unauthenticated links a sweep at time now takes off pendingLinks.
Expiring(now) == {g \in Links : /\ pendingOpenedMs[g] # NotPending
                                /\ PastDeadline(now, pendingOpenedMs[g])
                                /\ pendingLinks[g] # NoRoute}

\* The links whose opening time a sweep of these routes clears.
KnownEverywhere(routes) == Links
Known(routes) == {toGlobal[r] : r \in routes}

\* up(): enter a new link in all four maps.  The mutant reads nextGlobal again
\* after its increment for one of them.
MintUnevenly(r, g) ==
    /\ nextGlobal' = g + 1
    /\ toGlobal' = [toGlobal EXCEPT ![r] = g + 1]
    /\ fromGlobal' = [fromGlobal EXCEPT ![g] = r]
    /\ pendingLinks' = [pendingLinks EXCEPT ![g] = r]
    /\ pendingOpenedMs' = [pendingOpenedMs EXCEPT ![g] = clock]
Mint(r, g) ==
    /\ nextGlobal' = g + 1
    /\ toGlobal' = [toGlobal EXCEPT ![r] = g]
    /\ fromGlobal' = [fromGlobal EXCEPT ![g] = r]
    /\ pendingLinks' = [pendingLinks EXCEPT ![g] = r]
    /\ pendingOpenedMs' = [pendingOpenedMs EXCEPT ![g] = clock]

\* markSecured(): the link leaves the pending maps.
EndPendingNever(g) == UNCHANGED <<pendingLinks, pendingOpenedMs>>
EndPending(g) ==
    /\ pendingLinks' = [pendingLinks EXCEPT ![g] = NoRoute]
    /\ pendingOpenedMs' = [pendingOpenedMs EXCEPT ![g] = NotPending]

\* stopAndTearDown(): the bearer's links leave the routing maps.  The mutants
\* clear only one of the two.
DropLocalsOnly(b) ==
    /\ toGlobal' = [r \in Routes |-> IF r[1] = b THEN NoLink ELSE toGlobal[r]]
    /\ fromGlobal' = fromGlobal
DropGlobalsOnly(b) ==
    /\ toGlobal' = toGlobal
    /\ fromGlobal' = [g \in Links |-> IF g \in LinksOf(b) THEN NoRoute ELSE fromGlobal[g]]
DropLinks(b) ==
    /\ toGlobal' = [r \in Routes |-> IF r[1] = b THEN NoLink ELSE toGlobal[r]]
    /\ fromGlobal' = [g \in Links |-> IF g \in LinksOf(b) THEN NoRoute ELSE fromGlobal[g]]

\* down(): forget one link in all four maps.  The mutants leave an entry.
ForgetButFrom(r) ==
    /\ toGlobal' = [toGlobal EXCEPT ![r] = NoLink]
    /\ EndPending(toGlobal[r])
    /\ UNCHANGED <<nextGlobal, fromGlobal>>
ForgetButTo(r) ==
    /\ fromGlobal' = [fromGlobal EXCEPT ![toGlobal[r]] = NoRoute]
    /\ EndPending(toGlobal[r])
    /\ UNCHANGED <<nextGlobal, toGlobal>>
Forget(r) ==
    /\ toGlobal' = [toGlobal EXCEPT ![r] = NoLink]
    /\ fromGlobal' = [fromGlobal EXCEPT ![toGlobal[r]] = NoRoute]
    /\ EndPending(toGlobal[r])
    /\ nextGlobal' = nextGlobal

\* What the sink makes of a linkUp or a linkDown for a link it sees as v.
AfterUp(v) == IF v = "none" THEN "up" ELSE "ghost"
AfterDown(v) == IF v = "none" THEN "early"
                ELSE IF v = "up" THEN "down" ELSE "twice"

\* A bearer can call back once its sink is set, before it is appended even.
HasSink(b) == b \in bearers \/ \E h \in Hosts : pc[h] = "append" /\ cur[h] = b

\* A loop over the bearers in w goes on at p, or returns to the caller.
Continue(w, p) == IF w = {} THEN "idle" ELSE p
Goto(t, p) == pc' = [pc EXCEPT ![t] = p]
-----------------------------------------------------------------------------
(* The lane of bearer b: its Lane object calls up, bytes and down.  Link   *)
(* ids are unique per connection, the contract of LinkId.                  *)

\* up() of a link the bearer may surface: mint an id, then call the sink.
Up(b, l) ==
    /\ pc[b] = "idle" /\ HasSink(b) /\ <<b, l>> \notin used /\ Accepts(b)
    /\ nextGlobal \in Links
    /\ Mint(<<b, l>>, nextGlobal)
    /\ used' = used \cup {<<b, l>>}
    /\ out' = [out EXCEPT ![b] = nextGlobal]
    /\ Goto(b, "inUp")
    /\ UNCHANGED <<registry, running, clock, consumer, work, cur, route, expired, downs>>

\* up() of a link whose transport is disabled or stopped: dropped.
UpRefused(b, l) ==
    /\ pc[b] = "idle" /\ HasSink(b) /\ <<b, l>> \notin used /\ ~Accepts(b)
    /\ used' = used \cup {<<b, l>>}
    /\ UNCHANGED <<registry, maps, running, clock, consumer, pc, locals>>

\* sink?.linkUp
DeliverUp(b) ==
    /\ pc[b] = "inUp"
    /\ seen' = [seen EXCEPT ![out[b]] = AfterUp(@)]
    /\ out' = [out EXCEPT ![b] = NoLink]
    /\ Goto(b, "idle")
    /\ UNCHANGED <<registry, maps, transport, secured, work, cur, route, expired, downs>>

\* bytes(): look the link up, then call the sink.
Bytes(b, l) ==
    LET r == <<b, l>> IN
    /\ pc[b] = "idle" /\ r \in used /\ toGlobal[r] # NoLink
    /\ out' = [out EXCEPT ![b] = toGlobal[r]]
    /\ Goto(b, "inBytes")
    /\ UNCHANGED <<registry, maps, transport, consumer, work, cur, route, expired, downs>>

\* sink?.linkBytes
DeliverBytes(b) ==
    /\ pc[b] = "inBytes"
    /\ out' = [out EXCEPT ![b] = NoLink]
    /\ Goto(b, "idle")
    /\ UNCHANGED <<registry, maps, transport, consumer, work, cur, route, expired, downs>>

\* down(): forget the link, then call the sink (DeliverDown).  The mutant
\* never calls it.
DownSilently(b, l) ==
    LET r == <<b, l>> IN
    /\ pc[b] = "idle" /\ r \in used /\ toGlobal[r] # NoLink
    /\ Forget(r)
    /\ UNCHANGED <<registry, transport, consumer, pc, locals>>
Down(b, l) ==
    LET r == <<b, l>> IN
    /\ pc[b] = "idle" /\ r \in used /\ toGlobal[r] # NoLink
    /\ Forget(r)
    /\ downs' = [downs EXCEPT ![b] = {toGlobal[r]}]
    /\ Goto(b, "inDown")
    /\ UNCHANGED <<registry, transport, consumer, work, cur, route, expired, out>>

\* Where a thread goes on when its last linkDown has returned.
AfterDowns(t) == IF pc[t] = "inDown" THEN "idle"
                 ELSE IF pc[t] = "downing" THEN Continue(work[t], "disabling")
                 ELSE Continue(expired[t], "closing")

\* sink?.linkDown for the lowest id thread t has taken off the maps: down()
\* holds one, stopAndTearDown() its orphans in id order.
DeliverDown(t) ==
    /\ pc[t] \in {"inDown", "downing", "sweepDown"}
    /\ \E g \in downs[t] :
        /\ \A other \in downs[t] : g <= other
        /\ seen' = [seen EXCEPT ![g] = AfterDown(@)]
        /\ downs' = [downs EXCEPT ![t] = @ \ {g}]
        /\ pc' = IF downs[t] = {g} THEN [pc EXCEPT ![t] = AfterDowns(t)] ELSE pc
    /\ UNCHANGED <<registry, maps, transport, secured, work, cur, route, expired, out>>
-----------------------------------------------------------------------------
(* The hosts: enablement and life cycle. *)

Idle(h, op) == pc[h] = "idle" /\ op \in HostOps

\* setEnabled(n, true) of a disabled name: start its bearers if started.
Enable(h, n) ==
    /\ Idle(h, "setEnabled") /\ n \in disabledNames
    /\ disabledNames' = disabledNames \ {n}
    /\ work' = [work EXCEPT ![h] = ToStart(n)]
    /\ Goto(h, Continue(ToStart(n), "starting"))
    /\ UNCHANGED <<bearers, stoppedBearers, started, maps, transport, consumer,
                   cur, route, expired, downs, out>>

\* setEnabled(n, false) of an enabled name: stop and tear down its bearers.
Disable(h, n) ==
    /\ Idle(h, "setEnabled") /\ n \notin disabledNames
    /\ disabledNames' = disabledNames \cup {n}
    /\ work' = [work EXCEPT ![h] = Matching(n)]
    /\ Goto(h, Continue(Matching(n), "disabling"))
    /\ UNCHANGED <<bearers, stoppedBearers, started, maps, transport, consumer,
                   cur, route, expired, downs, out>>

\* start(): the enabled bearers of the moment, one critical section.
Start(h) ==
    /\ Idle(h, "startStop")
    /\ started' = TRUE
    /\ work' = [work EXCEPT ![h] = Live]
    /\ Goto(h, Continue(Live, "starting"))
    /\ UNCHANGED <<bearers, stoppedBearers, disabledNames, maps, transport, consumer,
                   cur, route, expired, downs, out>>

\* stop(): the flag in one critical section, snapshotBearers() in the next.
Stop(h) ==
    /\ Idle(h, "startStop")
    /\ started' = FALSE
    /\ Goto(h, "snapshot")
    /\ UNCHANGED <<bearers, stoppedBearers, disabledNames, maps, transport, consumer, locals>>

Snapshot(h) ==
    /\ pc[h] = "snapshot"
    /\ work' = [work EXCEPT ![h] = bearers]
    /\ Goto(h, Continue(bearers, "stopping"))
    /\ UNCHANGED <<registry, maps, transport, consumer, cur, route, expired, downs, out>>

\* Thread h takes bearer b off its loop and calls into it, now at p.
Enter(h, b, p) ==
    /\ work' = [work EXCEPT ![h] = @ \ {b}]
    /\ cur' = [cur EXCEPT ![h] = b]
    /\ Goto(h, p)

\* do_start(): the mark under the lock, then b.start() without it.
MarkStarted(h) ==
    /\ pc[h] = "starting"
    /\ \E b \in work[h] : /\ Enter(h, b, "inStart")
                          /\ stoppedBearers' = stoppedBearers \ {b}
    /\ UNCHANGED <<bearers, disabledNames, started, maps, transport, consumer,
                   route, expired, downs, out>>

BearerStarts(h) ==
    /\ pc[h] = "inStart"
    /\ running' = running \cup {cur[h]}
    /\ cur' = [cur EXCEPT ![h] = NoBearer]
    /\ Goto(h, Continue(work[h], "starting"))
    /\ UNCHANGED <<registry, maps, used, clock, consumer, work, route, expired, downs, out>>

\* do_stop(): the mark under the lock, then b.stop() without it.
MarkStopped(h) ==
    /\ pc[h] \in {"stopping", "disabling"}
    /\ \E b \in work[h] :
        /\ Enter(h, b, IF pc[h] = "stopping" THEN "inStop" ELSE "inDisable")
        /\ stoppedBearers' = stoppedBearers \cup {b}
    /\ UNCHANGED <<bearers, disabledNames, started, maps, transport, consumer,
                   route, expired, downs, out>>

\* b.stop() returns to the loop of stop().
BearerStops(h) ==
    /\ pc[h] = "inStop"
    /\ running' = running \ {cur[h]}
    /\ cur' = [cur EXCEPT ![h] = NoBearer]
    /\ Goto(h, Continue(work[h], "stopping"))
    /\ UNCHANGED <<registry, maps, used, clock, consumer, work, route, expired, downs, out>>

\* b.stop() returns to stopAndTearDown().
BearerStopsForTearDown(h) ==
    /\ pc[h] = "inDisable"
    /\ running' = running \ {cur[h]}
    /\ Goto(h, "tearing")
    /\ UNCHANGED <<registry, maps, used, clock, consumer, locals>>

\* stopAndTearDown(): take the bearer's links off the two routing maps.  The
\* pre-authentication maps keep their entries.
TearDown(h) ==
    LET orphans == LinksOf(cur[h]) IN
    /\ pc[h] = "tearing"
    /\ DropLinks(cur[h])
    /\ downs' = [downs EXCEPT ![h] = orphans]
    /\ cur' = [cur EXCEPT ![h] = NoBearer]
    /\ Goto(h, IF orphans = {} THEN Continue(work[h], "disabling") ELSE "downing")
    /\ UNCHANGED <<registry, nextGlobal, pendingLinks, pendingOpenedMs, transport,
                   consumer, work, route, expired, out>>
-----------------------------------------------------------------------------
(* The hosts: registration, sending and the pre-authentication deadline. *)

\* register(): the lane becomes the bearer's sink before, and outside, the
\* critical section that appends the bearer.
Register(h, b) ==
    /\ Idle(h, "register") /\ ~HasSink(b)
    /\ cur' = [cur EXCEPT ![h] = b]
    /\ Goto(h, "append")
    /\ UNCHANGED <<registry, maps, transport, consumer, work, route, expired, downs, out>>

Append(h) ==
    /\ pc[h] = "append"
    /\ bearers' = bearers \cup {cur[h]}
    /\ cur' = [cur EXCEPT ![h] = NoBearer]
    /\ Goto(h, "idle")
    /\ UNCHANGED <<disabledNames, stoppedBearers, started, maps, transport, consumer,
                   work, route, expired, downs, out>>

\* send(): look the route up under the lock, call the bearer without it.
Send(h, g) ==
    /\ Idle(h, "send") /\ fromGlobal[g] # NoRoute
    /\ route' = [route EXCEPT ![h] = fromGlobal[g]]
    /\ Goto(h, "inSend")
    /\ UNCHANGED <<registry, maps, transport, consumer, work, cur, expired, downs, out>>

\* markSecured(): the link needs no deadline any more; tell its bearer.
MarkSecured(h, g) ==
    LET r == IF pendingLinks[g] # NoRoute THEN pendingLinks[g] ELSE fromGlobal[g] IN
    /\ Idle(h, "markSecured") /\ seen[g] # "none"
    /\ EndPending(g)
    /\ secured' = secured \cup {g}
    /\ route' = [route EXCEPT ![h] = r]
    /\ Goto(h, IF r = NoRoute THEN "idle" ELSE "inSecured")
    /\ UNCHANGED <<registry, nextGlobal, toGlobal, fromGlobal, transport, seen,
                   work, cur, expired, downs, out>>

\* b.send() or b.authenticated() has run on the bearer and returns.
BearerReturns(h) ==
    /\ pc[h] \in {"inSend", "inSecured"}
    /\ route' = [route EXCEPT ![h] = NoRoute]
    /\ Goto(h, "idle")
    /\ UNCHANGED <<registry, maps, transport, consumer, work, cur, expired, downs, out>>

\* checkPreauthDeadlines(nowMs()): take the expired routes off the pending
\* maps.  An opening time is cleared only where toGlobal knows the route.
CheckPreauthDeadlines(h) ==
    LET late == Expiring(clock)
        routes == {pendingLinks[g] : g \in late} IN
    /\ Idle(h, "preauth") /\ late # {}
    /\ pendingLinks' = [g \in Links |-> IF g \in late THEN NoRoute ELSE pendingLinks[g]]
    /\ pendingOpenedMs' = [g \in Links |-> IF g \in Known(routes) THEN NotPending
                                                          ELSE pendingOpenedMs[g]]
    /\ expired' = [expired EXCEPT ![h] = routes]
    /\ Goto(h, "closing")
    /\ UNCHANGED <<registry, nextGlobal, toGlobal, fromGlobal, transport, consumer,
                   work, cur, route, downs, out>>

\* b.close(l) of one expired route, in any order.
Close(h) ==
    /\ pc[h] = "closing"
    /\ \E r \in expired[h] : /\ route' = [route EXCEPT ![h] = r]
                             /\ expired' = [expired EXCEPT ![h] = @ \ {r}]
    /\ Goto(h, "inClose")
    /\ UNCHANGED <<registry, maps, transport, consumer, work, cur, downs, out>>

\* b.close(l) returns and the sweep itself downs the link, if it still is one.
CloseReturns(h) ==
    LET r == route[h] IN
    /\ pc[h] = "inClose"
    /\ route' = [route EXCEPT ![h] = NoRoute]
    /\ IF toGlobal[r] = NoLink
       THEN /\ Goto(h, Continue(expired[h], "closing"))
            /\ UNCHANGED <<maps, downs>>
       ELSE /\ Forget(r)
            /\ downs' = [downs EXCEPT ![h] = {toGlobal[r]}]
            /\ Goto(h, "sweepDown")
    /\ UNCHANGED <<registry, transport, consumer, work, cur, expired, out>>

\* The wall clock advances, or is set back.
Tick ==
    /\ clock' \in {clock - 1, clock + 1} \cap Clock
    /\ UNCHANGED <<registry, maps, used, running, consumer, pc, locals>>
-----------------------------------------------------------------------------
\* A new call of a host, and the next step of a call in progress.
HostCall(h) ==
    \/ Start(h) \/ Stop(h)
    \/ \E n \in Names : Enable(h, n) \/ Disable(h, n)
    \/ \E b \in Bearers : Register(h, b)
    \/ \E g \in Links : Send(h, g) \/ MarkSecured(h, g)
    \/ CheckPreauthDeadlines(h)

HostStep(h) ==
    \/ Snapshot(h) \/ Append(h) \/ MarkStarted(h) \/ BearerStarts(h)
    \/ MarkStopped(h) \/ BearerStops(h) \/ BearerStopsForTearDown(h) \/ TearDown(h)
    \/ BearerReturns(h) \/ Close(h) \/ CloseReturns(h)
    \/ DeliverDown(h)

LaneCall(b) == \E l \in Locals : Up(b, l) \/ UpRefused(b, l) \/ Bytes(b, l) \/ Down(b, l)

LaneStep(b) == DeliverUp(b) \/ DeliverBytes(b) \/ DeliverDown(b)

HostNext(h) == HostCall(h) \/ HostStep(h)
LaneNext(b) == LaneCall(b) \/ LaneStep(b)

Next == \/ \E h \in Hosts : HostNext(h)
        \/ \E b \in Bearers : LaneNext(b)
        \/ Tick

\* Threads interleave freely.
Spec == Init /\ [][Next]_vars

\* A call in progress returns: threads are scheduled, bearers and sinks return.
FairSpec == /\ Spec
            /\ \A h \in Hosts : WF_vars(HostStep(h))
            /\ \A b \in Bearers : WF_vars(LaneStep(b))

\* One thread, as in the tests and the smoke programs: a call runs to its end,
\* but for the callbacks a bearer makes while it is being called.
InBearer == {"inStart", "inStop", "inDisable", "inSend", "inSecured", "inClose"}
Alone(t) == \A u \in Threads \ {t} :
                pc[u] = "idle" \/ (t \in Bearers /\ pc[u] \in InBearer)

SerialNext == \/ \E h \in Hosts : Alone(h) /\ HostNext(h)
              \/ \E b \in Bearers : Alone(b) /\ LaneNext(b)
              \/ Tick

SerialSpec == Init /\ [][SerialNext]_vars
=============================================================================
