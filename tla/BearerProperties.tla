--------------------------- MODULE BearerProperties ---------------------------
(***************************************************************************)
(* What the registry and multiplexer of BearerManager must guarantee.      *)
(***************************************************************************)
EXTENDS BearerManager

\* Every variable of the model keeps its type (the fields of BearerManager,
\* the lookup results its methods carry across an unlock, the observers).
TypeOK ==
    /\ bearers \subseteq Bearers
    /\ nextGlobal \in BaseLinkId .. (BaseLinkId + MaxLinks)
    /\ toGlobal \in [Routes -> Links \cup {NoLink}]
    /\ fromGlobal \in [Links -> Routes \cup {NoRoute}]
    /\ pendingLinks \in [Links -> Routes \cup {NoRoute}]
    /\ pendingOpenedMs \in [Links -> Clock \cup {NotPending}]
    /\ disabledNames \subseteq Names
    /\ stoppedBearers \subseteq Bearers
    /\ started \in BOOLEAN
    /\ used \subseteq Routes /\ running \subseteq Bearers /\ clock \in Clock
    /\ seen \in [Links -> LinkViews] /\ secured \subseteq Links
    /\ pc \in [Threads -> HostPCs \cup LanePCs]
    /\ \A h \in Hosts : pc[h] \in HostPCs
    /\ \A b \in Bearers : pc[b] \in LanePCs
    /\ work \in [Hosts -> SUBSET Bearers]
    /\ cur \in [Hosts -> Bearers \cup {NoBearer}]
    /\ route \in [Hosts -> Routes \cup {NoRoute}]
    /\ expired \in [Hosts -> SUBSET Routes]
    /\ downs \in [Threads -> SUBSET Links]
    /\ out \in [Bearers -> Links \cup {NoLink}]

Minted(g) == g < nextGlobal
Routed(g) == fromGlobal[g] # NoRoute
Reported(g) == seen[g] \in {"down", "early", "ghost"}
AllIdle == \A t \in Threads : pc[t] = "idle"
-----------------------------------------------------------------------------
(* Safety, whatever the interleaving. *)

\* toGlobal and fromGlobal are inverse to each other at every unlock, whichever
\* of up, down, stopAndTearDown and the sweep ran last: a send on a global id
\* reaches the bearer whose bytes arrive under that id.
MapsInverse ==
    \A g \in Links, r \in Routes : fromGlobal[g] = r <=> toGlobal[r] = g

\* Exactly one linkDown per link: a link up() minted is at every moment either
\* routed, or in the hands of exactly one thread that removed it and has yet to
\* call linkDown, or reported down once.  So a bearer's own down, a disable and
\* the deadline sweep that race for a link never report it twice or lose it.
OneReporter ==
    \A g \in Links :
        /\ seen[g] # "twice"
        /\ \A t, u \in Threads : g \in downs[t] /\ g \in downs[u] => t = u
        /\ (\E t \in Threads : g \in downs[t]) => Minted(g) /\ ~Routed(g) /\ ~Reported(g)
        /\ Routed(g) => Minted(g) /\ ~Reported(g)
        /\ Minted(g) => Routed(g) \/ Reported(g) \/ \E t \in Threads : g \in downs[t]

\* Host h is disabling bearer b and has yet to tear its links down.
TearDownDue(h, b) ==
    \/ b \in work[h] /\ pc[h] \in {"disabling", "inDisable", "tearing", "downing"}
    \/ b = cur[h] /\ pc[h] \in {"inDisable", "tearing"}

\* activeTransports() agrees with bearerStates(): a link still routed over a
\* bearer whose name is disabled is one that some setEnabled(name, false) in
\* progress is about to tear down.  No toggle, restart or late callback puts a
\* disabled transport back into fromGlobal.  Said of the bearers registered before
\* the threads run: a disable that runs between the two steps of a register()
\* misses a link which that bearer has reported already.
DisabledIsTornDown ==
    \A g \in Links : Routed(g) =>
        LET b == fromGlobal[g][1] IN
        b \in Registered /\ NameOf[b] \in disabledNames => \E h \in Hosts : TearDownDue(h, b)

\* The consumer gets bytes only for a link whose linkUp it has been given, even
\* though linkUp is called after the lock that published the link is released.
BytesAfterUp ==
    [][\A b \in Bearers : DeliverBytes(b) => seen[out[b]] \in {"up", "down", "ghost"}]_vars

\* The sweep of host h has taken route r and has yet to close and down it.
SweepHolds(h, r) == r \in expired[h] \/ (pc[h] = "inClose" /\ route[h] = r)

\* No unauthenticated link escapes the pre-authentication deadline: a routed
\* link nobody secured still has its deadline entry, unless a sweep holds it.
NoLinkEscapesDeadline ==
    \A g \in Links : Routed(g) /\ g \notin secured =>
        \/ pendingLinks[g] = fromGlobal[g] /\ pendingOpenedMs[g] # NotPending
        \/ \E h \in Hosts : SweepHolds(h, fromGlobal[g])

\* The sweep only takes links that are past the deadline by its clock, though that
\* may have been set back since they opened, and that no markSecured has reached.
SweepSparesSecured ==
    [][\A h \in Hosts, g \in Links :
          pc[h] = "idle" /\ pc'[h] = "closing" /\ pendingLinks'[g] # pendingLinks[g]
          => g \notin secured /\ clock > pendingOpenedMs[g] + Deadline]_vars
-----------------------------------------------------------------------------
(* Liveness: threads are scheduled, and calls into bearers and sinks return. *)

\* A link that left the routing map has been, or will be, reported to the
\* consumer as up and as down, whoever removed it.
RemovedIsReported ==
    \A g \in Links : (Minted(g) /\ ~Routed(g)) ~> seen[g] \in {"down", "ghost"}
-----------------------------------------------------------------------------
(* One thread: what the tests and the doc comments promise between calls. *)

\* The consumer's table of live links is the manager's table between calls.
ConsumerMatchesRoutes ==
    AllIdle => \A g \in Links : seen[g] \in {"up", "ghost"} <=> Routed(g)

\* An enabled transport of a started manager is not muted between calls.
EnabledIsNotMuted ==
    AllIdle /\ started =>
        \A b \in bearers : NameOf[b] \notin disabledNames => b \notin stoppedBearers

\* The radio of a disabled transport does not run between calls, across any
\* sequence of registrations, restarts and toggles.
DisabledStaysDown ==
    AllIdle => \A b \in bearers : NameOf[b] \in disabledNames => b \notin running

\* No radio runs between calls while the manager is stopped: re-enabling a
\* transport then waits for start().
StoppedStaysDown == AllIdle /\ ~started => running \cap bearers = {}

\* The consumer gets bytes only for links that are up as it sees them.
BytesOnlyWhileUp == [][\A b \in Bearers : DeliverBytes(b) => seen[out[b]] = "up"]_vars

\* A link id comes up once, goes down once and is not used again.
Contract == INSTANCE LinkContract WITH
                link <- [g \in Links |-> IF seen[g] = "none" THEN "unused" ELSE seen[g]]
ImplementsLinkContract == Contract!LinkSpec
-----------------------------------------------------------------------------
(* What the documentation states and concurrent callers can see broken. *)

\* setEnabled's comment: the moment a disabling call has returned, no bearer
\* under this name can surface a new link to the consumer.
NoLinkUpOnceDisabled ==
    [][\A b \in Bearers : DeliverUp(b) /\ NameOf[b] \in disabledNames
                          => \E h \in Hosts : pc[h] # "idle"]_vars

\* "A global id whose bearer was disabled must not route": send and markSecured
\* call into a bearer only for a link that is still routed.
TornDownNeverRoutes ==
    [][\A h \in Hosts : pc[h] = "idle" /\ pc'[h] \in {"inSend", "inSecured"}
                        => \E g \in Links : fromGlobal[g] = route'[h]]_vars
=============================================================================
