------------------------- MODULE BearerManagerProofs -------------------------
(***************************************************************************)
(* Proofs, for every set of bearers, hosts, locals and names, of the       *)
(* safety properties the runs of MCBearerManager check on small ones.      *)
(***************************************************************************)
EXTENDS BearerProperties, TLAPS

\* Where a host's code has a bearer, or a route, in hand.
ControlOK ==
    /\ \A h \in Hosts :
        /\ pc[h] \in {"append", "inStart", "inStop", "inDisable", "tearing"} => cur[h] \in Bearers
        /\ pc[h] = "inClose" => route[h] \in Routes

TypeInv == TypeOK /\ ControlOK

LEMMA TypeInit == Init => TypeInv
<1> SUFFICES ASSUME Init PROVE TypeInv
  OBVIOUS
<1> USE ConstantsOK DEF Init, TypeOK
<1>1. bearers \subseteq Bearers /\ nextGlobal \in BaseLinkId .. (BaseLinkId + MaxLinks)
  OBVIOUS
<1>2. /\ toGlobal \in [Routes -> Links \cup {NoLink}]
      /\ fromGlobal \in [Links -> Routes \cup {NoRoute}]
      /\ pendingLinks \in [Links -> Routes \cup {NoRoute}]
      /\ pendingOpenedMs \in [Links -> Clock \cup {NotPending}]
  OBVIOUS
<1>3. disabledNames \subseteq Names /\ stoppedBearers \subseteq Bearers /\ started \in BOOLEAN
  OBVIOUS
<1>4. /\ used \subseteq Routes /\ running \subseteq Bearers /\ clock \in Clock
      /\ seen \in [Links -> LinkViews] /\ secured \subseteq Links
  BY DEF Clock, LinkViews
<1>5. /\ pc \in [Threads -> HostPCs \cup LanePCs]
      /\ \A h \in Hosts : pc[h] \in HostPCs
      /\ \A b \in Bearers : pc[b] \in LanePCs
  BY DEF Threads, HostPCs, LanePCs
<1>6. /\ work \in [Hosts -> SUBSET Bearers]
      /\ cur \in [Hosts -> Bearers \cup {NoBearer}]
      /\ route \in [Hosts -> Routes \cup {NoRoute}]
      /\ expired \in [Hosts -> SUBSET Routes]
      /\ downs \in [Threads -> SUBSET Links]
      /\ out \in [Bearers -> Links \cup {NoLink}]
  OBVIOUS
<1>7. ControlOK
  BY DEF ControlOK, Threads
<1>8. QED
  BY <1>1, <1>2, <1>3, <1>4, <1>5, <1>6, <1>7 DEF TypeInv

LEMMA LinksOfType ==
    ASSUME toGlobal \in [Routes -> Links \cup {NoLink}], NEW b \in Bearers
    PROVE  LinksOf(b) \subseteq Links
<1> SUFFICES ASSUME NEW g \in LinksOf(b) PROVE g \in Links
  OBVIOUS
<1>1. PICK l \in Locals : g = toGlobal[<<b, l>>] /\ g # NoLink
  BY DEF LinksOf
<1>2. <<b, l>> \in Routes
  BY DEF Routes
<1>3. QED
  BY <1>1, <1>2

LEMMA TypeStep == TypeInv /\ [Next]_vars => TypeInv'
<1> SUFFICES ASSUME TypeInv, [Next]_vars PROVE TypeInv'
  OBVIOUS
<1> USE ConstantsOK DEF TypeInv, TypeOK, ControlOK, registry, maps, transport, consumer,
      locals, Threads, HostPCs, LanePCs, Goto, Continue
<1>1. ASSUME NEW h \in Hosts, Start(h) PROVE TypeInv'
  BY <1>1 DEF Start, Idle, Live
<1>2. ASSUME NEW h \in Hosts, Stop(h) PROVE TypeInv'
  <2>1. pc' = [pc EXCEPT ![h] = "snapshot"] /\ started' = FALSE
    BY <1>2 DEF Stop
  <2>2. UNCHANGED <<bearers, stoppedBearers, disabledNames, maps, transport, consumer, locals>>
    BY <1>2 DEF Stop
  <2>3. pc' \in [Threads -> HostPCs \cup LanePCs] /\ started' \in BOOLEAN
    BY <2>1
  <2>4. \A k \in Hosts : pc'[k] \in HostPCs
    BY <2>1
  <2>5. \A b \in Bearers : pc'[b] \in LanePCs
    BY <2>1
  <2>6. ControlOK'
    BY <2>1, <2>2
  <2>7. QED
    BY <2>2, <2>3, <2>4, <2>5, <2>6
<1>3. ASSUME NEW h \in Hosts, Snapshot(h) PROVE TypeInv'
  BY <1>3 DEF Snapshot
<1>4. ASSUME NEW h \in Hosts, Append(h) PROVE TypeInv'
  BY <1>4 DEF Append
<1>5. ASSUME NEW h \in Hosts, MarkStarted(h) PROVE TypeInv'
  BY <1>5 DEF MarkStarted, Enter
<1>6. ASSUME NEW h \in Hosts, BearerStarts(h) PROVE TypeInv'
  BY <1>6 DEF BearerStarts
<1>7. ASSUME NEW h \in Hosts, MarkStopped(h) PROVE TypeInv'
  BY <1>7 DEF MarkStopped, Enter
<1>8. ASSUME NEW h \in Hosts, BearerStops(h) PROVE TypeInv'
  BY <1>8 DEF BearerStops
<1>9. ASSUME NEW h \in Hosts, BearerStopsForTearDown(h) PROVE TypeInv'
  BY <1>9 DEF BearerStopsForTearDown
<1>10. ASSUME NEW h \in Hosts, TearDown(h) PROVE TypeInv'
  <2>1. LinksOf(cur[h]) \subseteq Links
    BY <1>10, LinksOfType DEF TearDown
  <2>2. toGlobal' \in [Routes -> Links \cup {NoLink}] /\ fromGlobal' \in [Links -> Routes \cup {NoRoute}]
    BY <1>10 DEF TearDown, DropLinks
  <2>3. downs' \in [Threads -> SUBSET Links] /\ cur' \in [Hosts -> Bearers \cup {NoBearer}]
    BY <1>10, <2>1 DEF TearDown
  <2>4. \E p \in {"idle", "disabling", "downing"} :
           pc' = [pc EXCEPT ![h] = p] /\ cur' = [cur EXCEPT ![h] = NoBearer]
    BY <1>10 DEF TearDown
  <2>5. QED
    BY <1>10, <2>2, <2>3, <2>4 DEF TearDown
<1>11. ASSUME NEW h \in Hosts, BearerReturns(h) PROVE TypeInv'
  BY <1>11 DEF BearerReturns
<1>12. ASSUME NEW h \in Hosts, Close(h) PROVE TypeInv'
  BY <1>12 DEF Close
<1>13. ASSUME NEW h \in Hosts, CloseReturns(h) PROVE TypeInv'
  <2>1. route[h] \in Routes
    BY <1>13 DEF CloseReturns
  <2>2. CASE toGlobal[route[h]] = NoLink
    BY <1>13, <2>2 DEF CloseReturns
  <2>3. CASE toGlobal[route[h]] # NoLink
    BY <1>13, <2>1, <2>3 DEF CloseReturns, Forget, EndPending
  <2>4. QED
    BY <2>2, <2>3
<1>14. ASSUME NEW h \in Hosts, CheckPreauthDeadlines(h) PROVE TypeInv'
  BY <1>14 DEF CheckPreauthDeadlines, Idle, Expiring, Known
<1>15. ASSUME NEW h \in Hosts, NEW n \in Names, Enable(h, n) PROVE TypeInv'
  BY <1>15 DEF Enable, Idle, ToStart, Matching
<1>16. ASSUME NEW h \in Hosts, NEW n \in Names, Disable(h, n) PROVE TypeInv'
  BY <1>16 DEF Disable, Idle, Matching
<1>17. ASSUME NEW h \in Hosts, NEW b \in Bearers, Register(h, b) PROVE TypeInv'
  BY <1>17 DEF Register, Idle
<1>18. ASSUME NEW h \in Hosts, NEW g \in Links, Send(h, g) PROVE TypeInv'
  BY <1>18 DEF Send, Idle
<1>19. ASSUME NEW h \in Hosts, NEW g \in Links, MarkSecured(h, g) PROVE TypeInv'
  BY <1>19 DEF MarkSecured, Idle, EndPending
<1>20. ASSUME NEW b \in Bearers, NEW l \in Locals, Up(b, l) PROVE TypeInv'
  BY <1>20 DEF Up, Mint, Routes, Links, Clock
<1>21. ASSUME NEW b \in Bearers, NEW l \in Locals, UpRefused(b, l) PROVE TypeInv'
  BY <1>21 DEF UpRefused, Routes
<1>22. ASSUME NEW b \in Bearers, NEW l \in Locals, Bytes(b, l) PROVE TypeInv'
  BY <1>22 DEF Bytes, Routes
<1>23. ASSUME NEW b \in Bearers, NEW l \in Locals, Down(b, l) PROVE TypeInv'
  BY <1>23 DEF Down, Forget, EndPending, Routes
<1>24. ASSUME NEW b \in Bearers, DeliverUp(b) PROVE TypeInv'
  BY <1>24 DEF DeliverUp, AfterUp, LinkViews
<1>25. ASSUME NEW b \in Bearers, DeliverBytes(b) PROVE TypeInv'
  BY <1>25 DEF DeliverBytes
<1>26. ASSUME NEW t \in Threads, DeliverDown(t) PROVE TypeInv'
  BY <1>26 DEF DeliverDown, AfterDowns, AfterDown, LinkViews
<1>27. ASSUME Tick PROVE TypeInv'
  BY <1>27 DEF Tick
<1>28. ASSUME UNCHANGED vars PROVE TypeInv'
  BY <1>28 DEF vars
<1>29. QED
  BY <1>1, <1>2, <1>3, <1>4, <1>5, <1>6, <1>7, <1>8, <1>9, <1>10, <1>11, <1>12, <1>13, <1>14, <1>15, <1>16, <1>17, <1>18, <1>19, <1>20, <1>21, <1>22, <1>23, <1>24, <1>25, <1>26, <1>27, <1>28
  DEF Next, HostNext, LaneNext, HostCall, HostStep, LaneCall, LaneStep

THEOREM TypeCorrect == Spec => []TypeOK
<1>1. TypeInv => TypeOK
  BY DEF TypeInv
<1>2. QED
  BY <1>1, TypeInit, TypeStep, PTL DEF Spec
-----------------------------------------------------------------------------
(* Every link is routed, held by one thread, or reported, and by one only. *)

\* A route in toGlobal was reported up by its bearer before.
RoutesUsed == \A r \in Routes : toGlobal[r] # NoLink => r \in used

\* The sink knows only links that were minted.
SeenMinted == \A g \in Links : seen[g] # "none" => Minted(g)

\* The linkUp of a link is pending on one lane, and was not delivered before.
UpOnce ==
    \A b \in Bearers : pc[b] = "inUp" =>
        /\ out[b] \in Links /\ Minted(out[b])
        /\ seen[out[b]] \in {"none", "early"}
        /\ \A c \in Bearers \ {b} : pc[c] = "inUp" => out[c] # out[b]

\* A thread holds removed links only while it is reporting them.
DownsHeld ==
    \A t \in Threads : downs[t] # {} => pc[t] \in {"inDown", "downing", "sweepDown"}

LinkInv == MapsInverse /\ OneReporter /\ RoutesUsed /\ SeenMinted /\ UpOnce /\ DownsHeld

IInv == TypeInv /\ LinkInv

\* A step that leaves the links, and the threads that hold some, alone.
QuietStep ==
    /\ UNCHANGED <<nextGlobal, toGlobal, fromGlobal, seen, downs>>
    /\ used \subseteq used'
    /\ \A b \in Bearers : pc'[b] = "inUp" => pc[b] = "inUp" /\ out'[b] = out[b]
    /\ \A t \in Threads : downs[t] # {} => pc'[t] = pc[t]

LEMMA LinkInit == Init => LinkInv
<1> SUFFICES ASSUME Init PROVE LinkInv
  OBVIOUS
<1> USE ConstantsOK DEF Init, NoLink
<1>1. MapsInverse
  <2> SUFFICES ASSUME NEW g \in Links, NEW r \in Routes
               PROVE  fromGlobal[g] = r <=> toGlobal[r] = g
    BY DEF MapsInverse
  <2>1. g # NoLink
    BY DEF Links
  <2>2. r # NoRoute
    BY DEF Routes
  <2>3. QED
    BY <2>1, <2>2
<1>2. OneReporter
  BY DEF OneReporter, Minted, Routed, Reported, Links
<1>3. RoutesUsed /\ SeenMinted /\ UpOnce /\ DownsHeld
  BY DEF RoutesUsed, SeenMinted, UpOnce, DownsHeld, Threads
<1>4. QED
  BY <1>1, <1>2, <1>3 DEF LinkInv

LEMMA LinkQuiet == LinkInv /\ QuietStep => LinkInv'
<1> SUFFICES ASSUME LinkInv, QuietStep PROVE LinkInv'
  OBVIOUS
<1> USE DEF LinkInv, QuietStep, Minted, Routed, Reported
<1>1. MapsInverse'
  BY DEF MapsInverse
<1>2. OneReporter'
  BY DEF OneReporter
<1>3. RoutesUsed' /\ SeenMinted'
  BY DEF RoutesUsed, SeenMinted
<1>4. UpOnce'
  BY DEF UpOnce
<1>5. DownsHeld'
  BY DEF DownsHeld
<1>6. QED
  BY <1>1, <1>2, <1>3, <1>4, <1>5

\* down() and the sweep: the link moves from the maps into the hands of thread t.
LEMMA LinkForget ==
    ASSUME IInv, NEW t \in Threads, NEW r \in Routes, NEW p \in {"inDown", "sweepDown"},
           toGlobal[r] # NoLink, downs[t] = {}, pc[t] # "inUp",
           Forget(r), UNCHANGED <<seen, out, used>>,
           downs' = [downs EXCEPT ![t] = {toGlobal[r]}],
           pc' = [pc EXCEPT ![t] = p]
    PROVE  LinkInv'
<1> DEFINE g == toGlobal[r]
<1> USE DEF IInv, LinkInv, Minted, Routed, Reported
<1>1. g \in Links /\ g # NoLink
  BY DEF TypeInv, TypeOK
<1>2. fromGlobal[g] = r /\ fromGlobal[g] # NoRoute
  BY <1>1, ConstantsOK DEF MapsInverse, Routes
<1>3. /\ toGlobal' = [toGlobal EXCEPT ![r] = NoLink]
      /\ fromGlobal' = [fromGlobal EXCEPT ![g] = NoRoute]
      /\ nextGlobal' = nextGlobal
  BY DEF Forget
<1>4. /\ toGlobal \in [Routes -> Links \cup {NoLink}]
      /\ fromGlobal \in [Links -> Routes \cup {NoRoute}]
      /\ downs \in [Threads -> SUBSET Links]
      /\ pc \in [Threads -> HostPCs \cup LanePCs]
  BY DEF TypeInv, TypeOK
<1>5. NoRoute \notin Routes /\ NoLink \notin Links
  BY ConstantsOK DEF Routes, Links, NoLink
<1>6. MapsInverse'
  <2> SUFFICES ASSUME NEW x \in Links, NEW s \in Routes
               PROVE  fromGlobal'[x] = s <=> toGlobal'[s] = x
    BY DEF MapsInverse
  <2>1. fromGlobal[x] = s <=> toGlobal[s] = x
    BY DEF MapsInverse
  <2>2. QED
    BY <1>1, <1>2, <1>3, <1>4, <1>5, <2>1
<1>7. OneReporter'
  <2> SUFFICES ASSUME NEW x \in Links PROVE OneReporter!(x)'
    BY DEF OneReporter
  <2>1. OneReporter!(x)
    BY DEF OneReporter
  <2>2. CASE x = g
    BY <1>1, <1>2, <1>3, <1>4, <2>1, <2>2
  <2>3. CASE x # g
    BY <1>3, <1>4, <2>1, <2>3
  <2>4. QED
    BY <2>2, <2>3
<1>8. RoutesUsed' /\ SeenMinted'
  BY <1>3, <1>4 DEF RoutesUsed, SeenMinted
<1>9. UpOnce'
  BY <1>3, <1>4 DEF UpOnce, Threads
<1>10. DownsHeld'
  BY <1>4 DEF DownsHeld
<1>11. QED
  BY <1>6, <1>7, <1>8, <1>9, <1>10

\* up(): the new link is routed, and its linkUp is pending on the lane.
LEMMA LinkUpStep == ASSUME IInv, NEW b \in Bearers, NEW l \in Locals, Up(b, l)
                    PROVE  LinkInv'
<1> DEFINE g == nextGlobal  r == <<b, l>>
<1> USE DEF IInv, LinkInv, Minted, Routed, Reported
<1>1. g \in Links /\ g \in Nat /\ r \in Routes /\ r \notin used /\ pc[b] = "idle"
  BY ConstantsOK DEF Up, Links, Routes
<1>2. /\ nextGlobal' = g + 1
      /\ toGlobal' = [toGlobal EXCEPT ![r] = g]
      /\ fromGlobal' = [fromGlobal EXCEPT ![g] = r]
      /\ used' = used \cup {r}
      /\ out' = [out EXCEPT ![b] = g]
      /\ pc' = [pc EXCEPT ![b] = "inUp"]
      /\ UNCHANGED <<seen, downs>>
  BY DEF Up, Mint, Goto, consumer
<1>3. /\ toGlobal \in [Routes -> Links \cup {NoLink}]
      /\ fromGlobal \in [Links -> Routes \cup {NoRoute}]
      /\ downs \in [Threads -> SUBSET Links]
      /\ pc \in [Threads -> HostPCs \cup LanePCs]
      /\ out \in [Bearers -> Links \cup {NoLink}]
      /\ seen \in [Links -> LinkViews]
  BY DEF TypeInv, TypeOK
<1>4. NoRoute \notin Routes /\ NoLink \notin Links /\ Links \subseteq Int
  BY ConstantsOK DEF Routes, Links, NoLink
<1>5. toGlobal[r] = NoLink /\ fromGlobal[g] = NoRoute /\ seen[g] = "none"
  BY <1>1, <1>3 DEF RoutesUsed, OneReporter, SeenMinted
<1>6. MapsInverse'
  <2> SUFFICES ASSUME NEW x \in Links, NEW s \in Routes
               PROVE  fromGlobal'[x] = s <=> toGlobal'[s] = x
    BY DEF MapsInverse
  <2>1. fromGlobal[x] = s <=> toGlobal[s] = x
    BY DEF MapsInverse
  <2>2. QED
    BY <1>1, <1>2, <1>3, <1>4, <1>5, <2>1
<1>7. OneReporter'
  <2> SUFFICES ASSUME NEW x \in Links PROVE OneReporter!(x)'
    BY DEF OneReporter
  <2>1. OneReporter!(x)
    BY DEF OneReporter
  <2>2. CASE x = g
    BY <1>1, <1>2, <1>3, <1>4, <1>5, <2>1, <2>2
  <2>3. CASE x # g
    BY <1>1, <1>2, <1>3, <1>4, <2>1, <2>3
  <2>4. QED
    BY <2>2, <2>3
<1>8. RoutesUsed'
  BY <1>1, <1>2, <1>3 DEF RoutesUsed
<1>9. SeenMinted'
  BY <1>1, <1>2, <1>4 DEF SeenMinted
<1>10. UpOnce'
  <2>1. \A c \in Bearers \ {b} : pc'[c] = pc[c] /\ out'[c] = out[c]
    BY <1>2, <1>3
  <2>2. pc'[b] = "inUp" /\ out'[b] = g
    BY <1>2, <1>3 DEF Threads
  <2>3. \A c \in Bearers \ {b} : pc[c] = "inUp" => out[c] \in Links /\ out[c] < g
    BY DEF UpOnce
  <2>4. \A c \in Bearers \ {b} : pc'[c] = "inUp" => out'[c] # out'[b]
    BY <1>1, <1>4, <2>1, <2>2, <2>3
  <2>5. g < nextGlobal' /\ \A x \in Links : x < nextGlobal => x < nextGlobal'
    BY <1>1, <1>2, <1>4
  <2> SUFFICES ASSUME NEW c \in Bearers, pc'[c] = "inUp"
               PROVE  /\ out'[c] \in Links /\ out'[c] < nextGlobal'
                      /\ seen'[out'[c]] \in {"none", "early"}
                      /\ \A d \in Bearers \ {c} : pc'[d] = "inUp" => out'[d] # out'[c]
    BY DEF UpOnce
  <2>6. CASE c = b
    BY <1>1, <1>2, <1>5, <2>2, <2>4, <2>5, <2>6
  <2>7. CASE c # b
    <3>1. pc[c] = "inUp" /\ out'[c] = out[c]
      BY <2>1, <2>7
    <3>2. out[c] \in Links /\ out[c] < nextGlobal /\ seen[out[c]] \in {"none", "early"}
      BY <3>1 DEF UpOnce
    <3>3. out'[c] \in Links /\ out'[c] < nextGlobal' /\ seen'[out'[c]] \in {"none", "early"}
      BY <1>2, <2>5, <3>1, <3>2
    <3>4. \A d \in Bearers \ {b, c} : pc'[d] = "inUp" => out'[d] # out'[c]
      BY <2>1, <3>1 DEF UpOnce
    <3>5. out'[b] # out'[c]
      BY <2>2, <2>4, <2>7
    <3>6. QED
      BY <3>1, <3>3, <3>4, <3>5
  <2>8. QED
    BY <2>6, <2>7
<1>11. DownsHeld'
  BY <1>1, <1>2, <1>3 DEF DownsHeld
<1>12. QED
  BY <1>6, <1>7, <1>8, <1>9, <1>10, <1>11

\* sink?.linkUp: the link was unseen, or downed already.
LEMMA LinkDeliverUp == ASSUME IInv, NEW b \in Bearers, DeliverUp(b)
                       PROVE  LinkInv'
<1> DEFINE g == out[b]
<1> USE DEF IInv, LinkInv, Minted, Routed, Reported
<1>1. /\ g \in Links /\ Minted(g) /\ seen[g] \in {"none", "early"}
      /\ \A c \in Bearers \ {b} : pc[c] = "inUp" => out[c] # g
  BY DEF DeliverUp, UpOnce
<1>2. /\ seen' = [seen EXCEPT ![g] = AfterUp(seen[g])]
      /\ out' = [out EXCEPT ![b] = NoLink]
      /\ pc' = [pc EXCEPT ![b] = "idle"]
      /\ UNCHANGED <<nextGlobal, toGlobal, fromGlobal, used, downs>>
  BY DEF DeliverUp, Goto, maps, transport
<1>3. /\ seen \in [Links -> LinkViews]
      /\ out \in [Bearers -> Links \cup {NoLink}]
      /\ pc \in [Threads -> HostPCs \cup LanePCs]
  BY DEF TypeInv, TypeOK
<1>4. /\ seen'[g] = (IF seen[g] = "none" THEN "up" ELSE "ghost")
      /\ \A x \in Links \ {g} : seen'[x] = seen[x]
  BY <1>1, <1>2, <1>3 DEF AfterUp
<1>5. MapsInverse' /\ RoutesUsed' /\ SeenMinted'
  BY <1>1, <1>2, <1>4 DEF MapsInverse, RoutesUsed, SeenMinted
<1>6. OneReporter'
  BY <1>1, <1>2, <1>4 DEF OneReporter
<1>7. UpOnce'
  BY <1>1, <1>2, <1>3, <1>4 DEF UpOnce, Threads
<1>8. DownsHeld'
  BY <1>2, <1>3, pc[b] = "inUp" DEF DownsHeld, DeliverUp
<1>9. QED
  BY <1>5, <1>6, <1>7, <1>8

\* sink?.linkDown: from the hands of thread t to the consumer.
LEMMA LinkDeliverDown == ASSUME IInv, NEW t \in Threads, DeliverDown(t)
                         PROVE  LinkInv'
<1> USE DEF IInv, LinkInv, Minted, Routed, Reported
<1>1. PICK g \in downs[t] :
        /\ seen' = [seen EXCEPT ![g] = AfterDown(seen[g])]
        /\ downs' = [downs EXCEPT ![t] = downs[t] \ {g}]
        /\ pc' = IF downs[t] = {g} THEN [pc EXCEPT ![t] = AfterDowns(t)] ELSE pc
  BY DEF DeliverDown
<1>2. /\ pc[t] \in {"inDown", "downing", "sweepDown"}
      /\ UNCHANGED <<nextGlobal, toGlobal, fromGlobal, used, out>>
  BY DEF DeliverDown, maps, transport
<1>3. /\ seen \in [Links -> LinkViews]
      /\ downs \in [Threads -> SUBSET Links]
      /\ pc \in [Threads -> HostPCs \cup LanePCs]
      /\ g \in Links
  BY DEF TypeInv, TypeOK
<1>4. OneReporter!(g)
  BY <1>3 DEF OneReporter
<1>5. seen[g] \in {"none", "up"} /\ Minted(g) /\ ~Routed(g)
  BY <1>1, <1>3, <1>4 DEF LinkViews
<1>6. /\ seen'[g] = (IF seen[g] = "none" THEN "early" ELSE "down")
      /\ \A x \in Links \ {g} : seen'[x] = seen[x]
  BY <1>1, <1>3, <1>5 DEF AfterDown
<1>7. /\ downs'[t] = downs[t] \ {g}
      /\ \A u \in Threads \ {t} : downs'[u] = downs[u] /\ g \notin downs[u]
      /\ \A u \in Threads \ {t} : pc'[u] = pc[u]
  BY <1>1, <1>3, <1>4
<1>8. AfterDowns(t) \in {"idle", "disabling", "closing"}
  BY DEF AfterDowns, Continue
<1>9. MapsInverse' /\ RoutesUsed' /\ SeenMinted'
  BY <1>2, <1>5, <1>6 DEF MapsInverse, RoutesUsed, SeenMinted
<1>10. OneReporter'
  <2> SUFFICES ASSUME NEW x \in Links PROVE OneReporter!(x)'
    BY DEF OneReporter
  <2>1. OneReporter!(x)
    BY DEF OneReporter
  <2>2. CASE x = g
    BY <1>2, <1>5, <1>6, <1>7, <2>2
  <2>3. CASE x # g
    BY <1>2, <1>6, <1>7, <2>1, <2>3
  <2>4. QED
    BY <2>2, <2>3
<1>11. UpOnce'
  <2>1. \A c \in Bearers : pc'[c] = "inUp" => pc[c] = "inUp"
    BY <1>1, <1>3, <1>7, <1>8 DEF Threads
  <2>2. QED
    BY <1>2, <1>5, <1>6, <2>1 DEF UpOnce
<1>12. DownsHeld'
  BY <1>1, <1>2, <1>3, <1>7, <1>8 DEF DownsHeld
<1>13. QED
  BY <1>9, <1>10, <1>11, <1>12

\* stopAndTearDown(): all links of a bearer move into the hands of host h.
LEMMA LinkTearDown == ASSUME IInv, NEW h \in Hosts, TearDown(h)
                      PROVE  LinkInv'
<1> DEFINE b == cur[h]  orphans == LinksOf(b)
<1> USE DEF IInv, LinkInv, Minted, Routed, Reported
<1>1. b \in Bearers /\ h \in Threads /\ h \notin Bearers /\ pc[h] = "tearing"
  BY ConstantsOK DEF TypeInv, ControlOK, TearDown, Threads
<1>2. /\ toGlobal \in [Routes -> Links \cup {NoLink}]
      /\ fromGlobal \in [Links -> Routes \cup {NoRoute}]
      /\ downs \in [Threads -> SUBSET Links]
      /\ pc \in [Threads -> HostPCs \cup LanePCs]
  BY DEF TypeInv, TypeOK
<1>3. /\ toGlobal' = [r \in Routes |-> IF r[1] = b THEN NoLink ELSE toGlobal[r]]
      /\ fromGlobal' = [g \in Links |-> IF g \in orphans THEN NoRoute ELSE fromGlobal[g]]
      /\ downs' = [downs EXCEPT ![h] = orphans]
      /\ UNCHANGED <<nextGlobal, seen, used, out>>
  BY DEF TearDown, DropLinks, consumer, transport
<1>4. PICK p \in {"idle", "disabling", "downing"} :
        pc' = [pc EXCEPT ![h] = p] /\ (orphans # {} => p = "downing")
  BY DEF TearDown, Goto, Continue
<1>5. NoRoute \notin Routes /\ NoLink \notin Links
  BY ConstantsOK DEF Routes, Links, NoLink
<1>6. orphans \subseteq Links /\ downs[h] = {}
  BY <1>1, <1>2, LinksOfType DEF DownsHeld
<1>7. \A g \in Links : g \in orphans <=> \E r \in Routes : r[1] = b /\ toGlobal[r] = g
  <2> SUFFICES ASSUME NEW g \in Links
               PROVE  g \in orphans <=> \E r \in Routes : r[1] = b /\ toGlobal[r] = g
    OBVIOUS
  <2>1. g \in orphans <=> \E l \in Locals : toGlobal[<<b, l>>] = g
    BY <1>5 DEF LinksOf
  <2>2. \A l \in Locals : <<b, l>> \in Routes /\ <<b, l>>[1] = b
    BY <1>1 DEF Routes
  <2>3. \A r \in Routes : r[1] = b => \E l \in Locals : r = <<b, l>>
    BY DEF Routes
  <2>4. QED
    BY <2>1, <2>2, <2>3
<1>8. \A g \in Links : g \in orphans <=> fromGlobal[g] # NoRoute /\ fromGlobal[g][1] = b
  BY <1>2, <1>5, <1>7 DEF MapsInverse
<1>9. MapsInverse'
  <2> SUFFICES ASSUME NEW x \in Links, NEW s \in Routes
               PROVE  fromGlobal'[x] = s <=> toGlobal'[s] = x
    BY DEF MapsInverse
  <2>1. fromGlobal[x] = s <=> toGlobal[s] = x
    BY DEF MapsInverse
  <2>2. QED
    BY <1>3, <1>5, <1>8, <2>1
<1>10. OneReporter'
  <2> SUFFICES ASSUME NEW x \in Links PROVE OneReporter!(x)'
    BY DEF OneReporter
  <2>1. OneReporter!(x)
    BY DEF OneReporter
  <2>2. /\ downs'[h] = orphans
        /\ \A u \in Threads \ {h} : downs'[u] = downs[u]
        /\ fromGlobal'[x] = IF x \in orphans THEN NoRoute ELSE fromGlobal[x]
    BY <1>1, <1>2, <1>3
  <2>3. CASE x \in orphans
    BY <1>1, <1>3, <1>8, <2>1, <2>2, <2>3
  <2>4. CASE x \notin orphans
    BY <1>1, <1>3, <1>6, <2>1, <2>2, <2>4
  <2>5. QED
    BY <2>3, <2>4
<1>11. RoutesUsed' /\ SeenMinted'
  BY <1>3 DEF RoutesUsed, SeenMinted
<1>12. UpOnce'
  BY <1>1, <1>2, <1>3, <1>4 DEF UpOnce, Threads
<1>13. DownsHeld'
  BY <1>1, <1>2, <1>3, <1>4 DEF DownsHeld
<1>14. QED
  BY <1>9, <1>10, <1>11, <1>12, <1>13

\* The steps that neither mint, remove nor report a link.
LEMMA QuietActions ==
    ASSUME IInv,
           \/ \E h \in Hosts :
                \/ Start(h) \/ Stop(h) \/ Snapshot(h) \/ Append(h)
                \/ MarkStarted(h) \/ BearerStarts(h) \/ MarkStopped(h) \/ BearerStops(h)
                \/ BearerStopsForTearDown(h) \/ BearerReturns(h) \/ Close(h)
                \/ CheckPreauthDeadlines(h)
                \/ \E n \in Names : Enable(h, n) \/ Disable(h, n)
                \/ \E b \in Bearers : Register(h, b)
                \/ \E g \in Links : Send(h, g) \/ MarkSecured(h, g)
           \/ \E b \in Bearers :
                DeliverBytes(b) \/ \E l \in Locals : UpRefused(b, l) \/ Bytes(b, l)
           \/ Tick \/ UNCHANGED vars
    PROVE  QuietStep
<1> USE ConstantsOK DEF QuietStep, IInv, LinkInv, TypeInv, TypeOK, DownsHeld, Threads,
      Goto, Continue, registry, maps, transport, consumer, locals
<1>1. ASSUME NEW h \in Hosts, Start(h) PROVE QuietStep
  BY <1>1 DEF Start, Idle
<1>2. ASSUME NEW h \in Hosts, Stop(h) PROVE QuietStep
  BY <1>2 DEF Stop, Idle
<1>3. ASSUME NEW h \in Hosts, Snapshot(h) PROVE QuietStep
  BY <1>3 DEF Snapshot
<1>4. ASSUME NEW h \in Hosts, Append(h) PROVE QuietStep
  BY <1>4 DEF Append
<1>5. ASSUME NEW h \in Hosts, MarkStarted(h) PROVE QuietStep
  BY <1>5 DEF MarkStarted, Enter
<1>6. ASSUME NEW h \in Hosts, BearerStarts(h) PROVE QuietStep
  BY <1>6 DEF BearerStarts
<1>7. ASSUME NEW h \in Hosts, MarkStopped(h) PROVE QuietStep
  BY <1>7 DEF MarkStopped, Enter
<1>8. ASSUME NEW h \in Hosts, BearerStops(h) PROVE QuietStep
  BY <1>8 DEF BearerStops
<1>9. ASSUME NEW h \in Hosts, BearerStopsForTearDown(h) PROVE QuietStep
  BY <1>9 DEF BearerStopsForTearDown
<1>10. ASSUME NEW h \in Hosts, BearerReturns(h) PROVE QuietStep
  BY <1>10 DEF BearerReturns
<1>11. ASSUME NEW h \in Hosts, Close(h) PROVE QuietStep
  BY <1>11 DEF Close
<1>12. ASSUME NEW h \in Hosts, CheckPreauthDeadlines(h) PROVE QuietStep
  BY <1>12 DEF CheckPreauthDeadlines, Idle
<1>13. ASSUME NEW h \in Hosts, NEW n \in Names, Enable(h, n) PROVE QuietStep
  BY <1>13 DEF Enable, Idle
<1>14. ASSUME NEW h \in Hosts, NEW n \in Names, Disable(h, n) PROVE QuietStep
  BY <1>14 DEF Disable, Idle
<1>15. ASSUME NEW h \in Hosts, NEW b \in Bearers, Register(h, b) PROVE QuietStep
  BY <1>15 DEF Register, Idle
<1>16. ASSUME NEW h \in Hosts, NEW g \in Links, Send(h, g) PROVE QuietStep
  BY <1>16 DEF Send, Idle
<1>17. ASSUME NEW h \in Hosts, NEW g \in Links, MarkSecured(h, g) PROVE QuietStep
  BY <1>17 DEF MarkSecured, Idle
<1>18. ASSUME NEW b \in Bearers, NEW l \in Locals, UpRefused(b, l) PROVE QuietStep
  BY <1>18 DEF UpRefused
<1>19. ASSUME NEW b \in Bearers, NEW l \in Locals, Bytes(b, l) PROVE QuietStep
  BY <1>19 DEF Bytes
<1>20. ASSUME NEW b \in Bearers, DeliverBytes(b) PROVE QuietStep
  BY <1>20 DEF DeliverBytes
<1>21. ASSUME Tick PROVE QuietStep
  BY <1>21 DEF Tick
<1>22. ASSUME UNCHANGED vars PROVE QuietStep
  BY <1>22 DEF vars
<1>23. QED
  BY <1>1, <1>2, <1>3, <1>4, <1>5, <1>6, <1>7, <1>8, <1>9, <1>10, <1>11,
     <1>12, <1>13, <1>14, <1>15, <1>16, <1>17, <1>18, <1>19, <1>20, <1>21, <1>22

LEMMA LinkStep == IInv /\ [Next]_vars => LinkInv'
<1> SUFFICES ASSUME IInv, [Next]_vars PROVE LinkInv'
  OBVIOUS
<1>1. ASSUME QuietStep PROVE LinkInv'
  BY <1>1, LinkQuiet DEF IInv
<1>2. ASSUME NEW b \in Bearers, NEW l \in Locals, Down(b, l) PROVE LinkInv'
  <2>1. /\ b \in Threads /\ <<b, l>> \in Routes /\ toGlobal[<<b, l>>] # NoLink
        /\ downs[b] = {} /\ pc[b] = "idle" /\ Forget(<<b, l>>)
    BY <1>2 DEF Down, Threads, Routes, IInv, LinkInv, DownsHeld
  <2>2. /\ UNCHANGED <<seen, out, used>>
        /\ downs' = [downs EXCEPT ![b] = {toGlobal[<<b, l>>]}]
        /\ pc' = [pc EXCEPT ![b] = "inDown"]
    BY <1>2 DEF Down, Goto, consumer, transport
  <2>3. QED
    BY <2>1, <2>2, LinkForget
<1>3. ASSUME NEW h \in Hosts, CloseReturns(h) PROVE LinkInv'
  <2>1. /\ h \in Threads /\ h \notin Bearers
        /\ pc[h] = "inClose" /\ downs[h] = {} /\ route[h] \in Routes
    BY <1>3, ConstantsOK
    DEF CloseReturns, Threads, IInv, LinkInv, DownsHeld, TypeInv, ControlOK
  <2>2. CASE toGlobal[route[h]] = NoLink
    <3>1. QuietStep
      BY <1>3, <2>1, <2>2, ConstantsOK
      DEF CloseReturns, Goto, Continue, QuietStep, IInv, TypeInv, TypeOK, Threads,
          maps, transport, consumer
    <3>2. QED
      BY <3>1, <1>1
  <2>3. CASE toGlobal[route[h]] # NoLink
    <3>1. /\ Forget(route[h]) /\ UNCHANGED <<seen, out, used>>
          /\ downs' = [downs EXCEPT ![h] = {toGlobal[route[h]]}]
          /\ pc' = [pc EXCEPT ![h] = "sweepDown"]
      BY <1>3, <2>3 DEF CloseReturns, Goto, consumer, transport
    <3>2. QED
      BY <2>1, <2>3, <3>1, LinkForget
  <2>4. QED
    BY <2>2, <2>3
<1>4. QED
  BY <1>1, <1>2, <1>3, QuietActions, LinkUpStep, LinkDeliverUp, LinkDeliverDown, LinkTearDown
  DEF Next, HostNext, LaneNext, HostCall, HostStep, LaneCall, LaneStep, Threads

THEOREM LinkInvariant == Spec => []IInv
<1>1. Init => IInv
  BY TypeInit, LinkInit DEF IInv
<1>2. IInv /\ [Next]_vars => IInv'
  BY TypeStep, LinkStep DEF IInv
<1>3. QED
  BY <1>1, <1>2, PTL DEF Spec

\* Sends and bytes are routed consistently, whichever threads interleave.
THEOREM RoutingConsistent == Spec => []MapsInverse
<1>1. IInv => MapsInverse
  BY DEF IInv, LinkInv
<1>2. QED
  BY <1>1, LinkInvariant, PTL

\* Exactly one linkDown is made for every link that is taken off the maps.
THEOREM ReportedOnce == Spec => []OneReporter
<1>1. IInv => OneReporter
  BY DEF IInv, LinkInv
<1>2. QED
  BY <1>1, LinkInvariant, PTL
=============================================================================
