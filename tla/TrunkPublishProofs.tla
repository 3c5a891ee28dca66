-------------------------- MODULE TrunkPublishProofs --------------------------
(***************************************************************************)
(* Proofs about TrunkPublish, for any runs, tags, versions, missing        *)
(* podspecs and number of CDN checks.                                      *)
(***************************************************************************)
EXTENDS TrunkPublish, Integers, TLAPS

\* A run that has got past a pod has seen it on the CDN, one that awaits a pod
\* or is done has seen it on trunk, and a run that got anywhere has the version
\* of its tag.  What makes the dependency order inductive: the CDN only grows.
ProgressOf(r) ==
    /\ pc[r] \in Busy \cup {"done"} =>
         /\ manifest[r] = TagOf[r]
         /\ index[r] >= 2 => <<"CHop", manifest[r]>> \in cdn
         /\ index[r] = 3 => <<"HopContract", manifest[r]>> \in cdn
    /\ pc[r] = "await" => Release(r) \in published /\ index[r] < 3 /\ checks[r] < Attempts
    /\ pc[r] \in Busy \ {"await"} => checks[r] = 0
    /\ pc[r] = "done" => Release(r) \in published /\ index[r] = 3

Progress == \A r \in Runs : ProgressOf(r)

PInv == PublishTypeOK /\ Progress /\ LeavesReadableFirst /\ OnlyTagsPublished

LEMMA OrderFacts ==
    /\ Len(Order) = 3
    /\ Order[1] = "CHop" /\ Order[2] = "HopContract" /\ Order[3] = "HopSDK"
    /\ Deps("HopSDK") = {"CHop", "HopContract"}
    /\ \A k \in 1 .. 3 : Order[k] \in Pods
BY DEF Order, Deps, Pods

LEMMA PInit == Init => PInv
BY PublishOK, OrderFacts
DEF Init, PInv, PublishTypeOK, Progress, ProgressOf, LeavesReadableFirst, OnlyTagsPublished, Busy

\* What a run about to push knows of its pod: the leaves of HopSDK are readable.
LEMMA MayPush ==
    ASSUME PInv, NEW r \in Runs, pc[r] \in Busy
    PROVE  /\ Release(r) \in Pods \X Versions
           /\ manifest[r] = TagOf[r]
           /\ Pod(r) = "HopSDK" => \A d \in Deps("HopSDK") : <<d, manifest[r]>> \in cdn
<1>1. index[r] \in 1 .. 3 /\ manifest[r] \in Versions /\ manifest[r] = TagOf[r]
    BY OrderFacts DEF PInv, PublishTypeOK, Progress, ProgressOf
<1>2. Pod(r) \in Pods /\ (Pod(r) = "HopSDK" => index[r] = 3)
  <2>1. CASE index[r] = 1
      BY <2>1, OrderFacts DEF Pod
  <2>2. CASE index[r] = 2
      BY <2>2, OrderFacts DEF Pod
  <2>3. CASE index[r] = 3
      BY <2>3, OrderFacts DEF Pod
  <2>4. QED
      BY <1>1, <2>1, <2>2, <2>3
<1>3. index[r] = 3 => <<"CHop", manifest[r]>> \in cdn /\ <<"HopContract", manifest[r]>> \in cdn
    BY <1>1 DEF PInv, Progress, ProgressOf, Busy
<1>4. Release(r) \in Pods \X Versions
    BY <1>1, <1>2 DEF Release
<1>5. QED
    BY <1>1, <1>2, <1>3, <1>4, OrderFacts

\* Adding the release of a run about to push keeps the dependency order.
LEMMA PushKeepsOrder ==
    ASSUME PInv, NEW r \in Runs, pc[r] \in Busy, cdn' = cdn,
           published' \in {published, published \cup {Release(r)}}
    PROVE  /\ LeavesReadableFirst' /\ OnlyTagsPublished'
           /\ cdn' \subseteq published' /\ published' \subseteq Pods \X Versions
<1> DEFINE x == Release(r)
<1>1. x[1] = Pod(r) /\ x[2] = manifest[r]
    BY DEF Release
<1>2. LeavesReadableFirst'
  <2> SUFFICES ASSUME NEW v \in Versions, <<"HopSDK", v>> \in published', NEW d \in Deps("HopSDK")
               PROVE  <<d, v>> \in cdn
      BY DEF LeavesReadableFirst
  <2>1. CASE <<"HopSDK", v>> \in published
      BY <2>1 DEF PInv, LeavesReadableFirst
  <2>2. CASE <<"HopSDK", v>> = Release(r)
      BY <2>2, MayPush DEF Release
  <2>3. QED
      BY <2>1, <2>2
<1>3. OnlyTagsPublished'
    BY <1>1, MayPush DEF PInv, OnlyTagsPublished
<1>4. cdn' \subseteq published' /\ published' \subseteq Pods \X Versions
    BY MayPush DEF PInv, PublishTypeOK
<1>5. QED
    BY <1>2, <1>3, <1>4

LEMMA PStep == PInv /\ [Next]_vars => PInv'
<1> SUFFICES ASSUME PInv, [Next]_vars PROVE PInv'
    OBVIOUS
<1> USE PublishOK, OrderFacts DEF PInv, PublishTypeOK, Progress, ProgressOf, LeavesReadableFirst,
        OnlyTagsPublished, Busy, Goto, Release, Pod, registry, Pods
<1>1. ASSUME NEW r \in Runs, Begin(r) PROVE PInv'
    BY <1>1 DEF Begin, VersionAgrees, Complete
<1>2. ASSUME NEW r \in Runs, CheckSpec(r) PROVE PInv'
    BY <1>2 DEF CheckSpec
<1>3. ASSUME NEW r \in Runs, Query(r) PROVE PInv'
  <2>0. pc[r] = "query"
      BY <1>3 DEF Query
  <2>1. index[r] \in 1 .. 3 /\ checks[r] = 0 /\ 0 < Attempts
    <3>1. index[r] \in 1 .. 3
        OBVIOUS
    <3>2. checks[r] = 0
        BY <2>0
    <3>3. 0 < Attempts
        BY PublishOK
    <3>4. QED
        BY <3>1, <3>2, <3>3
  <2>2. \/ Release(r) \notin published /\ pc' = [pc EXCEPT ![r] = "push"]
        \/ Release(r) \in published /\ index[r] = 3 /\ pc' = [pc EXCEPT ![r] = "done"]
        \/ Release(r) \in published /\ index[r] < 3 /\ pc' = [pc EXCEPT ![r] = "await"]
    <3>1. pc' = [pc EXCEPT ![r] = IF Release(r) \in published THEN AfterPublished(r) ELSE "push"]
        BY <1>3 DEF Query
    <3>2. AfterPublished(r) = IF index[r] = 3 THEN "done" ELSE "await"
        BY DEF AfterPublished
    <3>3. CASE Release(r) \notin published
        BY <3>1, <3>3
    <3>4. CASE Release(r) \in published /\ index[r] = 3
        BY <3>1, <3>2, <3>4
    <3>5. CASE Release(r) \in published /\ index[r] # 3
      <4>1. index[r] < 3
          BY <2>1, <3>5
      <4>2. QED
          BY <3>1, <3>2, <3>5, <4>1
    <3>6. QED
        BY <3>3, <3>4, <3>5
  <2>3. UNCHANGED <<manifest, published, cdn, index, checks, pushed, rerun>>
      BY <1>3 DEF Query
  <2>4. Progress'
    <3> SUFFICES ASSUME NEW q \in Runs PROVE ProgressOf(q)'
        BY DEF Progress
    <3>1. CASE q # r
        BY <2>2, <2>3, <3>1
    <3>2. CASE q = r
        BY <2>0, <2>1, <2>2, <2>3, <3>2
    <3>3. QED
        BY <3>1, <3>2
  <2>5. PublishTypeOK'
      BY <2>2, <2>3
  <2>6. QED
      BY <2>3, <2>4, <2>5
<1>4. ASSUME NEW r \in Runs, Push(r) PROVE PInv'
  <2>1. LeavesReadableFirst' /\ OnlyTagsPublished'
        /\ cdn' \subseteq published' /\ published' \subseteq Pods \X Versions
      BY <1>4, PushKeepsOrder DEF Push
  <2>2. PublishTypeOK'
      BY <1>4, <2>1 DEF Push
  <2>3. Progress'
      BY <1>4 DEF Push
  <2>4. QED
      BY <2>1, <2>2, <2>3
<1>5. ASSUME NEW r \in Runs, Readback(r) PROVE PInv'
    BY <1>5 DEF Readback, Verdict, AfterPublished
<1>6. ASSUME NEW r \in Runs, Readable(r) PROVE PInv'
  <2>0. pc[r] = "await" /\ index[r] < 3 /\ index[r] \in 1 .. 3
      BY <1>6 DEF Readable
  <2>1. index[r] \in 1 .. 2 /\ manifest[r] = TagOf[r] /\ Release(r) \in cdn
    <3>1. index[r] \in 1 .. 2
        BY <2>0
    <3>2. manifest[r] = TagOf[r]
        BY <2>0
    <3>3. Release(r) \in cdn
        BY <1>6 DEF Readable, OnCDN
    <3>4. QED
        BY <3>1, <3>2, <3>3
  <2>2. PublishTypeOK'
    <3>1. index' \in [Runs -> 1 .. 3]
        BY <1>6, <2>1 DEF Readable
    <3>2. checks' \in [Runs -> 0 .. Attempts]
        BY <1>6 DEF Readable
    <3>3. QED
        BY <1>6, <3>1, <3>2 DEF Readable
  <2>3. ASSUME index[r] = 1 PROVE <<"CHop", manifest[r]>> \in cdn
      BY <2>1, <2>3
  <2>4. ASSUME index[r] = 2
        PROVE  <<"CHop", manifest[r]>> \in cdn /\ <<"HopContract", manifest[r]>> \in cdn
      BY <1>6, <2>1, <2>4 DEF Readable
  <2>5. Progress'
    <3> SUFFICES ASSUME NEW q \in Runs PROVE ProgressOf(q)'
        BY DEF Progress
    <3>1. CASE q # r
        BY <1>6, <3>1 DEF Readable
    <3>2. CASE q = r
      <4>1. pc'[r] = "spec" /\ checks'[r] = 0 /\ index'[r] = index[r] + 1
            /\ manifest' = manifest /\ cdn' = cdn
          BY <1>6 DEF Readable
      <4>2. CASE index[r] = 1
          BY <2>1, <2>3, <3>2, <4>1, <4>2
      <4>3. CASE index[r] = 2
          BY <2>1, <2>4, <3>2, <4>1, <4>3
      <4>4. QED
          BY <2>1, <4>2, <4>3
    <3>3. QED
        BY <3>1, <3>2
  <2>6. QED
      BY <1>6, <2>2, <2>5 DEF Readable
<1>7. ASSUME NEW r \in Runs, NotYet(r) PROVE PInv'
  <2>0. checks[r] \in 0 .. Attempts /\ checks[r] < Attempts /\ Attempts \in Nat
      BY <1>7 DEF NotYet
  <2>1. checks' \in [Runs -> 0 .. Attempts]
    <3>1. checks[r] + 1 \in 0 .. Attempts
        BY <2>0
    <3>2. checks' = [checks EXCEPT ![r] = checks[r] + 1]
        BY <1>7 DEF NotYet, Counted
    <3>3. QED
        BY <3>1, <3>2
  <2>2. PublishTypeOK'
      BY <1>7, <2>1 DEF NotYet
  <2>3. Progress'
      BY <1>7 DEF NotYet, Counted
  <2>4. QED
      BY <1>7, <2>2, <2>3 DEF NotYet
<1>8. ASSUME NEW r \in Runs, FetchFails(r) PROVE PInv'
    BY <1>8 DEF FetchFails, OnFailure
<1>9. ASSUME NEW r \in Runs, PushIsLost(r) PROVE PInv'
    BY <1>9 DEF PushIsLost
<1>10. ASSUME NEW r \in Runs, PushFails(r) PROVE PInv'
  <2>1. LeavesReadableFirst' /\ OnlyTagsPublished'
        /\ cdn' \subseteq published' /\ published' \subseteq Pods \X Versions
      BY <1>10, PushKeepsOrder DEF PushFails
  <2>2. PublishTypeOK'
      BY <1>10, <2>1 DEF PushFails
  <2>3. Progress'
      BY <1>10 DEF PushFails
  <2>4. QED
      BY <2>1, <2>2, <2>3
<1>11. ASSUME NEW r \in Runs, Cancel(r) PROVE PInv'
    BY <1>11 DEF Cancel
<1>12. ASSUME NEW r \in Runs, RunAgain(r) PROVE PInv'
    BY <1>12 DEF RunAgain
<1>13. ASSUME NEW x \in published, Propagate(x) PROVE PInv'
    BY <1>13 DEF Propagate
<1>14. CASE UNCHANGED vars
    BY <1>14 DEF vars
<1>15. QED
    BY <1>1, <1>2, <1>3, <1>4, <1>5, <1>6, <1>7, <1>8, <1>9, <1>10, <1>11, <1>12,
       <1>13, <1>14 DEF Next, Step, Fault

\* The invariant of the publisher: the strengthening above, in every state.
THEOREM PublishInvariant == Spec => []PInv
<1>1. Init => PInv
    BY PInit
<1>2. PInv /\ [Next]_vars => PInv'
    BY PStep
<1>3. QED
    BY <1>1, <1>2, PTL DEF Spec

\* Every variable of the publisher keeps its type: no run looks past the end of
\* PUBLISH_ORDER, or at the CDN more often than --cdn-attempts.
THEOREM PublishTypeCorrect == Spec => []PublishTypeOK
<1>1. PInv => PublishTypeOK
    BY DEF PInv
<1>2. QED
    BY <1>1, PublishInvariant, PTL

\* HopSDK lands on trunk only after both pods it depends on are readable from
\* the CDN at its version, however many runs overlap, fail and are run again.
THEOREM LeavesFirst == Spec => []LeavesReadableFirst
<1>1. PInv => LeavesReadableFirst
    BY DEF PInv
<1>2. QED
    BY <1>1, PublishInvariant, PTL

\* No pod is ever published at a version that is not the tag of a run.
THEOREM OnlyTags == Spec => []OnlyTagsPublished
<1>1. PInv => OnlyTagsPublished
    BY DEF PInv
<1>2. QED
    BY <1>1, PublishInvariant, PTL

\* A run that reports success has all three pods of its tag on trunk: the last
\* one read back, the first two read from the CDN on the way.
THEOREM DoneMeansPublished == Spec => []DoneIsPublished
<1>1. PInv => DoneIsPublished
  <2> SUFFICES ASSUME PInv, NEW r \in Runs, pc[r] = "done", NEW pod \in Pods
               PROVE  <<pod, TagOf[r]>> \in published
      BY DEF DoneIsPublished, Complete
  <2>1. index[r] = 3 /\ Release(r) \in published /\ manifest[r] = TagOf[r]
        /\ <<"CHop", TagOf[r]>> \in published /\ <<"HopContract", TagOf[r]>> \in published
    <3>1. index[r] = 3 /\ Release(r) \in published /\ manifest[r] = TagOf[r]
        BY DEF PInv, Progress, ProgressOf
    <3>2. <<"CHop", TagOf[r]>> \in cdn /\ <<"HopContract", TagOf[r]>> \in cdn
        BY <3>1 DEF PInv, Progress, ProgressOf
    <3>3. QED
        BY <3>1, <3>2 DEF PInv, PublishTypeOK
  <2>2. Release(r) = <<"HopSDK", TagOf[r]>>
      BY <2>1, OrderFacts DEF Release, Pod
  <2>3. QED
      BY <2>1, <2>2 DEF Pods
<1>2. QED
    BY <1>1, PublishInvariant, PTL
-----------------------------------------------------------------------------
\* A run of a release that was complete when it began is never at a push, and no
\* run has pushed anything before it begins.
Rerun(r) ==
    /\ pc[r] = "ready" => \A pod \in Pods : <<r, pod>> \notin pushed
    /\ rerun[r] =>
         /\ Complete(manifest[r]) /\ pc[r] \notin {"push", "readback"}
         /\ \A pod \in Pods : <<r, pod>> \notin pushed

RerunInv == \A r \in Runs : Rerun(r)

\* Pods stay published, and only a run at "push" pushes.
LEMMA RegistryGrows ==
    ASSUME PInv, [Next]_vars
    PROVE  /\ published \subseteq published' /\ manifest' = manifest
           /\ \A r \in Runs, pod \in Pods :
                <<r, pod>> \in pushed' => <<r, pod>> \in pushed \/ pc[r] = "push"
<1> USE DEF registry
<1>1. ASSUME NEW q \in Runs, Push(q) \/ PushIsLost(q) \/ PushFails(q)
      PROVE  /\ published \subseteq published' /\ manifest' = manifest
             /\ pushed' = pushed \cup {<<q, Pod(q)>>} /\ pc[q] = "push"
    BY <1>1 DEF Push, PushIsLost, PushFails
<1>2. ASSUME NEW q \in Runs, \/ Begin(q) \/ CheckSpec(q) \/ Query(q) \/ Readback(q)
                             \/ Readable(q) \/ NotYet(q) \/ FetchFails(q) \/ Cancel(q)
                             \/ RunAgain(q)
      PROVE  published' = published /\ manifest' = manifest /\ pushed' \subseteq pushed
    BY <1>2 DEF Begin, CheckSpec, Query, Readback, Readable, NotYet, FetchFails, Cancel, RunAgain
<1>3. (\E x \in published : Propagate(x)) \/ UNCHANGED vars
      => published' = published /\ manifest' = manifest /\ pushed' \subseteq pushed
    BY DEF Propagate, vars
<1>4. QED
    BY <1>1, <1>2, <1>3 DEF Next, Step, Fault

\* The steps of the other runs, and of the CDN, leave a run where it is.
LEMMA OtherRuns ==
    ASSUME PInv, [Next]_vars, NEW r \in Runs, ~(Step(r) \/ Fault(r) \/ RunAgain(r))
    PROVE  pc'[r] = pc[r] /\ rerun'[r] = rerun[r]
<1> USE DEF PInv, PublishTypeOK, Goto
<1>1. ASSUME NEW q \in Runs, q # r, Step(q) \/ Fault(q) \/ RunAgain(q)
      PROVE  pc'[r] = pc[r] /\ rerun'[r] = rerun[r]
    BY <1>1 DEF Step, Fault, Begin, CheckSpec, Query, Push, Readback, Readable, NotYet,
                FetchFails, PushIsLost, PushFails, Cancel, RunAgain
<1>2. (\E x \in published : Propagate(x)) \/ UNCHANGED vars
      => pc'[r] = pc[r] /\ rerun'[r] = rerun[r]
    BY DEF Propagate, vars
<1>3. QED
    BY <1>1, <1>2 DEF Next

LEMMA RerunStep == ASSUME PInv, RerunInv, [Next]_vars PROVE RerunInv'
<1> SUFFICES ASSUME NEW r \in Runs PROVE Rerun(r)'
    BY DEF RerunInv
<1>1. Rerun(r)
    BY DEF RerunInv
<1>2. Complete(manifest[r]) => Complete(manifest[r])'
    BY RegistryGrows DEF Complete
<1>3. \A pod \in Pods : <<r, pod>> \in pushed' => <<r, pod>> \in pushed \/ pc[r] = "push"
    BY RegistryGrows
<1> USE DEF Rerun, PInv, PublishTypeOK, Goto
<1>4. CASE ~(Step(r) \/ Fault(r) \/ RunAgain(r))
    BY <1>1, <1>2, <1>3, <1>4, OtherRuns
<1>5. CASE Begin(r)
    BY <1>1, <1>2, <1>3, <1>5 DEF Begin
<1>6. CASE Query(r)
  <2>1. pc[r] = "query" /\ rerun' = rerun /\ Release(r) \in Pods \X {manifest[r]}
    <3>1. pc[r] = "query" /\ rerun' = rerun
        BY <1>6 DEF Query
    <3>2. QED
        BY <3>1, MayPush DEF Busy, Release
  <2>2. rerun[r] => Release(r) \in published
      BY <1>1, <2>1 DEF Complete
  <2>3. pc'[r] # "ready" /\ (Release(r) \in published => pc'[r] \notin {"push", "readback"})
      BY <1>6 DEF Query, AfterPublished
  <2>4. QED
      BY <1>1, <1>2, <1>3, <2>1, <2>2, <2>3
<1>7. CASE RunAgain(r)
    BY <1>1, <1>2, <1>7 DEF RunAgain
<1>8. CASE CheckSpec(r) \/ Readable(r) \/ NotYet(r) \/ FetchFails(r) \/ Cancel(r)
    BY <1>1, <1>2, <1>3, <1>8
    DEF CheckSpec, Readable, NotYet, FetchFails, OnFailure, Cancel, Busy
<1>9. CASE Push(r) \/ PushIsLost(r) \/ PushFails(r)
    BY <1>1, <1>9 DEF Push, PushIsLost, PushFails
<1>10. CASE Readback(r)
    BY <1>1, <1>3, <1>10 DEF Readback, Verdict, AfterPublished
<1>11. QED
    BY <1>4, <1>5, <1>6, <1>7, <1>8, <1>9, <1>10 DEF Step, Fault

\* Running a released tag again pushes nothing, whatever fails on the way and
\* whatever other runs do meanwhile.
THEOREM RerunsPushNothing == Spec => []RerunPushesNothing
<1>1. Init => RerunInv
    BY DEF Init, RerunInv, Rerun
<1>2. RerunInv => RerunPushesNothing
    BY DEF RerunInv, Rerun, RerunPushesNothing
<1>3. QED
    BY <1>1, <1>2, RerunStep, PublishInvariant, PTL DEF Spec
-----------------------------------------------------------------------------
\* A bound on the steps that run r has left: those of the pod it deals with, the
\* checks of the CDN included, and those of the pods after it.
PerPod == Attempts + 4
OnThisPod(r) ==
    CASE pc[r] = "spec" -> PerPod
      [] pc[r] = "query" -> PerPod - 1
      [] pc[r] = "push" -> PerPod - 2
      [] pc[r] = "readback" -> PerPod - 3
      [] OTHER -> Attempts - checks[r]
StepsLeft(r) == (3 - index[r]) * PerPod + OnThisPod(r)

LEMMA StepsAreLeft ==
    ASSUME PInv, NEW r \in Runs, pc[r] \in Busy
    PROVE  StepsLeft(r) \in 1 .. 3 * PerPod
<1>1. /\ index[r] \in 1 .. 3 /\ checks[r] \in 0 .. Attempts /\ Attempts \in Nat \ {0}
      /\ pc[r] = "await" => checks[r] < Attempts
    BY OrderFacts, PublishOK DEF PInv, PublishTypeOK, Progress, ProgressOf
<1>2. OnThisPod(r) \in 1 .. PerPod /\ PerPod \in Nat
    BY <1>1 DEF OnThisPod, PerPod, Busy
<1>3. CASE index[r] = 1
    BY <1>2, <1>3 DEF StepsLeft
<1>4. CASE index[r] = 2
    BY <1>2, <1>4 DEF StepsLeft
<1>5. CASE index[r] = 3
    BY <1>2, <1>5 DEF StepsLeft
<1>6. QED
    BY <1>1, <1>3, <1>4, <1>5

\* Whatever a run does at one pod, short of going on to the next, costs a step.
LEMMA StepsShrink ==
    ASSUME PInv, PInv', NEW r \in Runs, pc[r] \in Busy, pc'[r] \in Busy,
           Step(r) \/ Fault(r) \/ RunAgain(r)
    PROVE  StepsLeft(r)' < StepsLeft(r)
<1> DEFINE i == index[r]  c == checks[r]
<1>1. /\ i \in 1 .. 3 /\ c \in 0 .. Attempts /\ Attempts \in Nat \ {0}
      /\ PerPod = Attempts + 4 /\ (pc[r] = "await" => i < 3 /\ c < Attempts)
      /\ OnThisPod(r) \in Nat
  <2>1. /\ i \in 1 .. 3 /\ c \in 0 .. Attempts /\ Attempts \in Nat \ {0}
        /\ (pc[r] = "await" => i < 3 /\ c < Attempts)
      BY OrderFacts, PublishOK DEF PInv, PublishTypeOK, Progress, ProgressOf
  <2>2. QED
      BY <2>1 DEF OnThisPod, PerPod, Busy
<1> USE DEF PInv, PublishTypeOK, Goto
<1>2. ASSUME index' = index, OnThisPod(r)' \in Int, OnThisPod(r)' < OnThisPod(r)
      PROVE  StepsLeft(r)' < StepsLeft(r)
  <2>1. (3 - i) * PerPod \in Int
      BY <1>1
  <2>2. QED
      BY <1>1, <1>2, <2>1 DEF StepsLeft, PerPod
<1>3. CASE CheckSpec(r)
    BY <1>1, <1>2, <1>3 DEF CheckSpec, OnThisPod, PerPod, Busy
<1>4. CASE Query(r)
  <2>1. pc[r] = "query" /\ pc'[r] \in {"push", "await"} /\ UNCHANGED <<index, checks>>
      BY <1>4 DEF Query, AfterPublished, Busy
  <2>2. QED
      BY <1>1, <1>2, <2>1 DEF OnThisPod, PerPod
<1>5. CASE Push(r) \/ PushIsLost(r)
    BY <1>1, <1>2, <1>5 DEF Push, PushIsLost, OnThisPod, PerPod
<1>6. CASE Readback(r)
  <2>1. pc[r] = "readback" /\ pc'[r] = "await" /\ UNCHANGED <<index, checks>>
      BY <1>6 DEF Readback, Verdict, AfterPublished, Busy
  <2>2. QED
      BY <1>1, <1>2, <2>1 DEF OnThisPod, PerPod
<1>7. CASE NotYet(r)
    BY <1>1, <1>2, <1>7 DEF NotYet, Counted, OnThisPod, Busy
<1>8. CASE Readable(r)
  <2>1. /\ pc[r] = "await" /\ pc'[r] = "spec" /\ index'[r] = i + 1 /\ i \in {1, 2}
        /\ OnThisPod(r)' = PerPod /\ OnThisPod(r) > 0
      BY <1>1, <1>8, OrderFacts DEF Readable, OnThisPod, PerPod
  <2>2. CASE i = 1
      BY <1>1, <2>1, <2>2 DEF StepsLeft, PerPod
  <2>3. CASE i = 2
      BY <1>1, <2>1, <2>3 DEF StepsLeft, PerPod
  <2>4. QED
      BY <2>1, <2>2, <2>3
<1>9. ASSUME Begin(r) \/ FetchFails(r) \/ PushFails(r) \/ Cancel(r) \/ RunAgain(r) PROVE FALSE
    BY <1>9 DEF Begin, FetchFails, OnFailure, PushFails, Cancel, RunAgain, Busy
<1>10. QED
    BY <1>3, <1>4, <1>5, <1>6, <1>7, <1>8, <1>9 DEF Step, Fault

\* A run makes at most 3 * (Attempts + 4) steps before it ends, though the CDN
\* never catches up: each of its steps leaves it fewer.  What RunEnds adds to this
\* is only that the steps are taken.
RunGoesOn ==
    [][\A r \in Runs : /\ pc[r] \in Busy /\ pc'[r] \in Busy
                       /\ Step(r) \/ Fault(r) \/ RunAgain(r)
                       => StepsLeft(r)' < StepsLeft(r)]_vars

THEOREM RunIsBounded ==
    Spec => /\ [](\A r \in Runs : pc[r] \in Busy => StepsLeft(r) \in 1 .. 3 * PerPod)
            /\ RunGoesOn
<1>1. PInv => \A r \in Runs : pc[r] \in Busy => StepsLeft(r) \in 1 .. 3 * PerPod
    BY StepsAreLeft
<1>2. PInv /\ PInv' => \A r \in Runs : /\ pc[r] \in Busy /\ pc'[r] \in Busy
                                       /\ Step(r) \/ Fault(r) \/ RunAgain(r)
                                       => StepsLeft(r)' < StepsLeft(r)
    BY StepsShrink
<1>3. QED
    BY <1>1, <1>2, PublishInvariant, PTL DEF RunGoesOn
=============================================================================
