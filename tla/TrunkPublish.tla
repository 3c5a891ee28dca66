----------------------------- MODULE TrunkPublish -----------------------------
(***************************************************************************)
(* .github/trunk-publish.py: publish the Apple pods to the CocoaPods trunk *)
(* registry in dependency order and prove that each landed.                *)
(*                                                                         *)
(* A run is one attempt of the workflow job; runs of several tags, and of  *)
(* the same tag, may overlap (the workflow names no concurrency group), a  *)
(* run may be cancelled at any point and is then started again.  The       *)
(* registry, its CDN and the pod CLI are external: they are modelled from  *)
(* what the script and its self-test say of them.                          *)
(***************************************************************************)
EXTENDS Naturals, Sequences

CONSTANTS
    Runs,        \* attempts of the publish job
    Versions,    \* release versions
    TagOf,       \* the tag of each run, its --expect-version
    Missing,     \* the podspec files absent from the checkout
    Attempts     \* --cdn-attempts

ASSUME PublishOK ==
    /\ TagOf \in [Runs -> Versions]
    /\ Attempts \in Nat \ {0}

\* PUBLISH_ORDER: two leaves, then the pod that depends on both.
LeafLast == <<"CHop", "HopSDK", "HopContract">>
Order == <<"CHop", "HopContract", "HopSDK">>
Pods == {"CHop", "HopContract", "HopSDK"}
Deps(pod) == IF pod = "HopSDK" THEN {"CHop", "HopContract"} ELSE {}

VARIABLES
    manifest,    \* the version in the Package.swift of each run's checkout
    published,   \* <<pod, version>> the registry holds
    cdn,         \* <<pod, version>> readable from the CDN
    pc,          \* where each run is
    index,       \* the position in Order of the pod it deals with
    checks,      \* how often it has looked at the CDN for this pod
    pushed,      \* <<run, pod>> for which it invoked the pod CLI
    rerun        \* everything was published when the run started

registry == <<published, cdn>>
vars == <<manifest, registry, pc, index, checks, pushed, rerun>>

Busy == {"spec", "query", "push", "readback", "await"}

Pod(r) == Order[index[r]]
Release(r) == <<Pod(r), manifest[r]>>
Complete(v) == \A pod \in Pods : <<pod, v>> \in published

Init ==
    /\ manifest \in [Runs -> Versions]
    /\ published = {} /\ cdn = {}
    /\ pc = [r \in Runs |-> "ready"]
    /\ index = [r \in Runs |-> 1]
    /\ checks = [r \in Runs |-> 0]
    /\ pushed = {}
    /\ rerun = [r \in Runs |-> FALSE]

Goto(r, p) == pc' = [pc EXCEPT ![r] = p]
-----------------------------------------------------------------------------
\* publish() begins: the version the podspecs derive from Package.swift must be
\* the tag.  The mutant compares nothing.
AnyVersion(r) == TRUE
VersionAgrees(r) == manifest[r] = TagOf[r]

Begin(r) ==
    /\ pc[r] = "ready"
    /\ Goto(r, IF VersionAgrees(r) THEN "spec" ELSE "failed")
    /\ index' = [index EXCEPT ![r] = 1]
    /\ checks' = [checks EXCEPT ![r] = 0]
    /\ rerun' = [rerun EXCEPT ![r] = Complete(manifest[r])]
    /\ UNCHANGED <<manifest, registry, pushed>>

\* The podspec of the next pod must exist.
CheckSpec(r) ==
    /\ pc[r] = "spec"
    /\ Goto(r, IF Pod(r) \in Missing THEN "failed" ELSE "query")
    /\ UNCHANGED <<manifest, registry, index, checks, pushed, rerun>>

\* Every pod but the last is awaited on the CDN, pushed by this run or not.
AfterPublished(r) == IF index[r] = Len(Order) THEN "done" ELSE "await"

\* published_versions(): is the version on trunk already?
Query(r) ==
    /\ pc[r] = "query"
    /\ Goto(r, IF Release(r) \in published THEN AfterPublished(r) ELSE "push")
    /\ UNCHANGED <<manifest, registry, index, checks, pushed, rerun>>

\* A failed fetch, of the registry or of the CDN, ends the run.  The mutant
\* takes it for a 404: absent.
FailureIsAbsence(r) == IF pc[r] = "query" THEN "push" ELSE "failed"
OnFailure(r) == "failed"

FetchFails(r) ==
    /\ pc[r] \in {"query", "readback", "await"}
    /\ Goto(r, OnFailure(r))
    /\ UNCHANGED <<manifest, registry, index, checks, pushed, rerun>>

\* The CLI's lint resolves the dependencies from the registry's git mirror,
\* which is ahead of the CDN (--synchronous).
LintPasses(r) == \A d \in Deps(Pod(r)) : <<d, manifest[r]>> \in published

\* push(): the CLI exits 0, or reports a duplicate, which is tolerated.
Push(r) ==
    /\ pc[r] = "push" /\ LintPasses(r)
    /\ published' = published \cup {Release(r)}
    /\ pushed' = pushed \cup {<<r, Pod(r)>>}
    /\ Goto(r, "readback")
    /\ UNCHANGED <<manifest, cdn, index, checks, rerun>>

\* push(): the CLI exits 0 although nothing reached the registry.
PushIsLost(r) ==
    /\ pc[r] = "push"
    /\ pushed' = pushed \cup {<<r, Pod(r)>>}
    /\ Goto(r, "readback")
    /\ UNCHANGED <<manifest, registry, index, checks, rerun>>

\* push(): the CLI fails, on the lint or after the version landed.
PushFails(r) ==
    /\ pc[r] = "push"
    /\ published' \in {published} \cup (IF LintPasses(r) THEN {published \cup {Release(r)}} ELSE {})
    /\ pushed' = pushed \cup {<<r, Pod(r)>>}
    /\ Goto(r, "failed")
    /\ UNCHANGED <<manifest, cdn, index, checks, rerun>>

\* The version is read back.  The mutant trusts the exit code.
TrustExit(r) == AfterPublished(r)
Verdict(r) == IF Release(r) \in published THEN AfterPublished(r) ELSE "failed"

Readback(r) ==
    /\ pc[r] = "readback"
    /\ Goto(r, Verdict(r))
    /\ UNCHANGED <<manifest, registry, index, checks, pushed, rerun>>

\* readable_from_cdn().  The mutant asks the registry once more instead.
OnTrunk(r) == Release(r) \in published
OnCDN(r) == Release(r) \in cdn

\* await_cdn(): the pod is readable, go on with the next one.
Readable(r) ==
    /\ pc[r] = "await" /\ OnCDN(r)
    /\ index' = [index EXCEPT ![r] = @ + 1]
    /\ checks' = [checks EXCEPT ![r] = 0]
    /\ Goto(r, "spec")
    /\ UNCHANGED <<manifest, registry, pushed, rerun>>

\* await_cdn(): not yet; wait, or give up after the last check.  The mutant
\* forgets to count.
WaitForEver(r) == 0
Counted(r) == checks[r] + 1

NotYet(r) ==
    /\ pc[r] = "await" /\ ~OnCDN(r)
    /\ checks' = [checks EXCEPT ![r] = Counted(r)]
    /\ Goto(r, IF Counted(r) = Attempts THEN "failed" ELSE "await")
    /\ UNCHANGED <<manifest, registry, index, pushed, rerun>>
-----------------------------------------------------------------------------
\* The CDN catches up with the registry.
Propagate(x) ==
    /\ x \in published \ cdn
    /\ cdn' = cdn \cup {x}
    /\ UNCHANGED <<manifest, published, pc, index, checks, pushed, rerun>>

\* The job is cancelled, or its runner is lost.
Cancel(r) ==
    /\ pc[r] \in Busy
    /\ Goto(r, "failed")
    /\ UNCHANGED <<manifest, registry, index, checks, pushed, rerun>>

\* A release that failed, or one that is done, is run again from the start.
RunAgain(r) ==
    /\ pc[r] \in {"failed", "done"}
    /\ Goto(r, "ready")
    /\ pushed' = {x \in pushed : x[1] # r}
    /\ UNCHANGED <<manifest, registry, index, checks, rerun>>

Step(r) == \/ Begin(r) \/ CheckSpec(r) \/ Query(r) \/ Push(r) \/ Readback(r)
           \/ Readable(r) \/ NotYet(r)

Fault(r) == FetchFails(r) \/ PushIsLost(r) \/ PushFails(r) \/ Cancel(r)

Next == \/ \E r \in Runs : Step(r) \/ Fault(r) \/ RunAgain(r)
        \/ \E x \in published : Propagate(x)

Spec == Init /\ [][Next]_vars

\* Jobs are scheduled, their calls return, and a run that failed is run again.
\* Nothing is said of the CDN.
FairSpec == Spec /\ \A r \in Runs : WF_vars(Step(r)) /\ WF_vars(RunAgain(r))
-----------------------------------------------------------------------------
(* Properties. *)

\* Every variable keeps its type: no run looks past the end of PUBLISH_ORDER or
\* at the CDN more than --cdn-attempts times.
PublishTypeOK ==
    /\ manifest \in [Runs -> Versions]
    /\ cdn \subseteq published /\ published \subseteq Pods \X Versions
    /\ pc \in [Runs -> Busy \cup {"ready", "done", "failed"}]
    /\ index \in [Runs -> 1 .. Len(Order)]
    /\ checks \in [Runs -> 0 .. Attempts]
    /\ pushed \subseteq Runs \X Pods
    /\ rerun \in [Runs -> BOOLEAN]

\* HopSDK is on trunk only once both pods it depends on are readable from the
\* CDN at the same version, whichever runs overlap or are cancelled: a consumer
\* never resolves a HopSDK whose dependencies it cannot find.
LeavesReadableFirst ==
    \A v \in Versions : <<"HopSDK", v>> \in published =>
        \A d \in Deps("HopSDK") : <<d, v>> \in cdn

\* A run that reports success has every pod of its own tag on trunk, even if the
\* CLI lied, reported a duplicate, or another run did the pushing.
DoneIsPublished == \A r \in Runs : pc[r] = "done" => Complete(TagOf[r])

\* Nothing is ever published at a version that no release tag names.
OnlyTagsPublished == \A x \in published : \E r \in Runs : TagOf[r] = x[2]

\* Re-running a released tag pushes nothing, registry outages included: a failed
\* fetch never reads as "absent".
RerunPushesNothing == \A r \in Runs : rerun[r] => \A pod \in Pods : <<r, pod>> \notin pushed

\* A run ends, one way or the other, though the CDN may never catch up.
RunEnds == \A r \in Runs : pc[r] \in Busy ~> pc[r] \notin Busy

\* Once faults end, and if the CDN keeps catching up, re-running publishes every
\* pod of the tag, from whatever state the failed runs have left behind.
EventuallyPublished ==
    <>[][\A r \in Runs : ~Fault(r)]_vars /\ []<>(cdn = published) =>
        \A r \in Runs : manifest[r] = TagOf[r] ~> Complete(TagOf[r])
=============================================================================
