--------------------------- MODULE ReleasePipeline ---------------------------
(***************************************************************************)
(* .github/workflows/release.yml and the scripts its jobs run: prepare     *)
(* verifies the evidence for a tag and takes the native bundle, build      *)
(* checks and packs it, publish puts it on the GitHub release, and         *)
(* publish-pods sends the pods that point at it to trunk.                  *)
(*                                                                         *)
(* The run may fail at any step and be run again, its failed jobs only or  *)
(* all of them, while the mirror's main branch moves and the canonical CI  *)
(* and native runs are run again.  Those and GitHub's stores are external. *)
(***************************************************************************)
EXTENDS Naturals

CONSTANTS
    MaxAttempts, CIAttempts, NativeAttempts,   \* bounds on how often each run is run
    Defects,       \* what may be wrong with a bundle
    Files,         \* the assets of the release
    TagRequired    \* verify-provenance demands --tag (TRUE in the code)

AllDefects == {"zip", "manifest", "signature", "archive", "files", "attestation", "checksum", "slices"}
\* How the tagged tree stands to the canonical source that its commit names.
Origins == {"exported", "unreachable", "unsafe", "different"}

ASSUME ReleaseOK ==
    /\ MaxAttempts \in Nat \ {0} /\ CIAttempts \in Nat \ {0} /\ NativeAttempts \in Nat \ {0}
    /\ Defects \subseteq AllDefects
    /\ "archive" \in Files
    /\ TagRequired \in BOOLEAN

\* What a native attempt may upload: a bundle is known by what is wrong with it.
Bundle == Defects \cup {"none"}
Native == 1 .. NativeAttempts
Outcome == {"running", "success", "failure"}

VARIABLES
    mainAtTag,    \* the mirror's main is still the tagged commit
    origin,       \* which of Origins the tagged tree is
    ci,           \* the canonical CI run of that source, and its required checks
    ciGreen,      \* an attempt of it has succeeded
    native,       \* the native run of that source
    greens,       \* its attempts that have succeeded
    bundle,       \* the bundle that each of its attempts uploaded
    live,         \* the bundles that have not expired
    attempt,      \* GITHUB_RUN_ATTEMPT
    pc, status,   \* the step the run is at, and how the run stands
    selected,     \* native_run_attempt
    holding,      \* whose bundle is on the runner
    inputs,       \* uploaded native-input artifacts
    inputName,    \* needs.prepare.outputs.native_artifact_name
    outputs,      \* uploaded release artifacts, with their manifest's run_attempt
    release,      \* needs.build.outputs
    todo,         \* the assets that publish has still to upload
    assets,       \* whose bundle each asset of the GitHub release comes from
    bound         \* the bundle that prepare passed last

evidence == <<mainAtTag, origin, ci, ciGreen, native, greens, bundle, live>>
run == <<attempt, pc, status>>
stores == <<inputs, inputName, outputs, release, bound>>
runner == <<selected, holding, todo>>   \* the workspace of the current job
vars == <<evidence, run, stores, runner, assets>>

StepsOf == [prepare |-> {"tag", "source", "ci", "checks", "native", "download", "bundle", "bind"},
            build |-> {"input", "package", "pack"},
            publish |-> {"assets", "upload"},
            pods |-> {"podAssets", "trunk"}]
FirstOf == [prepare |-> "tag", build |-> "input", publish |-> "assets", pods |-> "podAssets"]
Steps == UNION {StepsOf[j] : j \in DOMAIN StepsOf}

Init ==
    /\ mainAtTag \in BOOLEAN /\ origin \in Origins
    /\ ci = [attempt |-> 1, run |-> "running", checks |-> "running"] /\ ciGreen = FALSE
    /\ native = [attempt |-> 1, run |-> "running"] /\ greens = {}
    /\ bundle = [n \in Native |-> "unbuilt"] /\ live = {}
    /\ attempt = 1 /\ pc = "tag" /\ status = "running"
    /\ selected = 0 /\ holding = 0 /\ todo = {}
    /\ inputs = {} /\ inputName = 0
    /\ outputs = {} /\ release = [name |-> 0, run_attempt |-> 0]
    /\ assets = [f \in Files |-> 0] /\ bound = 0

At(step) == pc = step /\ status = "running"

\* The step goes through, and so do the jobs that need this one, or it is the
\* end of this attempt.
Judge(ok, next) ==
    /\ pc' = IF ok THEN next ELSE pc
    /\ status' = IF ok THEN "running" ELSE "rejected"
    /\ UNCHANGED attempt

\* A job starts on a runner of its own.
CleanRunner == selected' = 0 /\ holding' = 0 /\ todo' = {}
-----------------------------------------------------------------------------
(* Job prepare: release-provenance.py, then native-artifacts.py.           *)

\* validate_tag_state(), against main as it has just been fetched.
TagIsMain == mainAtTag

VerifyTag ==
    /\ At("tag")
    /\ Judge(TagIsMain, "source")
    /\ UNCHANGED <<evidence, stores, runner, assets>>

\* The source is on the canonical main; extract_archive(); compare_trees().
Reachable == origin # "unreachable"
Unpacks == origin # "unsafe"
TreeMatches == origin # "different"

VerifySource ==
    /\ At("source")
    /\ Judge(Reachable /\ Unpacks /\ TreeMatches, "ci")
    /\ UNCHANGED <<evidence, stores, runner, assets>>

\* select_workflow_run(): the CI run is successful now.
VerifyCI ==
    /\ At("ci")
    /\ Judge(ci.run = "success", "checks")
    /\ UNCHANGED <<evidence, stores, runner, assets>>

\* verify_required_checks(): the checks as they are now, of whichever attempt.
VerifyChecks ==
    /\ At("checks")
    /\ Judge(ci.checks = "success", "native")
    /\ UNCHANGED <<evidence, stores, runner, assets>>

NativeSucceeded == native.run = "success"

\* select_native_run(): its current attempt is the one to download.
SelectNative ==
    /\ At("native")
    /\ Judge(NativeSucceeded, "download")
    /\ selected' = IF NativeSucceeded THEN native.attempt ELSE selected
    /\ UNCHANGED <<evidence, stores, holding, todo, assets>>

\* safe_extract_zip().
ZipIsSafe(n) == bundle[n] # "zip"

\* download_github(): the run must not have moved on since.
Downloadable ==
    /\ native.attempt = selected /\ NativeSucceeded
    /\ selected \in live
    /\ ZipIsSafe(selected)

Download ==
    /\ At("download")
    /\ Judge(Downloadable, "bundle")
    /\ holding' = IF Downloadable THEN selected ELSE holding
    /\ UNCHANGED <<evidence, stores, selected, todo, assets>>

\* verify_signature(), load_manifest(), archive_entries(), verify_release() and
\* the attestation.
Signed(n) == bundle[n] # "signature"
ManifestValid(n) == bundle[n] # "manifest"
ArchiveValid(n) == bundle[n] # "archive"
FilesMatch(n) == bundle[n] # "files"
Attested(n) == bundle[n] # "attestation"
Authentic(n) == Signed(n) /\ ManifestValid(n) /\ ArchiveValid(n) /\ FilesMatch(n) /\ Attested(n)

\* release.yml passes no --tag: the parser refuses the call, or else no tag is
\* compared.
TagAccepted == ~TagRequired

VerifyBundle ==
    /\ At("bundle")
    /\ Judge(TagAccepted /\ Authentic(holding), "bind")
    /\ UNCHANGED <<evidence, stores, runner, assets>>

\* An upload is refused under a name that is taken; names carry the attempt.
\* The mutant's name does not.
NameOfRun == 1
ArtifactName == attempt
Fresh(store) == \A x \in store : x.name # ArtifactName

BindInput ==
    /\ At("bind")
    /\ Judge(Fresh(inputs), "input")
    /\ IF Fresh(inputs)
       THEN /\ inputs' = inputs \cup {[name |-> ArtifactName, bundle |-> holding]}
            /\ inputName' = ArtifactName
            /\ bound' = holding
            /\ CleanRunner
       ELSE UNCHANGED <<inputs, inputName, bound, runner>>
    /\ UNCHANGED <<evidence, outputs, release, assets>>
-----------------------------------------------------------------------------
(* Job build. *)

FetchInput ==
    /\ At("input")
    /\ \/ \E x \in inputs : x.name = inputName /\ holding' = x.bundle /\ Judge(TRUE, "package")
       \/ /\ \A x \in inputs : x.name # inputName
          /\ Judge(FALSE, "package")
          /\ UNCHANGED holding
    /\ UNCHANGED <<evidence, stores, selected, todo, assets>>

\* The archive has the checksum of Package.swift; apple-verify.  The mutant
\* compares no checksum.
AnyChecksum(n) == TRUE
ChecksumPinned(n) == bundle[n] # "checksum"
SlicesVerified(n) == bundle[n] # "slices"

Package ==
    /\ At("package")
    /\ Judge(ChecksumPinned(holding) /\ SlicesVerified(holding), "pack")
    /\ UNCHANGED <<evidence, stores, runner, assets>>

\* release-artifact.py create records this attempt; the artifact is uploaded.
Pack ==
    /\ At("pack")
    /\ Judge(Fresh(outputs), "assets")
    /\ IF Fresh(outputs)
       THEN /\ outputs' = outputs \cup {[name |-> ArtifactName, run_attempt |-> attempt, bundle |-> holding]}
            /\ release' = [name |-> ArtifactName, run_attempt |-> attempt]
            /\ CleanRunner
       ELSE UNCHANGED <<outputs, release, runner>>
    /\ UNCHANGED <<evidence, inputs, inputName, bound, assets>>
-----------------------------------------------------------------------------
(* Jobs publish and publish-pods. *)

\* --run-attempt is the attempt of build.  The mutant leaves it to its default,
\* the attempt of the verifying job.
OwnAttempt == attempt
BuildAttempt == release.run_attempt

\* The release artifact is fetched, and verified by release-artifact.py verify.
FetchRelease(step, next) ==
    /\ At(step)
    /\ \E x \in outputs :
          /\ x.name = release.name
          /\ holding' = x.bundle
          /\ Judge(x.run_attempt = BuildAttempt, next)
    /\ todo' = IF next = "upload" THEN Files ELSE {}
    /\ UNCHANGED <<evidence, stores, selected, assets>>

\* The release action replaces an asset that is there.  The mutant keeps it.
KeepExisting(f) == IF assets[f] = 0 THEN holding ELSE assets[f]
Replaced(f) == holding

UploadAsset(f) ==
    /\ At("upload") /\ f \in todo
    /\ assets' = [assets EXCEPT ![f] = Replaced(f)]
    /\ todo' = todo \ {f}
    /\ UNCHANGED <<evidence, run, stores, selected, holding>>

FinishRelease ==
    /\ At("upload") /\ todo = {}
    /\ Judge(TRUE, "podAssets")
    /\ CleanRunner
    /\ UNCHANGED <<evidence, stores, assets>>

\* trunk lints the pod by downloading the archive from the release.
Trunk ==
    /\ At("trunk")
    /\ status' = IF assets["archive"] # 0 THEN "success" ELSE "rejected"
    /\ UNCHANGED <<evidence, attempt, pc, stores, runner, assets>>
-----------------------------------------------------------------------------
(* Failures, re-runs and the rest of GitHub. *)

\* The network, a tool, the runner or a cancellation ends the job at any step.
Fault ==
    /\ status = "running" /\ status' = "fault"
    /\ UNCHANGED <<evidence, attempt, pc, stores, runner, assets>>

\* A new attempt from a job on; the jobs before it keep their outputs.
Rerun(job) ==
    /\ attempt < MaxAttempts /\ attempt' = attempt + 1
    /\ pc' = FirstOf[job] /\ status' = "running"
    /\ CleanRunner
    /\ UNCHANGED <<evidence, stores, assets>>

RerunFailed ==
    /\ status \in {"rejected", "fault"}
    /\ \E job \in DOMAIN StepsOf : pc \in StepsOf[job] /\ Rerun(job)

RerunAll == status # "running" /\ Rerun("prepare")

MoveMain ==
    /\ mainAtTag /\ mainAtTag' = FALSE
    /\ UNCHANGED <<origin, ci, ciGreen, native, greens, bundle, live, run, stores, runner, assets>>

RerunCI ==
    /\ ci.run # "running" /\ ci.attempt < CIAttempts
    /\ ci' = [attempt |-> ci.attempt + 1, run |-> "running", checks |-> "running"]
    /\ UNCHANGED <<mainAtTag, origin, ciGreen, native, greens, bundle, live, run, stores, runner, assets>>

\* The required checks end, then the run: a check that may not be skipped and
\* is refuses the checks and still lets the run succeed.
EndChecks ==
    /\ ci.run = "running" /\ ci.checks = "running"
    /\ \E c \in {"success", "refused"} : ci' = [ci EXCEPT !.checks = c]
    /\ UNCHANGED <<mainAtTag, origin, ciGreen, native, greens, bundle, live, run, stores, runner, assets>>

EndCI ==
    /\ ci.run = "running" /\ ci.checks # "running"
    /\ \E r \in {"success", "failure"} :
          /\ ci.checks = "success" => r = "success"
          /\ ci' = [ci EXCEPT !.run = r]
          /\ ciGreen' = (ciGreen \/ r = "success")
    /\ UNCHANGED <<mainAtTag, origin, native, greens, bundle, live, run, stores, runner, assets>>

RerunNative ==
    /\ native.run # "running" /\ native.attempt < NativeAttempts
    /\ native' = [attempt |-> native.attempt + 1, run |-> "running"]
    /\ UNCHANGED <<mainAtTag, origin, ci, ciGreen, greens, bundle, live, run, stores, runner, assets>>

UploadBundle ==
    /\ native.run = "running" /\ bundle[native.attempt] = "unbuilt"
    /\ \E b \in Bundle : bundle' = [bundle EXCEPT ![native.attempt] = b]
    /\ live' = live \cup {native.attempt}
    /\ UNCHANGED <<mainAtTag, origin, ci, ciGreen, native, greens, run, stores, runner, assets>>

\* A run that uploaded its bundle may still fail.
EndNative ==
    /\ native.run = "running"
    /\ \/ /\ bundle[native.attempt] # "unbuilt"
          /\ native' = [native EXCEPT !.run = "success"]
          /\ greens' = greens \cup {native.attempt}
       \/ /\ native' = [native EXCEPT !.run = "failure"]
          /\ UNCHANGED greens
    /\ UNCHANGED <<mainAtTag, origin, ci, ciGreen, bundle, live, run, stores, runner, assets>>

ExpireBundle ==
    /\ \E n \in live : live' = live \ {n}
    /\ UNCHANGED <<mainAtTag, origin, ci, ciGreen, native, greens, bundle, run, stores, runner, assets>>

\* retention-days: 1.
ExpireInput ==
    /\ \E x \in inputs : inputs' = inputs \ {x}
    /\ UNCHANGED <<evidence, run, inputName, outputs, release, bound, runner, assets>>

Prepare == \/ VerifyTag \/ VerifySource \/ VerifyCI \/ VerifyChecks \/ SelectNative
           \/ Download \/ VerifyBundle \/ BindInput
Build == FetchInput \/ Package \/ Pack
Publish == FetchRelease("assets", "upload") \/ (\E f \in Files : UploadAsset(f)) \/ FinishRelease
PublishPods == FetchRelease("podAssets", "trunk") \/ Trunk
GitHub == \/ MoveMain \/ RerunCI \/ EndChecks \/ EndCI \/ RerunNative \/ UploadBundle
          \/ EndNative \/ ExpireBundle \/ ExpireInput

Next == Prepare \/ Build \/ Publish \/ PublishPods \/ Fault \/ RerunFailed \/ RerunAll \/ GitHub

Spec == Init /\ [][Next]_vars
-----------------------------------------------------------------------------
(* Properties. *)

\* Every variable keeps its type, and a job starts in an empty workspace.
ReleaseTypeOK ==
    /\ mainAtTag \in BOOLEAN /\ origin \in Origins /\ ciGreen \in BOOLEAN
    /\ ci \in [attempt : 1 .. CIAttempts, run : Outcome, checks : {"running", "success", "refused"}]
    /\ native \in [attempt : Native, run : Outcome]
    /\ bundle \in [Native -> Bundle \cup {"unbuilt"}]
    /\ greens \subseteq Native /\ live \subseteq Native
    /\ attempt \in 1 .. MaxAttempts /\ pc \in Steps
    /\ status \in {"running", "rejected", "fault", "success"}
    /\ selected \in {0} \cup Native /\ holding \in {0} \cup Native
    /\ inputs \subseteq [name : 1 .. MaxAttempts, bundle : Native]
    /\ outputs \subseteq [name : 1 .. MaxAttempts, run_attempt : 1 .. MaxAttempts, bundle : Native]
    /\ inputName \in 0 .. MaxAttempts
    /\ release \in [name : 0 .. MaxAttempts, run_attempt : 0 .. MaxAttempts]
    /\ todo \subseteq Files /\ assets \in [Files -> {0} \cup Native] /\ bound \in {0} \cup Native
    /\ (\E j \in DOMAIN FirstOf : At(FirstOf[j])) => holding = 0 /\ todo = {}

\* All the evidence there can be for a bundle.
Verified(n) == bundle[n] = "none" /\ n \in greens /\ origin = "exported" /\ ciGreen

\* Every asset of the release, at any time and after whatever failed uploads and
\* re-runs, comes from a flawless bundle of a native attempt that succeeded, for
\* a tree that is the export of a source whose CI has succeeded.
ReleasedIsVerified == \A f \in Files : assets[f] # 0 => Verified(assets[f])

\* Once publish has succeeded, all assets are of the bundle that the last prepare
\* verified, though earlier attempts may have died with some assets replaced.
SucceededIsWhole == pc \in StepsOf.pods => \A f \in Files : assets[f] = bound

\* The bundle is rejected only if something is wrong with it: its own tag is
\* "deliberately NOT cross-checked" against the release (release.yml:59).
DriftedBundleIsAccepted == pc = "bundle" /\ status = "rejected" => ~Authentic(holding)

\* What is rejected deserves it: a re-run is never refused the artifacts of
\* earlier attempts, the names it uploads under, or the release it needs, and the
\* bundle only for a fault of its own, unless the parser demands a tag.
OnlyBadEvidenceIsRejected ==
    status = "rejected" =>
        /\ pc = "bundle" => TagRequired \/ ~Authentic(holding)
        /\ pc \notin {"bind", "pack"} \cup StepsOf.publish \cup StepsOf.pods
        /\ pc = "package" => ~(ChecksumPinned(holding) /\ SlicesVerified(holding))
        /\ pc = "input" => \A x \in inputs : x.name # inputName
=============================================================================
