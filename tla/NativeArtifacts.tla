--------------------------- MODULE NativeArtifacts ---------------------------
(***************************************************************************)
(* native/native-artifacts.py in the canonical native run of one source:   *)
(* authorize-ci asks whether its CI run succeeded, pack archives what each *)
(* group of targets built, download-partials picks one artifact of each    *)
(* group, and create writes the manifest of the bundle.                    *)
(*                                                                         *)
(* Jobs fail at any step, and the run is run again from any of them, so    *)
(* that it mixes the artifacts of several attempts; the CI run is run      *)
(* again meanwhile, and artifacts expire.  The two workflow files are not  *)
(* in this repository: of them it is assumed that the groups need the      *)
(* authorization, that the bundle needs all other jobs, and that a run is  *)
(* run again once its jobs have stopped.                                   *)
(***************************************************************************)
EXTENDS Naturals

CONSTANTS
    CIAttempts, NativeAttempts,   \* bounds on how often each run is run
    Groups,                       \* PARTIAL_ARTIFACT_TARGETS
    Defects                       \* what may be wrong with what each group built

\* A symlink to a file in the tree; the names or the format of the artifact of a group; an
\* archive in it; an archive that is sound and not the one the tag pins.
AllDefects == {"symlink", "files", "zip", "archive", "checksum", "slices"}

ASSUME NativeOK ==
    /\ CIAttempts \in Nat \ {0} /\ NativeAttempts \in Nat \ {0}
    /\ "native-apple" \in Groups /\ Groups \cap {"authorize", "bundle"} = {}
    /\ Defects \in [Groups -> SUBSET AllDefects]

Native == 1 .. NativeAttempts
Jobs == Groups \cup {"authorize", "bundle"}
CIJobs == {"guards", "gate"}   \* CI_AUTHORIZATION_JOBS
Content(g) == Defects[g] \cup {"none"}
Unpicked == [g \in Groups |-> 0]

VARIABLES
    ci, ciJob,    \* the CI run, and the last execution of its required jobs
    ciGreen,      \* its attempts in which it and all of those succeeded
    native, job,  \* the native run, and the last execution of its jobs
    greens,       \* its attempts that have succeeded
    built,        \* the attempts in which each group has succeeded
    auth, seen,   \* where authorize-ci is, and the CI attempt it has read
    partial,      \* what each group uploaded in each attempt
    fresh,        \* the partial artifacts that have not expired
    step,         \* where the bundle job is
    picked, got,  \* the attempts it picked, and the groups it has downloaded
    parts         \* the attempts that the bundle of each attempt is made of

ciVars == <<ci, ciJob, ciGreen>>
authVars == <<auth, seen>>
partials == <<partial, fresh>>
bundling == <<step, picked, got>>
nativeVars == <<native, greens>>
vars == <<ciVars, nativeVars, job, built, authVars, partials, bundling, parts>>

Execution(n) == [attempt |-> n, conclusion |-> "pending"]

Init ==
    /\ ci = [attempt |-> 0, run |-> "absent"] /\ ciGreen = {}
    /\ ciJob = [c \in CIJobs |-> Execution(0)]
    /\ native = [attempt |-> 1, run |-> "running"] /\ greens = {}
    /\ job = [j \in Jobs |-> Execution(1)] /\ built = [g \in Groups |-> {}]
    /\ auth = "list" /\ seen = 0
    /\ partial = [g \in Groups |-> [n \in Native |-> "unbuilt"]] /\ fresh = {}
    /\ step = "list" /\ picked = Unpicked /\ got = {}
    /\ parts = [n \in Native |-> Unpicked]

Succeeded(j) == job[j].conclusion = "success"
Needs(j) == IF j = "authorize" THEN {} ELSE IF j = "bundle" THEN Jobs \ {j} ELSE {"authorize"}
Running(j) == job[j].conclusion = "pending" /\ \A k \in Needs(j) : Succeeded(k)
Conclude(j, conclusion) == job' = [job EXCEPT ![j].conclusion = conclusion]
-----------------------------------------------------------------------------
(* authorize_ci(): list the runs, watch the one there is, list again, then *)
(* list its jobs.  Each is a request of its own.                           *)

AuthStep(ok, from, to) ==
    /\ Running("authorize") /\ auth = from
    /\ auth' = IF ok THEN to ELSE auth
    /\ IF ~ok THEN Conclude("authorize", "rejected")
       ELSE IF to = "done" THEN Conclude("authorize", "success") ELSE UNCHANGED job
    /\ UNCHANGED <<ciVars, nativeVars, built, partials, bundling, parts>>

\* select_ci_run(): the source has exactly one canonical run.
SelectCI == AuthStep(ci.run # "absent", "list", "watch") /\ UNCHANGED seen

\* gh run watch returns when the run has ended.  The mutant waits for it to
\* have succeeded.
EndedWell == ci.run = "success"
Ended == ci.run # "running"

WatchCI == Ended /\ AuthStep(ci.run = "success", "watch", "relist") /\ UNCHANGED seen

RelistCI == AuthStep(ci.run = "success", "relist", "jobs") /\ seen' = ci.attempt

\* validate_ci_authorization(): the job ran in the attempt that was read.  The
\* mutant only asks whether it succeeded.
SucceededAtAll(c) == ciJob[c].conclusion = "success"
Authorizes(c) == ciJob[c].conclusion = "success" /\ ciJob[c].attempt = seen

ReadJobs == AuthStep(\A c \in CIJobs : Authorizes(c), "jobs", "done") /\ UNCHANGED seen
-----------------------------------------------------------------------------
(* A group builds its targets, packs them and uploads the archives under   *)
(* a name that carries the attempt.                                        *)

\* deterministic_files(): a symlink to a file is refused; one to a directory or to
\* nothing is no file, and is left out of the archive.  The mutant packs any.
PacksAnything(tree) == TRUE
Packs(tree) == tree # "symlink"

Pack(g) ==
    /\ Running(g) /\ partial[g][native.attempt] = "unbuilt"
    /\ \E tree \in Content(g) :
          IF Packs(tree)
          THEN /\ partial' = [partial EXCEPT ![g][native.attempt] = tree]
               /\ fresh' = fresh \cup {<<g, native.attempt>>}
               /\ UNCHANGED job
          ELSE Conclude(g, "rejected") /\ UNCHANGED partials
    /\ UNCHANGED <<ciVars, nativeVars, built, authVars, bundling, parts>>

EndGroup(g) ==
    /\ Running(g) /\ partial[g][native.attempt] # "unbuilt"
    /\ Conclude(g, "success")
    /\ built' = [built EXCEPT ![g] = @ \cup {native.attempt}]
    /\ UNCHANGED <<ciVars, nativeVars, authVars, partials, bundling, parts>>
-----------------------------------------------------------------------------
(* The bundle job: download-partials, then create, then the upload.        *)

BundleStep(ok, from, to) ==
    /\ Running("bundle") /\ step = from
    /\ step' = IF ok THEN to ELSE step
    /\ IF ok THEN UNCHANGED job ELSE Conclude("bundle", "rejected")
    /\ UNCHANGED <<ciVars, nativeVars, built, authVars, partials>>

\* A job starts on a runner of its own, where the output does not exist.  
CleanRunner == step' = "list" /\ picked' = Unpicked /\ got' = {}

Uploads(g) == {n \in Native : partial[g][n] # "unbuilt"}

\* select_partial_artifacts(): the newest of the group, which must not have
\* expired.  One mutant takes the newest that has not expired, the other the
\* one of this attempt.
Newest(g, attempts) == CHOOSE n \in attempts : \A m \in attempts : m <= n
PickFresh(g) ==
    LET left == {n \in Uploads(g) : <<g, n>> \in fresh}
    IN  IF left = {} THEN 0 ELSE Newest(g, left)
PickOwn(g) == IF <<g, native.attempt>> \in fresh THEN native.attempt ELSE 0
Pick(g) ==
    LET newest == Newest(g, Uploads(g))
    IN  IF Uploads(g) # {} /\ <<g, newest>> \in fresh THEN newest ELSE 0

SelectPartials ==
    LET all == [g \in Groups |-> Pick(g)]
        ok == \A g \in Groups : all[g] # 0
    IN  /\ BundleStep(ok, "list", "download")
        /\ picked' = IF ok THEN all ELSE picked
        /\ UNCHANGED <<got, parts>>

\* download_partials(): a safe zip with the files of the group and no others.
\* The mutant does not look at the names.
SafeZip(g) == partial[g][picked[g]] # "zip"
Inventory(g) == SafeZip(g) /\ partial[g][picked[g]] # "files"

Fetch(g) ==
    /\ g \notin got
    /\ LET ok == <<g, picked[g]>> \in fresh /\ Inventory(g)
       IN  /\ BundleStep(ok, "download", IF got \cup {g} = Groups THEN "create" ELSE "download")
           /\ got' = IF ok THEN got \cup {g} ELSE got
    /\ UNCHANGED <<picked, parts>>

\* create_manifest(): archive_entries() of each archive.  The mutant only hashes
\* it.
Hashable(g) == TRUE
Archives(g) == partial[g][picked[g]] # "archive"

CreateManifest ==
    /\ BundleStep(\A g \in Groups : Archives(g), "create", "upload")
    /\ UNCHANGED <<picked, got, parts>>

UploadBundle ==
    /\ BundleStep(TRUE, "upload", "done")
    /\ parts' = [parts EXCEPT ![native.attempt] = picked]
    /\ UNCHANGED <<picked, got>>

EndBundle ==
    /\ Running("bundle") /\ step = "done"
    /\ Conclude("bundle", "success")
    /\ UNCHANGED <<ciVars, nativeVars, built, authVars, partials, bundling, parts>>
-----------------------------------------------------------------------------
(* GitHub.                                                                 *)

\* The network, a tool, the runner or a cancellation ends a job at any step.
Fault(j) ==
    /\ native.run = "running" /\ Running(j) /\ Conclude(j, "fault")
    /\ UNCHANGED <<ciVars, nativeVars, built, authVars, partials, bundling, parts>>

\* The run has ended when no job can go on; a job whose needs failed is skipped.
EndNative ==
    /\ native.run = "running"
    /\ \A j \in Jobs : ~Running(j)
    /\ LET ok == \A j \in Jobs : Succeeded(j)
       IN  /\ native' = [native EXCEPT !.run = IF ok THEN "success" ELSE "failure"]
           /\ greens' = IF ok THEN greens \cup {native.attempt} ELSE greens
    /\ UNCHANGED <<ciVars, job, built, authVars, partials, bundling, parts>>

\* Some jobs are executed again, and with them the jobs that need them.
RerunNative ==
    /\ native.run # "running" /\ native.attempt < NativeAttempts
    /\ LET n == native.attempt + 1
       IN  /\ native' = [attempt |-> n, run |-> "running"]
           /\ \E again \in {Jobs} \cup {gs \cup {"bundle"} : gs \in SUBSET Groups} :
                 /\ job' = [j \in Jobs |-> IF j \in again THEN Execution(n) ELSE job[j]]
                 /\ IF "authorize" \in again THEN auth' = "list" /\ seen' = 0 ELSE UNCHANGED authVars
    /\ CleanRunner
    /\ UNCHANGED <<ciVars, greens, built, partials, parts>>

\* Only authorize-ci reads the CI run, so whatever happens to it between two
\* executions of that job may as well happen at the beginning of the second.
Watched == native.run = "running" /\ Running("authorize")

StartCI ==
    /\ Watched /\ ci.run = "absent"
    /\ ci' = [attempt |-> 1, run |-> "running"]
    /\ ciJob' = [c \in CIJobs |-> Execution(1)]
    /\ UNCHANGED <<ciGreen, nativeVars, job, built, authVars, partials, bundling, parts>>

EndCIJob(c) ==
    /\ Watched /\ ci.run = "running" /\ ciJob[c].conclusion = "pending"
    /\ \E conclusion \in {"success", "failure"} : ciJob' = [ciJob EXCEPT ![c].conclusion = conclusion]
    /\ UNCHANGED <<ci, ciGreen, nativeVars, job, built, authVars, partials, bundling, parts>>

\* The run has other jobs: it may fail though these succeeded, and succeed
\* though one of these failed that was allowed to.
EndCI ==
    /\ Watched /\ ci.run = "running" /\ \A c \in CIJobs : ciJob[c].conclusion # "pending"
    /\ \E conclusion \in {"success", "failure"} :
          /\ ci' = [ci EXCEPT !.run = conclusion]
          /\ ciGreen' = IF conclusion = "success"
                           /\ \A c \in CIJobs : ciJob[c] = [attempt |-> ci.attempt, conclusion |-> "success"]
                        THEN ciGreen \cup {ci.attempt} ELSE ciGreen
    /\ UNCHANGED <<ciJob, nativeVars, job, built, authVars, partials, bundling, parts>>

\* Any of its jobs are executed again; the others keep their earlier execution.
RerunCI ==
    /\ Watched /\ ci.run \in {"success", "failure"} /\ ci.attempt < CIAttempts
    /\ ci' = [attempt |-> ci.attempt + 1, run |-> "running"]
    /\ \E again \in SUBSET CIJobs :
          ciJob' = [c \in CIJobs |-> IF c \in again THEN Execution(ci.attempt + 1) ELSE ciJob[c]]
    /\ UNCHANGED <<ciGreen, nativeVars, job, built, authVars, partials, bundling, parts>>

ExpirePartial ==
    /\ \E p \in fresh : fresh' = fresh \ {p}
    /\ UNCHANGED <<ciVars, nativeVars, job, built, authVars, partial, bundling, parts>>

Authorize == SelectCI \/ WatchCI \/ RelistCI \/ ReadJobs
Group(g) == Pack(g) \/ EndGroup(g)
MakeBundle == \/ SelectPartials \/ (\E g \in Groups : Fetch(g)) \/ CreateManifest
              \/ UploadBundle \/ EndBundle
CI == StartCI \/ (\E c \in CIJobs : EndCIJob(c)) \/ EndCI

Next ==
    \/ Authorize \/ (\E g \in Groups : Group(g)) \/ MakeBundle
    \/ (\E j \in Jobs : Fault(j)) \/ EndNative \/ RerunNative
    \/ CI \/ RerunCI \/ ExpirePartial

Spec == Init /\ [][Next]_vars

\* Jobs run and their requests return; the CI run starts and ends.
FairSpec ==
    /\ Spec
    /\ WF_vars(Authorize) /\ \A g \in Groups : WF_vars(Group(g))
    /\ WF_vars(MakeBundle) /\ WF_vars(EndNative) /\ WF_vars(CI)
-----------------------------------------------------------------------------
(* Properties. *)

Conclusions == {"pending", "success", "rejected", "fault"}

\* Every variable keeps its type; the bundle job starts in an empty workspace,
\* downloads what it picked, and writes its manifest over all groups.
NativeTypeOK ==
    /\ ci \in [attempt : 0 .. CIAttempts, run : {"absent", "running", "success", "failure"}]
    /\ ci.run # "absent" => ci.attempt # 0
    /\ ciJob \in [CIJobs -> [attempt : 0 .. CIAttempts, conclusion : {"pending", "success", "failure"}]]
    /\ ciGreen \subseteq 1 .. CIAttempts
    /\ native \in [attempt : Native, run : {"running", "success", "failure"}]
    /\ job \in [Jobs -> [attempt : Native, conclusion : Conclusions]]
    /\ greens \subseteq Native
    /\ built \in [Groups -> SUBSET Native]
    /\ auth \in {"list", "watch", "relist", "jobs", "done"} /\ seen \in 0 .. CIAttempts
    /\ partial \in [Groups -> [Native -> AllDefects \cup {"none", "unbuilt"}]]
    /\ fresh \subseteq Groups \X Native
    /\ step \in {"list", "download", "create", "upload", "done"}
    /\ picked \in [Groups -> 0 .. NativeAttempts] /\ got \subseteq Groups
    /\ parts \in [Native -> [Groups -> 0 .. NativeAttempts]]
    /\ step = "list" => picked = Unpicked /\ got = {}
    /\ step # "list" => \A g \in Groups : picked[g] \in Uploads(g)
    /\ step \in {"create", "upload", "done"} => got = Groups

Bundled(n) == parts[n] # Unpicked

\* A bundle exists only for a source whose CI run, with all required jobs,
\* succeeded within one attempt, though the run and its jobs are read one after
\* the other while the run may be run again in part ("stale run attempt").
AuthorizedByOneAttempt ==
    /\ Succeeded("authorize") => seen \in ciGreen
    /\ \A n \in Native : Bundled(n) => ciGreen # {}

\* Each part of a bundle is of the last attempt, up to its own, in which that
\* group succeeded: a re-run never ships a part that a later build replaced,
\* whatever has expired in between.
PartsAreLatest ==
    \A n \in Native : Bundled(n) =>
        \A g \in Groups :
            /\ parts[n][g] \in built[g]
            /\ \A m \in built[g] : m <= n => m <= parts[n][g]

\* What is wrong with a part that only the release can tell: it pins one archive.
Pinned == {"checksum", "slices"}

\* A bundle has all files of every group and no others, archives that can be
\* extracted safely and hold no symlinks.  That an archive holds all of the tree it
\* was packed from is not said: links to directories are left out of it.
PartsAreComplete ==
    \A n \in Native : Bundled(n) =>
        \A g \in Groups : partial[g][parts[n][g]] \in Pinned \cup {"none"}

\* The bundle job is refused only if the newest part of a group has expired or is
\* faulty: a re-run accepts the parts of earlier attempts.
RefusedForCause ==
    job["bundle"].conclusion = "rejected" =>
        \E g \in Groups :
            LET n == Newest(g, Uploads(g))
            IN  <<g, n>> \notin fresh \/ partial[g][n] \notin Pinned \cup {"none"}

\* Every attempt of the native run ends, whatever the CI run it waits for does.
NativeRunEnds == []<>(native.run # "running")

\* What the bundle of an attempt is to the release: known by the defect of its
\* Apple part.
bundle == [n \in Native |-> IF Bundled(n) THEN partial["native-apple"][parts[n]["native-apple"]] ELSE "unbuilt"]

Release == INSTANCE ReleasePipeline WITH
    MaxAttempts <- 1, Defects <- Pinned, Files <- {"archive"}, TagRequired <- FALSE,
    mainAtTag <- TRUE, origin <- "exported", ciGreen <- FALSE,
    ci <- [attempt |-> 1, run |-> "running", checks |-> "running"],
    attempt <- 1, pc <- "tag", status <- "running", selected <- 0, holding <- 0,
    inputs <- {}, inputName <- 0, outputs <- {}, release <- [name |-> 0, run_attempt |-> 0],
    todo <- {}, live <- {n \in Native : Bundled(n)}, assets <- [f \in {"archive"} |-> 0], bound <- 0

\* The native run is the one that the release pipeline takes for granted: it
\* succeeds with a bundle or not at all, uploads at most one for each attempt,
\* and passes on only defects that the release itself looks for.
ImplementsNativeRun ==
    /\ native = [attempt |-> 1, run |-> "running"] /\ greens = {}
    /\ \A n \in Native : bundle[n] = "unbuilt"
    /\ [][Release!RerunNative \/ Release!UploadBundle \/ Release!EndNative]_<<nativeVars, bundle>>
=============================================================================
