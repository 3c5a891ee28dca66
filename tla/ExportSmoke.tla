----------------------------- MODULE ExportSmoke -----------------------------
(***************************************************************************)
(* .github/package-export-smoke.py: a package is exported into a new       *)
(* directory and used as a consumer would.  For Go and Android the files   *)
(* that a consumer must leave alone are fingerprinted, made read-only,     *)
(* used, compared and made writable again; for Apple the release is        *)
(* verified and the export's own installer, that of LocalFramework, runs.  *)
(*                                                                         *)
(* The tools that build and test are external: any of them may fail, and   *)
(* each writes where it can.                                               *)
(***************************************************************************)
EXTENDS LocalFramework

\* What a consumer must leave alone: Go's module cache, the exported SDK and the
\* Maven repository that was published from it.
Kept == [go |-> {"cache"}, android |-> {"sdk", "repository"}, apple |-> {}]
Components == DOMAIN Kept
Trees == UNION {Kept[c] : c \in Components}

VARIABLES
    comp,      \* the component of the last validation
    step,      \* its step, or how it has ended
    readOnly,  \* the trees whose permissions are not what they were
    written,   \* the trees that a consumer has written to
    print,     \* the trees that had been when the fingerprints were taken
    broken,    \* the step that raised the last exception, or "none"
    root       \* the user is one whom permissions do not stop

trees == <<readOnly, written, print>>
smoke == <<comp, step, trees, broken, root>>
vars == <<local, smoke>>

Init ==
    /\ LocalInit
    /\ comp = "go" /\ step = "none" /\ broken = "none" /\ root \in BOOLEAN
    /\ readOnly = {} /\ written = {} /\ print = {}

Ends == {"none", "passed", "failed"}
Over == step \in Ends /\ pc = "idle"

\* export_component(): the directory must be a new one.
NewExport ==
    /\ pkg' = [pkg EXCEPT !["export"] = "published"]
    /\ fw' = [fw EXCEPT !["export"] = Absent]
    /\ spoiled' = spoiled \ {"export"}

\* validate_package(), into a directory that must be a new one as well.  Go and
\* Android may be validated in an export that exists (validate_existing_go(),
\* validate_existing_android()); nothing of theirs depends on which it is, the
\* export of LocalFramework being the Apple one.
Validate(c) ==
    /\ Over /\ comp' = c /\ broken' = "none"
    /\ step' = IF c = "apple" THEN "release" ELSE "prepare"
    /\ readOnly' = {} /\ written' = {} /\ print' = {}
    /\ NewExport
    /\ bundle' \in (IF c = "apple" THEN Bundles ELSE {"none"})
    /\ result' = "none" /\ at' = "idle"
    /\ UNCHANGED <<pc, caller, dir, was, swap, root>>

\* A step that goes through.
Proceed(from, to) == step = from /\ pc = "idle" /\ step' = to /\ UNCHANGED <<comp, broken, root>>

\* The steps that a finally clause covers: Go's try begins once the cache is
\* read-only, Android's before that.  In the mutant both are like Go's.
TriedLate == [go |-> {"consume", "compare"}, android |-> {"consume", "compare"}, apple |-> {}]
Tried == [go |-> {"consume", "compare"}, android |-> {"freeze", "consume", "compare"}, apple |-> {}]

\* A step raises an exception: a requirement is not met, a tool fails, the user
\* interrupts.
Raise ==
    /\ step \notin Ends /\ pc = "idle"
    /\ step' = IF step \in Tried[comp] THEN "thaw" ELSE "failed"
    /\ broken' = step
    /\ UNCHANGED <<local, comp, trees, root>>
-----------------------------------------------------------------------------
(* validate_go() and validate_android().                                   *)

\* The mutant takes the fingerprints when the consumer has run.
PrintLate == [prepare |-> "freeze", freeze |-> "consume", consume |-> "print", print |-> "compare"]
SmokeOrder == [prepare |-> "print", print |-> "freeze", freeze |-> "consume", consume |-> "compare"]

\* The release is verified, the module proxy made and its cache filled; what is in
\* them is checked.
PrepareGo ==
    /\ comp = "go" /\ Proceed("prepare", SmokeOrder["prepare"])
    /\ UNCHANGED <<local, trees>>

\* So is the Maven repository that build-aar.sh makes of the release.
PrepareAndroid ==
    /\ comp = "android" /\ Proceed("prepare", SmokeOrder["prepare"])
    /\ UNCHANGED <<local, trees>>

TakePrint ==
    /\ Proceed("print", SmokeOrder["print"]) /\ print' = written
    /\ UNCHANGED <<local, readOnly, written>>

\* chmod_tree() and make_tree_read_only(), the SDK before the repository.
Freeze(t) ==
    /\ Proceed("freeze", "freeze") /\ t \in Kept[comp] \ readOnly
    /\ t = "repository" => "sdk" \in readOnly
    /\ readOnly' = readOnly \cup {t}
    /\ UNCHANGED <<local, written, print>>

Frozen ==
    /\ Proceed("freeze", SmokeOrder["freeze"]) /\ Kept[comp] = readOnly
    /\ UNCHANGED <<local, trees>>

\* The installer, the tests and the builds of a consumer.
Consume ==
    /\ Proceed("consume", SmokeOrder["consume"])
    /\ \E w \in SUBSET {t \in Kept[comp] : root \/ t \notin readOnly} : written' = written \cup w
    /\ UNCHANGED <<local, readOnly, print>>

Compare ==
    /\ Proceed("compare", "thaw") /\ print = written
    /\ UNCHANGED <<local, trees>>

\* The finally clause, the repository before the SDK; the exception that it may
\* have interrupted goes on.
Thaw(t) ==
    /\ Proceed("thaw", "thaw") /\ t \in readOnly
    /\ t = "sdk" => "repository" \notin readOnly
    /\ readOnly' = readOnly \ {t}
    /\ UNCHANGED <<local, written, print>>

Thawed ==
    /\ Proceed("thaw", IF broken = "none" THEN "checks" ELSE "failed") /\ readOnly = {}
    /\ UNCHANGED <<local, trees>>

\* What the consumer has made is looked at.
CheckOutputs == Proceed("checks", "passed") /\ UNCHANGED <<local, trees>>
-----------------------------------------------------------------------------
(* validate_apple().                                                       *)

\* The mutant puts Package.local.swift in place before the installer has read the
\* checksum in Package.swift.
SwapFirst == [release |-> "swap", swap |-> "install", installing |-> "test"]
AppleOrder == [release |-> "install", installing |-> "swap", swap |-> "test"]

\* The release's tag is left to the installer.
CheckRelease ==
    /\ Proceed("release", AppleOrder["release"]) /\ bundle \notin {"signature", "artifact", "checksum"}
    /\ UNCHANGED <<local, trees>>

RunInstaller ==
    /\ Proceed("install", "installing") /\ Install("export", bundle, "release")
    /\ UNCHANGED trees

\* It has ended well; the framework is verified once more and repacked.
Installed ==
    /\ Proceed("installing", AppleOrder["installing"]) /\ result = "success"
    /\ UNCHANGED <<local, trees>>

SwapManifest ==
    /\ Proceed("swap", AppleOrder["swap"]) /\ pkg' = [pkg EXCEPT !["export"] = "local"]
    /\ UNCHANGED <<fw, pc, call, swap, ended, trees>>

Test == Proceed("test", "passed") /\ UNCHANGED <<local, trees>>
-----------------------------------------------------------------------------
Next ==
    \/ LocalStep /\ UNCHANGED smoke
    \/ Over /\ LocalUse /\ UNCHANGED smoke
    \/ \E c \in Components : Validate(c)
    \/ \E t \in Trees : Freeze(t) \/ Thaw(t)
    \/ PrepareGo \/ PrepareAndroid \/ TakePrint \/ Frozen \/ Consume \/ Compare
    \/ Thawed \/ CheckOutputs
    \/ CheckRelease \/ RunInstaller \/ Installed \/ SwapManifest \/ Test
    \/ Raise

Spec == Init /\ [][Next]_vars
-----------------------------------------------------------------------------
(* Properties. *)

\* A validation that is over has made writable what it had made read-only, wherever
\* it failed, and if it passed, the consumer has changed nothing, also where
\* permissions did not stop it.  Only an exception in the finally clause, and one
\* while Go's cache is being made read-only, leave trees that cannot be removed.
LeftAsFound ==
    Over =>
        /\ broken # "thaw" /\ <<comp, broken>> # <<"go", "freeze">> => readOnly = {}
        /\ step = "passed" => written = {}
=============================================================================
