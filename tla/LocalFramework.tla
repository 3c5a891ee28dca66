---------------------------- MODULE LocalFramework ----------------------------
(***************************************************************************)
(* A checkout of the package and the three programs that change it:        *)
(* build-xcframework.sh and install-local-xcframework.py replace the       *)
(* framework, with-local-framework.sh swaps Package.swift for the duration *)
(* of a command.  One program runs at a time; it may fail or be            *)
(* interrupted at any step, and it may be killed, which runs no trap.      *)
(*                                                                         *)
(* The module has the programs; ExportSmoke puts them together with the    *)
(* validation that calls the installer in an export of the package.        *)
(***************************************************************************)
CONSTANTS BuildDefects, BundleDefects   \* what may be wrong with a build, with a release

\* The manifest is not signed, is of another tag, or does not describe the
\* archive; the archive is not the one Package.swift pins; the slices are not
\* those that their description says.
AllBundleDefects == {"signature", "tag", "artifact", "checksum", "slices"}

ASSUME LocalOK == BuildDefects \subseteq {"slices"} /\ BundleDefects \subseteq AllBundleDefects

Dirs == {"checkout", "export"}
Bundles == BundleDefects \cup {"none"}

VARIABLES
    pkg,      \* Package.swift of each directory
    fw,       \* Frameworks/libhop.xcframework of each directory
    pc,       \* the step of the program that runs, or "idle"
    caller,   \* who called build-xcframework.sh
    dir,      \* the directory it works in
    bundle,   \* what is wrong with the release that is installed
    was,      \* the framework before that
    backup,   \* with-local-framework.sh's copy of Package.swift
    trapped,  \* its EXIT trap is set
    result,   \* how the last program ended
    at,       \* the step where it did
    spoiled,  \* the directories whose framework a program has left unfinished
    unrestored  \* a swap of Package.swift ended without its restore, and no checkout since

call == <<caller, dir, bundle, was>>
swap == <<backup, trapped, unrestored>>
ended == <<result, at, spoiled>>
local == <<pkg, fw, pc, call, swap, ended>>

Absent == [files |-> "none", defect |-> "none", by |-> "nobody"]
Framework(files, defect, by) == [files |-> files, defect |-> defect, by |-> by]

LocalInit ==
    /\ pkg = [d \in Dirs |-> "published"] /\ fw = [d \in Dirs |-> Absent]
    /\ pc = "idle" /\ caller = "user" /\ dir = "checkout" /\ bundle = "none" /\ was = Absent
    /\ backup = "none" /\ trapped = FALSE /\ unrestored = FALSE
    /\ result = "none" /\ at = "idle" /\ spoiled = {}

\* The steps of each program.
Building == {"compile", "remove", "removing", "create", "finish", "verify"}
Installing == {"manifest", "release", "pin", "remove_old", "removing_old", "extract", "unpack", "slices"}
Running == {"backup", "trap", "swap", "swapping", "command", "restore", "restoring"}
Steps == {"idle"} \cup Building \cup Installing \cup Running

\* Those at which the framework is not whole, or not yet verified.
Replacing == {"removing", "create", "finish", "verify", "removing_old", "extract", "unpack", "slices"}

\* Those of restore(), which the trap runs.
Restoring == {"restore", "restoring"}

Begin(step, d, release) ==
    /\ pc = "idle" /\ pc' = step
    /\ dir' = d /\ was' = fw[d] /\ bundle' = release
    /\ result' = "none" /\ at' = "idle" /\ UNCHANGED spoiled

Go(from, to) == pc = from /\ pc' = to /\ UNCHANGED ended

\* A program ends at the step it is at.  A trap that is set runs before that.
End(how) ==
    /\ pc' = IF trapped /\ pc \notin Restoring THEN "restore" ELSE "idle"
    /\ result' = how /\ at' = pc
    /\ spoiled' = IF pc \in Replacing /\ how # "success" THEN spoiled \cup {dir}
                  ELSE IF pc \in Replacing THEN spoiled \ {dir} ELSE spoiled

Check(step, ok, next) == IF ok THEN Go(step, next) ELSE pc = step /\ End("rejected")

Replace(framework) == fw' = [fw EXCEPT ![dir] = framework] /\ UNCHANGED <<pkg, call, swap>>

\* What is there while a directory is removed, which takes one file after the other.
Partly(framework) == IF framework = Absent THEN Absent ELSE [framework EXCEPT !.files = "some"]
-----------------------------------------------------------------------------
(* build-xcframework.sh: the old framework is removed, xcodebuild writes   *)
(* the new one, its property list is sorted and its slices are described.  *)

Build ==
    /\ Begin("compile", "checkout", "none") /\ caller' = "user"
    /\ UNCHANGED <<pkg, fw, swap>>

Compile == Go("compile", "remove") /\ UNCHANGED <<pkg, fw, call, swap>>
RemoveOld ==
    \/ Go("remove", "removing") /\ Replace(Partly(fw[dir]))
    \/ Go("removing", "create") /\ Replace(Absent)

Create == Go("create", "finish") /\ Replace(Framework("some", "none", "build"))
FinishBuild ==
    \E d \in BuildDefects \cup {"none"} : Go("finish", "verify") /\ Replace(Framework("all", d, "build"))

\* apple-verify.  The mutant leaves it out.
VerifiedUnseen == TRUE
BuildVerified == fw[dir].defect # "slices"

VerifyBuild ==
    /\ IF BuildVerified /\ caller = "run"
       THEN pc = "verify" /\ pc' = "backup" /\ spoiled' = spoiled \ {dir} /\ UNCHANGED <<result, at>>
       ELSE pc = "verify" /\ End(IF BuildVerified THEN "success" ELSE "rejected")
    /\ UNCHANGED <<pkg, fw, call, swap>>
-----------------------------------------------------------------------------
(* install-local-xcframework.py.                                           *)

\* Whatever can be checked without the new framework is checked before the old
\* one is removed.  The mutant removes it first.
RemoveFirst == [manifest |-> "remove_old", remove_old |-> "release", release |-> "pin", pin |-> "extract"]
InstallOrder == [manifest |-> "release", release |-> "pin", pin |-> "remove_old", remove_old |-> "extract"]

\* Without --bundle the manifest is downloaded and verified before the archive is.
Install(d, release, first) ==
    /\ Begin(first, d, release)
    /\ UNCHANGED <<pkg, fw, caller, swap>>

Verify(step, ok) == Check(step, ok, InstallOrder[step]) /\ UNCHANGED <<pkg, fw, call, swap>>

VerifyManifest == Verify("manifest", bundle \notin {"signature", "tag"})
VerifyRelease == Verify("release", bundle \notin {"signature", "tag", "artifact"})

\* Package.swift names one checksum, that of the archive.  The mutant does not
\* compare them.
OneChecksum == pkg[dir] = "published"
Pinned == OneChecksum /\ bundle # "checksum"

CheckPin == Verify("pin", Pinned)

\* What rmtree() of Frameworks leaves.  The mutant ignores its errors.
RemovedInPart == Partly(fw[dir])
Removed == Absent

RemoveInstalled ==
    \/ Go("remove_old", "removing_old") /\ Replace(Partly(fw[dir]))
    \/ Go("removing_old", InstallOrder["remove_old"]) /\ Replace(Removed)

\* safe_extract(): the destination is absent or empty.
Extract ==
    /\ Check("extract", fw[dir] = Absent, "unpack")
    /\ Replace(IF fw[dir] = Absent THEN Framework("some", bundle, "bundle") ELSE fw[dir])

Unpack == Go("unpack", "slices") /\ Replace(Framework("all", bundle, "bundle"))

\* apple_architecture_value() is compared with what the archive says.
CheckSlices ==
    /\ pc = "slices" /\ End(IF fw[dir].defect # "slices" THEN "success" ELSE "rejected")
    /\ UNCHANGED <<pkg, fw, call, swap>>
-----------------------------------------------------------------------------
(* with-local-framework.sh.                                                *)

\* -d: it is enough that the directory is there.
Run ==
    /\ Begin(IF fw["checkout"].files = "none" THEN "compile" ELSE "backup", "checkout", "none")
    /\ caller' = "run"
    /\ UNCHANGED <<pkg, fw, swap>>

\* The copy is made, and the trap set, before Package.swift is touched.  The
\* mutant sets it afterwards.
TrapLast == [backup |-> "swap", trap |-> "command", swap |-> "swapping", swapping |-> "trap"]
RunOrder == [backup |-> "trap", trap |-> "swap", swap |-> "swapping", swapping |-> "command"]

Backup ==
    /\ Go("backup", RunOrder["backup"]) /\ backup' = pkg["checkout"]
    /\ UNCHANGED <<pkg, fw, call, trapped, unrestored>>

SetTrap ==
    /\ Go("trap", RunOrder["trap"]) /\ trapped' = TRUE
    /\ UNCHANGED <<pkg, fw, call, backup, unrestored>>

\* cp truncates the file, then writes it.
Copy(step, value) ==
    /\ Go(step, RunOrder[step]) /\ pkg' = [pkg EXCEPT !["checkout"] = value]
    /\ UNCHANGED <<fw, call, swap>>

Swap == Copy("swap", "torn") \/ Copy("swapping", "local")

Command ==
    /\ pc = "command" /\ \E how \in {"success", "failure"} : End(how)
    /\ UNCHANGED <<pkg, fw, call, swap>>

\* restore(): the result is that of the program that is ending.
Restore ==
    \/ /\ Go("restore", "restoring") /\ pkg' = [pkg EXCEPT !["checkout"] = "torn"]
       /\ UNCHANGED <<fw, call, swap>>
    \/ /\ Go("restoring", "idle") /\ pkg' = [pkg EXCEPT !["checkout"] = backup]
       /\ backup' = "none" /\ trapped' = FALSE
       /\ UNCHANGED <<fw, call, unrestored>>
-----------------------------------------------------------------------------
(* Failures.                                                               *)

\* The swap is over, and Package.swift may not be what it was.  The copy may stay
\* behind, where no program looks for it.
Abandon == backup' = "none" /\ trapped' = FALSE /\ unrestored' = (unrestored \/ trapped)

\* A tool fails, the disk is full, or the user interrupts the program.  What ends
\* restore() ends the script: a trap does not run again.
Interrupt ==
    /\ pc # "idle" /\ End("fault")
    /\ \/ pc \notin Restoring /\ UNCHANGED swap
       \/ pc \in Restoring /\ Abandon
    /\ UNCHANGED <<pkg, fw, call>>

Kill ==
    /\ pc # "idle" /\ pc' = "idle"
    /\ result' = "fault" /\ at' = pc
    /\ spoiled' = IF pc \in Replacing THEN spoiled \cup {dir} ELSE spoiled
    /\ Abandon
    /\ UNCHANGED <<pkg, fw, call>>

\* The user gets Package.swift back from git.
CheckOut ==
    /\ pc = "idle" /\ unrestored /\ unrestored' = FALSE
    /\ pkg' = [pkg EXCEPT !["checkout"] = "published"]
    /\ result' = "none" /\ at' = "idle"
    /\ UNCHANGED <<fw, pc, call, backup, trapped, spoiled>>

Builder == Compile \/ RemoveOld \/ Create \/ FinishBuild \/ VerifyBuild
Installer == \/ VerifyManifest \/ VerifyRelease \/ CheckPin \/ RemoveInstalled
             \/ Extract \/ Unpack \/ CheckSlices
Runner == Backup \/ SetTrap \/ Swap \/ Command \/ Restore

LocalStep == Builder \/ Installer \/ Runner \/ Interrupt \/ Kill
LocalUse == \/ Build \/ Run \/ CheckOut
            \/ \E b \in Bundles, first \in {"manifest", "release"} : Install("checkout", b, first)
-----------------------------------------------------------------------------
(* Properties. *)

Frameworks == [files : {"none", "some", "all"}, defect : BundleDefects \cup BuildDefects \cup {"none"},
               by : {"nobody", "build", "bundle"}]

\* Every variable keeps its type, and a trap that is set has a copy to restore.
LocalTypeOK ==
    /\ pkg \in [Dirs -> {"published", "torn", "local"}]
    /\ fw \in [Dirs -> Frameworks] /\ was \in Frameworks
    /\ pc \in Steps /\ at \in Steps
    /\ caller \in {"user", "run"} /\ dir \in Dirs
    /\ bundle \in BundleDefects \cup {"none"}
    /\ backup \in {"none", "published", "torn", "local"}
    /\ trapped \in BOOLEAN /\ unrestored \in BOOLEAN
    /\ result \in {"none", "success", "failure", "rejected", "fault"}
    /\ spoiled \subseteq Dirs
    /\ trapped => backup # "none"

\* When no program runs, Package.swift is the published manifest, at whatever step
\* a command, a build for it, an installation or the first copy failed, was
\* interrupted or was killed ("without changing Package.swift on exit").  Two things
\* are beyond the trap: a kill once it is set, and a restore() that itself fails or
\* is interrupted.
PackageIsRestored ==
    pc = "idle" /\ ~unrestored => pkg["checkout"] = "published"

\* The command runs against a framework that is whole and passed its verification,
\* unless a build or an installation was abandoned after it had begun to remove the
\* old framework: the script asks only whether the directory is there.
CommandUsesVerified ==
    pc = "command" /\ "checkout" \notin spoiled =>
        fw["checkout"].files = "all" /\ fw["checkout"].defect = "none"

\* An installation that succeeded has put the archive that Package.swift pins in
\* place, whole, from a release that is signed, of the tag and as described; one
\* that refused a release for what it is has left the framework of before alone.
InstallIsAllOrNothing ==
    /\ pc = "idle" /\ result = "success" /\ at = "slices" => fw[dir] = Framework("all", "none", "bundle")
    /\ pc = "idle" /\ result = "rejected" /\ bundle \in AllBundleDefects \ {"slices"} => fw[dir] = was

\* A release is refused only for what it is, or because Package.swift was left
\* without its checksum by a swap that could not restore it: not for what an earlier
\* build, installation or command left behind.
InstallRefusedForCause ==
    result = "rejected" /\ at \notin {"idle", "verify"} =>
        bundle # "none" \/ (dir = "checkout" /\ pkg[dir] # "published" /\ unrestored)
=============================================================================
