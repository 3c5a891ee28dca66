-------------------------- MODULE ExportSmokeProofs --------------------------
(***************************************************************************)
(* Proofs about LocalFramework, together with the validation of exports,   *)
(* for any defects of builds and of releases.                              *)
(***************************************************************************)
EXTENDS ExportSmoke, TLAPS

\* The steps at which the trap is set, and the defects that are found before anything
\* is removed.
Swapped == Running \ {"backup", "trap"}
BadRelease == {"signature", "tag", "artifact", "checksum"}

\* What a program works on: builds and commands use the checkout, and no release.
Programs ==
    /\ pc \in Building \cup Running => dir = "checkout" /\ bundle = "none"
    /\ pc \in Restoring => at \in Swapped
    /\ pc # "idle" => result # "rejected"
    /\ pc \in Installing /\ dir = "export" => pkg["export"] = "published" /\ step = "installing"
    /\ step \in {"release", "install"} => pkg["export"] = "published"

\* The copy is there, and the trap set, while Package.swift may be another; unless a
\* swap has left another behind, the copy is the published one.
Guarded ==
    /\ trapped <=> pc \in Swapped
    /\ pc \in Swapped \cup {"trap"} => backup # "none"
    /\ ~unrestored => /\ pc \notin Swapped \ {"swap"} => pkg["checkout"] = "published"
                      /\ pc \in Swapped \cup {"trap"} => backup = "published"

\* A framework that nobody is replacing, or left unfinished, is absent or good.
Good(d) == fw[d] = Absent \/ (fw[d].files = "all" /\ fw[d].defect = "none")
Kempt ==
    /\ \A d \in Dirs : d \notin spoiled /\ ~(dir = d /\ pc \in Replacing) => Good(d)
    /\ pc \in {"backup", "trap", "swap", "swapping", "command"} => fw["checkout"].files # "none"
    /\ pc = "verify" => fw[dir].files = "all" /\ fw[dir].defect \in {"none", "slices"}

\* The order of an installation: nothing is touched before the release has passed.
Ordered ==
    /\ pc \in {"manifest", "release", "pin", "remove_old"} => fw[dir] = was
    /\ pc = "pin" => bundle \notin {"signature", "tag", "artifact"}
    /\ pc \in {"remove_old", "removing_old", "extract", "unpack", "slices"} => bundle \notin BadRelease
    /\ pc = "extract" => fw[dir] = Absent
    /\ pc = "slices" => fw[dir] = Framework("all", bundle, "bundle")

\* Where a validation may hold trees read-only, and where they may have been written to.
Tidy ==
    /\ comp \in Components /\ print = {}
    /\ readOnly \subseteq Kept[comp] /\ written \subseteq Kept[comp]
    /\ step \in {"none", "prepare", "print", "freeze", "consume", "compare", "thaw", "checks", "passed",
       "failed",
                 "release", "install", "installing", "swap", "test"}
    /\ readOnly # {} => step \in {"freeze", "consume", "compare", "thaw", "failed"}
    /\ step = "failed" /\ readOnly # {} => broken = "thaw" \/ <<comp, broken>> = <<"go", "freeze">>
    /\ written # {} => step \in {"compare", "thaw", "failed"}
    /\ step = "thaw" /\ written # {} => broken # "none"

LInv == /\ LocalTypeOK /\ Programs /\ Guarded /\ Kempt /\ Ordered
        /\ InstallIsAllOrNothing /\ InstallRefusedForCause

\* A program goes from one of its steps to another.
LEMMA StepsStep ==
    ASSUME LInv, step' = step, LocalStep \/ Build \/ Run \/ CheckOut
    PROVE  pc' \in Steps /\ at' \in Steps
<1> USE DEF LInv, LocalTypeOK, Steps, Building, Installing, Running, ended
<1>1. CASE Builder
    BY <1>1 DEF Builder, Compile, RemoveOld, Create, FinishBuild, VerifyBuild, Go, End
<1>2. CASE Installer
    BY <1>2 DEF Installer, VerifyManifest, VerifyRelease, CheckPin, RemoveInstalled, Extract, Unpack,
       CheckSlices, Verify, InstallOrder, Check, Go, End
<1>3. CASE Runner
    BY <1>3 DEF Runner, Backup, SetTrap, Swap, Command, Restore, RunOrder, Copy, Go, End
<1>4. CASE Interrupt
    BY <1>4 DEF Interrupt, End
<1>5. CASE Kill
    BY <1>5 DEF Kill
<1>6. CASE Build \/ Run
    BY <1>6 DEF Build, Run, Begin
<1>7. CASE CheckOut
    BY <1>7 DEF CheckOut
<1>8. QED
    BY <1>1, <1>2, <1>3, <1>4, <1>5, <1>6, <1>7 DEF LocalStep

\* Types.
LEMMA LocalTypeOKStep ==
    ASSUME LInv, step' = step, LocalStep \/ Build \/ Run \/ CheckOut PROVE LocalTypeOK'
<1> USE LocalOK DEF LInv, Running, Restoring, Swapped, Dirs,
       Frameworks, Framework, Absent, Replacing, call, swap, ended, LocalTypeOK, Guarded
<1>0. pc' \in Steps /\ at' \in Steps
    BY StepsStep
<1>1. CASE Builder
  <2>1. CASE Compile
      BY <1>0, <2>1 DEF Compile, Go
  <2>2. CASE RemoveOld
      BY <1>0, <2>2 DEF RemoveOld, Go, Replace, Partly
  <2>3. CASE Create
      BY <1>0, <2>3 DEF Create, Go, Replace
  <2>4. CASE FinishBuild
      BY <1>0, <2>4 DEF FinishBuild, Go, Replace
  <2>5. CASE VerifyBuild
    <3>1. UNCHANGED <<pkg, fw, call, swap>>
        BY <2>5 DEF VerifyBuild
    <3>2. result' \in {"none", "success", "failure", "rejected"} \cup {result} /\ spoiled' \subseteq Dirs
        BY <2>5 DEF VerifyBuild, BuildVerified, End
    <3>3. QED
        BY <1>0, <3>1, <3>2
  <2>6. QED
      BY <1>1, <2>1, <2>2, <2>3, <2>4, <2>5 DEF Builder
<1>2. CASE Installer
  <2>1. CASE VerifyManifest
      BY <1>0, <2>1 DEF VerifyManifest, Verify, InstallOrder, Check, Go, End
  <2>2. CASE VerifyRelease
    <3>1. UNCHANGED <<pkg, fw, call, swap>>
        BY <2>2 DEF VerifyRelease, Verify
    <3>2. result' \in {"none", "success", "failure", "rejected"} \cup {result} /\ spoiled' \subseteq Dirs
        BY <2>2 DEF VerifyRelease, Verify, InstallOrder, Check, Go, End
    <3>3. QED
        BY <1>0, <3>1, <3>2
  <2>3. CASE CheckPin
    <3>1. UNCHANGED <<pkg, fw, call, swap>>
        BY <2>3 DEF CheckPin, Verify
    <3>2. result' \in {"none", "success", "failure", "rejected"} \cup {result} /\ spoiled' \subseteq Dirs
        BY <2>3 DEF CheckPin, Verify, InstallOrder, Check, Go, End, Pinned, OneChecksum
    <3>3. QED
        BY <1>0, <3>1, <3>2
  <2>4. CASE RemoveInstalled
      BY <1>0, <2>4 DEF RemoveInstalled, InstallOrder, Go, Replace, Removed, Partly
  <2>5. CASE Extract
    <3>1. UNCHANGED <<pkg, call, swap>> /\ fw' \in [Dirs -> Frameworks]
        BY <2>5 DEF Extract, Replace
    <3>2. result' \in {"none", "success", "failure", "rejected"} \cup {result} /\ spoiled' \subseteq Dirs
        BY <2>5 DEF Extract, Check, Go, End
    <3>3. QED
        BY <1>0, <3>1, <3>2
  <2>6. CASE Unpack
      BY <1>0, <2>6 DEF Unpack, Go, Replace
  <2>7. CASE CheckSlices
      BY <1>0, <2>7 DEF CheckSlices, End
  <2>8. QED
      BY <1>2, <2>1, <2>2, <2>3, <2>4, <2>5, <2>6, <2>7 DEF Installer
<1>3. CASE Runner
    BY <1>0, <1>3 DEF Runner, Backup, SetTrap, Swap, Command, Restore, RunOrder, Copy, Go, End
<1>4. CASE Interrupt
  <2>1. result' = "fault" /\ spoiled' \subseteq Dirs /\ UNCHANGED <<pkg, fw, call>>
      BY <1>4 DEF Interrupt, End
  <2>2. CASE UNCHANGED swap
      BY <1>0, <2>1, <2>2
  <2>3. CASE Abandon
    <3>1. trapped' = FALSE /\ backup' = "none" /\ unrestored' \in BOOLEAN
        BY <2>3 DEF Abandon
    <3>2. QED
        BY <1>0, <2>1, <3>1
  <2>4. QED
      BY <1>4, <2>2, <2>3 DEF Interrupt
<1>5. CASE Kill
    BY <1>0, <1>5 DEF Kill, Abandon
<1>6. CASE Build
    BY <1>0, <1>6 DEF Build, Begin
<1>7. CASE Run
    BY <1>0, <1>7 DEF Run, Begin
<1>8. CASE CheckOut
    BY <1>0, <1>8 DEF CheckOut
<1>9. QED
    BY <1>1, <1>2, <1>3, <1>4, <1>5, <1>6, <1>7, <1>8 DEF LocalStep

\* Each program works on its own directory and release.
LEMMA ProgramsStep ==
    ASSUME LInv, step' = step, LocalStep \/ Build \/ Run \/ CheckOut PROVE Programs'
<1> USE DEF LInv, Steps, Building, Installing, Running, Restoring, Swapped, Dirs, call,
       swap, ended, LocalTypeOK, Guarded, Programs
<1>1. CASE Builder
  <2>1. CASE Compile
      BY <2>1 DEF Compile, Go
  <2>2. CASE RemoveOld
      BY <2>2 DEF RemoveOld, Go, Replace, Partly
  <2>3. CASE Create
      BY <2>3 DEF Create, Go, Replace
  <2>4. CASE FinishBuild
      BY <2>4 DEF FinishBuild, Go, Replace
  <2>5. CASE VerifyBuild
      BY <2>5 DEF VerifyBuild, BuildVerified, End
  <2>6. QED
      BY <1>1, <2>1, <2>2, <2>3, <2>4, <2>5 DEF Builder
<1>2. CASE Installer
  <2>1. CASE VerifyManifest
      BY <2>1 DEF VerifyManifest, Verify, InstallOrder, Check, Go, End
  <2>2. CASE VerifyRelease
      BY <2>2 DEF VerifyRelease, Verify, InstallOrder, Check, Go, End
  <2>3. CASE CheckPin
      BY <2>3 DEF CheckPin, Verify, InstallOrder, Check, Go, End, Pinned, OneChecksum
  <2>4. CASE RemoveInstalled
      BY <2>4 DEF RemoveInstalled, InstallOrder, Go, Replace, Removed, Partly
  <2>5. CASE Extract
      BY <2>5 DEF Extract, Check, Go, End, Replace
  <2>6. CASE Unpack
      BY <2>6 DEF Unpack, Go, Replace
  <2>7. CASE CheckSlices
      BY <2>7 DEF CheckSlices, End
  <2>8. QED
      BY <1>2, <2>1, <2>2, <2>3, <2>4, <2>5, <2>6, <2>7 DEF Installer
<1>3. CASE Runner
    BY <1>3 DEF Runner, Backup, SetTrap, Swap, Command, Restore, RunOrder, Copy, Go, End
<1>4. CASE Interrupt
    BY <1>4 DEF Interrupt, End, Abandon
<1>5. CASE Kill
    BY <1>5 DEF Kill, Abandon
<1>6. CASE Build
    BY <1>6 DEF Build, Begin
<1>7. CASE Run
    BY <1>7 DEF Run, Begin
<1>8. CASE CheckOut
    BY <1>8 DEF CheckOut
<1>9. QED
    BY <1>1, <1>2, <1>3, <1>4, <1>5, <1>6, <1>7, <1>8 DEF LocalStep

\* The copy of Package.swift and the trap.
LEMMA GuardedStep ==
    ASSUME LInv, step' = step, LocalStep \/ Build \/ Run \/ CheckOut PROVE Guarded'
<1> USE DEF LInv, Steps, Building, Installing, Running, Restoring, Swapped, call, swap,
       ended, Dirs, LocalTypeOK, Programs, Guarded
<1>1. CASE Builder
    BY <1>1 DEF Builder, Compile, RemoveOld, Create, FinishBuild, VerifyBuild, Go, End, Replace, Partly,
       BuildVerified
<1>2. CASE Installer
    BY <1>2 DEF Installer, VerifyManifest, VerifyRelease, CheckPin, RemoveInstalled, Extract, Unpack,
       CheckSlices, Verify, InstallOrder, Check, Go, End, Replace, Partly, Pinned, OneChecksum, Removed
<1>3. CASE Runner
    BY <1>3 DEF Runner, Backup, SetTrap, Swap, Command, Restore, RunOrder, Copy, Go, End
<1>4. CASE Interrupt
    BY <1>4 DEF Interrupt, End, Abandon
<1>5. CASE Kill
    BY <1>5 DEF Kill, Abandon
<1>6. CASE Build
    BY <1>6 DEF Build, Begin
<1>7. CASE Run
    BY <1>7 DEF Run, Begin
<1>8. CASE CheckOut
    BY <1>8 DEF CheckOut
<1>9. QED
    BY <1>1, <1>2, <1>3, <1>4, <1>5, <1>6, <1>7, <1>8 DEF LocalStep

\* Frameworks are absent, good, or accounted for.
LEMMA KemptStep ==
    ASSUME LInv, step' = step, LocalStep \/ Build \/ Run \/ CheckOut PROVE Kempt'
<1> USE LocalOK DEF LInv, Steps, Building, Installing, Running, Restoring, Swapped,
       Replacing, Framework, Absent, call, swap, ended, Dirs, BadRelease, AllBundleDefects,
       Good, LocalTypeOK, Programs, Ordered, Kempt
<1>1. CASE Builder
    BY <1>1 DEF Builder, Compile, RemoveOld, Create, FinishBuild, VerifyBuild, Go, End, Replace, Partly,
       BuildVerified
<1>2. CASE Installer
  <2>1. CASE VerifyManifest
      BY <2>1 DEF VerifyManifest, Verify, InstallOrder, Check, Go, End
  <2>2. CASE VerifyRelease
      BY <2>2 DEF VerifyRelease, Verify, InstallOrder, Check, Go, End
  <2>3. CASE CheckPin
      BY <2>3 DEF CheckPin, Verify, InstallOrder, Check, Go, End, Pinned, OneChecksum
  <2>4. CASE RemoveInstalled
      BY <2>4 DEF RemoveInstalled, InstallOrder, Go, Replace, Removed, Partly
  <2>5. CASE Extract
      BY <2>5 DEF Extract, Check, Go, End, Replace
  <2>6. CASE Unpack
      BY <2>6 DEF Unpack, Go, Replace
  <2>7. CASE CheckSlices
      BY <2>7 DEF CheckSlices, End
  <2>8. QED
      BY <1>2, <2>1, <2>2, <2>3, <2>4, <2>5, <2>6, <2>7 DEF Installer
<1>3. CASE Runner
    BY <1>3 DEF Runner, Backup, SetTrap, Swap, Command, Restore, RunOrder, Copy, Go, End
<1>4. CASE Interrupt
    BY <1>4 DEF Interrupt, End, Abandon
<1>5. CASE Kill
    BY <1>5 DEF Kill, Abandon
<1>6. CASE Build
    BY <1>6 DEF Build, Begin
<1>7. CASE Run
    BY <1>7 DEF Run, Begin
<1>8. CASE CheckOut
    BY <1>8 DEF CheckOut
<1>9. QED
    BY <1>1, <1>2, <1>3, <1>4, <1>5, <1>6, <1>7, <1>8 DEF LocalStep

\* The order of an installation.
LEMMA OrderedStep ==
    ASSUME LInv, step' = step, LocalStep \/ Build \/ Run \/ CheckOut PROVE Ordered'
<1> USE DEF LInv, Steps, Building, Installing, Running, Restoring, Swapped, Framework,
       Absent, call, swap, ended, Dirs, BadRelease, LocalTypeOK, Programs, Ordered
<1>1. CASE Builder
    BY <1>1 DEF Builder, Compile, RemoveOld, Create, FinishBuild, VerifyBuild, Go, End, Replace, Partly,
       BuildVerified
<1>2. CASE Installer
  <2>1. CASE VerifyManifest
      BY <2>1 DEF VerifyManifest, Verify, InstallOrder, Check, Go, End
  <2>2. CASE VerifyRelease
      BY <2>2 DEF VerifyRelease, Verify, InstallOrder, Check, Go, End
  <2>3. CASE CheckPin
    <3>1. UNCHANGED <<fw, dir, bundle, was>> /\ pc = "pin" /\ pc' \in {"remove_old", "idle"}
        BY <2>3 DEF CheckPin, Verify, InstallOrder, Check, Go, End, Guarded
    <3>2. pc' = "remove_old" => bundle # "checksum"
        BY <2>3 DEF CheckPin, Verify, Check, End, Pinned, Guarded
    <3>3. bundle \notin {"signature", "tag", "artifact"}
        BY <3>1
    <3>4. QED
        BY <3>1, <3>2, <3>3
  <2>4. CASE RemoveInstalled
      BY <2>4 DEF RemoveInstalled, InstallOrder, Go, Replace, Removed, Partly
  <2>5. CASE Extract
      BY <2>5 DEF Extract, Check, Go, End, Replace
  <2>6. CASE Unpack
      BY <2>6 DEF Unpack, Go, Replace
  <2>7. CASE CheckSlices
      BY <2>7 DEF CheckSlices, End
  <2>8. QED
      BY <1>2, <2>1, <2>2, <2>3, <2>4, <2>5, <2>6, <2>7 DEF Installer
<1>3. CASE Runner
    BY <1>3 DEF Runner, Backup, SetTrap, Swap, Command, Restore, RunOrder, Copy, Go, End
<1>4. CASE Interrupt
    BY <1>4 DEF Interrupt, End, Abandon
<1>5. CASE Kill
    BY <1>5 DEF Kill, Abandon
<1>6. CASE Build
    BY <1>6 DEF Build, Begin
<1>7. CASE Run
    BY <1>7 DEF Run, Begin
<1>8. CASE CheckOut
    BY <1>8 DEF CheckOut
<1>9. QED
    BY <1>1, <1>2, <1>3, <1>4, <1>5, <1>6, <1>7, <1>8 DEF LocalStep

\* What an installation leaves, when it succeeds or is refused.
LEMMA InstallIsAllOrNothingStep ==
    ASSUME LInv, step' = step, LocalStep \/ Build \/ Run \/ CheckOut PROVE InstallIsAllOrNothing'
<1> USE LocalOK DEF LInv, Steps, Building, Installing, Running, Restoring, Swapped,
       Framework, Absent, call, swap, ended, BadRelease, AllBundleDefects, Dirs,
       LocalTypeOK, Programs, Guarded, Ordered, InstallIsAllOrNothing
<1>1. CASE Builder
    BY <1>1 DEF Builder, Compile, RemoveOld, Create, FinishBuild, VerifyBuild, Go, End, Replace, Partly,
       BuildVerified
<1>2. CASE Installer
    BY <1>2 DEF Installer, VerifyManifest, VerifyRelease, CheckPin, RemoveInstalled, Extract, Unpack,
       CheckSlices, Verify, InstallOrder, Check, Go, End, Replace, Partly, Pinned, OneChecksum, Removed
<1>3. CASE Runner
    BY <1>3 DEF Runner, Backup, SetTrap, Swap, Command, Restore, RunOrder, Copy, Go, End
<1>4. CASE Interrupt
    BY <1>4 DEF Interrupt, End, Abandon
<1>5. CASE Kill
    BY <1>5 DEF Kill, Abandon
<1>6. CASE Build
    BY <1>6 DEF Build, Begin
<1>7. CASE Run
    BY <1>7 DEF Run, Begin
<1>8. CASE CheckOut
    BY <1>8 DEF CheckOut
<1>9. QED
    BY <1>1, <1>2, <1>3, <1>4, <1>5, <1>6, <1>7, <1>8 DEF LocalStep

\* Why an installation is refused.
LEMMA InstallRefusedForCauseStep ==
    ASSUME LInv, step' = step, LocalStep \/ Build \/ Run \/ CheckOut PROVE InstallRefusedForCause'
<1> USE DEF LInv, Steps, Building, Installing, Running, Restoring, Swapped, Framework,
       Absent, call, swap, ended, BadRelease, Dirs, LocalTypeOK, Programs, Guarded, Ordered,
       InstallRefusedForCause
<1>1. CASE Builder
    BY <1>1 DEF Builder, Compile, RemoveOld, Create, FinishBuild, VerifyBuild, Go, End, Replace, Partly,
       BuildVerified
<1>2. CASE Installer
    BY <1>2 DEF Installer, VerifyManifest, VerifyRelease, CheckPin, RemoveInstalled, Extract, Unpack,
       CheckSlices, Verify, InstallOrder, Check, Go, End, Replace, Partly, Pinned, OneChecksum, Removed
<1>3. CASE Runner
    BY <1>3 DEF Runner, Backup, SetTrap, Swap, Command, Restore, RunOrder, Copy, Go, End
<1>4. CASE Interrupt
    BY <1>4 DEF Interrupt, End, Abandon
<1>5. CASE Kill
    BY <1>5 DEF Kill, Abandon
<1>6. CASE Build
    BY <1>6 DEF Build, Begin
<1>7. CASE Run
    BY <1>7 DEF Run, Begin
<1>8. CASE CheckOut
    BY <1>8 DEF CheckOut
<1>9. QED
    BY <1>1, <1>2, <1>3, <1>4, <1>5, <1>6, <1>7, <1>8 DEF LocalStep

LEMMA LocalSteps ==
    ASSUME LInv, step' = step, LocalStep \/ Build \/ Run \/ CheckOut PROVE LInv'
BY LocalTypeOKStep, ProgramsStep, GuardedStep, KemptStep, OrderedStep, InstallIsAllOrNothingStep,
   InstallRefusedForCauseStep DEF LInv

\* An installation begins: into the checkout, or into an export that a validation has
\* just made.
LEMMA InstallSteps ==
    ASSUME LInv, NEW d \in Dirs, NEW b \in Bundles, NEW first \in {"manifest", "release"}, Install(d, b, first),
           \/ d = "checkout" /\ step' = step
           \/ d = "export" /\ step = "install" /\ step' = "installing"
    PROVE  LInv'
<1> USE LocalOK DEF LInv, Steps, Building, Installing, Running, Restoring, Swapped,
       LocalTypeOK, Programs
<1>1. /\ pc = "idle" /\ pc' = first /\ dir' = d /\ was' = fw[d] /\ bundle' = b /\ result' = "none" /\ at' = "idle"
      /\ UNCHANGED <<pkg, fw, caller, backup, trapped, unrestored, spoiled>>
    BY DEF Install, Begin, swap
<1>2. LocalTypeOK'
    BY <1>1 DEF Bundles, Frameworks
<1>3. Programs'
    BY <1>1 DEF Building, Installing, Running, Swapped, Dirs
<1>4. Guarded'
    BY <1>1 DEF Guarded, Swapped
<1>5. Kempt'
    BY <1>1 DEF Kempt, Good, Replacing
<1>6. Ordered' /\ InstallIsAllOrNothing' /\ InstallRefusedForCause'
    BY <1>1 DEF Ordered, InstallIsAllOrNothing, InstallRefusedForCause
<1>7. QED
    BY <1>2, <1>3, <1>4, <1>5, <1>6

\* A new export; the tests of it replace its Package.swift.
LEMMA ExportSteps ==
    ASSUME LInv, SwapManifest \/ \E c \in Components : Validate(c) PROVE LInv'
<1> USE LocalOK DEF LInv, Steps, Building, Installing, Running, Restoring, Swapped,
       LocalTypeOK, Programs
<1>1. CASE SwapManifest
  <2>1. /\ pkg' = [pkg EXCEPT !["export"] = "local"] /\ pc = "idle" /\ step' = "test"
        /\ UNCHANGED <<fw, pc, caller, dir, bundle, was, backup, trapped, unrestored, result, at, spoiled>>
      BY <1>1 DEF SwapManifest, Proceed, AppleOrder, call, swap, ended
  <2>2. LocalTypeOK' /\ Programs'
      BY <2>1 DEF Dirs, Building, Installing, Running, Swapped
  <2>3. Guarded' /\ Kempt' /\ Ordered'
      BY <2>1 DEF Guarded, Kempt, Good, Ordered, Dirs
  <2>4. InstallIsAllOrNothing' /\ InstallRefusedForCause'
      BY <2>1 DEF InstallIsAllOrNothing, InstallRefusedForCause, Dirs
  <2>5. QED
      BY <2>2, <2>3, <2>4
<1>2. ASSUME NEW c \in Components, Validate(c) PROVE LInv'
  <2>1. /\ pkg' = [pkg EXCEPT !["export"] = "published"] /\ fw' = [fw EXCEPT !["export"] = Absent]
        /\ spoiled' = spoiled \ {"export"} /\ bundle' \in Bundles /\ result' = "none" /\ at' = "idle" /\ pc = "idle"
        /\ UNCHANGED <<pc, caller, dir, was, backup, trapped, unrestored>>
      BY <1>2 DEF Validate, NewExport, Over, Bundles, swap
  <2>2. LocalTypeOK' /\ Programs'
      BY <2>1 DEF Dirs, Bundles, Frameworks, Absent, Building, Installing, Running, Swapped
  <2>3. Guarded'
      BY <2>1 DEF Guarded, Swapped, Dirs
  <2>4. Kempt'
      BY <2>1 DEF Kempt, Good, Dirs, Replacing
  <2>5. Ordered' /\ InstallIsAllOrNothing' /\ InstallRefusedForCause'
      BY <2>1 DEF Ordered, InstallIsAllOrNothing, InstallRefusedForCause
  <2>6. QED
      BY <2>2, <2>3, <2>4, <2>5
<1>3. QED
    BY <1>1, <1>2

\* A step of a validation that changes no file of a package.
LEMMA QuietSteps ==
    ASSUME LInv, UNCHANGED local,
           pc # "idle" => step' = step,
           step' \in {"release", "install"} => step \in {"release", "install"}
    PROVE  LInv'
<1> USE DEF local, call, swap, ended, LInv
<1>1. LocalTypeOK' /\ Guarded' /\ Kempt' /\ Ordered' /\ InstallIsAllOrNothing' /\ InstallRefusedForCause'
    BY DEF LocalTypeOK, Guarded, Kempt, Good, Ordered, InstallIsAllOrNothing, InstallRefusedForCause
<1>2. Programs'
    BY DEF Programs, Installing
<1>3. QED
    BY <1>1, <1>2

Quiet == \/ \E t \in Trees : Freeze(t) \/ Thaw(t)
         \/ PrepareGo \/ PrepareAndroid \/ TakePrint \/ Frozen \/ Consume \/ Compare
         \/ Thawed \/ CheckOutputs \/ CheckRelease \/ Installed \/ Test \/ Raise

LEMMA LocalInvariant == Spec => []LInv
<1>1. Init => LInv
  <2> SUFFICES ASSUME Init PROVE LInv
      OBVIOUS
  <2> USE LocalOK DEF Init, LocalInit
  <2>1. LocalTypeOK
      BY DEF LocalTypeOK, Dirs, Frameworks, Absent, Steps
  <2>2. Programs /\ Guarded /\ Ordered
      BY DEF Programs, Guarded, Ordered, Building, Installing, Running, Restoring, Swapped, Dirs
  <2>3. Kempt
      BY DEF Kempt, Good
  <2>4. QED
      BY <2>1, <2>2, <2>3 DEF LInv, InstallIsAllOrNothing, InstallRefusedForCause
<1>2. LInv /\ [Next]_vars => LInv'
  <2> SUFFICES ASSUME LInv, [Next]_vars PROVE LInv'
      OBVIOUS
  <2>1. CASE LocalStep /\ UNCHANGED smoke
      BY <2>1, LocalSteps DEF smoke
  <2>2. CASE Over /\ LocalUse /\ UNCHANGED smoke
    <3>1. CASE Build \/ Run \/ CheckOut
        BY <2>2, <3>1, LocalSteps DEF smoke
    <3>2. CASE \E b \in Bundles, first \in {"manifest", "release"} : Install("checkout", b, first)
        BY <2>2, <3>2, InstallSteps DEF smoke, Dirs
    <3>3. QED
        BY <2>2, <3>1, <3>2 DEF LocalUse
  <2>3. CASE RunInstaller
    <3>1. bundle \in Bundles /\ "export" \in Dirs
        BY DEF LInv, LocalTypeOK, Bundles, Dirs
    <3>2. step = "install" /\ step' = "installing" /\ Install("export", bundle, "release")
        BY <2>3 DEF RunInstaller, Proceed
    <3>3. QED
        BY <3>1, <3>2, InstallSteps
  <2>4. CASE SwapManifest \/ \E c \in Components : Validate(c)
      BY <2>4, ExportSteps
  <2>5. CASE Quiet
    <3>1. UNCHANGED local /\ pc = "idle"
        BY <2>5 DEF Quiet, Freeze, Thaw, PrepareGo, PrepareAndroid, TakePrint, Frozen, Consume, Compare, Thawed,
           CheckOutputs, CheckRelease, Installed, Test, Raise, Proceed
    <3>2. step' \in {"release", "install"} => step \in {"release", "install"}
        BY <2>5 DEF Quiet, Freeze, Thaw, PrepareGo, PrepareAndroid, TakePrint, Frozen, Consume, Compare, Thawed,
           CheckOutputs, CheckRelease, Installed, Test, Raise, Proceed, SmokeOrder, AppleOrder
    <3>3. QED
        BY <3>1, <3>2, QuietSteps
  <2>6. CASE UNCHANGED vars
      BY <2>6, QuietSteps DEF vars, smoke
  <2>7. QED
      BY <2>1, <2>2, <2>3, <2>4, <2>5, <2>6 DEF Next, Quiet
<1>3. QED
    BY <1>1, <1>2, PTL DEF Spec

\* Every variable of the checkout and of the programs keeps its type, and a trap that
\* is set has a copy to restore.
THEOREM LocalTypeCorrect == Spec => []LocalTypeOK
<1>1. LInv => LocalTypeOK
    BY DEF LInv
<1>2. QED
    BY LocalInvariant, <1>1, PTL

\* When no program runs, Package.swift is the published manifest, unless a swap was
\* killed or its restore() cut short.
THEOREM Restored == Spec => []PackageIsRestored
<1>1. LInv => PackageIsRestored
    BY DEF LInv, Guarded, PackageIsRestored, Running, Swapped
<1>2. QED
    BY LocalInvariant, <1>1, PTL

\* The command runs with a framework that is whole and verified, unless a program has
\* abandoned one that is not: the case that the script does not look for.
THEOREM CommandFramework == Spec => []CommandUsesVerified
<1>1. LInv => CommandUsesVerified
    BY DEF LInv, Kempt, Good, CommandUsesVerified, Replacing, Dirs, Absent, LocalTypeOK
<1>2. QED
    BY LocalInvariant, <1>1, PTL

\* An installation is the release that Package.swift pins or a refusal that has changed
\* nothing.
THEOREM AllOrNothing == Spec => []InstallIsAllOrNothing
<1>1. LInv => InstallIsAllOrNothing
    BY DEF LInv
<1>2. QED
    BY LocalInvariant, <1>1, PTL

\* An installation is refused for what the release is, or for a Package.swift that a
\* swap could not restore, whatever else ran before it.
THEOREM RefusedOnlyForCause == Spec => []InstallRefusedForCause
<1>1. LInv => InstallRefusedForCause
    BY DEF LInv
<1>2. QED
    BY LocalInvariant, <1>1, PTL
-----------------------------------------------------------------------------
(* The trees of a validation. *)

LEMMA TidyStep == Tidy /\ [Next]_vars => Tidy'
<1> SUFFICES ASSUME Tidy, [Next]_vars PROVE Tidy'
    OBVIOUS
<1> USE DEF Tidy, Components, Kept, trees
<1>1. CASE UNCHANGED smoke
    BY <1>1 DEF smoke
<1>2. ASSUME NEW c \in Components, Validate(c) PROVE Tidy'
    BY <1>2 DEF Validate
<1>3. ASSUME NEW t \in Trees, Freeze(t) \/ Thaw(t) PROVE Tidy'
    BY <1>3 DEF Freeze, Thaw, Proceed
<1>4. CASE PrepareGo \/ PrepareAndroid \/ TakePrint \/ Frozen
    BY <1>4 DEF PrepareGo, PrepareAndroid, TakePrint, Frozen, Proceed, SmokeOrder
<1>5. CASE Consume \/ Compare
    BY <1>5 DEF Consume, Compare, Proceed, SmokeOrder
<1>6. CASE Thawed \/ CheckOutputs
    BY <1>6 DEF Thawed, CheckOutputs, Proceed
<1>7. CASE CheckRelease \/ RunInstaller \/ Installed \/ SwapManifest \/ Test
    BY <1>7 DEF CheckRelease, RunInstaller, Installed, SwapManifest, Test, Proceed, AppleOrder
<1>8. CASE Raise
    BY <1>8 DEF Raise, Ends, Tried
<1>9. QED
    BY <1>1, <1>2, <1>3, <1>4, <1>5, <1>6, <1>7, <1>8 DEF Next, vars

\* A validation that is over has left no tree read-only, and none changed if it passed.
THEOREM ConsumerLeavesAsFound == Spec => []LeftAsFound
<1>1. Init => Tidy
    BY DEF Init, Tidy, Components, Kept
<1>2. Tidy => LeftAsFound
    BY DEF Tidy, LeftAsFound, Over, Ends
<1>3. QED
    BY <1>1, <1>2, TidyStep, PTL DEF Spec
=============================================================================
