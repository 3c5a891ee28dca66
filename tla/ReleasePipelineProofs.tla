------------------------ MODULE ReleasePipelineProofs ------------------------
(* Proofs about ReleasePipeline, for any bounds, defects and asset names.  *)
EXTENDS ReleasePipeline, TLAPS

\* What is known of the runs outside: only a built bundle is of a green attempt.
RunsRecorded ==
    /\ native.run = "success" => native.attempt \in greens
    /\ ci.run = "success" => ciGreen
    /\ \A n \in greens : bundle[n] # "unbuilt"

\* What prepare passes, and what is left to check for build.
Passed(n) ==
    /\ n \in greens /\ origin = "exported" /\ ciGreen
    /\ bundle[n] \notin {"zip", "signature", "manifest", "archive", "files", "attestation"}

\* What the current job has established of the evidence and of its workspace.
InHand ==
    /\ pc \in {"ci", "checks", "native", "download", "bundle", "bind"} => origin = "exported"
    /\ pc \in {"checks", "native", "download", "bundle", "bind"} => ciGreen
    /\ pc = "download" => selected \in Native
    /\ pc \in {"bundle", "bind"} => holding \in greens /\ bundle[holding] # "zip"
    /\ pc = "bind" => Authentic(holding)
    /\ pc = "package" => Passed(holding)
    /\ pc \in {"pack", "upload"} => Verified(holding)

\* What the jobs hand on.
Stored ==
    /\ \A x \in inputs : Passed(x.bundle)
    /\ \A x \in outputs : Verified(x.bundle)

VerifiedInv == ReleaseTypeOK /\ RunsRecorded /\ InHand /\ Stored /\ ReleasedIsVerified

\* The steps of the jobs, written out.
LEMMA StepSets ==
    /\ DOMAIN StepsOf = {"prepare", "build", "publish", "pods"}
    /\ DOMAIN FirstOf = {"prepare", "build", "publish", "pods"}
    /\ StepsOf["prepare"] = {"tag", "source", "ci", "checks", "native", "download", "bundle", "bind"}
    /\ StepsOf["build"] = {"input", "package", "pack"}
    /\ StepsOf["publish"] = {"assets", "upload"}
    /\ StepsOf["pods"] = {"podAssets", "trunk"}
    /\ FirstOf["prepare"] = "tag" /\ FirstOf["build"] = "input"
    /\ FirstOf["publish"] = "assets" /\ FirstOf["pods"] = "podAssets"
    /\ Steps = {"tag", "source", "ci", "checks", "native", "download", "bundle", "bind",
                "input", "package", "pack", "assets", "upload", "podAssets", "trunk"}
<1>1. /\ DOMAIN StepsOf = {"prepare", "build", "publish", "pods"}
      /\ DOMAIN FirstOf = {"prepare", "build", "publish", "pods"}
  BY DEF StepsOf, FirstOf
<1>2. /\ StepsOf["prepare"] = {"tag", "source", "ci", "checks", "native", "download", "bundle", "bind"}
      /\ StepsOf["build"] = {"input", "package", "pack"}
      /\ StepsOf["publish"] = {"assets", "upload"}
      /\ StepsOf["pods"] = {"podAssets", "trunk"}
  BY DEF StepsOf
<1>3. /\ FirstOf["prepare"] = "tag" /\ FirstOf["build"] = "input"
      /\ FirstOf["publish"] = "assets" /\ FirstOf["pods"] = "podAssets"
  BY DEF FirstOf
<1>4. \A s : s \in Steps <=> \E j \in DOMAIN StepsOf : s \in StepsOf[j]
  BY DEF Steps
<1>5. Steps = {"tag", "source", "ci", "checks", "native", "download", "bundle", "bind",
               "input", "package", "pack", "assets", "upload", "podAssets", "trunk"}
  BY <1>1, <1>2, <1>4
<1> QED  BY <1>1, <1>2, <1>3, <1>5

\* A new attempt begins at the first step of its job.
LEMMA RerunTarget ==
    ASSUME NEW job \in DOMAIN StepsOf, Rerun(job)
    PROVE  /\ pc' \in {"tag", "input", "assets", "podAssets"} /\ pc' \in Steps
           /\ pc' \in StepsOf[job]
           /\ attempt' = attempt + 1 /\ attempt < MaxAttempts /\ status' = "running"
           /\ selected' = 0 /\ holding' = 0 /\ todo' = {}
           /\ UNCHANGED <<evidence, stores, assets>>
BY StepSets DEF Rerun, CleanRunner

\* Both re-runs are a Rerun of some job.
LEMMA Reruns ==
    ASSUME RerunFailed \/ RerunAll
    PROVE  \E job \in DOMAIN StepsOf : Rerun(job)
BY StepSets DEF RerunFailed, RerunAll

\* Every action keeps the types: what is stored was in hand.
LEMMA TypeStep == ReleaseTypeOK /\ InHand /\ [Next]_vars => ReleaseTypeOK'
<1> SUFFICES ASSUME ReleaseTypeOK, InHand, [Next]_vars PROVE ReleaseTypeOK'
  OBVIOUS
<1> USE StepSets, ReleaseOK DEF ReleaseTypeOK, At, Judge, vars, evidence, run, stores, runner,
        Native, Bundle, Outcome
<1>1. CASE VerifyTag
  BY <1>1 DEF VerifyTag, TagIsMain
<1>2. CASE VerifySource
  BY <1>2 DEF VerifySource, Reachable, Unpacks, TreeMatches, Origins, ReleaseTypeOK
<1>3. CASE VerifyCI
  BY <1>3 DEF VerifyCI
<1>4. CASE VerifyChecks
  BY <1>4 DEF VerifyChecks
<1>5. CASE SelectNative
  BY <1>5 DEF SelectNative, NativeSucceeded
<1>6. CASE Download
  BY <1>6 DEF Download, Downloadable, NativeSucceeded
<1>7. CASE VerifyBundle
  BY <1>7 DEF VerifyBundle
<1>8. CASE BindInput
  <2>1. holding \in Native
    BY <1>8 DEF BindInput, InHand
  <2> QED  BY <1>8, <2>1 DEF BindInput, ArtifactName, CleanRunner
<1>9. CASE FetchInput
  BY <1>9 DEF FetchInput
<1>10. CASE Package
  BY <1>10 DEF Package
<1>11. CASE Pack
  <2>1. holding \in Native
    BY <1>11 DEF Pack, InHand, Verified
  <2> QED  BY <1>11, <2>1 DEF Pack, ArtifactName, CleanRunner
<1>12. CASE FetchRelease("assets", "upload")
  BY <1>12 DEF FetchRelease
<1>13. CASE (\E f \in Files : UploadAsset(f))
  BY <1>13 DEF UploadAsset, Replaced
<1>14. CASE FinishRelease
  BY <1>14 DEF FinishRelease, CleanRunner
<1>15. CASE FetchRelease("podAssets", "trunk")
  BY <1>15 DEF FetchRelease
<1>16. CASE Trunk
  BY <1>16 DEF Trunk
<1>17. CASE Fault
  BY <1>17 DEF Fault
<1>18. CASE RerunFailed \/ RerunAll
  <2>1. PICK job \in DOMAIN StepsOf : Rerun(job)
    BY <1>18, Reruns
  <2>2. /\ attempt' \in 1 .. MaxAttempts /\ pc' \in Steps /\ status' = "running"
        /\ selected' = 0 /\ holding' = 0 /\ todo' = {}
        /\ UNCHANGED <<evidence, stores, assets>>
    BY <2>1, RerunTarget
  <2> QED  BY <2>2
<1>19. CASE MoveMain
  <2>1. mainAtTag' \in BOOLEAN
    BY <1>19 DEF MoveMain
  <2> QED  BY <1>19, <2>1 DEF MoveMain
<1>20. CASE RerunCI
  BY <1>20 DEF RerunCI
<1>21. CASE EndChecks
  BY <1>21 DEF EndChecks
<1>22. CASE EndCI
  BY <1>22 DEF EndCI
<1>23. CASE RerunNative
  BY <1>23 DEF RerunNative
<1>24. CASE UploadBundle
  <2>1. bundle' \in [Native -> Bundle \cup {"unbuilt"}]
    BY <1>24 DEF UploadBundle
  <2>2. live' \subseteq Native
    BY <1>24 DEF UploadBundle
  <2>3. UNCHANGED <<mainAtTag, origin, ci, ciGreen, native, greens, run, stores, runner, assets>>
    BY <1>24 DEF UploadBundle
  <2> QED  BY <2>1, <2>2, <2>3
<1>25. CASE EndNative
  BY <1>25 DEF EndNative
<1>26. CASE ExpireBundle
  BY <1>26 DEF ExpireBundle
<1>27. CASE ExpireInput
  BY <1>27 DEF ExpireInput
<1>28. CASE UNCHANGED vars
  BY <1>28
<1> QED
  BY <1>1, <1>2, <1>3, <1>4, <1>5, <1>6, <1>7, <1>8, <1>9, <1>10, <1>11, <1>12, <1>13, <1>14, <1>15, <1>16, <1>17, <1>18, <1>19, <1>20, <1>21, <1>22, <1>23, <1>24, <1>25, <1>26, <1>27, <1>28 DEF Next, Prepare, Build, Publish, PublishPods, GitHub

\* Green attempts stay green and keep their bundles.
LEMMA RunsStep ==
    ReleaseTypeOK /\ RunsRecorded /\ [Next]_vars =>
        /\ RunsRecorded'
        /\ origin' = origin /\ greens \subseteq greens' /\ (ciGreen => ciGreen')
        /\ \A n \in greens : bundle'[n] = bundle[n]
<1> SUFFICES ASSUME ReleaseTypeOK, RunsRecorded, [Next]_vars
             PROVE  /\ RunsRecorded'
                    /\ origin' = origin /\ greens \subseteq greens' /\ (ciGreen => ciGreen')
                    /\ \A n \in greens : bundle'[n] = bundle[n]
  OBVIOUS
<1> USE ReleaseOK DEF ReleaseTypeOK, At, Judge, vars, evidence, run, stores, runner,
        Native, Bundle, Outcome, RunsRecorded
<1>1. CASE VerifyTag
  BY <1>1 DEF VerifyTag, TagIsMain
<1>2. CASE VerifySource
  BY <1>2 DEF VerifySource, Reachable, Unpacks, TreeMatches, Origins, ReleaseTypeOK
<1>3. CASE VerifyCI
  BY <1>3 DEF VerifyCI
<1>4. CASE VerifyChecks
  BY <1>4 DEF VerifyChecks
<1>5. CASE SelectNative
  BY <1>5 DEF SelectNative, NativeSucceeded
<1>6. CASE Download
  BY <1>6 DEF Download, Downloadable, NativeSucceeded
<1>7. CASE VerifyBundle
  BY <1>7 DEF VerifyBundle
<1>8. CASE BindInput
  BY <1>8 DEF BindInput, ArtifactName, CleanRunner
<1>9. CASE FetchInput
  BY <1>9 DEF FetchInput
<1>10. CASE Package
  BY <1>10 DEF Package
<1>11. CASE Pack
  BY <1>11 DEF Pack, ArtifactName, CleanRunner
<1>12. CASE FetchRelease("assets", "upload")
  BY <1>12 DEF FetchRelease
<1>13. CASE (\E f \in Files : UploadAsset(f))
  BY <1>13 DEF UploadAsset, Replaced
<1>14. CASE FinishRelease
  BY <1>14 DEF FinishRelease, CleanRunner
<1>15. CASE FetchRelease("podAssets", "trunk")
  BY <1>15 DEF FetchRelease
<1>16. CASE Trunk
  BY <1>16 DEF Trunk
<1>17. CASE Fault
  BY <1>17 DEF Fault
<1>18. CASE RerunFailed \/ RerunAll
  <2>1. PICK job \in DOMAIN StepsOf : Rerun(job)
    BY <1>18, Reruns
  <2>2. UNCHANGED <<mainAtTag, origin, ci, ciGreen, native, greens, bundle, live>>
    BY <2>1, RerunTarget
  <2> QED  BY <2>2
<1>19. CASE MoveMain
  BY <1>19 DEF MoveMain
<1>20. CASE RerunCI
  BY <1>20 DEF RerunCI
<1>21. CASE EndChecks
  <2>1. PICK c \in {"success", "refused"} : ci' = [ci EXCEPT !.checks = c]
    BY <1>21 DEF EndChecks
  <2>2. ci'.run = ci.run
    BY <2>1
  <2>3. UNCHANGED <<origin, ciGreen, native, greens, bundle>>
    BY <1>21 DEF EndChecks
  <2> QED  BY <2>2, <2>3
<1>22. CASE EndCI
  <2>1. PICK r \in {"success", "failure"} :
           ci' = [ci EXCEPT !.run = r] /\ ciGreen' = (ciGreen \/ r = "success")
    BY <1>22, Zenon DEF EndCI
  <2>2. ci'.run = r
    BY <2>1
  <2>3. (r = "success" => ciGreen') /\ (ciGreen => ciGreen')
    BY <2>1, Zenon
  <2>4. UNCHANGED <<origin, native, greens, bundle>>
    BY <1>22 DEF EndCI
  <2> QED  BY <2>2, <2>3, <2>4
<1>23. CASE RerunNative
  BY <1>23 DEF RerunNative
<1>24. CASE UploadBundle
  BY <1>24 DEF UploadBundle
<1>25. CASE EndNative
  BY <1>25 DEF EndNative
<1>26. CASE ExpireBundle
  BY <1>26 DEF ExpireBundle
<1>27. CASE ExpireInput
  BY <1>27 DEF ExpireInput
<1>28. CASE UNCHANGED vars
  BY <1>28
<1> QED
  BY <1>1, <1>2, <1>3, <1>4, <1>5, <1>6, <1>7, <1>8, <1>9, <1>10, <1>11, <1>12, <1>13, <1>14, <1>15, <1>16, <1>17, <1>18, <1>19, <1>20, <1>21, <1>22, <1>23, <1>24, <1>25, <1>26, <1>27, <1>28 DEF Next, Prepare, Build, Publish, PublishPods, GitHub

\* So what has passed stays passed.
LEMMA PassedStays ==
    ASSUME ReleaseTypeOK, RunsRecorded, [Next]_vars, NEW n
    PROVE  (Passed(n) => Passed(n)') /\ (Verified(n) => Verified(n)')
BY RunsStep DEF Passed, Verified

\* The outside changes evidence and expires inputs; it touches nothing else.
LEMMA GitHubSteps ==
    ASSUME GitHub \/ UNCHANGED vars
    PROVE  /\ UNCHANGED <<attempt, pc, status, selected, holding, todo>>
           /\ UNCHANGED <<inputName, outputs, release, bound, assets>>
           /\ inputs' \subseteq inputs
BY DEF GitHub, MoveMain, RerunCI, EndChecks, EndCI, RerunNative, UploadBundle, EndNative,
       ExpireBundle, ExpireInput, vars, evidence, run, stores, runner

\* What the current job has established stays true, and each step adds to it.
LEMMA InHandStep == VerifiedInv /\ [Next]_vars => InHand'
<1> SUFFICES ASSUME VerifiedInv, [Next]_vars PROVE InHand'
  OBVIOUS
<1>a. /\ origin' = origin /\ greens \subseteq greens' /\ (ciGreen => ciGreen')
      /\ \A n \in greens : bundle'[n] = bundle[n]
  BY RunsStep DEF VerifiedInv
<1> USE DEF VerifiedInv, InHand, At, Judge, evidence, stores, runner
<1>1. CASE VerifyTag
  BY <1>1 DEF VerifyTag, TagIsMain
<1>2. CASE VerifySource
  BY <1>2 DEF VerifySource, Reachable, Unpacks, TreeMatches, Origins, ReleaseTypeOK
<1>3. CASE VerifyCI
  BY <1>3 DEF VerifyCI, RunsRecorded
<1>4. CASE VerifyChecks
  BY <1>4 DEF VerifyChecks
<1>5. CASE SelectNative
  BY <1>5 DEF SelectNative, NativeSucceeded, RunsRecorded, ReleaseTypeOK
<1>6. CASE Download
  BY <1>6 DEF Download, Downloadable, NativeSucceeded, ZipIsSafe, RunsRecorded
<1>7. CASE VerifyBundle
  BY <1>7 DEF VerifyBundle, Authentic, Signed, ManifestValid, ArchiveValid, FilesMatch, Attested
<1>8. CASE BindInput
  BY <1>8 DEF BindInput, Authentic, Signed, ManifestValid, ArchiveValid, FilesMatch, Attested
<1>9. CASE FetchInput
  BY <1>9 DEF FetchInput, Stored, Passed
<1>10. CASE Package
  BY <1>10, ReleaseOK DEF Package, Passed, Verified, ChecksumPinned, SlicesVerified,
     ReleaseTypeOK, Bundle, RunsRecorded, AllDefects
<1>11. CASE Pack
  BY <1>11 DEF Pack, Verified
<1>12. CASE FetchRelease("assets", "upload")
  BY <1>12 DEF FetchRelease, Stored, Verified
<1>13. CASE (\E f \in Files : UploadAsset(f))
  BY <1>13 DEF UploadAsset, run, Verified
<1>14. CASE FinishRelease
  BY <1>14 DEF FinishRelease, CleanRunner
<1>15. CASE FetchRelease("podAssets", "trunk")
  BY <1>15 DEF FetchRelease
<1>16. CASE Trunk
  BY <1>16 DEF Trunk
<1>17. CASE Fault
  BY <1>17 DEF Fault, Authentic, Signed, ManifestValid, ArchiveValid, FilesMatch, Attested, Passed, Verified
<1>18. CASE RerunFailed \/ RerunAll
  <2>1. PICK job \in DOMAIN StepsOf : Rerun(job)
    BY <1>18, Reruns
  <2>2. pc' \in {"tag", "input", "assets", "podAssets"}
    BY <2>1, RerunTarget
  <2> QED  BY <2>2
<1>19. CASE GitHub \/ UNCHANGED vars
  <2>1. UNCHANGED <<pc, selected, holding>>
    BY <1>19, GitHubSteps
  <2>2. /\ Passed(holding) => Passed(holding)'
        /\ Verified(holding) => Verified(holding)'
    BY <2>1, <1>a DEF Passed, Verified
  <2> QED  BY <1>a, <2>1, <2>2 DEF Authentic, Signed, ManifestValid, ArchiveValid, FilesMatch, Attested
<1> QED
  BY <1>1, <1>2, <1>3, <1>4, <1>5, <1>6, <1>7, <1>8, <1>9, <1>10, <1>11, <1>12, <1>13, <1>14, <1>15, <1>16, <1>17, <1>18, <1>19 DEF Next, Prepare, Build, Publish, PublishPods

\* A bundle enters a store, or the release, from the hands of a job.
LEMMA StoredStep == VerifiedInv /\ [Next]_vars => Stored' /\ ReleasedIsVerified'
<1> SUFFICES ASSUME VerifiedInv, [Next]_vars PROVE Stored' /\ ReleasedIsVerified'
  OBVIOUS
<1>a. \A n : (Passed(n) => Passed(n)') /\ (Verified(n) => Verified(n)')
  BY PassedStays DEF VerifiedInv
<1>1. CASE BindInput
  <2>1. Passed(holding)
    BY <1>1 DEF BindInput, At, VerifiedInv, InHand, Passed, Authentic, Signed, ManifestValid,
                ArchiveValid, FilesMatch, Attested
  <2>2. inputs' \subseteq inputs \cup {[name |-> ArtifactName, bundle |-> holding]}
    BY <1>1 DEF BindInput
  <2>3. UNCHANGED <<outputs, assets>>
    BY <1>1 DEF BindInput
  <2> QED  BY <1>a, <2>1, <2>2, <2>3 DEF VerifiedInv, Stored, ReleasedIsVerified
<1>2. CASE Pack
  <2>1. Verified(holding)
    BY <1>2 DEF Pack, At, VerifiedInv, InHand
  <2>2. outputs' \subseteq
          outputs \cup {[name |-> ArtifactName, run_attempt |-> attempt, bundle |-> holding]}
    BY <1>2 DEF Pack
  <2>3. UNCHANGED <<inputs, assets>>
    BY <1>2 DEF Pack
  <2> QED  BY <1>a, <2>1, <2>2, <2>3 DEF VerifiedInv, Stored, ReleasedIsVerified
<1>3. CASE \E f \in Files : UploadAsset(f)
  <2>1. PICK f \in Files : assets' = [assets EXCEPT ![f] = holding]
    BY <1>3 DEF UploadAsset, Replaced
  <2>2. Verified(holding)
    BY <1>3 DEF UploadAsset, At, VerifiedInv, InHand
  <2>3. UNCHANGED <<inputs, outputs>>
    BY <1>3 DEF UploadAsset, stores
  <2>4. assets \in [Files -> {0} \cup Native]
    BY DEF VerifiedInv, ReleaseTypeOK
  <2> QED  BY <1>a, <2>1, <2>2, <2>3, <2>4 DEF VerifiedInv, Stored, ReleasedIsVerified
<1>4. CASE UNCHANGED <<inputs, outputs, assets>>
  BY <1>a, <1>4 DEF VerifiedInv, Stored, ReleasedIsVerified
<1>5. CASE GitHub \/ UNCHANGED vars
  <2>1. inputs' \subseteq inputs /\ UNCHANGED <<outputs, assets>>
    BY <1>5, GitHubSteps
  <2> QED  BY <1>a, <2>1 DEF VerifiedInv, Stored, ReleasedIsVerified
<1>6. CASE RerunFailed \/ RerunAll
  <2>1. PICK job \in DOMAIN StepsOf : Rerun(job)
    BY <1>6, Reruns
  <2> QED  BY <1>4, <2>1 DEF Rerun, stores
<1>7. ASSUME Prepare \/ Build \/ Publish \/ PublishPods \/ Fault, ~BindInput, ~Pack,
             ~(\E f \in Files : UploadAsset(f))
      PROVE  UNCHANGED <<inputs, outputs, assets>>
  BY <1>7 DEF Prepare, Build, Publish, PublishPods, Fault, VerifyTag, VerifySource, VerifyCI,
     VerifyChecks, SelectNative, Download, VerifyBundle, FetchInput, Package, FetchRelease,
     FinishRelease, Trunk, stores
<1> QED  BY <1>1, <1>2, <1>3, <1>4, <1>5, <1>6, <1>7 DEF Next

THEOREM VerifiedInvariant == Spec => []VerifiedInv
<1>1. Init => VerifiedInv
  <2> SUFFICES ASSUME Init PROVE VerifiedInv
    OBVIOUS
  <2>1. /\ mainAtTag \in BOOLEAN /\ origin \in Origins /\ ciGreen \in BOOLEAN
        /\ ci \in [attempt : 1 .. CIAttempts, run : Outcome, checks : {"running", "success", "refused"}]
        /\ native \in [attempt : Native, run : Outcome]
    <3>1. mainAtTag \in BOOLEAN /\ origin \in Origins /\ ciGreen \in BOOLEAN
      BY Zenon DEF Init
    <3>2. 1 \in 1 .. CIAttempts /\ 1 \in Native
      BY ReleaseOK DEF Native
    <3> QED  BY <3>1, <3>2 DEF Init, Outcome
  <2>2. /\ bundle \in [Native -> Bundle \cup {"unbuilt"}] /\ greens \subseteq Native /\ live \subseteq Native
        /\ attempt \in 1 .. MaxAttempts /\ pc \in Steps
        /\ release \in [name : 0 .. MaxAttempts, run_attempt : 0 .. MaxAttempts]
        /\ assets \in [Files -> {0} \cup Native] /\ inputName \in 0 .. MaxAttempts
    BY ReleaseOK, StepSets DEF Init
  <2>3. ReleaseTypeOK
    BY <2>1, <2>2 DEF Init, ReleaseTypeOK
  <2> QED  BY <2>3 DEF Init, VerifiedInv, RunsRecorded, InHand, Stored, ReleasedIsVerified
<1>2. VerifiedInv /\ [Next]_vars => VerifiedInv'
  BY TypeStep, RunsStep, InHandStep, StoredStep DEF VerifiedInv
<1> QED  BY <1>1, <1>2, PTL DEF Spec

\* Every variable keeps its type, whatever is run again and whenever it fails.
THEOREM ReleaseTypeCorrect == Spec => []ReleaseTypeOK
<1>1. VerifiedInv => ReleaseTypeOK
  BY DEF VerifiedInv
<1> QED  BY <1>1, VerifiedInvariant, PTL

\* No asset of the release ever comes from a bundle without all its evidence.
THEOREM OnlyVerifiedIsReleased == Spec => []ReleasedIsVerified
<1>1. VerifiedInv => ReleasedIsVerified
  BY DEF VerifiedInv
<1> QED  BY <1>1, VerifiedInvariant, PTL
-----------------------------------------------------------------------------
(* What the jobs hand on is what prepare passed last.                      *)

Later == {"assets", "upload", "podAssets", "trunk"}

Handed ==
    /\ pc \in StepsOf["build"] => \A x \in inputs : x.name = inputName => x.bundle = bound
    /\ pc \in {"package", "pack"} => holding = bound
    /\ pc \in Later => bound \in Native /\ \A x \in outputs :
           x.name = release.name => x.bundle = bound /\ x.run_attempt = release.run_attempt
    /\ pc = "upload" => holding = bound /\ \A f \in Files \ todo : assets[f] = bound
    /\ pc \in StepsOf["pods"] => \A f \in Files : assets[f] = bound

\* The names of this attempt are free until it uses them.
Named ==
    /\ \A x \in inputs : x.name <= attempt
    /\ \A x \in outputs : x.name <= attempt
    /\ pc \in StepsOf["prepare"] => \A x \in inputs : x.name < attempt
    /\ pc \in StepsOf["prepare"] \cup StepsOf["build"] => \A x \in outputs : x.name < attempt

HandedInv == VerifiedInv /\ Handed /\ Named

LEMMA NamedStep == HandedInv /\ [Next]_vars => Named'
<1> SUFFICES ASSUME HandedInv, [Next]_vars PROVE Named'
  OBVIOUS
<1> USE StepSets DEF HandedInv, Named, At, Judge, evidence, stores, runner
<1>0. attempt \in Nat /\ \A x \in inputs \cup outputs : x.name \in Nat
  BY ReleaseOK DEF VerifiedInv, ReleaseTypeOK
<1>1. CASE BindInput
  BY <1>0, <1>1 DEF BindInput, ArtifactName
<1>2. CASE Pack
  BY <1>0, <1>2 DEF Pack, ArtifactName
<1>3. CASE RerunFailed \/ RerunAll
  <2>1. PICK job \in DOMAIN StepsOf : Rerun(job)
    BY <1>3, Reruns
  <2>2. attempt' = attempt + 1 /\ UNCHANGED <<inputs, outputs>>
    BY <2>1, RerunTarget
  <2> QED  BY <1>0, <2>2
<1>4. CASE GitHub \/ UNCHANGED vars
  BY <1>4, GitHubSteps
<1>5. CASE VerifyTag
  BY <1>5 DEF VerifyTag, TagIsMain
<1>6. CASE VerifySource
  BY <1>6 DEF VerifySource
<1>7. CASE VerifyCI
  BY <1>7 DEF VerifyCI
<1>8. CASE VerifyChecks
  BY <1>8 DEF VerifyChecks
<1>9. CASE SelectNative
  BY <1>9 DEF SelectNative, NativeSucceeded
<1>10. CASE Download
  BY <1>10 DEF Download, Downloadable, NativeSucceeded
<1>11. CASE VerifyBundle
  BY <1>11 DEF VerifyBundle
<1>12. CASE FetchInput
  BY <1>12 DEF FetchInput
<1>13. CASE Package
  BY <1>13 DEF Package
<1>14. CASE FetchRelease("assets", "upload")
  BY <1>14 DEF FetchRelease
<1>15. CASE (\E f \in Files : UploadAsset(f))
  BY <1>15 DEF UploadAsset, run
<1>16. CASE FinishRelease
  BY <1>16 DEF FinishRelease
<1>17. CASE FetchRelease("podAssets", "trunk")
  BY <1>17 DEF FetchRelease
<1>18. CASE Trunk
  BY <1>18 DEF Trunk
<1>19. CASE Fault
  BY <1>19 DEF Fault
<1> QED
  BY <1>1, <1>2, <1>3, <1>4, <1>5, <1>6, <1>7, <1>8, <1>9, <1>10, <1>11, <1>12, <1>13, <1>14, <1>15, <1>16, <1>17, <1>18, <1>19 DEF Next, Prepare, Build, Publish, PublishPods

LEMMA HandedStep == HandedInv /\ [Next]_vars => Handed'
<1> SUFFICES ASSUME HandedInv, [Next]_vars PROVE Handed'
  OBVIOUS
<1> USE StepSets DEF HandedInv, Handed, Later, At, Judge, evidence, stores, runner
<1>0. attempt \in Nat /\ \A x \in inputs \cup outputs : x.name \in Nat
  BY ReleaseOK DEF VerifiedInv, ReleaseTypeOK
<1>1. CASE BindInput
  BY <1>0, <1>1 DEF BindInput, ArtifactName, Named
<1>2. CASE Pack
  <2>1. holding = bound /\ holding \in Native
    BY <1>2 DEF Pack, VerifiedInv, InHand, Verified, ReleaseTypeOK
  <2> QED  BY <1>0, <1>2, <2>1 DEF Pack, ArtifactName, Named
<1>3. CASE RerunFailed
  BY <1>3 DEF RerunFailed, Rerun, CleanRunner
<1>4. CASE RerunAll
  BY <1>4 DEF RerunAll, Rerun, CleanRunner
<1>5. CASE GitHub \/ UNCHANGED vars
  BY <1>5, GitHubSteps
<1>6. CASE \E f \in Files : UploadAsset(f)
  <2>1. PICK f \in Files : UploadAsset(f)
    BY <1>6
  <2>2. /\ pc' = "upload" /\ holding' = bound /\ bound' = bound /\ outputs' = outputs
        /\ release' = release /\ todo' = todo \ {f} /\ assets' = [assets EXCEPT ![f] = bound]
    BY <2>1 DEF UploadAsset, Replaced, run
  <2>3. assets \in [Files -> {0} \cup Native] /\ bound \in Native
    BY <2>1 DEF UploadAsset, VerifiedInv, ReleaseTypeOK
  <2> QED  BY <2>1, <2>2, <2>3 DEF UploadAsset
<1>7. CASE VerifyTag
  BY <1>7 DEF VerifyTag, TagIsMain
<1>8. CASE VerifySource
  BY <1>8 DEF VerifySource
<1>9. CASE VerifyCI
  BY <1>9 DEF VerifyCI
<1>10. CASE VerifyChecks
  BY <1>10 DEF VerifyChecks
<1>11. CASE SelectNative
  BY <1>11 DEF SelectNative, NativeSucceeded
<1>12. CASE Download
  BY <1>12 DEF Download, Downloadable, NativeSucceeded
<1>13. CASE VerifyBundle
  BY <1>13 DEF VerifyBundle
<1>14. CASE FetchInput
  BY <1>14 DEF FetchInput
<1>15. CASE Package
  BY <1>15 DEF Package
<1>16. CASE FetchRelease("assets", "upload")
  BY <1>16 DEF FetchRelease
<1>17. CASE FinishRelease
  BY <1>17 DEF FinishRelease
<1>18. CASE FetchRelease("podAssets", "trunk")
  BY <1>18 DEF FetchRelease
<1>19. CASE Trunk
  BY <1>19 DEF Trunk
<1>20. CASE Fault
  BY <1>20 DEF Fault
<1> QED
  BY <1>1, <1>2, <1>3, <1>4, <1>5, <1>6, <1>7, <1>8, <1>9, <1>10, <1>11, <1>12, <1>13, <1>14, <1>15, <1>16, <1>17, <1>18, <1>19, <1>20 DEF Next, Prepare, Build, Publish, PublishPods

THEOREM HandedInvariant == Spec => []HandedInv
<1>1. Init => Handed /\ Named
  BY StepSets DEF Init, Handed, Named, Later
<1>2. VerifiedInv /\ Handed /\ Named /\ [Next]_vars => Handed' /\ Named'
  BY HandedStep, NamedStep DEF HandedInv
<1>3. HandedInv <=> VerifiedInv /\ Handed /\ Named
  BY DEF HandedInv
<1> QED  BY <1>1, <1>2, <1>3, VerifiedInvariant, PTL DEF Spec

\* A publish that succeeded leaves one bundle, the one the last prepare passed.
THEOREM ReleaseIsWhole == Spec => []SucceededIsWhole
<1>1. HandedInv => SucceededIsWhole
  BY DEF HandedInv, Handed, SucceededIsWhole
<1> QED  BY <1>1, HandedInvariant, PTL
-----------------------------------------------------------------------------
(* What is rejected deserves it; and if the parser demands --tag, nothing is *)
(* ever released.                                                            *)

\* The clauses of OnlyBadEvidenceIsRejected.
Deserved ==
    status = "rejected" =>
        /\ pc = "bundle" => TagRequired \/ ~Authentic(holding)
        /\ pc \notin {"bind", "pack"} \cup Later
        /\ pc = "package" => ~(ChecksumPinned(holding) /\ SlicesVerified(holding))
        /\ pc = "input" => \A x \in inputs : x.name # inputName

LEMMA DeservedStep == HandedInv /\ Deserved /\ [Next]_vars => Deserved'
<1> SUFFICES ASSUME HandedInv, Deserved, [Next]_vars PROVE Deserved'
  OBVIOUS
<1> USE DEF Deserved, Later, At, Judge, evidence, stores, runner
<1>0. attempt \in Nat /\ \A x \in inputs \cup outputs : x.name \in Nat
  BY ReleaseOK DEF HandedInv, VerifiedInv, ReleaseTypeOK
<1>1. CASE BindInput
  <2>1. Fresh(inputs)
    BY <1>0, <1>1, StepSets DEF BindInput, Fresh, ArtifactName, HandedInv, Named
  <2> QED  BY <1>1, <2>1 DEF BindInput
<1>2. CASE Pack
  <2>1. Fresh(outputs)
    BY <1>0, <1>2, StepSets DEF Pack, Fresh, ArtifactName, HandedInv, Named
  <2> QED  BY <1>2, <2>1 DEF Pack
<1>3. CASE VerifyBundle
  <2>1. status' = "rejected" => TagRequired \/ ~Authentic(holding)
    BY <1>3, Zenon DEF VerifyBundle, TagAccepted
  <2>2. Authentic(holding)' <=> Authentic(holding)
    BY <1>3 DEF VerifyBundle, Authentic, Signed, ManifestValid, ArchiveValid, FilesMatch, Attested
  <2> QED  BY <1>3, <2>1, <2>2 DEF VerifyBundle
<1>4. CASE Package
  BY <1>4 DEF Package, ChecksumPinned, SlicesVerified
<1>5. CASE Trunk
  <2>1. assets["archive"] \in Native
    BY <1>5, ReleaseOK, StepSets DEF Trunk, HandedInv, Handed, Later
  <2>2. assets["archive"] # 0
    BY <2>1 DEF Native
  <2> QED  BY <1>5, <2>2 DEF Trunk
<1>6. CASE FetchRelease("assets", "upload")
  BY <1>6 DEF FetchRelease, BuildAttempt, HandedInv, Handed
<1>7. CASE FetchRelease("podAssets", "trunk")
  BY <1>7 DEF FetchRelease, BuildAttempt, HandedInv, Handed
<1>8. CASE RerunFailed \/ RerunAll
  <2>1. PICK job \in DOMAIN StepsOf : Rerun(job)
    BY <1>8, Reruns
  <2> QED  BY <2>1 DEF Rerun
<1>9. CASE GitHub \/ UNCHANGED vars
  <2>1. UNCHANGED <<pc, status, holding, inputName>> /\ inputs' \subseteq inputs
    BY <1>9, GitHubSteps
  <2>2. pc = "bundle" => bundle'[holding] = bundle[holding]
    BY RunsStep DEF HandedInv, VerifiedInv, InHand
  <2>3. pc = "package" => bundle'[holding] = bundle[holding]
    BY RunsStep DEF HandedInv, VerifiedInv, InHand, Passed
  <2> QED  BY <2>1, <2>2, <2>3 DEF Authentic, Signed, ManifestValid, ArchiveValid, FilesMatch, Attested,
                                   ChecksumPinned, SlicesVerified
<1>10. CASE VerifyTag
  BY <1>10 DEF VerifyTag, TagIsMain
<1>11. CASE VerifySource
  BY <1>11 DEF VerifySource
<1>12. CASE VerifyCI
  BY <1>12 DEF VerifyCI
<1>13. CASE VerifyChecks
  BY <1>13 DEF VerifyChecks
<1>14. CASE SelectNative
  BY <1>14 DEF SelectNative, NativeSucceeded
<1>15. CASE Download
  BY <1>15 DEF Download, Downloadable, NativeSucceeded
<1>16. CASE FetchInput
  BY <1>16 DEF FetchInput
<1>17. CASE (\E f \in Files : UploadAsset(f))
  BY <1>17 DEF UploadAsset, run
<1>18. CASE FinishRelease
  BY <1>18 DEF FinishRelease
<1>19. CASE Fault
  BY <1>19 DEF Fault
<1> QED
  BY <1>1, <1>2, <1>3, <1>4, <1>5, <1>6, <1>7, <1>8, <1>9, <1>10, <1>11, <1>12, <1>13, <1>14, <1>15, <1>16, <1>17, <1>18, <1>19 DEF Next, Prepare, Build, Publish, PublishPods

\* Whatever fails and is run again, a job is never refused what is valid: not its
\* names, not the artifacts of earlier attempts, not the release, and not the bundle,
\* but for the tag that the parser demands and the workflow does not pass.
THEOREM RejectionIsDeserved == Spec => []OnlyBadEvidenceIsRejected
<1>1. Init => Deserved
  BY DEF Init, Deserved
<1>2. HandedInv /\ Deserved /\ [Next]_vars => Deserved'
  BY DeservedStep
<1>3. Deserved => OnlyBadEvidenceIsRejected
  BY StepSets DEF Deserved, Later, OnlyBadEvidenceIsRejected
<1> QED  BY <1>1, <1>2, <1>3, HandedInvariant, PTL DEF Spec

\* The run never gets past the verification of the bundle.
Blocked ==
    /\ pc \in StepsOf["prepare"] \ {"bind"} /\ status # "success"
    /\ assets = [f \in Files |-> 0]

\* With the call that release.yml makes and the parser as it is, no run of the
\* workflow, however often it is repeated, ever releases anything.
THEOREM NothingIsReleased ==
    ASSUME TagRequired
    PROVE  Spec => [](\A f \in Files : assets[f] = 0)
<1>1. Init => Blocked
  BY StepSets DEF Init, Blocked
<1>2. Blocked /\ [Next]_vars => Blocked'
  <2> SUFFICES ASSUME Blocked, [Next]_vars PROVE Blocked'
    OBVIOUS
  <2> USE StepSets DEF Blocked, At, Judge
  <2>1. CASE Prepare
    BY <2>1 DEF Prepare, VerifyTag, VerifySource, VerifyCI, VerifyChecks, SelectNative, Download,
       VerifyBundle, BindInput, TagAccepted
  <2>2. CASE Build \/ Publish \/ PublishPods
    BY <2>2 DEF Build, FetchInput, Package, Pack, Publish, FetchRelease, UploadAsset,
       FinishRelease, PublishPods, Trunk
  <2>3. CASE Fault
    BY <2>3 DEF Fault
  <2>4. CASE RerunFailed
    BY <2>4 DEF RerunFailed, Rerun
  <2>5. CASE RerunAll
    BY <2>5 DEF RerunAll, Rerun
  <2>6. CASE GitHub \/ UNCHANGED vars
    BY <2>6, GitHubSteps
  <2> QED  BY <2>1, <2>2, <2>3, <2>4, <2>5, <2>6 DEF Next
<1>3. Blocked => \A f \in Files : assets[f] = 0
  BY DEF Blocked
<1> QED  BY <1>1, <1>2, <1>3, PTL DEF Spec
=============================================================================
