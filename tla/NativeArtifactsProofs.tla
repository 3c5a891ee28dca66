------------------------ MODULE NativeArtifactsProofs ------------------------
(***************************************************************************)
(* Proofs about NativeArtifacts, for any groups, defects and numbers of    *)
(* attempts of the CI run and of the native run.                           *)
(***************************************************************************)
EXTENDS NativeArtifacts, TLAPS

\* The jobs of an attempt: while authorize-ci runs no other job has begun, a job
\* that runs is of this attempt, and a run that has ended has no job that runs.
Executions ==
    /\ job["authorize"].conclusion = "pending" => \A j \in Jobs : job[j] = Execution(native.attempt)
    /\ \A j \in Jobs : Running(j) => job[j].attempt = native.attempt
    /\ job["bundle"].attempt = native.attempt
    /\ native.run # "running" => \A j \in Jobs : ~Running(j)

\* A group uploads only in the attempt it is executed in, and has when it succeeds.
Uploaded ==
    \A g \in Groups :
        /\ built[g] \subseteq Uploads(g)
        /\ \A m \in Uploads(g) : m <= job[g].attempt
        /\ job[g].attempt <= native.attempt
        /\ Succeeded(g) => job[g].attempt \in built[g]

\* What the bundle job has picked is what the last execution of each group made;
\* no group is executed any more in an attempt that has a bundle.
PickedLast ==
    /\ step # "list" => \A g \in Groups : Succeeded(g) /\ picked[g] = job[g].attempt
    /\ \A n \in Native : Bundled(n) =>
          n <= native.attempt /\ (n = native.attempt => \A g \in Groups : Succeeded(g))

NInv == NativeTypeOK /\ Executions /\ Uploaded /\ PickedLast /\ PartsAreLatest

LEMMA JobFacts ==
    /\ "authorize" \in Jobs /\ "bundle" \in Jobs /\ Groups \subseteq Jobs
    /\ "authorize" \notin Groups /\ "bundle" \notin Groups
    /\ \A g \in Groups : Needs(g) = {"authorize"}
    /\ Needs("authorize") = {} /\ Needs("bundle") = Groups \cup {"authorize"}
BY NativeOK DEF Jobs, Needs

LEMMA NewestIs ==
    ASSUME NEW g, NEW S \in SUBSET Native, NEW w \in S, \A m \in S : m <= w
    PROVE  Newest(g, S) = w
<1>1. Newest(g, S) \in S /\ \A m \in S : m <= Newest(g, S)
    BY DEF Newest
<1>2. S \subseteq Nat
    BY NativeOK DEF Native
<1>3. ASSUME NEW n \in S, \A m \in S : m <= n PROVE n = w
  <2>1. n <= w /\ w <= n /\ n \in Nat /\ w \in Nat
      BY <1>2, <1>3
  <2>2. QED
      BY <2>1
<1>4. QED
    BY <1>1, <1>3

LEMMA Concluded ==
    ASSUME NativeTypeOK, NEW j \in Jobs, NEW c \in Conclusions, Conclude(j, c)
    PROVE  /\ job' \in [Jobs -> [attempt : Native, conclusion : Conclusions]]
           /\ \A k \in Jobs : /\ job'[k].attempt = job[k].attempt
                             /\ job'[k].conclusion = IF k = j THEN c ELSE job[k].conclusion
<1>1. job \in [Jobs -> [attempt : Native, conclusion : Conclusions]]
    BY DEF NativeTypeOK
<1>2. job' = [job EXCEPT ![j] = [@ EXCEPT !.conclusion = c]]
    BY DEF Conclude
<1>3. job[j] \in [attempt : Native, conclusion : Conclusions]
    BY <1>1
<1>4. [job[j] EXCEPT !.conclusion = c] = [attempt |-> job[j].attempt, conclusion |-> c]
    BY <1>3
<1>5. QED
    BY <1>1, <1>2, <1>3, <1>4

LEMMA NInit == Init => NInv
<1> SUFFICES ASSUME Init PROVE NInv
    OBVIOUS
<1> USE NativeOK, JobFacts DEF Init, Native, Execution
<1>1. NativeTypeOK
    BY DEF NativeTypeOK, Unpicked, Conclusions, Uploads
<1>2. Executions
    BY DEF Executions, Running
<1>3. \A g \in Groups : Uploads(g) = {} /\ ~Succeeded(g) /\ job[g].attempt = 1 /\ built[g] = {}
    BY DEF Uploads, Succeeded
<1>4. \A n \in 1 .. NativeAttempts : ~Bundled(n)
    BY DEF Bundled
<1>5. QED
    BY <1>1, <1>2, <1>3, <1>4 DEF NInv, Uploaded, PickedLast, PartsAreLatest

\* The steps of authorize-ci: it runs, so that nothing else has.
LEMMA AuthSteps ==
    ASSUME NInv, Authorize PROVE NInv'
<1> USE JobFacts DEF NInv
<1>1. Running("authorize") /\ job["authorize"].conclusion = "pending"
    BY DEF Authorize, SelectCI, WatchCI, RelistCI, ReadJobs, AuthStep, Running
<1>2. PICK c \in {"pending", "success", "rejected"} :
         job' = IF c = "pending" THEN job ELSE [job EXCEPT !["authorize"].conclusion = c]
    BY DEF Authorize, SelectCI, WatchCI, RelistCI, ReadJobs, AuthStep, Conclude
<1>3. UNCHANGED <<ciVars, nativeVars, built, partials, bundling, parts>>
    BY DEF Authorize, SelectCI, WatchCI, RelistCI, ReadJobs, AuthStep
<1>4. auth' \in {"list", "watch", "relist", "jobs", "done"} /\ seen' \in 0 .. CIAttempts
    BY DEF Authorize, SelectCI, WatchCI, RelistCI, ReadJobs, AuthStep, NativeTypeOK
<1>5. NativeTypeOK'
    BY <1>2, <1>3, <1>4 DEF NativeTypeOK, ciVars, nativeVars, partials, bundling, Uploads, Conclusions
<1>6. \A g \in Groups : job'[g] = job[g] /\ job[g] = Execution(native.attempt)
    BY <1>1, <1>2 DEF Executions, NativeTypeOK
<1>7. Executions'
    BY <1>1, <1>2, <1>3 DEF Executions, NativeTypeOK, Execution, Running, Succeeded, nativeVars
<1>8. Uploaded' /\ PickedLast' /\ PartsAreLatest'
    BY <1>3, <1>6 DEF Uploaded, PickedLast, PartsAreLatest, Bundled, Uploads, Succeeded, nativeVars, partials, bundling
<1>9. QED
    BY <1>5, <1>7, <1>8
LEMMA PackSteps ==
    ASSUME NInv, NEW g \in Groups, Pack(g) PROVE NInv'
<1> USE JobFacts DEF NInv
<1>1. /\ Running(g) /\ partial[g][native.attempt] = "unbuilt" /\ ~Succeeded(g)
      /\ job[g].attempt = native.attempt /\ native.attempt \in Native
      /\ job["authorize"].conclusion = "success"
    BY DEF Pack, Running, Executions, Succeeded, NativeTypeOK
<1>2. /\ UNCHANGED <<ci, ciJob, ciGreen, native, greens, built, auth, seen, step, picked, got, parts>>
      /\ step = "list"
    BY <1>1 DEF Pack, ciVars, nativeVars, authVars, bundling, PickedLast
<1>3. CASE job' = [job EXCEPT ![g].conclusion = "rejected"] /\ UNCHANGED <<partial, fresh>>
  <2>0. job' \in [Jobs -> [attempt : Native, conclusion : Conclusions]]
      BY <1>3, Concluded DEF Conclude, Conclusions
  <2>1. NativeTypeOK'
      BY <1>2, <1>3, <2>0 DEF NativeTypeOK, Uploads
  <2>2. Executions'
    <3>1. \A j \in Jobs : Running(j)' => Running(j)
        BY <1>1, <1>2, <1>3 DEF NativeTypeOK, Running, Succeeded
    <3>2. \A j \in Jobs : job'[j].attempt = job[j].attempt
        BY <1>1, <1>3 DEF NativeTypeOK
    <3>3. job'["authorize"].conclusion = "success" /\ job["bundle"].attempt = native.attempt
        BY <1>1, <1>3 DEF NativeTypeOK, Executions
    <3>4. QED
        BY <1>2, <3>1, <3>2, <3>3 DEF Executions
  <2>3. Uploaded' /\ PickedLast' /\ PartsAreLatest'
      BY <1>1, <1>2, <1>3 DEF NativeTypeOK, Uploaded, PickedLast, PartsAreLatest, Bundled, Uploads, Succeeded
  <2>4. QED
      BY <2>1, <2>2, <2>3
<1>4. ASSUME NEW tree \in Content(g), job' = job,
             partial' = [partial EXCEPT ![g][native.attempt] = tree],
             fresh' = fresh \cup {<<g, native.attempt>>}
      PROVE  NInv'
  <2>1. tree \in AllDefects \cup {"none"} /\ tree # "unbuilt"
      BY <1>4, NativeOK DEF Content, AllDefects
  <2>2. /\ \A h \in Groups : Uploads(h)' = IF h = g THEN Uploads(h) \cup {native.attempt} ELSE Uploads(h)
      BY <1>1, <1>4, <2>1 DEF Uploads, NativeTypeOK
  <2>3. NativeTypeOK'
      BY <1>1, <1>2, <1>4, <2>1 DEF NativeTypeOK, Conclusions
  <2>4. Executions'
      BY <1>2, <1>4 DEF Executions, Running, Succeeded
  <2>5. Uploaded'
    <3> SUFFICES ASSUME NEW h \in Groups
                 PROVE  /\ built'[h] \subseteq Uploads(h)'
                        /\ \A m \in Uploads(h)' : m <= job'[h].attempt
                        /\ job'[h].attempt <= native'.attempt
                        /\ Succeeded(h)' => job'[h].attempt \in built'[h]
        BY DEF Uploaded
    <3>1. CASE h = g
        BY <1>1, <1>2, <1>4, <2>2, <3>1 DEF Uploaded, Succeeded, Native
    <3>2. CASE h # g
        BY <1>2, <1>4, <2>2, <3>2 DEF Uploaded, Succeeded
    <3>3. QED
        BY <3>1, <3>2
  <2>6. PickedLast' /\ PartsAreLatest'
      BY <1>2, <1>4 DEF PickedLast, PartsAreLatest, Bundled, Succeeded
  <2>7. QED
      BY <2>3, <2>4, <2>5, <2>6
<1>5. QED
    BY <1>3, <1>4 DEF Pack, Conclude, partials

LEMMA EndGroupSteps ==
    ASSUME NInv, NEW g \in Groups, EndGroup(g) PROVE NInv'
<1> USE JobFacts DEF NInv
<1>1. /\ Running(g) /\ native.attempt \in Uploads(g) /\ ~Succeeded(g)
      /\ job[g].attempt = native.attempt /\ native.attempt \in Native
      /\ job["authorize"].conclusion = "success"
    BY DEF EndGroup, Running, Executions, Succeeded, NativeTypeOK, Uploads
<1>2. /\ UNCHANGED <<ci, ciJob, ciGreen, native, greens, auth, seen, partial, fresh, step, picked, got, parts>>
      /\ built' = [built EXCEPT ![g] = @ \cup {native.attempt}]
      /\ job' = [job EXCEPT ![g].conclusion = "success"]
      /\ step = "list"
    BY <1>1 DEF EndGroup, Conclude, ciVars, nativeVars, authVars, bundling, partials, PickedLast
<1>3. NativeTypeOK'
    BY <1>1, <1>2 DEF NativeTypeOK, Conclusions, Uploads
<1>4. Executions'
  <2>1. \A j \in Jobs : Running(j)' => job'[j].attempt = native.attempt
    <3> SUFFICES ASSUME NEW j \in Jobs, Running(j)' PROVE job'[j].attempt = native.attempt
        OBVIOUS
    <3>1. CASE j = "bundle"
        BY <1>1, <1>2, <3>1 DEF Executions, NativeTypeOK, Running, Succeeded
    <3>2. CASE j # "bundle"
        BY <1>1, <1>2, <3>2 DEF Executions, NativeTypeOK, Running, Succeeded, Jobs
    <3>3. QED
        BY <3>1, <3>2
  <2>2. native.run = "running"
      BY <1>1 DEF Executions
  <2>3. QED
      BY <1>1, <1>2, <2>1, <2>2 DEF Executions, NativeTypeOK
<1>5. \A h \in Groups : Uploads(h)' = Uploads(h)
    BY <1>2 DEF Uploads
<1>6. Uploaded'
    BY <1>1, <1>2, <1>5 DEF Uploaded, Succeeded, NativeTypeOK
<1>7. PickedLast'
    BY <1>1, <1>2 DEF PickedLast, Bundled, NativeTypeOK, Succeeded
<1>8. PartsAreLatest'
  <2> SUFFICES ASSUME NEW n \in Native, Bundled(n), NEW h \in Groups
               PROVE  /\ parts[n][h] \in built'[h]
                      /\ \A m \in built'[h] : m <= n => m <= parts[n][h]
      BY <1>2 DEF PartsAreLatest, Bundled
  <2>1. CASE h = g
    <3>1. n < native.attempt
        BY <1>1, <2>1 DEF PickedLast, NativeTypeOK, Native
    <3>2. built'[h] = built[h] \cup {native.attempt}
        BY <1>2, <2>1 DEF NativeTypeOK
    <3>3. QED
        BY <1>1, <3>1, <3>2 DEF PartsAreLatest, Native
  <2>2. CASE h # g
      BY <1>2, <2>2 DEF PartsAreLatest, NativeTypeOK
  <2>3. QED
      BY <2>1, <2>2
<1>9. QED
    BY <1>3, <1>4, <1>6, <1>7, <1>8
\* While the bundle job runs, all other jobs have succeeded and the newest part of
\* each group is that of its last execution.
LEMMA BundleRuns ==
    ASSUME NInv, Running("bundle")
    PROVE  /\ native.run = "running" /\ native.attempt \in Native
           /\ job["authorize"].conclusion = "success"
           /\ \A g \in Groups : /\ Succeeded(g) /\ job[g].attempt \in Uploads(g)
                                /\ Newest(g, Uploads(g)) = job[g].attempt
<1> USE JobFacts DEF NInv
<1>1. /\ native.run = "running" /\ native.attempt \in Native
      /\ job["authorize"].conclusion = "success" /\ \A g \in Groups : Succeeded(g)
    BY DEF Running, Executions, NativeTypeOK, Succeeded
<1>2. ASSUME NEW g \in Groups
      PROVE  job[g].attempt \in Uploads(g) /\ Newest(g, Uploads(g)) = job[g].attempt
  <2>1. job[g].attempt \in Uploads(g) /\ \A m \in Uploads(g) : m <= job[g].attempt
      BY <1>1, <1>2 DEF Uploaded
  <2>2. Uploads(g) \subseteq Native
      BY DEF Uploads
  <2>3. QED
      BY <2>1, <2>2, NewestIs
<1>3. QED
    BY <1>1, <1>2

\* The bundle job goes on, or is refused.
LEMMA BundleSteps ==
    ASSUME NInv, MakeBundle PROVE NInv'
<1> USE JobFacts DEF NInv
<1>1. Running("bundle")
    BY DEF MakeBundle, SelectPartials, Fetch, CreateManifest, UploadBundle, EndBundle, BundleStep
<1>2. UNCHANGED <<ci, ciJob, ciGreen, native, greens, built, auth, seen, partial, fresh>>
    BY DEF MakeBundle, SelectPartials, Fetch, CreateManifest, UploadBundle, EndBundle, BundleStep,
       ciVars, nativeVars, authVars, partials
<1>3. job' = job \/ \E c \in {"success", "rejected"} : Conclude("bundle", c)
    BY DEF MakeBundle, SelectPartials, Fetch, CreateManifest, UploadBundle, EndBundle, BundleStep
<1>4. /\ job' \in [Jobs -> [attempt : Native, conclusion : Conclusions]]
      /\ \A j \in Jobs : job'[j].attempt = job[j].attempt
      /\ \A j \in Jobs \ {"bundle"} : job'[j] = job[j]
      /\ job'["bundle"].conclusion \in {"pending", "success", "rejected"}
  <2>1. CASE job' = job
      BY <1>1, <2>1 DEF NativeTypeOK, Running
  <2>2. ASSUME NEW c \in {"success", "rejected"}, Conclude("bundle", c)
        PROVE  /\ job' \in [Jobs -> [attempt : Native, conclusion : Conclusions]]
               /\ \A j \in Jobs : job'[j].attempt = job[j].attempt
               /\ \A j \in Jobs \ {"bundle"} : job'[j] = job[j]
               /\ job'["bundle"].conclusion \in {"pending", "success", "rejected"}
      BY <2>2, Concluded DEF Conclusions, Conclude, NativeTypeOK
  <2>3. QED
      BY <1>3, <2>1, <2>2
<1>5. /\ picked' \in [Groups -> 0 .. NativeAttempts] /\ got' \subseteq Groups
      /\ step' \in {"list", "download", "create", "upload", "done"}
      /\ step' = "list" => picked' = Unpicked /\ got' = {}
      /\ step' # "list" => \A g \in Groups : picked'[g] = job[g].attempt
      /\ step' \in {"create", "upload", "done"} => got' = Groups
  <2>1. CASE SelectPartials
    <3>1. step = "list" /\ picked = Unpicked /\ got = {}
        BY <2>1 DEF SelectPartials, BundleStep, NativeTypeOK
    <3>2. got' = got
        BY <2>1 DEF SelectPartials
    <3>3. CASE step' = "list"
        BY <2>1, <3>1, <3>2, <3>3 DEF SelectPartials, BundleStep, NativeTypeOK
    <3>4. CASE step' # "list"
      <4>1. step' = "download" /\ picked' = [g \in Groups |-> Pick(g)] /\ \A g \in Groups : Pick(g) # 0
          BY <2>1, <3>1, <3>4 DEF SelectPartials, BundleStep
      <4>2. \A g \in Groups : Pick(g) = job[g].attempt /\ job[g].attempt \in Native
          BY <1>1, <4>1, BundleRuns DEF Pick, NativeTypeOK
      <4>3. QED
          BY <3>1, <3>2, <4>1, <4>2 DEF Native
    <3>5. QED
        BY <3>3, <3>4
  <2>2. ASSUME NEW g \in Groups, Fetch(g)
        PROVE  /\ picked' \in [Groups -> 0 .. NativeAttempts] /\ got' \subseteq Groups
               /\ step' \in {"list", "download", "create", "upload", "done"}
               /\ step' = "list" => picked' = Unpicked /\ got' = {}
               /\ step' # "list" => \A h \in Groups : picked'[h] = job[h].attempt
               /\ step' \in {"create", "upload", "done"} => got' = Groups
      BY <2>2 DEF Fetch, BundleStep, PickedLast, NativeTypeOK
  <2>3. CASE CreateManifest \/ UploadBundle \/ EndBundle
      BY <2>3 DEF CreateManifest, UploadBundle, EndBundle, BundleStep, bundling, PickedLast, NativeTypeOK
  <2>4. QED
      BY <2>1, <2>2, <2>3 DEF MakeBundle
<1>6. parts' = parts \/ (step = "upload" /\ parts' = [parts EXCEPT ![native.attempt] = picked])
    BY DEF MakeBundle, SelectPartials, Fetch, CreateManifest, UploadBundle, EndBundle, BundleStep
<1>7. \A g \in Groups : Uploads(g)' = Uploads(g) /\ (Succeeded(g)' <=> Succeeded(g))
    BY <1>2, <1>4 DEF Uploads, Succeeded
<1>8. NativeTypeOK'
  <2>1. parts' \in [Native -> [Groups -> 0 .. NativeAttempts]]
      BY <1>6 DEF NativeTypeOK
  <2>2. \A g \in Groups : job[g].attempt \in Uploads(g)
      BY <1>1, BundleRuns
  <2>3. QED
      BY <1>2, <1>4, <1>5, <1>7, <2>1, <2>2 DEF NativeTypeOK
<1>9. Executions'
  <2>1. \A j \in Jobs : Running(j)' => Running(j)
    <3> SUFFICES ASSUME NEW j \in Jobs, Running(j)' PROVE Running(j)
        OBVIOUS
    <3>1. CASE j = "bundle"
        BY <1>1, <3>1
    <3>2. CASE j # "bundle"
        BY <1>4, <3>2 DEF Running, Succeeded, Jobs
    <3>3. QED
        BY <3>1, <3>2
  <2>2. job'["authorize"].conclusion = "success" /\ native.run = "running"
      BY <1>1, <1>4, BundleRuns
  <2>3. QED
      BY <1>2, <1>4, <2>1, <2>2 DEF Executions
<1>10. Uploaded'
    BY <1>2, <1>4, <1>7 DEF Uploaded
<1>11. PickedLast' /\ PartsAreLatest'
  <2>1. \A g \in Groups : Succeeded(g) /\ job[g].attempt \in built[g]
                           /\ \A m \in built[g] : m <= job[g].attempt
      BY <1>1, BundleRuns DEF Uploaded
  <2>2. CASE parts' = parts
      BY <1>2, <1>4, <1>5, <1>7, <2>1, <2>2 DEF PickedLast, PartsAreLatest, Bundled
  <2>3. CASE step = "upload" /\ parts' = [parts EXCEPT ![native.attempt] = picked]
    <3>1. \A g \in Groups : picked[g] = job[g].attempt
        BY <2>3 DEF PickedLast
    <3>2. native.attempt \in Nat /\ native.attempt \in Native
        BY NativeOK DEF NativeTypeOK, Native
    <3>3. \A n \in Native \ {native.attempt} : parts'[n] = parts[n]
        BY <2>3 DEF NativeTypeOK
    <3>4. parts'[native.attempt] = picked
        BY <2>3, <3>2 DEF NativeTypeOK
    <3>5. PickedLast'
        BY <1>2, <1>4, <1>5, <1>7, <2>1, <3>2, <3>3 DEF PickedLast, Bundled
    <3>6. PartsAreLatest'
        BY <1>2, <2>1, <3>1, <3>2, <3>3, <3>4 DEF PartsAreLatest, Bundled
    <3>7. QED
        BY <3>5, <3>6
  <2>4. QED
      BY <1>6, <2>2, <2>3
<1>12. QED
    BY <1>8, <1>9, <1>10, <1>11

\* A job that ends with a fault leaves what others have done as it was.
LEMMA FaultSteps ==
    ASSUME NInv, NEW j \in Jobs, Fault(j) PROVE NInv'
<1> USE JobFacts DEF NInv
<1>1. /\ Running(j) /\ native.run = "running" /\ Conclude(j, "fault")
      /\ UNCHANGED <<ci, ciJob, ciGreen, native, greens, built, auth, seen, partial, fresh, step, picked, got, parts>>
    BY DEF Fault, ciVars, nativeVars, authVars, partials, bundling
<1>2. /\ job' \in [Jobs -> [attempt : Native, conclusion : Conclusions]]
      /\ \A k \in Jobs : /\ job'[k].attempt = job[k].attempt
                        /\ job'[k].conclusion = IF k = j THEN "fault" ELSE job[k].conclusion
    BY <1>1, Concluded DEF Conclusions
<1>3. \A k \in Jobs : (Succeeded(k)' <=> Succeeded(k)) /\ (Running(k)' => Running(k))
  <2>1. \A k \in Jobs : Succeeded(k)' <=> Succeeded(k)
      BY <1>1, <1>2 DEF Succeeded, Running
  <2>2. \A k \in Jobs : Needs(k) \subseteq Jobs
      BY DEF Needs
  <2>3. ASSUME NEW k \in Jobs, Running(k)' PROVE Running(k)
      BY <1>1, <1>2, <2>1, <2>2, <2>3 DEF Running
  <2>4. QED
      BY <2>1, <2>3
<1>4. NativeTypeOK'
    BY <1>1, <1>2 DEF NativeTypeOK, Uploads
<1>5. Executions'
  <2>1. job'["authorize"].conclusion = "pending" => \A k \in Jobs : job'[k] = Execution(native.attempt)
    <3> SUFFICES ASSUME job'["authorize"].conclusion = "pending", NEW k \in Jobs
                 PROVE  job'[k] = Execution(native.attempt)
        OBVIOUS
    <3>1. j # "authorize" /\ job["authorize"].conclusion = "pending"
        BY <1>2
    <3>2. Succeeded("authorize")
        BY <1>1, <3>1 DEF Running, Jobs
    <3>3. QED
        BY <3>1, <3>2 DEF Succeeded
  <2>2. QED
      BY <1>1, <1>2, <1>3, <2>1 DEF Executions
<1>6. Uploaded' /\ PickedLast' /\ PartsAreLatest'
    BY <1>1, <1>2, <1>3 DEF Uploaded, PickedLast, PartsAreLatest, Bundled, Uploads
<1>7. QED
    BY <1>4, <1>5, <1>6

LEMMA EndNativeSteps ==
    ASSUME NInv, EndNative PROVE NInv'
<1> USE JobFacts DEF NInv
<1>1. /\ \A j \in Jobs : ~Running(j)
      /\ UNCHANGED <<ci, ciJob, ciGreen, job, built, auth, seen, partial, fresh, step, picked, got, parts>>
    BY DEF EndNative, ciVars, authVars, partials, bundling
<1>2. PICK r \in {"success", "failure"} :
         native' = [native EXCEPT !.run = r] /\ greens' \in {greens, greens \cup {native.attempt}}
    BY DEF EndNative
<1>3. native' \in [attempt : Native, run : {"running", "success", "failure"}] /\ native'.attempt = native.attempt
    BY <1>2 DEF NativeTypeOK
<1>4. NativeTypeOK'
    BY <1>1, <1>2, <1>3 DEF NativeTypeOK, Uploads
<1>5. \A j \in Jobs : ~Running(j)'
    BY <1>1 DEF Running, Succeeded
<1>6. Executions' /\ Uploaded' /\ PickedLast' /\ PartsAreLatest'
    BY <1>1, <1>3, <1>5 DEF Executions, Uploaded, PickedLast, PartsAreLatest, Bundled, Uploads, Succeeded
<1>7. QED
    BY <1>4, <1>6

\* A re-run: the jobs that are executed again start from nothing, the others keep
\* what they did in an earlier attempt.
LEMMA RerunSteps ==
    ASSUME NInv, RerunNative PROVE NInv'
<1> USE JobFacts DEF NInv
<1> DEFINE n == native.attempt + 1
<1>1. /\ native.run # "running" /\ n \in Native /\ native.attempt \in Nat
      /\ native' = [attempt |-> n, run |-> "running"]
      /\ step' = "list" /\ picked' = Unpicked /\ got' = {}
      /\ UNCHANGED <<ci, ciJob, ciGreen, greens, built, partial, fresh, parts>>
    BY NativeOK DEF RerunNative, CleanRunner, ciVars, partials, NativeTypeOK, Native
<1>2. PICK again \in {Jobs} \cup {gs \cup {"bundle"} : gs \in SUBSET Groups} :
         /\ job' = [j \in Jobs |-> IF j \in again THEN Execution(n) ELSE job[j]]
         /\ IF "authorize" \in again THEN auth' = "list" /\ seen' = 0 ELSE UNCHANGED authVars
    BY DEF RerunNative
<1>3. again \subseteq Jobs /\ "bundle" \in again /\ ("authorize" \in again => again = Jobs)
    BY <1>2
<1>4. NativeTypeOK'
  <2>1. job' \in [Jobs -> [attempt : Native, conclusion : Conclusions]]
      BY <1>1, <1>2 DEF NativeTypeOK, Execution, Conclusions
  <2>2. auth' \in {"list", "watch", "relist", "jobs", "done"} /\ seen' \in 0 .. CIAttempts
      BY <1>2, NativeOK DEF NativeTypeOK, authVars
  <2>3. Unpicked \in [Groups -> 0 .. NativeAttempts]
      BY NativeOK DEF Unpicked
  <2>4. QED
      BY <1>1, <2>1, <2>2, <2>3 DEF NativeTypeOK
<1>5. \A j \in Jobs : /\ j \in again => job'[j] = Execution(n)
                      /\ j \notin again => job'[j] = job[j]
    BY <1>2
<1>6. Executions'
  <2>1. ASSUME NEW j \in Jobs, Running(j)', j \notin again PROVE FALSE
    <3>1. "authorize" \notin again
        BY <1>3, <2>1
    <3>2. job'["authorize"] = job["authorize"] /\ job'[j] = job[j] /\ j # "bundle"
        BY <1>3, <1>5, <2>1, <3>1
    <3>3. Needs(j) \subseteq {"authorize"}
        BY <3>2 DEF Jobs
    <3>4. Running(j)
        BY <2>1, <3>2, <3>3 DEF Running, Succeeded
    <3>5. QED
        BY <1>1, <3>4 DEF Executions
  <2>2. job'["authorize"].conclusion = "pending" => again = Jobs
    <3>1. ASSUME "authorize" \notin again PROVE job["authorize"].conclusion # "pending"
      <4>1. ~Running("authorize")
          BY <1>1 DEF Executions
      <4>2. QED
          BY <4>1 DEF Running
    <3>2. QED
        BY <1>3, <1>5, <3>1
  <2>3. QED
      BY <1>1, <1>3, <1>5, <2>1, <2>2 DEF Executions, Execution
<1>7. Uploaded'
  <2> SUFFICES ASSUME NEW g \in Groups
               PROVE  /\ built[g] \subseteq Uploads(g)
                      /\ \A m \in Uploads(g) : m <= job'[g].attempt
                      /\ job'[g].attempt <= n
                      /\ Succeeded(g)' => job'[g].attempt \in built[g]
      BY <1>1 DEF Uploaded, Uploads
  <2>1. job[g].attempt \in Nat /\ job[g].attempt <= native.attempt /\ Uploads(g) \subseteq Nat
      BY NativeOK DEF Uploaded, NativeTypeOK, Native, Uploads
  <2>2. job'[g] = Execution(n) \/ job'[g] = job[g]
      BY <1>5
  <2>3. QED
      BY <1>1, <2>1, <2>2 DEF Uploaded, Succeeded, Execution
<1>8. PickedLast' /\ PartsAreLatest'
  <2>1. \A m \in Native : Bundled(m) => m < n
      BY <1>1, NativeOK DEF PickedLast, Native
  <2>2. QED
      BY <1>1, <2>1, NativeOK DEF PickedLast, PartsAreLatest, Bundled, Native
<1>9. QED
    BY <1>4, <1>6, <1>7, <1>8

\* The CI run and the clock change nothing of the native run.
LEMMA OutsideSteps ==
    ASSUME NInv, CI \/ RerunCI \/ ExpirePartial \/ UNCHANGED vars PROVE NInv'
<1> USE JobFacts DEF NInv
<1>1. /\ UNCHANGED <<native, greens, job, built, auth, seen, partial, step, picked, got, parts>>
      /\ fresh' \subseteq fresh
    BY DEF CI, StartCI, EndCIJob, EndCI, RerunCI, ExpirePartial, vars, ciVars, nativeVars, authVars, partials, bundling
<1>2. /\ ci' \in [attempt : 0 .. CIAttempts, run : {"absent", "running", "success", "failure"}]
      /\ ci'.run # "absent" => ci'.attempt # 0
      /\ ciJob' \in [CIJobs -> [attempt : 0 .. CIAttempts, conclusion : {"pending", "success", "failure"}]]
      /\ ciGreen' \subseteq 1 .. CIAttempts
  <2>1. CASE StartCI
      BY <2>1, NativeOK DEF StartCI, Execution, NativeTypeOK
  <2>2. ASSUME NEW c \in CIJobs, EndCIJob(c)
        PROVE  ciJob' \in [CIJobs -> [attempt : 0 .. CIAttempts, conclusion : {"pending", "success", "failure"}]]
    <3>1. PICK r \in {"success", "failure"} : ciJob' = [ciJob EXCEPT ![c].conclusion = r]
        BY <2>2 DEF EndCIJob
    <3>2. ciJob \in [CIJobs -> [attempt : 0 .. CIAttempts, conclusion : {"pending", "success", "failure"}]]
        BY DEF NativeTypeOK
    <3> HIDE DEF NInv
    <3>3. [ciJob[c] EXCEPT !.conclusion = r]
              \in [attempt : 0 .. CIAttempts, conclusion : {"pending", "success", "failure"}]
        BY <3>2
    <3>4. QED
        BY <3>1, <3>2, <3>3
  <2>3. CASE EndCI
    <3>1. PICK r \in {"success", "failure"} :
             ci' = [ci EXCEPT !.run = r] /\ ciGreen' \in {ciGreen, ciGreen \cup {ci.attempt}}
             /\ ciJob' = ciJob /\ ci.run = "running"
        BY <2>3 DEF EndCI
    <3>2. ci.attempt \in 1 .. CIAttempts
        BY <3>1, NativeOK DEF NativeTypeOK
    <3>3. QED
        BY <3>1, <3>2 DEF NativeTypeOK
  <2>4. CASE RerunCI
    <3>1. ci.attempt + 1 \in 0 .. CIAttempts
        BY <2>4, NativeOK DEF RerunCI, NativeTypeOK
    <3>2. QED
        BY <2>4, <3>1 DEF RerunCI, Execution, NativeTypeOK
  <2>5. CASE ExpirePartial \/ UNCHANGED vars
      BY <2>5 DEF ExpirePartial, vars, ciVars, NativeTypeOK
  <2>6. QED
      BY <2>1, <2>2, <2>3, <2>4, <2>5 DEF CI, EndCIJob, NativeTypeOK
<1>3. NativeTypeOK'
    BY <1>1, <1>2 DEF NativeTypeOK, Uploads
<1>4. Executions' /\ Uploaded' /\ PickedLast' /\ PartsAreLatest'
    BY <1>1 DEF Executions, Running, Succeeded, Uploaded, PickedLast, PartsAreLatest, Bundled, Uploads
<1>5. QED
    BY <1>3, <1>4

LEMMA NStep == NInv /\ [Next]_vars => NInv'
BY AuthSteps, PackSteps, EndGroupSteps, BundleSteps, FaultSteps, EndNativeSteps, RerunSteps, OutsideSteps
   DEF Next, Group

\* Every variable keeps its type, and the bundle job writes its manifest over all
\* groups, in an attempt in which each of them has uploaded what it picked.
THEOREM NativeTypeCorrect == Spec => []NativeTypeOK
<1>1. NInv => NativeTypeOK
    BY DEF NInv
<1>2. QED
    BY NInit, NStep, <1>1, PTL DEF Spec

\* Each part of a bundle is of the last attempt, up to its own, in which its group
\* succeeded, for any number of groups and re-runs.
THEOREM PartsLatest == Spec => []PartsAreLatest
<1>1. NInv => PartsAreLatest
    BY DEF NInv
<1>2. QED
    BY NInit, NStep, <1>1, PTL DEF Spec
-----------------------------------------------------------------------------
(* The authorization. *)

Whole(n) == \A c \in CIJobs : ciJob[c] = [attempt |-> n, conclusion |-> "success"]

\* What authorize-ci has read stays true of the attempt it was read from, though
\* the run goes on: only the jobs of its current attempt are executed.
Read ==
    /\ \A c \in CIJobs : ciJob[c].conclusion = "pending" =>
          ciJob[c].attempt = ci.attempt /\ ci.run \in {"absent", "running"}
    /\ ci.run = "success" /\ Whole(ci.attempt) => ci.attempt \in ciGreen
    /\ auth = "jobs" => /\ ci.run # "absent" /\ seen <= ci.attempt
                        /\ seen = ci.attempt => ci.run = "success"
                        /\ Whole(seen) => seen \in ciGreen
    /\ auth = "done" => seen \in ciGreen
    /\ Succeeded("authorize") => auth = "done"
    /\ \A n \in Native : Bundled(n) => ciGreen # {}

LEMMA AuthReads ==
    ASSUME NInv, Read, Authorize PROVE Read'
<1> USE JobFacts DEF Read
<1>1. /\ UNCHANGED <<ci, ciJob, ciGreen, parts>> /\ (Whole(seen)' <=> Whole(seen'))
      /\ \A n \in Native : Whole(n)' <=> Whole(n)
    BY DEF Authorize, SelectCI, WatchCI, RelistCI, ReadJobs, AuthStep, ciVars, Whole
<1>2. job["authorize"].conclusion = "pending" /\ job \in [Jobs -> [attempt : Native, conclusion : Conclusions]]
    BY DEF Authorize, SelectCI, WatchCI, RelistCI, ReadJobs, AuthStep, Running, NInv, NativeTypeOK
<1>3. \A n \in Native : Bundled(n)' <=> Bundled(n)
    BY <1>1 DEF Bundled
<1>4. ASSUME job' = job \/ Conclude("authorize", "rejected") PROVE ~Succeeded("authorize")'
    BY <1>2, <1>4 DEF Succeeded, Conclude
<1>5. Whole(ci.attempt)' <=> Whole(ci.attempt)
    BY <1>1 DEF Whole
<1>6. CASE SelectCI \/ WatchCI
  <2>1. auth' \in {auth, "watch", "relist"} /\ auth \in {"list", "watch"} /\ ~Succeeded("authorize")'
      BY <1>4, <1>6 DEF SelectCI, WatchCI, AuthStep
  <2>2. QED
      BY <1>1, <1>3, <1>5, <2>1
<1>7. CASE RelistCI
  <2>1. auth' \in {"relist", "jobs"} /\ seen' = ci.attempt /\ ~Succeeded("authorize")'
        /\ (auth' = "jobs" => ci.run = "success")
      BY <1>4, <1>7 DEF RelistCI, AuthStep
  <2>2. ci.attempt <= ci.attempt
      BY DEF NInv, NativeTypeOK
  <2>3. Whole(seen)' <=> Whole(ci.attempt)
      BY <1>1, <2>1 DEF Whole
  <2>4. QED
      BY <1>1, <1>3, <1>5, <2>1, <2>2, <2>3
<1>8. CASE ReadJobs
  <2>1. seen' = seen /\ auth = "jobs" /\ (Whole(seen)' <=> Whole(seen))
      BY <1>1, <1>8 DEF ReadJobs, AuthStep, Whole
  <2>2. CASE \A c \in CIJobs : Authorizes(c)
    <3>1. Whole(seen)
      <4> SUFFICES ASSUME NEW c \in CIJobs PROVE ciJob[c] = [attempt |-> seen, conclusion |-> "success"]
          BY DEF Whole
      <4>1. ciJob[c] \in [attempt : 0 .. CIAttempts, conclusion : {"pending", "success", "failure"}]
          BY DEF NInv, NativeTypeOK
      <4>2. QED
          BY <2>2, <4>1 DEF Authorizes
    <3>2. auth' = "done"
        BY <1>8, <2>2 DEF ReadJobs, AuthStep
    <3>3. QED
        BY <1>1, <1>3, <1>5, <2>1, <3>1, <3>2
  <2>3. CASE ~\A c \in CIJobs : Authorizes(c)
    <3>1. auth' = "jobs" /\ ~Succeeded("authorize")'
        BY <1>4, <1>8, <2>1, <2>3 DEF ReadJobs, AuthStep
    <3>2. QED
        BY <1>1, <1>3, <1>5, <2>1, <3>1
  <2>4. QED
      BY <2>2, <2>3
<1>9. QED
    BY <1>6, <1>7, <1>8 DEF Authorize

LEMMA CIReads ==
    ASSUME NInv, Read, CI \/ RerunCI PROVE Read'
<1> USE JobFacts DEF Read
<1>1. /\ UNCHANGED <<job, auth, seen, parts>> /\ ciGreen \subseteq ciGreen'
      /\ ~Succeeded("authorize")
    BY DEF CI, StartCI, EndCIJob, EndCI, RerunCI, Watched, Running, Succeeded, authVars
<1>2. /\ (Succeeded("authorize")' => auth' = "done") /\ (auth = "done" => seen' \in ciGreen')
      /\ \A n \in Native : Bundled(n)' => ciGreen' # {}
    BY <1>1 DEF Succeeded, Bundled
<1>3. ci.attempt \in Nat /\ seen \in Nat /\ ciJob \in [CIJobs -> [attempt : 0 .. CIAttempts, conclusion : {"pending", "success", "failure"}]]
      /\ ci \in [attempt : 0 .. CIAttempts, run : {"absent", "running", "success", "failure"}]
    BY NativeOK DEF NInv, NativeTypeOK
<1>4. CASE StartCI
    BY <1>1, <1>2, <1>4 DEF StartCI, Execution
<1>5. ASSUME NEW c \in CIJobs, EndCIJob(c) PROVE Read'
  <2>1. PICK r \in {"success", "failure"} : ciJob' = [ciJob EXCEPT ![c].conclusion = r]
      BY <1>5 DEF EndCIJob
  <2>2. /\ ci' = ci /\ ciGreen' = ciGreen /\ ci.run = "running" /\ ciJob[c].conclusion = "pending"
        /\ ciJob[c].attempt = ci.attempt
      BY <1>5 DEF EndCIJob
  <2>3. \A d \in CIJobs : /\ ciJob'[d].attempt = ciJob[d].attempt
                          /\ ciJob'[d].conclusion = "pending" => ciJob[d].conclusion = "pending"
      BY <1>3, <2>1
  <2>4. ciJob'[c].attempt = ci.attempt
      BY <2>2, <2>3
  <2>5. auth = "jobs" => seen # ci.attempt /\ ~Whole(seen)'
      BY <1>1, <2>2, <2>4 DEF Whole
  <2>6. QED
      BY <1>1, <1>2, <2>2, <2>3, <2>5
<1>6. CASE EndCI
  <2>1. PICK r \in {"success", "failure"} :
           /\ ci' = [ci EXCEPT !.run = r]
           /\ r = "success" /\ Whole(ci.attempt) => ci.attempt \in ciGreen'
      BY <1>6 DEF EndCI, Whole
  <2>2. ci'.attempt = ci.attempt /\ ci'.run = r /\ ciJob' = ciJob /\ ci.run = "running"
      BY <1>3, <1>6, <2>1 DEF EndCI
  <2>3. (Whole(ci.attempt)' <=> Whole(ci.attempt)) /\ (Whole(seen)' <=> Whole(seen))
      BY <1>1, <2>2 DEF Whole
  <2>4. \A c \in CIJobs : ciJob'[c].conclusion # "pending"
      BY <1>6, <2>2 DEF EndCI
  <2>5. ASSUME auth = "jobs"
        PROVE  /\ ci'.run # "absent" /\ seen <= ci.attempt /\ seen # ci.attempt
               /\ Whole(seen)' => seen \in ciGreen'
      BY <1>1, <2>1, <2>2, <2>3, <2>5
  <2>6. ci'.run = "success" /\ Whole(ci.attempt)' => ci.attempt \in ciGreen'
      BY <2>1, <2>2, <2>3
  <2>7. QED
      BY <1>1, <1>2, <2>2, <2>4, <2>5, <2>6 DEF Whole
<1>7. CASE RerunCI
  <2>1. PICK again \in SUBSET CIJobs :
           ciJob' = [c \in CIJobs |-> IF c \in again THEN Execution(ci.attempt + 1) ELSE ciJob[c]]
      BY <1>7 DEF RerunCI
  <2>2. ci' = [attempt |-> ci.attempt + 1, run |-> "running"] /\ ciGreen' = ciGreen
        /\ ci.run \in {"success", "failure"}
      BY <1>7 DEF RerunCI
  <2>3. \A c \in CIJobs : ciJob'[c].conclusion = "pending" => ciJob'[c].attempt = ci.attempt + 1
      BY <2>1, <2>2 DEF Execution
  <2>4. auth = "jobs" => (Whole(seen)' => Whole(seen))
      BY <1>1, <1>3, <2>1 DEF Whole, Execution
  <2>5. QED
      BY <1>1, <1>2, <1>3, <2>2, <2>3, <2>4
<1>8. QED
    BY <1>4, <1>5, <1>6, <1>7 DEF CI

LEMMA OtherReads ==
    ASSUME NInv, Read, [Next]_vars, ~Authorize, ~(CI \/ RerunCI) PROVE Read'
<1> USE JobFacts DEF Read
<1>1. UNCHANGED <<ci, ciJob, ciGreen>>
    BY DEF Next, Group, Pack, EndGroup, MakeBundle, SelectPartials, Fetch, CreateManifest, UploadBundle, EndBundle,
       BundleStep, Fault, EndNative, RerunNative, ExpirePartial, vars, ciVars
<1>2. \A n : Whole(n)' <=> Whole(n)
    BY <1>1 DEF Whole
<1>3. CASE RerunNative
  <2>1. /\ parts' = parts
        /\ \E again \in SUBSET Jobs :
              /\ job' = [j \in Jobs |-> IF j \in again THEN Execution(native.attempt + 1) ELSE job[j]]
              /\ IF "authorize" \in again THEN auth' = "list" /\ seen' = 0 ELSE auth' = auth /\ seen' = seen
      BY <1>3 DEF RerunNative, authVars
  <2>2. \/ ~Succeeded("authorize")' /\ auth' = "list"
        \/ (Succeeded("authorize")' <=> Succeeded("authorize")) /\ auth' = auth /\ seen' = seen
      BY <2>1 DEF Succeeded, Execution
  <2>3. QED
      BY <1>1, <1>2, <2>1, <2>2 DEF Bundled, Whole
<1>4. CASE ~RerunNative
  <2>1. auth' = auth /\ seen' = seen
      BY <1>4 DEF Next, Group, Pack, EndGroup, MakeBundle, SelectPartials, Fetch, CreateManifest, UploadBundle,
         EndBundle, BundleStep, Fault, EndNative, ExpirePartial, vars, authVars
  <2>2. Succeeded("authorize")' => Succeeded("authorize")
    <3>1. \/ job' = job
          \/ \E j \in Jobs, c \in Conclusions :
                /\ Conclude(j, c) /\ (j = "authorize" => c # "success")
        BY <1>4 DEF Next, Group, Pack, EndGroup, MakeBundle, SelectPartials, Fetch, CreateManifest, UploadBundle,
           EndBundle, BundleStep, Fault, EndNative, ExpirePartial, vars, Conclusions
    <3>2. QED
        BY <3>1, Concluded DEF NInv, Succeeded
  <2>3. parts' = parts \/ Running("bundle")
      BY <1>4 DEF Next, Group, Pack, EndGroup, MakeBundle, SelectPartials, Fetch, CreateManifest, UploadBundle,
         EndBundle, BundleStep, Fault, EndNative, ExpirePartial, vars
  <2>4. Running("bundle") => ciGreen # {}
      BY DEF Running, Succeeded
  <2>5. QED
      BY <1>1, <1>2, <2>1, <2>2, <2>3, <2>4 DEF Bundled, Whole
<1>5. QED
    BY <1>3, <1>4

\* A bundle exists only for a source whose CI run, with all required jobs, has
\* succeeded within one attempt, for any number of re-runs of both runs.
THEOREM Authorized == Spec => []AuthorizedByOneAttempt
<1>1. Init => Read
    BY JobFacts, NativeOK DEF Init, Read, Execution, Succeeded, Bundled, Native, Whole
<1>2. NInv /\ Read /\ [Next]_vars => Read'
    BY AuthReads, CIReads, OtherReads
<1>3. NInv /\ Read => AuthorizedByOneAttempt
    BY DEF Read, AuthorizedByOneAttempt
<1>4. QED
    BY NInit, NStep, <1>1, <1>2, <1>3, PTL DEF Spec
-----------------------------------------------------------------------------
(* What the bundle is made of, and why it is refused. *)

\* What the bundle job has checked of the parts so far.
Sound ==
    /\ \A g \in Groups, n \in Native : partial[g][n] # "symlink"
    /\ \A g \in got : partial[g][picked[g]] \notin {"zip", "files"}
    /\ step \in {"upload", "done"} => \A g \in Groups : partial[g][picked[g]] # "archive"

\* A refusal is final for its attempt, whose groups have succeeded.
Refused ==
    job["bundle"].conclusion = "rejected" => \A g \in Groups : Succeeded(g)

Deserved == Sound /\ PartsAreComplete /\ Refused /\ RefusedForCause

LEMMA PackDeserved ==
    ASSUME NInv, Deserved, NEW g \in Groups, Pack(g) PROVE Deserved'
<1> USE JobFacts DEF NInv, Deserved
<1>1. /\ native.attempt \in Native /\ native.attempt \notin Uploads(g)
      /\ step = "list" /\ got = {} /\ ~Succeeded(g)
    BY DEF Pack, Running, Succeeded, Uploads, NativeTypeOK, PickedLast
<1>2. UNCHANGED <<parts, step, picked, got>>
    BY DEF Pack, bundling
<1>3. PICK tree : /\ tree # "symlink"
                 /\ partial' \in {partial, [partial EXCEPT ![g][native.attempt] = tree]}
    BY DEF Pack, Packs, partials
<1>4. \A h \in Groups, n \in Native : /\ n \in Uploads(h) => partial'[h][n] = partial[h][n]
                                      /\ partial'[h][n] # "symlink"
  <2>1. \A h \in Groups, n \in Native :
           partial'[h][n] = partial[h][n] \/ (h = g /\ n = native.attempt /\ partial'[h][n] = tree)
      BY <1>1, <1>3 DEF NativeTypeOK
  <2>2. QED
      BY <1>1, <1>3, <2>1 DEF Sound
<1>5. Sound'
    BY <1>1, <1>2, <1>4 DEF Sound
<1>6. PartsAreComplete'
  <2>1. \A n \in Native : Bundled(n) => \A h \in Groups : parts[n][h] \in Uploads(h) /\ parts[n][h] \in Native
      BY DEF PartsAreLatest, Uploaded, Uploads
  <2>2. QED
      BY <1>2, <1>4, <2>1 DEF PartsAreComplete, Bundled
<1>7. job'["bundle"].conclusion # "rejected"
  <2>1. job["bundle"].conclusion # "rejected"
      BY <1>1 DEF Refused
  <2>2. job' = job \/ (Conclude(g, "rejected") /\ g # "bundle")
      BY DEF Pack
  <2>3. QED
      BY <2>1, <2>2, Concluded DEF Conclusions
<1>8. QED
    BY <1>5, <1>6, <1>7 DEF Refused, RefusedForCause

LEMMA BundleDeserved ==
    ASSUME NInv, Deserved, MakeBundle PROVE Deserved'
<1> USE JobFacts DEF NInv, Deserved
<1>1. Running("bundle") /\ UNCHANGED <<partial, fresh, native>>
    BY DEF MakeBundle, SelectPartials, Fetch, CreateManifest, UploadBundle, EndBundle, BundleStep, partials, nativeVars
<1>2. \A g \in Groups : /\ Succeeded(g) /\ job[g].attempt \in Uploads(g)
                        /\ Newest(g, Uploads(g)) = job[g].attempt
    BY <1>1, BundleRuns
<1>3. step # "list" => \A g \in Groups : picked[g] = job[g].attempt
    BY DEF PickedLast
<1>4. Sound'
  <2>1. CASE SelectPartials
      BY <1>1, <2>1 DEF SelectPartials, BundleStep, Sound, NativeTypeOK
  <2>2. ASSUME NEW g \in Groups, Fetch(g) PROVE Sound'
      BY <1>1, <2>2 DEF Fetch, BundleStep, Inventory, SafeZip, Sound
  <2>3. CASE CreateManifest
      BY <1>1, <2>3 DEF CreateManifest, BundleStep, Archives, Sound
  <2>4. CASE UploadBundle \/ EndBundle
      BY <1>1, <2>4 DEF UploadBundle, EndBundle, BundleStep, bundling, Sound
  <2>5. QED
      BY <2>1, <2>2, <2>3, <2>4 DEF MakeBundle
<1>5. PartsAreComplete'
  <2>1. CASE UploadBundle
    <3>1. step = "upload" /\ parts' = [parts EXCEPT ![native.attempt] = picked]
        BY <2>1 DEF UploadBundle, BundleStep
    <3>2. got = Groups /\ \A g \in Groups : picked[g] \in Uploads(g)
        BY <3>1 DEF NativeTypeOK
    <3>3. \A g \in Groups : partial[g][picked[g]] \in Pinned \cup {"none"}
      <4> SUFFICES ASSUME NEW g \in Groups PROVE partial[g][picked[g]] \in Pinned \cup {"none"}
          OBVIOUS
      <4>1. picked[g] \in Native /\ partial[g][picked[g]] # "unbuilt"
          BY <3>2 DEF Uploads
      <4>2. partial[g][picked[g]] \in AllDefects \cup {"none"}
          BY <4>1 DEF NativeTypeOK
      <4>3. partial[g][picked[g]] \notin {"symlink", "zip", "files", "archive"}
          BY <3>1, <3>2, <4>1 DEF Sound
      <4>4. QED
          BY <4>2, <4>3 DEF AllDefects, Pinned
    <3>4. \A n \in Native : parts'[n] = parts[n] \/ parts'[n] = picked
        BY <3>1 DEF NativeTypeOK
    <3>5. QED
        BY <1>1, <3>3, <3>4 DEF PartsAreComplete, Bundled
  <2>2. CASE parts' = parts
      BY <1>1, <2>2 DEF PartsAreComplete, Bundled
  <2>3. QED
      BY <2>1, <2>2 DEF MakeBundle, SelectPartials, Fetch, CreateManifest, EndBundle
<1>6. \A g \in Groups : Uploads(g)' = Uploads(g) /\ Newest(g, Uploads(g))' = Newest(g, Uploads(g))
    BY <1>1 DEF Uploads, Newest
<1>7. job["bundle"].conclusion = "pending" /\ \A g \in Groups : Succeeded(g)'
  <2>1. job["bundle"].conclusion = "pending"
      BY <1>1 DEF Running
  <2>2. job' = job \/ \E c \in {"success", "rejected"} : Conclude("bundle", c)
      BY DEF MakeBundle, SelectPartials, Fetch, CreateManifest, UploadBundle, EndBundle, BundleStep
  <2>3. \A g \in Groups : Succeeded(g)'
      BY <1>2, <2>2, Concluded DEF Succeeded, Conclusions
  <2>4. QED
      BY <2>1, <2>3
<1>8. job'["bundle"].conclusion = "rejected" =>
         \E g \in Groups : LET n == Newest(g, Uploads(g))
                           IN  <<g, n>> \notin fresh \/ partial[g][n] \notin Pinned \cup {"none"}
  <2>1. CASE job' = job
      BY <1>7, <2>1
  <2>2. ASSUME SelectPartials, NEW g \in Groups, Pick(g) = 0
        PROVE  <<g, Newest(g, Uploads(g))>> \notin fresh
    <3>1. Newest(g, Uploads(g)) # 0 /\ Uploads(g) # {}
        BY <1>2 DEF Uploads, Native
    <3>2. QED
        BY <2>2, <3>1 DEF Pick
  <2>3. ASSUME NEW g \in Groups, Fetch(g), job' # job
        PROVE  \/ <<g, Newest(g, Uploads(g))>> \notin fresh
               \/ partial[g][Newest(g, Uploads(g))] \notin Pinned \cup {"none"}
      BY <1>2, <1>3, <2>3 DEF Fetch, BundleStep, Inventory, SafeZip, Pinned
  <2>4. ASSUME CreateManifest, NEW g \in Groups, ~Archives(g)
        PROVE  partial[g][Newest(g, Uploads(g))] \notin Pinned \cup {"none"}
      BY <1>2, <1>3, <2>4 DEF CreateManifest, BundleStep, Archives, Pinned
  <2>5. CASE UploadBundle \/ EndBundle
      BY <1>7, <2>5, Concluded DEF UploadBundle, EndBundle, BundleStep, Conclusions
  <2>6. CASE SelectPartials
      BY <2>1, <2>2, <2>6 DEF SelectPartials, BundleStep
  <2>7. CASE CreateManifest
      BY <2>1, <2>4, <2>7 DEF CreateManifest, BundleStep
  <2>8. QED
      BY <2>1, <2>3, <2>5, <2>6, <2>7 DEF MakeBundle
<1>9. Refused' /\ RefusedForCause'
    BY <1>1, <1>6, <1>7, <1>8 DEF Refused, RefusedForCause
<1>10. QED
    BY <1>4, <1>5, <1>9

LEMMA OtherDeserved ==
    ASSUME NInv, Deserved, [Next]_vars, ~MakeBundle, \A g \in Groups : ~Pack(g)
    PROVE  Deserved'
<1> USE JobFacts DEF NInv, Deserved
<1>1. UNCHANGED <<partial, parts>> /\ fresh' \subseteq fresh
    BY DEF Next, Authorize, SelectCI, WatchCI, RelistCI, ReadJobs, AuthStep, Group, EndGroup, Fault, EndNative,
       RerunNative, CI, StartCI, EndCIJob, EndCI, RerunCI, ExpirePartial, vars, partials
<1>2. PartsAreComplete'
    BY <1>1 DEF PartsAreComplete, Bundled
<1>3. \A g \in Groups : Uploads(g)' = Uploads(g) /\ Newest(g, Uploads(g))' = Newest(g, Uploads(g))
    BY <1>1 DEF Uploads, Newest
<1>4. CASE RerunNative
  <2>1. step' = "list" /\ got' = {} /\ Sound'
      BY <1>1, <1>4 DEF RerunNative, CleanRunner, Sound
  <2>2. job'["bundle"] = Execution(native.attempt + 1)
      BY <1>4 DEF RerunNative
  <2>3. QED
      BY <1>2, <2>1, <2>2 DEF Refused, RefusedForCause, Execution
<1>5. CASE ~RerunNative
  <2>1. UNCHANGED <<step, picked, got>>
      BY <1>5 DEF Next, Authorize, SelectCI, WatchCI, RelistCI, ReadJobs, AuthStep, Group, EndGroup, Fault, EndNative,
         CI, StartCI, EndCIJob, EndCI, RerunCI, ExpirePartial, vars, bundling
  <2>2. Sound'
      BY <1>1, <2>1 DEF Sound
  <2>3. \/ job' = job
        \/ \E j \in Jobs, c \in Conclusions :
              /\ Conclude(j, c) /\ Running(j) /\ (j = "bundle" => c # "rejected")
      BY <1>5 DEF Next, Authorize, SelectCI, WatchCI, RelistCI, ReadJobs, AuthStep, Group, EndGroup, Fault, EndNative,
         CI, StartCI, EndCIJob, EndCI, RerunCI, ExpirePartial, vars, Conclusions
  <2>4. /\ job'["bundle"].conclusion = "rejected" => job["bundle"].conclusion = "rejected"
        /\ \A g \in Groups : Succeeded(g) => Succeeded(g)'
      BY <2>3, Concluded DEF Succeeded, Running
  <2>5. QED
      BY <1>1, <1>2, <1>3, <2>2, <2>4 DEF Refused, RefusedForCause
<1>6. QED
    BY <1>4, <1>5

LEMMA DeservedInvariant == Spec => [](NInv /\ Deserved)
<1>1. Init => Deserved
    BY JobFacts, NativeOK DEF Init, Deserved, Sound, PartsAreComplete, Refused, RefusedForCause, Bundled, Execution, Native
<1>2. NInv /\ Deserved /\ [Next]_vars => Deserved'
    BY PackDeserved, BundleDeserved, OtherDeserved
<1>3. QED
    BY NInit, NStep, <1>1, <1>2, PTL DEF Spec

\* A bundle has all files of each group and no others, in archives that can be
\* extracted safely, whatever the groups have built.
THEOREM PartsComplete == Spec => []PartsAreComplete
<1>1. NInv /\ Deserved => PartsAreComplete
    BY DEF Deserved
<1>2. QED
    BY DeservedInvariant, <1>1, PTL

\* The bundle job is refused only for the newest part of a group, which is faulty or
\* has expired.
THEOREM RefusalIsDeserved == Spec => []RefusedForCause
<1>1. NInv /\ Deserved => RefusedForCause
    BY DEF Deserved
<1>2. QED
    BY DeservedInvariant, <1>1, PTL
-----------------------------------------------------------------------------
(* The native run that the release pipeline takes for granted. *)

\* An attempt has its bundle once the bundle job is done with it, and not before.
Done ==
    /\ step = "done" <=> Bundled(native.attempt)
    /\ Succeeded("bundle") => step = "done"

LEMMA DoneStep ==
    ASSUME NInv, Done, [Next]_vars PROVE Done'
<1> USE JobFacts DEF NInv, Done
<1>0. native.attempt \in Native /\ native.attempt \in Nat
    BY NativeOK DEF NativeTypeOK, Native
<1>1. CASE RerunNative
  <2>1. /\ native' = [attempt |-> native.attempt + 1, run |-> "running"] /\ parts' = parts /\ step' = "list"
        /\ native.attempt + 1 \in Native
      BY <1>0, <1>1, NativeOK DEF RerunNative, CleanRunner, Native
  <2>2. ~Bundled(native.attempt + 1)
      BY <1>0, <2>1 DEF PickedLast
  <2>3. job'["bundle"] = Execution(native.attempt + 1)
      BY <1>1 DEF RerunNative
  <2>4. QED
      BY <2>1, <2>2, <2>3 DEF Bundled, Succeeded, Execution
<1>2. CASE MakeBundle
  <2>1. native' = native /\ job["bundle"].conclusion = "pending"
      BY <1>2 DEF MakeBundle, SelectPartials, Fetch, CreateManifest, UploadBundle, EndBundle, BundleStep,
         nativeVars, Running
  <2>2. CASE UploadBundle
    <3>1. step = "upload" /\ step' = "done" /\ parts' = [parts EXCEPT ![native.attempt] = picked]
        BY <2>2 DEF UploadBundle, BundleStep
    <3>2. picked # Unpicked
        BY <3>1, NativeOK DEF NativeTypeOK, Unpicked, Uploads, Native
    <3>3. Bundled(native.attempt)'
        BY <1>0, <2>1, <3>1, <3>2 DEF Bundled, NativeTypeOK
    <3>4. QED
        BY <3>1, <3>3 DEF Bundled
  <2>3. CASE EndBundle
      BY <2>1, <2>3 DEF EndBundle, bundling, Bundled
  <2>4. CASE SelectPartials \/ CreateManifest \/ \E g \in Groups : Fetch(g)
    <3>1. /\ parts' = parts /\ step' \in {"list", "download", "create", "upload"} /\ step # "done"
        BY <2>4 DEF SelectPartials, CreateManifest, Fetch, BundleStep
    <3>2. job' = job \/ Conclude("bundle", "rejected")
        BY <2>4 DEF SelectPartials, CreateManifest, Fetch, BundleStep
    <3>3. ~Succeeded("bundle")'
        BY <2>1, <3>2, Concluded DEF Succeeded, Conclusions
    <3>4. QED
        BY <2>1, <3>1, <3>3 DEF Bundled
  <2>5. QED
      BY <1>2, <2>2, <2>3, <2>4 DEF MakeBundle
<1>3. CASE ~RerunNative /\ ~MakeBundle
  <2>1. UNCHANGED <<step, parts>>
      BY <1>3 DEF Next, Authorize, SelectCI, WatchCI, RelistCI, ReadJobs, AuthStep, Group, Pack, EndGroup, Fault,
         EndNative, CI, StartCI, EndCIJob, EndCI, RerunCI, ExpirePartial, vars, bundling
  <2>2. native'.attempt = native.attempt
      BY <1>3 DEF Next, Authorize, SelectCI, WatchCI, RelistCI, ReadJobs, AuthStep, Group, Pack, EndGroup, Fault,
         EndNative, CI, StartCI, EndCIJob, EndCI, RerunCI, ExpirePartial, vars, nativeVars, NativeTypeOK
  <2>3. \/ job' = job
        \/ \E j \in Jobs, c \in Conclusions : Conclude(j, c) /\ (j = "bundle" => c # "success")
      BY <1>3 DEF Next, Authorize, SelectCI, WatchCI, RelistCI, ReadJobs, AuthStep, Group, Pack, EndGroup, Fault,
         EndNative, CI, StartCI, EndCIJob, EndCI, RerunCI, ExpirePartial, vars, Conclusions
  <2>4. Succeeded("bundle")' => Succeeded("bundle")
      BY <2>3, Concluded DEF Succeeded
  <2>5. QED
      BY <2>1, <2>2, <2>4 DEF Bundled
<1>4. QED
    BY <1>1, <1>2, <1>3

\* What a bundle is made of does not change once it is there.
LEMMA BundleStays ==
    ASSUME NInv, [Next]_vars, NEW n \in Native, parts'[n] = parts[n] PROVE bundle'[n] = bundle[n]
<1> USE JobFacts DEF NInv
<1>1. CASE Bundled(n)
  <2>1. parts[n]["native-apple"] \in Uploads("native-apple")
      BY <1>1, NativeOK DEF PartsAreLatest, Uploaded
  <2>2. \A m \in Uploads("native-apple") : partial'["native-apple"][m] = partial["native-apple"][m]
    <3>1. ASSUME NEW g \in Groups, Pack(g)
          PROVE  \A m \in Uploads("native-apple") : partial'["native-apple"][m] = partial["native-apple"][m]
      <4>1. native.attempt \notin Uploads(g)
          BY <3>1 DEF Pack, Uploads
      <4>2. \/ partial' = partial
            \/ \E tree : partial' = [partial EXCEPT ![g][native.attempt] = tree]
          BY <3>1 DEF Pack, partials
      <4>3. CASE partial' = partial
          BY <4>3
      <4>4. ASSUME NEW tree, partial' = [partial EXCEPT ![g][native.attempt] = tree],
                   NEW m \in Uploads("native-apple")
            PROVE  partial'["native-apple"][m] = partial["native-apple"][m]
        <5>1. CASE g = "native-apple"
          <6>1. m # native.attempt /\ m \in Native
              BY <4>1, <5>1 DEF Uploads
          <6>2. QED
              BY <4>4, <5>1, <6>1 DEF NativeTypeOK
        <5>2. CASE g # "native-apple"
            BY <4>4, <5>2, NativeOK DEF NativeTypeOK
        <5>3. QED
            BY <5>1, <5>2
      <4>5. QED
          BY <4>2, <4>3, <4>4
    <3>2. CASE \A g \in Groups : ~Pack(g)
        BY <3>2 DEF Next, Authorize, SelectCI, WatchCI, RelistCI, ReadJobs, AuthStep, Group, EndGroup, Fault, EndNative,
           MakeBundle, SelectPartials, Fetch, CreateManifest, UploadBundle, EndBundle, BundleStep,
           RerunNative, CI, StartCI, EndCIJob, EndCI, RerunCI, ExpirePartial, vars, partials
    <3>3. QED
        BY <3>1, <3>2
  <2>3. QED
      BY <2>1, <2>2 DEF bundle, Bundled
<1>2. CASE ~Bundled(n)
    BY <1>2 DEF bundle, Bundled
<1>3. QED
    BY <1>1, <1>2

LEMMA NativeRunStep ==
    ASSUME NInv, PartsAreComplete, PartsAreComplete', Done, [Next]_vars
    PROVE  [Release!RerunNative \/ Release!UploadBundle \/ Release!EndNative]_<<nativeVars, bundle>>
<1> USE JobFacts DEF NInv
<1>0. native.attempt \in Native
    BY DEF NativeTypeOK
<1>1. ASSUME parts' = parts PROVE bundle' = bundle /\ \A n \in Native : Bundled(n)' <=> Bundled(n)
    BY <1>1, BundleStays DEF bundle, Bundled
<1>2. CASE RerunNative
  <2>1. parts' = parts
      BY <1>2 DEF RerunNative
  <2>2. QED
      BY <1>1, <1>2, <2>1 DEF RerunNative, Release!RerunNative, Release!run, Release!stores, Release!runner
<1>3. CASE EndNative
  <2>1. parts' = parts
      BY <1>3 DEF EndNative
  <2>2. (\A j \in Jobs : Succeeded(j)) => bundle[native.attempt] # "unbuilt"
    <3>1. ASSUME Succeeded("bundle") PROVE Bundled(native.attempt)
        BY <3>1 DEF Done
    <3>2. ASSUME Bundled(native.attempt) PROVE bundle[native.attempt] \in Pinned \cup {"none"}
        BY <1>0, <3>2, NativeOK DEF bundle, PartsAreComplete
    <3>3. QED
        BY <3>1, <3>2 DEF Pinned
  <2>3. QED
      BY <1>1, <1>3, <2>1, <2>2 DEF EndNative, Release!EndNative, Release!run, Release!stores, Release!runner
<1>4. CASE MakeBundle
  <2>1. UNCHANGED nativeVars /\ native.run = "running"
      BY <1>4, BundleRuns DEF MakeBundle, SelectPartials, Fetch, CreateManifest, UploadBundle, EndBundle, BundleStep
  <2>2. CASE parts' = parts
      BY <1>1, <2>1, <2>2
  <2>3. CASE UploadBundle
    <3>1. step = "upload" /\ step' = "done" /\ parts' = [parts EXCEPT ![native.attempt] = picked]
        BY <2>3 DEF UploadBundle, BundleStep
    <3>2. ~Bundled(native.attempt) /\ bundle[native.attempt] = "unbuilt"
        BY <1>0, <3>1 DEF Done, bundle
    <3>3. Done' /\ native' = native
        BY DoneStep, <2>1 DEF nativeVars
    <3>4. Bundled(native.attempt)'
        BY <3>1, <3>3 DEF Done
    <3>5. bundle'[native.attempt] \in Pinned \cup {"none"}
        BY <1>0, <3>3, <3>4, NativeOK DEF bundle, PartsAreComplete
    <3>6. \A n \in Native \ {native.attempt} : bundle'[n] = bundle[n] /\ parts'[n] = parts[n]
        BY <3>1, BundleStays DEF NativeTypeOK
    <3>7. bundle' = [bundle EXCEPT ![native.attempt] = bundle'[native.attempt]]
        BY <1>0, <3>6 DEF bundle
    <3>8. {n \in Native : Bundled(n)}' = {n \in Native : Bundled(n)} \cup {native.attempt}
        BY <1>0, <3>3, <3>4, <3>6 DEF Bundled
    <3>9. QED
        BY <2>1, <3>2, <3>5, <3>7, <3>8 DEF Release!UploadBundle, Release!Bundle, Release!run, Release!stores,
           Release!runner, nativeVars
  <2>4. QED
      BY <1>4, <2>2, <2>3 DEF MakeBundle, SelectPartials, Fetch, CreateManifest, EndBundle
<1>5. CASE ~RerunNative /\ ~EndNative /\ ~MakeBundle
  <2>1. UNCHANGED nativeVars /\ parts' = parts
      BY <1>5 DEF Next, Authorize, SelectCI, WatchCI, RelistCI, ReadJobs, AuthStep, Group, Pack, EndGroup, Fault,
         CI, StartCI, EndCIJob, EndCI, RerunCI, ExpirePartial, vars
  <2>2. QED
      BY <1>1, <2>1
<1>6. QED
    BY <1>2, <1>3, <1>4, <1>5

\* The native run is the one that ReleasePipeline has in its environment: its
\* initial states map to initial states, and each of its steps to a step of that
\* run or to a stutter.
THEOREM NativeRefinement == Spec => ImplementsNativeRun
<1>1. Init => /\ native = [attempt |-> 1, run |-> "running"] /\ greens = {}
              /\ \A n \in Native : bundle[n] = "unbuilt"
    BY DEF Init, bundle, Bundled
<1>2. Init => Done
    BY NativeOK, JobFacts DEF Init, Done, Bundled, Succeeded, Execution, Native
<1>3. NInv /\ Deserved => PartsAreComplete
    BY DEF Deserved
<1>4. QED
    BY <1>1, <1>2, <1>3, DoneStep, NativeRunStep, DeservedInvariant, PTL DEF Spec, ImplementsNativeRun
-----------------------------------------------------------------------------
\* What is left of the present attempt of the native run: the jobs that have not
\* concluded, the requests of authorize-ci, the groups that have uploaded nothing
\* yet, the commands of the bundle job and the groups it has yet to download.
Pending == {j \in Jobs : job[j].conclusion = "pending"}
Unbuilt == {g \in Groups : partial[g][native.attempt] = "unbuilt"}
Requests == CASE auth = "list" -> 4 [] auth = "watch" -> 3 [] auth = "relist" -> 2
              [] auth = "jobs" -> 1 [] OTHER -> 0
Commands == CASE step = "list" -> 4 [] step = "download" -> 3 [] step = "create" -> 2
              [] step = "upload" -> 1 [] OTHER -> 0
LeftOfRun == <<Pending, Unbuilt, Requests, Commands, Groups \ got>>

RunShrinks ==
    /\ Pending' \subseteq Pending /\ Unbuilt' \subseteq Unbuilt /\ Requests' <= Requests
    /\ Commands' <= Commands /\ Groups \ got' \subseteq Groups \ got
    /\ LeftOfRun' # LeftOfRun

\* The CI run goes on, or an artifact expires.
OnlyOthers == UNCHANGED LeftOfRun /\ (ciVars' # ciVars \/ fresh' # fresh)

AttemptShortens ==
    [][native.run = "running" /\ native'.run = "running"
          => RunShrinks \/ OnlyOthers]_vars

\* A job concludes once.
LEMMA ConcludeShrinks ==
    ASSUME NativeTypeOK, NEW j \in Jobs, NEW c \in Conclusions \ {"pending"}, Conclude(j, c)
    PROVE  Pending' \subseteq Pending /\ (j \in Pending => Pending' # Pending)
<1>1. \A k \in Jobs : job'[k].conclusion = IF k = j THEN c ELSE job[k].conclusion
    BY Concluded
<1>2. QED
    BY <1>1 DEF Pending

LEMMA AttemptShrinks ==
    ASSUME NInv, Next, native.run = "running", native'.run = "running"
    PROVE  RunShrinks \/ OnlyOthers
<1>0. NativeTypeOK
    BY DEF NInv
<1> USE DEF RunShrinks, LeftOfRun, nativeVars, authVars, partials, bundling
<1>1. ASSUME NEW ok \in BOOLEAN, NEW from, NEW to, AuthStep(ok, from, to),
             <<from, to>> \in {<<"list", "watch">>, <<"watch", "relist">>, <<"relist", "jobs">>,
                               <<"jobs", "done">>}
      PROVE  RunShrinks
  <2>1. /\ UNCHANGED <<Unbuilt, Commands, got>> /\ "authorize" \in Pending /\ auth = from
        /\ Commands \in Nat
      BY <1>1, JobFacts DEF AuthStep, Unbuilt, Commands, Running, Pending
  <2>2. Requests \in Nat /\ Requests' \in Nat /\ Pending' \subseteq Pending
    <3>1. \/ job' = job
          \/ Conclude("authorize", "rejected") \/ Conclude("authorize", "success")
        BY <1>1 DEF AuthStep
    <3>2. Pending' \subseteq Pending
        BY <1>0, <3>1, JobFacts, ConcludeShrinks DEF Conclusions, Pending
    <3>3. QED
        BY <3>2 DEF Requests
  <2>3. CASE ok
    <3>1. auth = from /\ auth' = to
        BY <1>1, <2>3 DEF AuthStep
    <3>2. Requests' < Requests
        BY <1>1, <3>1 DEF Requests
    <3>3. QED
        BY <2>1, <2>2, <3>2
  <2>4. CASE ~ok
    <3>1. Requests' = Requests /\ Pending' # Pending
        BY <1>0, <1>1, <2>1, <2>4, JobFacts, ConcludeShrinks DEF AuthStep, Requests, Conclusions
    <3>2. QED
        BY <2>1, <2>2, <3>1
  <2>5. QED
      BY <2>3, <2>4
<1>2. ASSUME Authorize PROVE RunShrinks
  <2>1. SelectCI => RunShrinks
      BY <1>1 DEF SelectCI
  <2>2. WatchCI => RunShrinks
      BY <1>1 DEF WatchCI
  <2>3. RelistCI => RunShrinks
      BY <1>1 DEF RelistCI
  <2>4. ReadJobs => RunShrinks
      BY <1>1 DEF ReadJobs
  <2>5. QED
      BY <1>2, <2>1, <2>2, <2>3, <2>4 DEF Authorize
<1>3. ASSUME NEW g \in Groups, Pack(g) PROVE RunShrinks
  <2>1. /\ UNCHANGED <<Requests, Commands, got, native>> /\ g \in Jobs /\ g \in Pending
        /\ g \in Unbuilt /\ native.attempt \in Native /\ Requests \in Nat /\ Commands \in Nat
      BY <1>0, <1>3, JobFacts DEF Pack, Requests, Commands, Running, Pending, Unbuilt, NativeTypeOK
  <2>2. CASE UNCHANGED partials /\ Conclude(g, "rejected")
      BY <1>0, <2>1, <2>2, ConcludeShrinks DEF Unbuilt, Conclusions
  <2>3. CASE /\ UNCHANGED job
             /\ \E tree \in Content(g) :
                  Packs(tree) /\ partial' = [partial EXCEPT ![g][native.attempt] = tree]
    <3>1. PICK tree \in Content(g) : partial' = [partial EXCEPT ![g][native.attempt] = tree]
        BY <2>3
    <3>2. tree # "unbuilt"
        BY <3>1, NativeOK DEF Content, AllDefects
    <3>3. partial'[g][native.attempt] = tree /\ \A k \in Groups \ {g} : partial'[k] = partial[k]
        BY <1>0, <2>1, <3>1 DEF NativeTypeOK
    <3>4. g \notin Unbuilt' /\ Unbuilt' \subseteq Unbuilt /\ Pending' = Pending
        BY <2>1, <2>3, <3>2, <3>3 DEF Unbuilt, Pending
    <3>5. QED
        BY <2>1, <3>4
  <2>4. QED
      BY <1>3, <2>2, <2>3 DEF Pack
<1>4. ASSUME NEW j \in Jobs, NEW c \in {"success", "fault"}, Conclude(j, c), j \in Pending,
             UNCHANGED <<native, auth, partial, step, got>>
      PROVE  RunShrinks
  <2>1. UNCHANGED <<Unbuilt, Requests, Commands, got>> /\ Requests \in Nat /\ Commands \in Nat
      BY <1>4 DEF Unbuilt, Requests, Commands
  <2>2. QED
      BY <1>0, <1>4, <2>1, ConcludeShrinks DEF Conclusions
<1>5. ASSUME (\E g \in Groups : EndGroup(g)) \/ EndBundle \/ (\E j \in Jobs : Fault(j))
      PROVE  RunShrinks
    BY <1>4, <1>5, JobFacts DEF EndGroup, EndBundle, Fault, Running, Pending
<1>6. ASSUME NEW ok \in BOOLEAN, NEW from, NEW to, BundleStep(ok, from, to),
             <<from, to>> \in {<<"list", "download">>, <<"download", "download">>,
                 <<"download", "create">>, <<"create", "upload">>, <<"upload", "done">>},
             got \subseteq got', ok /\ from = to => got' # got /\ got' \subseteq Groups
      PROVE  RunShrinks
  <2>1. /\ UNCHANGED <<Unbuilt, Requests>> /\ "bundle" \in Pending /\ step = from
        /\ Requests \in Nat /\ Commands \in Nat /\ Commands' \in Nat
      BY <1>6, JobFacts DEF BundleStep, Unbuilt, Requests, Commands, Running, Pending
  <2>2. CASE ok
    <3>1. Pending' = Pending /\ step' = to
        BY <1>6, <2>2 DEF BundleStep, Pending
    <3>2. CASE from # to
      <4>1. Commands' < Commands
          BY <1>6, <2>1, <3>1, <3>2 DEF Commands
      <4>2. QED
          BY <1>6, <2>1, <3>1, <4>1
    <3>3. CASE from = to
      <4>1. Commands' = Commands /\ Groups \ got' # Groups \ got
          BY <1>6, <2>1, <2>2, <3>1, <3>3 DEF Commands
      <4>2. QED
          BY <1>6, <2>1, <3>1, <4>1
    <3>4. QED
        BY <3>2, <3>3
  <2>3. CASE ~ok
    <3>1. Conclude("bundle", "rejected") /\ Commands' = Commands
        BY <1>6, <2>3 DEF BundleStep, Commands
    <3>2. QED
        BY <1>0, <1>6, <2>1, <3>1, JobFacts, ConcludeShrinks DEF Conclusions
  <2>4. QED
      BY <2>2, <2>3
<1>7. ASSUME MakeBundle, ~EndBundle PROVE RunShrinks
  <2>1. SelectPartials => RunShrinks
      BY <1>6 DEF SelectPartials
  <2>2. ASSUME NEW g \in Groups, Fetch(g) PROVE RunShrinks
    <3> DEFINE ok == <<g, picked[g]>> \in fresh /\ Inventory(g)
               to == IF got \cup {g} = Groups THEN "create" ELSE "download"
    <3>1. BundleStep(ok, "download", to) /\ ok \in BOOLEAN /\ g \notin got /\ got \subseteq Groups
        BY <1>0, <2>2 DEF Fetch, NativeTypeOK
    <3>2. got' = IF ok THEN got \cup {g} ELSE got
        BY <2>2 DEF Fetch
    <3>3. to \in {"create", "download"}
        OBVIOUS
    <3> HIDE DEF ok, to
    <3>4. QED
        BY <1>6, <3>1, <3>2, <3>3
  <2>3. CreateManifest => RunShrinks
      BY <1>6 DEF CreateManifest
  <2>4. UploadBundle => RunShrinks
      BY <1>6 DEF UploadBundle
  <2>5. QED
      BY <1>7, <2>1, <2>2, <2>3, <2>4 DEF MakeBundle
<1>8. ASSUME CI \/ RerunCI \/ ExpirePartial
      PROVE  OnlyOthers
  <2>1. UNCHANGED <<native, job, auth, partial, step, got>>
      BY <1>8 DEF CI, StartCI, EndCIJob, EndCI, RerunCI, ExpirePartial
  <2>2. UNCHANGED LeftOfRun
      BY <2>1 DEF Pending, Unbuilt, Requests, Commands
  <2>3. ExpirePartial => fresh' # fresh
      BY DEF ExpirePartial
  <2>4. StartCI => ci' # ci
      BY DEF StartCI
  <2>5. ASSUME NEW c \in CIJobs, EndCIJob(c) PROVE ciJob' # ciJob
      BY <1>0, <2>5 DEF EndCIJob, NativeTypeOK
  <2>6. EndCI => ci' # ci
      BY <1>0 DEF EndCI, NativeTypeOK
  <2>7. RerunCI => ci' # ci
      BY <1>0 DEF RerunCI, NativeTypeOK
  <2>8. QED
      BY <1>8, <2>2, <2>3, <2>4, <2>5, <2>6, <2>7 DEF CI, ciVars, OnlyOthers
<1>9. ~EndNative /\ ~RerunNative
  <2>1. ASSUME EndNative PROVE FALSE
    <3>1. PICK ok \in {"success", "failure"} : native' = [native EXCEPT !.run = ok]
        BY <2>1 DEF EndNative
    <3>2. native'.run = ok
        BY <1>0, <3>1 DEF NativeTypeOK
    <3>3. QED
        BY <3>1, <3>2
  <2>2. QED
      BY <2>1 DEF RerunNative
<1>10. QED
    BY <1>2, <1>3, <1>5, <1>7, <1>8, <1>9 DEF Next, Group, MakeBundle

\* While an attempt of the native run goes on, each step of its jobs leaves it less
\* to do, and neither the CI run nor an artifact that expires gives it more: with
\* finitely many groups it makes finitely many steps.  What NativeRunEnds adds to this
\* is that the steps are taken.
THEOREM AttemptIsFinite == Spec => AttemptShortens
<1>1. NInv /\ Next /\ native.run = "running" /\ native'.run = "running"
      => RunShrinks \/ OnlyOthers
    BY AttemptShrinks
<1>2. Init => NInv
    BY NInit
<1>3. NInv /\ [Next]_vars => NInv'
    BY NStep
<1>4. QED
    BY <1>1, <1>2, <1>3, PTL DEF Spec, AttemptShortens
=============================================================================
