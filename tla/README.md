# hop-sdk-apple: specification, model checking and proofs

TLA+ models of the parts of this repository that have concurrency, failures or
ordering to get wrong, TLC runs on small instances, and theorems checked by
TLAPS for every value of the constants. `PROJECT.json` lists the components,
the runs, the mutants (what each property would catch), the source lines each
definition stands for, the hazards and the theorems.

## 1. The system

| part | source | state it keeps | operations | models |
| --- | --- | --- | --- | --- |
| BearerManager | `Sources/HopContract/Bearers.swift` | registered bearers, the two link maps, pending deadlines, disabled names, stopped bearers, the started flag | register, setEnabled, start, stop, send, up/bytes/down, markSecured, checkPreauthDeadlines | BearerManager |
| HopRuntime, NodeSink | `Sources/Hop/Runtime.swift` | a node and a manager | start, stop, pump, tick; links and bytes forwarded to the node | NodeSink, as the consumer in BearerManager; the rest is one call each into libhop or the manager |
| durable queues of HopNode | `Sources/Hop/Hop.swift` | in libhop; in Swift the locals of each poll | open, poll, poll-accepting, accept, reject, decline | DurableQueues |
| rest of HopNode | `Sources/Hop/Hop.swift` | in libhop | identity, send, topics, delegations | no |
| transport helpers | `Sources/HopContract/Transport.swift` | log settings | node id order, random ids, hex | no: one comparison, and functions of their arguments |
| trunk publisher | `.github/trunk-publish.py` | the locals of one run; the registry and the CDN | publish | TrunkPublish |
| release provenance | `.github/release-provenance.py` | the locals of one run; GitHub | verify | ReleasePipeline |
| release artifact | `.github/release-artifact.py` | one directory per run attempt | create, verify | ReleasePipeline |
| release workflow | `.github/workflows/release.yml` | jobs and their outputs | prepare, build, publish, publish-pods | ReleasePipeline, publish-pods also TrunkPublish |
| native artifacts | `native/native-artifacts.py` | the partial archives and bundles of one native run | authorize-ci, pack, download-partials, create; download, verify-provenance, apple-verify | NativeArtifacts for the native run, ReleasePipeline for the use of its bundles in a release |
| local framework | `build-xcframework.sh`, `install-local-xcframework.py`, `with-local-framework.sh` | Package.swift, the framework directory | build, install, swap and restore | LocalFramework |
| package export smoke | `.github/package-export-smoke.py` | an exported package, the permissions of the trees a consumer must leave alone | validate a component | ExportSmoke, for Go, Android and Apple |
| manifests, smoke programs, housekeeping workflows | | none | | no |

How they interact. A host calls the BearerManager from threads of its own. Each
bearer calls back into it, through its Lane, from its own queue, or from within
a call the manager is making into it. The manager calls its sink, the
consumer: in the SDK that is NodeSink, which forwards to libhop. The host also
drains the node's durable queues by polling with callbacks. None of that shares
state with the release scripts, which run in CI jobs. The canonical repository's
native run waits for its CI run (`authorize-ci`), packs what each group of
targets has built, and makes the bundle. `release.yml` verifies provenance,
takes that bundle, builds, publishes the GitHub release and then runs the trunk
publisher. Any job of both may be cancelled and run again. On a developer's
machine, the framework of the package is built, or installed from a release, and
used with a temporary Package.swift; the export smoke runs the same installer in
a package that it has just exported.

What is hard:

- BearerManager: everything it calls, it calls with its lock released, so a
  value read under the lock is used after other threads have run. Toggles,
  restarts, link callbacks, handshakes and the deadline sweep race.
- Durable queues: an item must survive every crash, refusal and exception until
  the host has it, and its sender must not be told earlier.
- Trunk publisher: an unreliable CLI, a CDN that lags without bound, other runs
  of the same release, and no way to take back what is published.
- Release pipeline: a job may die between any two steps and be run again, alone
  or with the jobs before it, while main moves, the canonical CI and native runs
  are run again, and artifacts expire. Each check reads the evidence as it is at
  that moment.
- Native run: it is run again in part, so that it mixes artifacts of several
  attempts, some expired, some of a group that was built again since; and what
  `authorize-ci` reads about the CI run, it reads in several requests, between
  which that run may be run again.
- Local checkout: programs that replace files in place fail, are interrupted or
  killed between any two steps, and the next one finds what they left.
- Export smoke: the finally clause covers some steps and not others, and the same
  Package.swift is read by the installer and replaced for the tests.

What makes each part correct:

- BearerManager: one linkUp and one linkDown per link; the maps agree with each
  other and with what the consumer was told; a disabled transport has no link;
  an unauthenticated link does not outlive the deadline; removed links are
  reported.
- Durable queues: acknowledged implies kept; nothing lost; errors surface;
  polling drains.
- Trunk publisher: dependencies are readable before dependents; success means
  published; nothing goes out under a wrong version; runs end; re-runs heal.
- Release pipeline: what is released is what was verified; a release that
  succeeded is of one bundle; nothing is refused without a reason.
- Native run: a bundle is authorised by one whole CI attempt, and made of
  complete parts, each the last of its group; refusals have a reason; runs end.
- Local checkout: Package.swift is restored, by the script or by git; what a command
  uses is verified; a bad release changes nothing, and a good one is not refused.
- Export smoke: permissions are restored, and a consumer that passed has changed
  nothing.

## 2. Modules

### BearerManager, BearerProperties, LinkContract, MCBearerManager

`BearerManager` has one variable per field of the class, under the field's
name. `toGlobal`, a map of maps in Swift, is a function of (bearer, local id);
0 stands for "no id". The observers are: `used` (connections reported so far),
`running` (whose `start()` ran last and not `stop()`), `clock`, `seen` (what the
consumer has been told of each link) and `secured`. The rest are program
counters and the locals that a method carries across an unlock: `work` (the
bearers left in a loop), `cur`, `route`, `expired`, `downs` (links removed from
the maps and not yet reported) and `out` (the link a lane is reporting).

Each critical section is one action, and so is each call made outside of it:

| code | actions |
| --- | --- |
| `setEnabled` | Enable, Disable, then per bearer the actions of do_start or stopAndTearDown |
| `start`, `stop` | Start; Stop, Snapshot |
| `do_start` | MarkStarted, BearerStarts |
| `do_stop` | MarkStopped, BearerStops (from stop), BearerStopsForTearDown |
| `stopAndTearDown` | MarkStopped, BearerStopsForTearDown, TearDown, DeliverDown per link |
| `register` | Register (sink set), Append |
| `up` | Up, DeliverUp; UpRefused |
| `bytes` | Bytes, DeliverBytes |
| `down` | Down, DeliverDown |
| `send`, `markSecured` | Send, MarkSecured, BearerReturns |
| `checkPreauthDeadlines` | CheckPreauthDeadlines, then per route Close, CloseReturns, DeliverDown |

`Spec` interleaves all threads. `SerialSpec` is the other use the code has, the
one of its tests and smoke programs: one thread makes all calls, and bearers
call back only while they are being called or when nothing runs. `LinkContract`
is the abstract promise to a LinkSink about one id (unused, up, down);
`ImplementsLinkContract` is the refinement.

Modelling decisions. A bearer reports its links from one serial queue, as the
in-tree bearers do, so each has one lane. A local id names one connection, the
contract of LinkId; a bearer that reuses ids is left out. The sink is set and stays
alive. Registration order and the order in which a dictionary is swept are free
choices. The clock moves both ways, as wall clocks do, and the difference of two
readings is unsigned (`Elapsed`). A critical section is one action, so that the lock
is not a state: that no call takes it twice can be read off the code and not off the
model. A call that changes nothing is a stuttering step.

### DurableQueues, QueueProperties, DeliveryContract, MCDurableQueues

`DurableQueues` models the callers' side, in `Hop.swift`, of four
accept-to-remove queues and one take-and-clear queue. The side inside libhop is
external: a poll surfaces what is queued when it begins, one callback at a time;
a callback that returns true removes the item and acknowledges it; a poll
of the invites clears their queue (`TakeInvites`); a queue on
the database survives a crash, a queue in memory does not (`Open` chooses, as a
node with an unusable path or key falls back). The host is external as well:
`Keep` is its write to its own store, and it reports success only for what it
has kept. This is the use the comments of the accepting polls prescribe, and
`AckedIsKept` shows that under it the SDK never acknowledges on its own.

| code | actions |
| --- | --- |
| `pollInbox`, `pollServiceResponses`, `pollHpsMessages` | StartPoll("peek"), Surface, Return, EndPoll |
| their `...Accepting` forms, `pollServiceRequestsAccepting` | StartPoll("accepting"), Surface, Return, EndPoll, Rescue |
| `pollServiceRequests` | StartPoll("completing"), the same |
| `acceptInbox` and the other three accepts | Accept |
| `rejectServiceRequest`, an accept of a bad or unknown id | a stutter: the request stays queued |
| `pollHpsInvites`, `hpsDeclineInvite` | PollInvites, SurfaceInvite; Decline |

`caught` is `Context.caughtError`; `threw` observes which handlers threw.
`DeliveryContract` is the abstract promise (an item is queued, kept, and only
then acknowledged); `ImplementsDelivery` is the refinement, with the queue on the
database as the abstract queue. `Poller` is the thread of which liveness assumes
that it polls; safety does not depend on it.

### TrunkPublish, MCTrunkPublish

One process per attempt of the publish job, an external registry
(`published`), its CDN (`cdn`, a subset that catches up) and the pod CLI, which
may succeed, succeed without effect, fail, or fail after its effect. `index` is
the position in PUBLISH_ORDER; the actions are the steps of the loop of
`publish()`: Begin (version check), CheckSpec, Query, Push / PushIsLost /
PushFails, Readback, Readable / NotYet (one check of `await_cdn` each), with
FetchFails and Cancel possible wherever the code calls out. A duplicate reported
by the CLI is a Push that changes nothing. The workflow names no concurrency
group, so runs overlap, and RunAgain starts a finished run afresh. The checkout
of a run is fixed, so is its Package.swift.

`Missing` names podspecs absent from the checkout; the run has none, the
theorems allow any. With one missing, the code pushes the leaves before it
fails on HopSDK, which is not what the self-test says of it ("fails before
anything is pushed", `trunk-publish.test.sh:286`).

### ReleasePipeline, MCReleasePipeline

The jobs of `release.yml` form one chain of `needs`, so one `pc` is enough: the
step that the run is at, with `status` saying how it stands.

| job and code | actions |
| --- | --- |
| prepare: `release-provenance.py verify` | VerifyTag, VerifySource, VerifyCI, VerifyChecks |
| prepare: `select_native_run`, `download_github` | SelectNative, Download |
| prepare: `verify-provenance`, upload of the native input | VerifyBundle, BindInput |
| build: download, checksum and `apple-verify`, `release-artifact.py create`, upload | FetchInput, Package, Pack |
| publish: download, `release-artifact.py verify`, release action | FetchRelease, UploadAsset per asset, FinishRelease |
| publish-pods: download, verify, trunk publisher | FetchRelease, Trunk |
| GitHub's "re-run failed jobs", "re-run all jobs" | RerunFailed, RerunAll |

`Fault` ends a job at any step. `selected`, `holding` and `todo` are the
workspace of the current job and are empty whenever a job starts. `inputs`,
`outputs` and `assets` are GitHub's artifact store and the release; `inputName`
and `release` are job outputs, which survive the re-run of a later job. `bound`
observes the bundle that prepare passed last.

The environment is external: main moves off the tag, the canonical CI run and
the native run are run again and end, bundles and the native input (one day of
retention) expire. `origin`, how the tagged tree stands to the source its commit
names, is fixed by the tag.

Data are abstracted to what decides: a bundle is known by its one defect or
"none", and each verification is a predicate on it. `Defects` says which ones
an instance has. The release action replaces assets that exist, one after the
other.

`TagRequired` is TRUE in the code. `native-artifacts.py:973` declares `--tag`
required for `verify-provenance`, and `release.yml:71-79` calls it without; the
parser refuses, and no release gets past prepare (`release_blocked`, theorem
`NothingIsReleased`). The workflow's comment (`release.yml:59`) says that the
bundle's own tag is deliberately not compared. The `release` run sets FALSE to
check everything after that step, as the comment intends it.

### NativeArtifacts, MCNativeArtifacts

The native run of one source: the job `authorize`, one job per group of targets
(`Groups`, the keys of PARTIAL_ARTIFACT_TARGETS) and the job `bundle`. `job` is the
last execution of each, `partial` GitHub's store of what the groups uploaded,
`fresh` what of it has not expired.

| command | actions |
| --- | --- |
| `authorize-ci` | SelectCI, WatchCI, RelistCI, ReadJobs, one for each request |
| `pack`, then the upload | Pack, EndGroup |
| `download-partials` | SelectPartials (one listing), Fetch per group |
| `create`, then the upload | CreateManifest, UploadBundle, EndBundle |

The workflow files that call these commands are in the canonical repository. Of
them it is assumed that the groups need the authorization, that the bundle needs
all other jobs, and that a run is run again, as a whole or from some groups on,
once its jobs have stopped. Any job fails at any step (`Fault`). An execution
starts in an empty workspace, and artifacts of an attempt keep their contents. An
artifact that has expired is still listed. What a group has built is known by its
one defect; the last two, `checksum` and `slices`, are those that only a release
can find.

The CI run moves only while `authorize-ci` runs (`Watched`): nothing else reads it,
so that whatever happens to it in between may as well happen at the beginning of
the next execution of that job. `ciGreen` observes its attempts in which it and
both required jobs succeeded.

`Release` maps this run into ReleasePipeline, where native attempts end, are run
again and upload bundles by actions of the environment. `ImplementsNativeRun`
says that each step here is one of those or a stutter, so that what is shown of
releases there rests on this code and not on an assumption about it.

### LocalFramework, ExportSmoke

`LocalFramework` has the three programs as one `pc`, because one runs at a time,
and the two directories they work in: the checkout and an export. Each step of a
script that leaves something behind is an action.

| program | actions |
| --- | --- |
| `build-xcframework.sh` | Build, Compile, RemoveOld (in part, then all), Create, FinishBuild, VerifyBuild |
| `install-local-xcframework.py` | Install, VerifyManifest (without `--bundle`), VerifyRelease, CheckPin, RemoveInstalled (in part, then all), Extract, Unpack, CheckSlices |
| `with-local-framework.sh` | Run (with a build when there is no framework), Backup, SetTrap, Swap (truncate, write), Command, Restore (the same) |

`End` is the end of a program, through the trap if one is set. A program fails or
is interrupted at any step (`Interrupt`), and may be killed (`Kill`), which runs no
trap. What interrupts the trap's own two steps ends the script, because a trap does
not run again. A kill once the trap is set and a `restore()` cut short leave
Package.swift as it happens to be (`Abandon`); `unrestored` observes that until the
user gets the file back from git (`CheckOut`). `spoiled` observes the directories in
which a program was abandoned between the first file removed of the old framework
and the verification of the new one.

`ExportSmoke` is `validate` of `package-export-smoke.py`: a new export, then for Go
and Android the steps prepare, print (fingerprints), freeze, consume, compare,
thaw, checks, and for Apple release, install (the installer of LocalFramework, in
the export), swap, test. `Raise` is an exception at any step; `Tried` says which
steps the try covers. The tools of the consumer are external and write wherever
permissions let them, everywhere if the user is root. Users call the local
programs between validations.

## 3. Runs

| run | instance | shows |
| --- | --- | --- |
| toggles | 2 hosts, 2 bearers under one name, a link each; toggle, start/stop, send | routing consistent, one linkDown per link, disabled means torn down for the whole group, bytes after up |
| preauth | 2 hosts, 1 bearer being registered, 2 links, clock 0..2, deadline 1, weak fairness | the sweep closes exactly late unsecured links, races with a disable included; removed links are reported |
| serial | 1 thread, all operations, 2 names, one bearer registered late | what the doc comments promise between calls, and the LinkContract |
| queues | 2 threads, a message, a request, an invite that may come again, both stores, crashes | acknowledged is kept, nothing lost, errors surface, refinement; polling drains the queue |
| publish | 2 runs of one tag, 2 versions, 2 CDN checks | order, version and read-back hold; a run ends without the CDN; re-running completes a release |
| release | 3 attempts, 2 CI and 2 native attempts, 2 defects, 2 assets, `TagRequired` FALSE | only verified bundles are released, a finished release is of one bundle, only bad evidence is rejected |
| native | 2 attempts of the CI run and of the native run, 2 groups, a defect for each check | one whole CI attempt authorises, parts are the latest and complete, refusals have a cause, runs end, refinement of ReleasePipeline's native run |
| checkout | both directories, every defect of a build and a release, three components | Package.swift and permissions restored, commands use what was verified, installations all or nothing, no good release refused |

The type invariants of the modules other than BearerManager are theorems and
not checked by a run.

Runs that TLC must find violated. Each checks one sentence of the repository
that the code does not keep:

| run | sentence | what happens |
| --- | --- | --- |
| late_link_up | a disable that returned admits no new link (`Bearers.swift:104`) | `up` announces after its unlock |
| revived | a disabled transport stays down (`Bearers.swift:162`) | `start` starts a bearer of its snapshot, disabled since |
| torn_down_route | a torn-down id does not route (`BearerManagerTests.swift:188`) | markSecured uses the stale pending entry |
| release_blocked | the bundle's tag is not cross-checked (`release.yml:59`) | every bundle is refused, as `--tag` is required |

The first two need two threads, the third one. Three more races of
the same kind are the reason why the threaded instances check what they check
and no more. The gap behind `late_link_up` also lets a teardown report a link
down before `up` has reported it up, and the consumer then keeps it
(`ConsumerMatchesRoutes` and `ImplementsLinkContract` are checked for one
thread; `OneReporter` tolerates the order and forbids a second linkDown). Two
hosts that interleave `do_start` and `do_stop` leave a running bearer in
`stoppedBearers` (`EnabledIsNotMuted`, one thread). A bearer that surfaces a link
between the halves of `register` while its name is disabled keeps it
(TLC: register's first half, a link, the disable, which matches nothing;
`DisabledIsTornDown` is therefore said of the bearers registered beforehand). In the
queues, a poll in which several handlers throw rethrows the last error only;
`ErrorsSurface` says that it throws, not what.

### Bounds

`MaxLinks` (ids that may be minted) and the local ids bound the links of an
instance: two are the least that have an order and a neighbour, and all maps are
indexed by link, so that links interact only through a shared loop. Two hosts are
the least that race, and a third adds no new pair of critical sections. `MaxClock` 2
with `Deadline` 1 has readings before, at and after the deadline and steps back. The
two publisher runs share a tag, the case that contends for the same versions; the
second version is one that no tag names, and runs of different tags are left to the
theorems. `Attempts` is 2: the count matters only where it reaches the limit. The
registry is as large as pods times versions. For the release, three attempts are one
that fails with some assets replaced, one that repeats prepare with a newer native
attempt, and one that goes on from there; two native attempts are an old and a new
bundle, two assets the least that can differ, and the two defects are one that
prepare and one that build must find. For the native run, two attempts are an old
and a new artifact of a group, and the two of the CI run are one that was read and
one that has begun since; two groups are the least of which one is built again and
the other is not. The four defects are one that each of pack, download and create
must find, and one that passes all of them. The checkout instance has no bound but
the number of directories. None of these bounds limits the safety properties: each
of them has a theorem (section 4).

### Fairness

BearerManager: weak fairness of each thread that is in a call (`HostStep`,
`LaneStep`): the scheduler runs it, and the calls into bearers and sinks return,
which is their contract. No host is obliged to call. `queues`: the thread `Poller`
polls again and again, its thread runs, and a handler that is given an item over and
over in the end keeps it and succeeds; these are strong because refusals and crashes
interrupt. The property is also conditional on the node staying on its database.
`native`: jobs run, their requests return, a run whose jobs have stopped ends, and
the CI run starts and ends, as either outcome; nobody is obliged to run anything
again, and faults and expiry are not constrained. `publish`: a job runs, its calls
return and a failed run is started again; nothing is said of the CDN, so `RunEnds`
does not depend on it, and `EventuallyPublished` is conditional on faults ending and
on the CDN catching up again and again.

## 4. Proofs

All are checked by tlapm from the assumptions named in the modules:
`ConstantsOK`, `QueuesOK`, `PublishOK`, `ReleaseOK`, `NativeOK` and `LocalOK`, which
TLC also evaluates.

- `BearerManagerProofs`. `TypeCorrect`: TypeOK is inductive. `LinkInvariant`:
  `MapsInverse` and `OneReporter` are not, because a step that reports a link
  down has to know that nobody else will, and a new id must be one nobody holds.
  The strengthening says that a routed local id was reported up before
  (`RoutesUsed`), the sink knows only minted links (`SeenMinted`), a pending
  linkUp sits on one lane and was not delivered (`UpOnce`), and removed links
  are held only by a thread that is reporting them (`DownsHeld`). `RoutingConsistent`
  and `ReportedOnce` follow, for any number of threads, bearers and links.
- `BearerSafetyProofs`, for any interleaving. It begins with frame lemmas: what a
  step of one host or of one lane leaves alone (`HostFrame`, `LaneFrame`), and who
  changes a route, a pending entry or what the sink knows (`RoutesStay`,
  `PendingMoves`, `SeenMoves`). `DisabledTornDown` needs that a tear-down stays due until
  the step that removes the links (`TearDownStaysDue`). `BytesInOrder` needs
  `UnseenIsPending`: a routed link the sink has not heard of has its linkUp pending
  on the lane of its own bearer, so that this lane cannot be in `bytes`.
  `DeadlineCovers` needs that a sweep holds a route until it has closed it
  (`SweepHoldsOn`) and what the sweep removes it holds (`SweepTakes`); that is why
  `NoLinkEscapesDeadline` names the route a sweep is closing, and not just the thread.
  `SweepIsDeserved` rests on a secured link having no pending entry, then or ever
  again. `CallsAreFinite` says that a call has no endless loop: each step of it
  makes a lexicographic order smaller (the bearers or routes of its loop, the stage
  of the present one, the links still to be reported), and no step of another thread
  makes it larger.
- `BearerSerialProofs`, for `SerialSpec`. Its steps are steps of `Next`, so all of the
  above holds of it (`SerialInvariant`). `OneCall` says that two threads are in the
  manager only when one is a bearer calling back. `ViewInv` adds that the sink sees a
  link as new, up or down, as up while a thread holds it for reporting, and as up
  while its bytes are on the way. A host, or a lane at rest, takes links off the maps
  only when no lane is in a call, so that their linkUp was delivered (`RoutedIsUp`):
  that is what fails with two threads. `TablesAgree`, `BytesOnlyOfUp` and
  `LinksKeepContract`, the refinement of LinkContract, follow. `EnabledIsHeard`,
  `DisabledIsOff` and `StoppedIsOff` are about the moment between calls, and the
  calls are loops: `ToggleInv` says what holds within one, namely that the radios
  and mutes are as the toggles say but for the bearers the loop has yet to start,
  disable or stop (`Settled`, `Between`), and that what the call decided at its
  first step still stands (`InCall`); `CallStep` has one step per action.
- `DurableQueuesProofs`. `QueueInvariant`: `QueueTypeOK` and `AckedIsKept` become
  inductive with `InHand`, which says that what a thread has in hand while it polls
  comes from the queue it polls (items from an item queue, invites from the invite
  queue). `DeliveredIsKept`, `NothingIsLost` and `DeliveryRefinement` (initial
  states map to initial states, each step to a step of DeliveryContract or a
  stutter) follow. `ErrorsAreRethrown` needs `ErrorCarried`: a poll carries an error
  exactly when a handler threw in it.
- `TrunkPublishProofs`. `PublishInvariant`: `LeavesReadableFirst` is about the
  registry, and becomes inductive with `Progress`, which says of each run that
  what it has got past is on the CDN, at the version of its tag; the CDN only
  grows, so other runs cannot disturb it. `LeavesFirst`, `OnlyTags` and
  `DoneMeansPublished` follow for any number of runs, tags and checks.
  `RerunsPushNothing` adds that a run of a release complete at its beginning is never
  at a push, which holds because pods stay published and a failed fetch ends the run.
  `RunIsBounded` is the safety half of `RunEnds`: `StepsLeft` is at most three times
  (Attempts + 4) and each step of a run makes it smaller.
- `ReleasePipelineProofs`. `VerifiedInvariant`: `ReleasedIsVerified` becomes
  inductive with what every earlier step leaves behind: a run that is green is
  recorded as having succeeded (`RunsRecorded`), at each step the source and the
  bundle on the runner have passed the checks so far (`InHand`), and so have the
  stored artifacts (`Stored`). Evidence may change later; that it was there does
  not. `HandedInvariant` gives `ReleaseIsWhole` from `Handed` (what the current job
  holds, and the assets it has uploaded, are of `bound`) and `Named` (a name stands
  for one artifact). `RejectionIsDeserved` holds for either value of TagRequired,
  and names the refusal of the tag as the one that a valid bundle meets;
  `NothingIsReleased` assumes TagRequired, as in the code, which releases nothing.
- `NativeArtifactsProofs`, for any number of groups, attempts and defects.
  `PartsAreLatest` is not inductive: it needs that a group that runs again is in an
  attempt without a bundle, and that the newest upload of a group that has succeeded
  is that of its last execution. `Executions` (which jobs of which attempt can run),
  `Uploaded` and `PickedLast` say so; `NStep` has them preserved, and `PartsLatest`
  follows. `Authorized` rests on `Read`: what `authorize-ci` has read of an attempt
  stays true of it, because only jobs of the current attempt are executed, and that
  attempt can be the one it read only while the run counts as successful.
  `PartsComplete` and `RefusalIsDeserved` rest on what the bundle job has checked so
  far (`Sound`) and on the groups having succeeded when it is refused.
  `NativeRefinement` needs in addition that an attempt has its bundle exactly once
  the bundle job is done (`Done`), and that a bundle's parts do not change
  (`BundleStays`). `AttemptIsFinite` is the safety half of `NativeRunEnds`: while an
  attempt goes on, what its jobs have left (`LeftOfRun`) only shrinks, and shrinks
  with each of their steps.
- `ExportSmokeProofs`, for any defects. `LInv` says of each step of a program what
  holds there: what it works on (`Programs`), that the copy and the trap are there
  while Package.swift may be another, unless `unrestored` accounts for it
  (`Guarded`), that a framework is good, absent, being replaced or accounted for in
  `spoiled` (`Kempt`), and how far an installation has got (`Ordered`). `Restored`,
  `CommandFramework`, `AllOrNothing` and `RefusedOnlyForCause` follow. `Tidy`, about
  the trees of a validation, gives `ConsumerLeavesAsFound`.

Only model-checked: the liveness properties `RemovedIsReported`,
`EventuallyAccepted`, `RunEnds`, `EventuallyPublished` and `NativeRunEnds` (temporal
reasoning under fairness, and ENABLED, are outside the prover), and the runs that
expect a violation, which are counterexamples.

## 5. Plan

1. Proofs: every safety property of a passing run has its theorem. Left is the
   safety half of `EventuallyAccepted` and of `RemovedIsReported`: which steps a
   removed link or a queued item still waits for, and that no step of another thread
   undoes one.
2. A bearer that uses a local id again after a restart, and the links that `stop`
   leaves in the maps until then, in an instance of BearerManager of its own.
3. `nodeIdGreater` as an order on node ids, with the loopback bearer, if a bearer
   that dials comes into the repository.

## 6. Not modelled

libhop itself (a C library that is not in the repository), the parts of
HopNode and HopRuntime that only pass arguments to it, log output and redaction,
archive formats, hashes and signatures as computations, the compilers and tools
the scripts start, and the workflows that only call external actions. Of the
export smoke, the Elixir and embedded validators, which build and test in one
line of calls, and the checks of surfaces, inventories and Copybara rules, which
are functions of files; `verify_standalone_lock` is for Rust mirrors, of which the
code has none (`RUST_MIRRORS`).

What the models leave out on purpose, and what the code does there:

- Two uses of `with-local-framework.sh` at once: the second saves the first one's
  local manifest and may restore it last.
- The script promises not to change Package.swift on exit (`with-local-framework.sh:2`).
  A kill leaves it changed, and so does a `restore()` that fails or is interrupted: the
  copy of line 12 can run out of disk as that of line 16 can. The models have both, and
  `PackageIsRestored` and `InstallRefusedForCause` name them.
- A framework directory that an interrupted build or installation has left behind,
  half removed or half written, is used by the next command, which asks only whether
  it is there (`with-local-framework.sh:5`). `CommandUsesVerified` names this exception.
- `deterministic_files` refuses a symlink to a file, and leaves one to a directory
  or to nothing out of the archive without a word (`native-artifacts.py:532`);
  `PartsAreComplete` is about archives, not about the trees they were packed from.
- `pollHpsInvites` hands out invites that libhop has cleared already: what the host has
  not kept when the process dies is lost. That none is shown twice rests on libhop
  alone, and no property is stated.
- Go's module cache is made read-only outside of the try
  (`package-export-smoke.py:664`), and the finally clauses restore one tree after
  the other: an exception there leaves trees read-only. `LeftAsFound` names both.
- HopRuntime never calls `checkPreauthDeadlines` or `markSecured`
  (`Runtime.swift`): the deadline is the host's to drive.
- Re-running all jobs of a release needs the tag to be main still
  (`release-provenance.py:80`), so that a release whose native input has expired
  cannot be finished once main has moved. The release model has both.
- A native run that begins before its CI run is listed is refused, not delayed
  (`native-artifacts.py:756`); a listing of more artifacts than one page holds is
  refused too.
- The installer compares the bundle's own tag with the release's, which
  `release.yml:59` says may differ; `InstallRefusedForCause` counts that as a cause,
  as the code does.
