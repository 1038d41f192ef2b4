# Verification of Personal CIC

TLA+ models of the Personal CIC runtime (`src/src/personal_cic/`), the TLC
configurations that check them on small instances, and TLAPS proofs of their
main properties for every instance. File and line references are to the
repository.

## 1. Inventory

Personal CIC is one Python process (`cic-runtime`, `runtime.py`) that watches a
host and the world around it, keeps what it knows in an in-memory entity store,
persists that store as one JSON snapshot, and shows it on a loopback web
surface. Its guiding rule (`docs/RUNTIME_AUTHORITY.md:9`) is that a claim may not
outlive the mechanism that earns it. A one-shot command (`cic-self`, `app.py`)
shares the snapshot and has no journal.

| part | state | operations | interacts with | modelled in |
| --- | --- | --- | --- | --- |
| persistent runtime (`runtime.py`) | stop event and reason, first worker failure, local failure, last snapshot time | start-up, re-entry, supervision, local cycle, periodic and final snapshot, shutdown | owns every other part | `Runtime` |
| worker liveness (`runtime_authority.py:48-124`) | lifecycle under a lock | the `mark_*` methods | written by a worker's thread and by the main thread, read by the surface | `WorkerLiveness`, `Runtime` |
| collection workers (`world_awareness.py`, `traffic_awareness.py`) | thread, stop flag, due times, surface retention flag | `prepare_reentry`, `start`, `stop`, `supervision_status`, collectors, derived estimate and situation | ingest into the world; failure callback into the runtime | threads in `Runtime`, passes in `Weather` and `Traffic` |
| durable-state lease (`runtime_authority.py:135-196`) | lock handle, owner record | `acquire`, `release` | the kernel's `flock`, other processes | `DurableLease` |
| world store (`core/world/store.py`) | entities and components under a re-entrant lock | upsert, read snapshot, `write_json`, `hydrate_json` | publishes on the bus while it holds its lock | `World` |
| batch ingestion (`bootstrap.py`) | none of its own | values first, `ObservationState` last, then the cycle event | world, bus | `Observation`, `World`, `Reading` |
| event bus and journal (`core/events/`) | observers, handlers, the journal file | synchronous, recursive `publish`; append | runs on every publishing thread | `World` |
| health and materiality (`holons/systems/`) | none of its own | health of an entity; is a change material or a sample | handler of the cycle event | `Health`, `Materiality` |
| provider adapters (`adapters/world/`) | none, or a cached file | request and parse | return observations, never raise for a provider error | `WeatherAdapters`, `TrafficAdapters`, `RadarCache` |
| host adapters (`adapters/linux`, `adapters/tenda`) | none | probe and parse | local collection cycle | `LocalAdapters` |
| weather fusion, traffic situation | none of its own | pure derivation from the last states of the sources | called by collectors | `WeatherAdapters`, `TrafficAdapters` |
| radar cache, provider caches | frame files, manifest, context file; forecast URL and age | record a frame, prune with one generation of grace, refresh, fall back | HTTP threads read the files | `RadarCache`, `Weather` |
| presentation server (`presentation/server.py`) | HTTP server and its threads | start, stop, refuse when a worker failed, project, serve cached images | reads the world and the liveness | `Runtime`, `Reading`, `RadarCache` |
| presentation projection | none | pages of a detached world | server | `Presentation` |
| semantic projection (`semantics/`) | none | claims of a detached world, with their authority and ids | server | `Semantics` |
| configuration (`core/config.py`) | none | read, check, refuse | start of every process | `Configuration` |
| reality graph (`reality/`) | index of dependencies | evidence requalification, lineage, coverage, economics | pure | `Requalification` (the index and its plan) |
| codec, console, pages, tooling, lineage | none | encode, print, format | | not modelled, section 5 |

What is hard about it, and what makes each part correct:

* **Shutdown against running workers.** `stop()` joins with a budget; a worker
  may outlive it. The final snapshot must be written only when nothing can
  change the world any more, and must not seal a half-ingested batch.
* **Start-up order.** Hydration brings back claims that an earlier process
  earned. They must be withdrawn or earned again before the surface opens,
  whatever fails or stops on the way.
* **Supervision.** Lifecycles are written by two threads without a common plan,
  and `supervision_status` decides on a reading that may be old. Failed and
  stopped must be final, the blamed worker must have failed, and a failure must
  end the process.
* **Several processes.** Runtime and one-shot compete for one snapshot and may
  die at any step; nobody may write without the lease or lose what is there. Each
  reads its own configuration and health thresholds, which may have changed; what
  an earlier one earned under others is still in the snapshot.
* **Weighing outside the lock.** Whether a change is durable history is decided
  from a component that is read before the lock is taken, and the filter of the
  journal acts on it later. What a reader sees must be on record all the same.
* **Batches, retention and derived state.** A value and the state that qualifies
  it are stored in two steps; a retained or derived value must not outlive its
  source, and a reader may come in between.
* **One thread for many sources.** Slow or failing providers must neither starve
  the others nor be mistaken for an answer.
* **Radar files.** A frame that a published state names must be there to be
  read, through pruning, failures and restarts.
* **Two projections of one world.** Pages and claims are computed by code that
  shares nothing; they must not contradict each other or a claim given before.

`PROJECT.json` lists every part with its status, and the hazards with the
properties that would catch them.

## 2. Modules

| module | models | role |
| --- | --- | --- |
| `WorkerLiveness` | `WorkerLiveness.mark_*` | operators used by `Runtime` |
| `Runtime` | `runtime.py` with the threads of both workers, the surface and the snapshot | state machine |
| `Embodiment` | `docs/RUNTIME_AUTHORITY.md:13` | abstract specification of a durable world |
| `DurableLease` | `DurableStateLease` with the snapshot it protects, and the processes that use it | state machine, refines `Embodiment` |
| `Observation` | what adapters report and what a batch says of its source | operators used by all below |
| `Materiality`, `Health` | bands, significance of a change, health of an entity | operators used by `World` and `Reading` |
| `LocalAdapters` | host and radio adapters | operators used by the instances of `World` and `Reading` |
| `World` | store, lock, bus, journal, health handler, snapshots | state machine |
| `WeatherAdapters`, `Weather` | weather adapters and fusion; the world awareness worker | operators; state machine |
| `TrafficAdapters`, `Traffic` | traffic adapters and situation; the traffic awareness worker | operators; state machine |
| `RadarCache` | cached images, manifest, pruning, context file, and requests for them | state machine |
| `Configuration` | what a configuration file may say and what is refused | operators used by `Reading` |
| `Semantics`, `Presentation` | the claims and the pages of one world | operators used by `Reading` |
| `Reading` | requests to the surface against batches, failures and restarts | state machine |
| `Requalification` | the breadth-first plan of `EvidenceDependencyIndex` | state machine |
| `MC…` | | instances for TLC |
| `RuntimeProofs`, `DurableLeaseProofs`, `WorldProofs`, `WeatherProofs`, `TrafficProofs`, `RadarCacheProofs`, `ReadingProofs`, `RequalificationProofs` | | theorems and lemmas about the module of the name |

### Runtime

The main thread is a program counter `pc`; each action is one critical section
of the code or the code between two of them, since the stop event, the liveness
tracker, the failure record and the world each have a lock. `at` is the worker
that a loop over workers has come to, `scan` the same for a supervision pass.

* `Boot` is `__init__` and the silent hydration: every claim on disk is back as
  *persisted*. `Reenter` is `prepare_reentry` of one worker, which withdraws the
  sources of it that are enabled; a disabled worker has no object and withdraws
  nothing, and a disabled source of an enabled worker keeps what it had.
* A supervision pass (`_raise_if_worker_failed`) is `PollRead`, `PollJudge` per
  worker and `PollEnd`; `cont` says where it was called from. Between the two
  halves of `supervision_status` anything may happen, as in the code.
* `Qualify`, `CollectBegin`, `CollectEnd`, `CollectRaises`, `SnapshotIfDue`,
  `Capture`, `Replace`, `SnapshotFails`, `OpenSurface`, `OpenFails` and
  `LoopTurn` are the body of the `try`; `StopWorker`, `JoinWorker`,
  `JoinTimesOut`, `CloseSurface`, `Decide` and `Leave` the `finally` and `run`.
  Every call that may raise has its raising action.
* A worker's thread is `thread[w]`, from `spawned` through `loop`, `collect` and
  `ingest` to `dead`; an exception goes through `raised`, `record` and `wake`
  (mark the failure, record it, set the stop event), a `BaseException` to
  `vanished`.
* Data: what the world holds of each source of a worker (what the worker derives
  is one of them), and of the local collectors, is one *claim*: none, persisted, torn (a value stored without the state that
  qualifies it) or earned by this process. A snapshot is the set of holders with
  a claim. The clock of `_snapshot_if_due` is a choice.
* `RequestStop` is the signal handler; `Crash` is possible at every step of a
  process, and a new `Boot` may follow with any configuration.

Left out: the reason texts, a `Thread.start()` that fails, and the threads of
the HTTP server. What the claims stand for is the subject of the other modules.

### DurableLease and Embodiment

A process is given a directory entry, resolves it once (`Start`), takes the lock
beside the resolved entry or is refused, writes the owner record, hydrates,
observes, and writes the snapshot as a temporary file and a rename. `Crash` is
possible everywhere; the kernel takes the lock back and leaves every file as it
is. `link` is where an entry points: `resolve` and reading follow it, a rename
replaces it. `Embodiment` knows only owners and worlds: an owner may write,
nobody else, and a write contains what was there. `Embodied` is the refinement
mapping (`owner` is `flock`, `world` is `file`).

Left out: the pid and time in the record, the content of observations, and a
rename that a power loss undoes (the code does not sync the snapshot).

### World, Health, Materiality and LocalAdapters

`World` has everything that happens inside one update. `thread[t].todo` is what
is left of the batch that a thread ingests: an item for each observation, the
`ObservationState`, the cycle event. `Observe` is `_observe` up to the store: the
previous component is read and the change is weighed *without* the lock that
`Store` takes later. Under the lock the event is published: `Ignore` is the
journal's filter, `TakePen` and `Record` its own lock and the append, `RecordFails`
an append that raises and leaves both locks and the thread. `Derive` is the
health system as a handler of the cycle event; its component goes through the
same store. `Pass` is an observation without a value. `Capture` and `Replace`
are the two halves of a snapshot, `Leave` the final one, which is written only
if no thread has failed, and `Boot` after a crash restores what the disk has
while the journal goes on.

`process` says what kind of process runs: the runtime, or the one-shot diagnostic,
which attaches no journal (every update ends in `Ignore`), collects each local
entity once (`left`) and replaces the snapshot at its end (`Finish`). It also has
the thresholds, which each process loads from a file that may have changed since.
`judged` is history: the entities whose health this process has evaluated.

A component is a record of its kind and of what the rules tell apart: `meaning`
for the fields that are compared, `rest` for those that are not, numbers where
there are bands. `lag` is a history variable: the restored components that
differed from the journal at the boot and have not been recorded since.

### Weather, Traffic and their adapters

An adapter is an operator from answers to observations: which rows are passed
over, which make the whole payload fail, what is partial and what is retained.
The workers ask one source after another in one thread. A pass is `ask`,
`store`, `qualify` and, in weather after some of the collectors and in traffic
after each of them, `fuse` or `derive`; every one of them is a step of its own
beside which time passes and the process may leave or crash. `Weather` has a
clock: reports age, points expire, a slow provider takes time, and surface values
are retained only if this process has earned it (`fresh`). `Traffic` has no
clock but which sources are due. `heard` and `silent` are history: who has
answered this process, and of whom a request failed.

### RadarCache

The files are sets of contents, because every write is a temporary file and a
rename; each step writes or removes one file. A page that was loaded earlier
holds the addresses it was given and requests them later. Capacities change at a
restart. The context is collected only along with the radar, but has a flag of its
own: what a process does not collect keeps its files and its state as they are,
and re-entry does not withdraw it.

### Configuration, Semantics, Presentation and Reading

`Configuration` says what a file may contain (`Accepts`) and what it means
(`Loaded`), section by section. `Semantics` has one operator for each kind of
component: the set of claims, each with subject, predicate, value, id, authority
state and `current` (`current_authority`), which are two fields in the code and do
not always say the same. `Presentation` has the three pages. `Reading` puts them into a
process: every process reads a configuration of its own (`Configure`), so that a
source of one may be disabled in the next, whose `Start` withdraws only what is
enabled then (`Withdrawn`); `Collected` are the entities that it asks for. `Collect`
stores a batch and `Qualify` qualifies it, a worker may `Raise` or the process `Die`
in between, after which the entity is `torn` until a process asks for it again; `Get` asks the gate of the server and `Respond` reads the
world later, `HeadOf` asks the gate only. `Start` is re-entry in one step, whose
order `Runtime` has; `World` has what happens inside the two halves of a batch.
`good` is history: the outcome of the last batch that this process completed for
each entity.

### Requalification

The plan for a set of changed references, one step of the search at a time, over
graphs that may have cycles, shortcuts and several relations between two
references.

### How they fit together

The modules share operators, not variables. `Runtime` takes a collection as one
thread's `ingest` and knows a claim as torn or earned; `World` shows what is inside
the ingestion; `Weather`, `Traffic` and `RadarCache` show which batches there
are; `Reading` composes the batches with the surface, the failures and the
configuration. Each relies on what the one outside it proves: that a process
seals its snapshot only when its threads have ended is `Decide` in `Runtime` and
the guard of `Leave` in `World`.

## 3. Runs

| run | states | what it shows |
| --- | --- | --- |
| `runtime` | 9.3 million | the sealed snapshot is the world as it stays (`SealedSnapshotIsCurrent`) and whole (`SealedWorldIsWhole`); of the sources that are enabled now, and of the local collectors unless a stop is pending, the surface shows no claim of an earlier process (`ServedClaimsAreRequalified`); the recorded failure is real (`BlameIsDeserved`); failed and stopped are final (`LifecycleIsFinal`) |
| `runtime_liveness` | 20 thousand | a stop request ends the process (`StopIsHonoured`), a worker failure ends it without success (`FailureIsFatal`) |
| `durable_lease` | 0.9 million | the lock file names the holder (`HolderIsOnRecord`), what is renamed is the process's own and complete (`PendingWriteIsOwn`), and it is an `Embodiment` (`EmbodimentSpec`) |
| `world` | 4.2 million | a reader outside an update finds nothing that the journal does not have (`ReadableIsRecorded`); between batches the health of an entity is the one its components give, also after a restart from an arbitrary snapshot, under the thresholds of this process or, until it has evaluated the entity, of an earlier one (`HealthFollowsTelemetry`); after an orderly end nothing more is restored that the journal does not have (`OrderlyStopAddsNoLag`) |
| `weather` | 2.5 million | a current estimate says nothing this process was not told (`EstimateRestsOnThisProcess`) and is the one the sources give (`EstimateFollowsSources`); retention prolongs nothing (`SurfaceIsYoung`); a due source gets its turn within a round (`NobodyStarves`) |
| `traffic` | 52 thousand | the situation is the one the sources give (`SituationFollowsSources`); current means that everybody answered this process (`CurrentMeansAllAnswered`); it has no event of an earlier process (`EventsAreOfThisProcess`); closures count once (`ClosuresCountOnce`); a due source is collected (`DueIsCollected`) |
| `radar_cache` | 6.0 million | the manifest names only files that are there (`ManifestIsSound`); what a usable state or an already loaded page refers to is served (`UsableMosaicIsServed`, `GraceGenerationIsKept`, `UsableContextIsServed`); the frames are bounded (`FilesAreBounded`) |
| `reading` | 246 thousand | the gate is final (`GateHolds`); an id names one claim (`AnIdNamesOneClaim`); current authority of what this process asks for is earned by it, except that of the estimate (`CurrentIsEarned`); the pages and the claims agree on events, sources, alerts, the radar image and a nominal summary, and not on the estimate (`ViewsAgree`); an accepted configuration is one the workers can live with (`ConfigurationSuits`); a plan has every dependent with every premise that leads to it (`PlanIsComplete`) |
| `failed_worker_exits_nonzero` | violation | `docs/RUNTIME_AUTHORITY.md:37` |
| `remote_withdrawn_before_serving` | violation | comment `runtime.py:193-194` |
| `estimate_withdrawn` | violation | `docs/CODEX_OMEGA_CONFORMANCE.md:50` |
| `lease_symlink` | violation | comment `runtime_authority.py:143-144` |

**Bounds.**

* `runtime`: the two workers of the code and the configurations a file can
  tell apart (none enabled and no surface; world awareness with one of its two
  sources disabled; everything); the first worker has the estimate and one source
  more, the second its situation. Nothing else is bounded. `runtime_liveness` has one worker, always enabled,
  with a surface: its properties concern the main thread and one worker at a
  time, and with two workers the same check passes but takes several minutes.
* `durable_lease`: three processes (a holder, a competitor, one that starts while
  a refusal is under way), two entries so that processes with different snapshots
  are told apart, two observations so that one write can drop what another added.
* `world`: one local entity, of the main thread, and one remote entity, of a
  worker whose provider does not answer. The local entity is in some behaviours the
  radio, with a weak link or one without a signal beside a device that is gone, in
  the others the host, whose temperature is in two bands. Two files of
  thresholds place the link and the temperature in different bands. Crashes, stops
  and processes of both kinds are not limited.
* `weather`: a clock of four, two processes, every interval 1, two slow
  providers; reports from the future, too old, without a temperature.
  `MaxAge` is 1, so that a value ages, is retained and expires within the clock.
* `traffic`: two processes and three configurations, one for each relation
  between sources (two that report one first source, two with several requests,
  two of the city); per source one or two answers that hold the odd rows.
* `radar_cache`: three images and loops of one or two, so that an image is
  pruned and comes back; five retrievals, two processes, each with radar and
  context, radar alone or neither. Images and contexts
  are symmetric: no definition names one.
* `reading`: all eighteen entities, with one or two batches each; a behaviour
  collects for those of one of six sets (`Focuses`), up to moment 3 (`Horizon`),
  so that a batch can be completed, followed and half-written across a restart;
  one worker fails per process; one client. Each process is started with one of
  three files (`Started`): everything, some sources without others, no awareness.
  That a source stays half-written in the next process and would break
  `AnIdNamesOneClaim` if it were not left out takes one moment more (it was tried
  with one focus); the theorem has no such bound. `estimate_withdrawn` has the
  focus on the weather alone. `ConfigurationSuits` is about every
  file in `MCRaws`, a process is started with few of them. The same run has the
  behaviours of `Requalification`, over four references.

Deadlock is not checked in `weather`, `traffic`, `radar_cache` and `reading`: there the
clock, the number of processes or the number of questions is at its bound.

**Fairness.** `FairSpec` of `Runtime` assumes weak fairness of the main thread's
steps together. Each of its waits is bounded in the code: the loop waits at most
a collection interval (`runtime.py:231-239`), a join has a timeout
(`world_awareness.py:232-240`), a local collector reads local files and bounded
subprocesses. Nothing is assumed of the workers, so the properties hold although
a worker may hang in a provider call, and nothing of whoever starts processes.
`Spec` of `Traffic` assumes weak fairness of the collecting thread as a whole:
every request of an adapter has a timeout, and nothing else in a pass waits. It
is not assumed that a particular source is asked; that it is follows from the
order of a pass. `Weather` states the same as a bound in time, without fairness.

**What the violations show.** A worker that fails while it is being joined is
recorded, and the snapshot is skipped for it, but nothing is raised: the process
exits zero, so `Restart=on-failure` does not act. What the configuration no longer
enables, a worker or one source of a worker, is withdrawn by nobody. The claims of
the weather estimate are current whatever its `ObservationState` says, also when
this process has withdrawn it and the providers do not answer; the page of the same
world says `current_now` is false (`presentation/projection.py:294`). A snapshot
path that is a symbolic link is locked beside its target, and the first write
replaces the link: the next process resolves to another lock. In each case the property that the code does keep is a property of
a passing run: `FailureIsFatal` for failures before the last supervision pass,
`ServedClaimsAreRequalified` for sources that are enabled, `CurrentIsEarned` for the
claims that follow the `ObservationState`, `EmbodimentSpec` without links.

**What else was met while modelling.** The models have these as the code does. Only
the second is at odds with something the repository states; it has no run of its
own, because a passing property excepts exactly this case:

* A reason of health holds the number it shows, so inside the warning band every
  new percentage is another health state and is journalled (`health.py:46`),
  although the samples it comes from are not (`materiality.py:40-43`).
* A stop during start-up skips the local qualification but not the opening of the
  surface (`runtime.py:217-228`), which then shows what an earlier process has
  persisted for the duration of both joins, although the comment above it says that
  the cycle is promoted "rather than exposing those persisted claims first";
  `ServedClaimsAreRequalified` excepts it.
* A source that is disabled after it was collected is withdrawn by nobody: it is
  shown with the authority it was persisted with (`CurrentIsEarned` says that its
  check is then from before this process), still feeds the estimate
  (`world_awareness.py:247`), and its cameras, signs and flow still count in the
  situation (`traffic_awareness.py:433`). Hence the words "enabled" and "compared with" in the properties of both runs.
* Between the values of a batch and its `ObservationState` a reader combines new
  values with the authority of the old ones; `store.py:77-80` promises that one
  reading is coherent, which it is, but not that a batch is. A partial and empty
  answer about events, half-written under an old current state, reads as the
  claim that nothing is near. If the process dies there and the next one does not
  ask for the source, this stays so. `AnIdNamesOneClaim` and `CurrentIsEarned`
  except such entities, by name, so that nothing is promised to that reader.
* What the diagnostic collects is on no journal, and the next runtime restores it;
  and a level that was a sample under the old thresholds may be in another band
  under the new ones without a record. `ReadableIsRecorded` and
  `OrderlyStopAddsNoLag` except the two, by name. Until the first local cycle the
  health is the one that the old thresholds gave, as `runtime.py:212-216` says.
* A context that is disabled beside an enabled radar is not withdrawn
  (`world_awareness.py:154`): after a crash between its file and the next snapshot
  it is shown as usable with a digest that is no longer served.
* One row that raises loses the payload for cameras, signs, WZDx and closures;
  the others pass over it. A closure of the city without a usable coordinate is
  dropped silently (`charlotte_closures.py:163-166`), as are incidents without an
  id, category or geometry (`tomtom_traffic.py:175-191`).
* `HEAD` of the semantic page answers 200 to a query that `GET` refuses; an
  exception of type `ValueError` inside the projection is answered as the
  client's error.
* The systems page takes the worst of its entities in an order in which unknown
  comes below nominal: one that is unknown beside one that is nominal shows
  nominal, and only the field for the observations tells (`ViewsAgree` says so).
* The manifest does not say for which area its frames are, so a changed area
  shows frames of the old one until they are pruned.

Every property of a passing run has in `PROJECT.json` a slip, an operator marked
`Slip:` in the module, that stands for a plausible bug of the code and makes TLC
find the property violated.

## 4. Proofs

Every safety property of the passing runs is also a theorem for all values of the
constants. Each module states what it assumes of its constants, and TLC evaluates
the assumptions on the instances.

**Runtime**, for every number of workers and of sources and every set of
configurations (`NWorkersAssumption`, `SourcesAssumption`, `ConfigsAssumption`):

* `TypeCorrect`, which needs `Positions`: a pass judges an enabled worker, a join
  is of an enabled worker, the shutdown loop begins at the last one.
* `Invariance`: `IInv` is inductive. None of the properties is: that the
  snapshot on disk is the world, for instance, holds because no worker is alive
  when it is written (`Sealing`), which holds because `Decide` comes after every
  join (`Joined`) and a join that timed out is remembered in `incomplete`. That a
  sealed world is whole adds that whoever marks a worker failed records it
  (`FailuresKnown`) and that a torn claim has an owner or a failure behind it
  (`TornExplained`). That failed and stopped are final rests on what a lifecycle
  says of its thread (`Lifecycles`), on the order in which stop flags are set
  (`StopFlags`) and on a worker being started once (`Starting`). Each part has a
  lemma, with a step per group of actions.
* `SealIsCurrent`, `SealIsWhole`, `ServesRequalified`, `BlamesTheFailed` and
  `FinalStates` follow from it: every safety property of the run `runtime`.

**DurableLease**, for every number of processes, entries and observations
(`LinkAssumption`:
resolving a link once is enough; `NoProcAssumption`):

* `LocksHold`, `TypeCorrect`, `OwnerIsOnRecord`, whatever the links;
* `DataHold`, `WritesAreOwn` and the refinement `ImplementsEmbodiment`, under
  `NoLinks`: every step is an `Acquire`, a `Commit`, a `Vacate` or a stutter. The
  hypothesis is needed: `lease_symlink` is the counterexample without it.

**World**, for every set of threads and entities, all kinds of component, all
batches, and processes of both kinds with any thresholds (`ThreadAssumption`, `EntityAssumption`: each entity has one owner;
`BatchesAssumption`: batches are sequences, the topology is the main thread's):

* `ReadersFindWhatIsRecorded`: `Spec => []ReadableIsRecorded`. The property speaks
  of moments at which the lock is free, and a change is weighed before it is
  taken. `WorldInv` therefore has, for each thread, that it works only for
  entities it owns (`Worklist`), that a change it has weighed as a sample still
  has the durable meaning of what is stored (`Weighed`), that it is in an update
  exactly while it holds the lock, and for each component that it is settled, or
  its owner has failed, or it is the one that the holder of the lock is about to
  record (`Known`). `StepOf` and `PrivateStep` say once that a thread's step
  leaves to the others what is theirs.
  A process without a journal has no workers (`Alone`), so that what it leaves
  unrecorded is of local entities.
* `OrderlyStopIsComplete`: `Spec => OrderlyStopAddsNoLag`, with `Sealed`, which
  says of the disk after an orderly end what the first theorem says of the world:
  under the thresholds of the process that has ended. Under others only the bands
  differ.

* `HealthIsDerivedLast`: `Spec => []HealthFollowsTelemetry`, under `CyclesAssumption`
  (only the main thread publishes cycles, for entities that have a health, and the
  topology has nothing that bears on it; all of this is so in `bootstrap.py` and
  `runtime.py`). `HealthInv` says that the main thread is reconciling the topology
  with all health right, or ingesting for one entity with the cycle event still
  to come, or storing the health it has derived; snapshots, which it takes
  itself, fall into the first. Right is the health under some thresholds, those of
  this process for what it has judged (`Bases`). It rests on `WorldInv` and on `AlikeHealth`: health
  depends on no health and no node.
* `TypeCorrect`: with the types goes the protocol of the two locks. The pen of the
  journal is only ever with the thread that holds the lock of the world, which is
  the reason why a publishing thread cannot wait for another one's append.

**Weather**, for every set of configurations, whatever the intervals, the patience
with each provider and the answers (`ClockAssumption`, `ConfigAssumption`;
`AnswersAssumption`: what is parsed has the type that the code declares for it):

* `WeatherIsCoherent`: the invariant has three layers. `Shape` has the types.
  `InTime` says how late an enabled source can be at each place of a pass: by
  what came after it in this pass if the pass has left it behind, otherwise by
  that and the rest of the last pass. Two consecutive turns of a source are a
  round apart only because the sum is taken along the whole pass. `Grounds` says
  what may be used of a source was heard by this process (`Heard`), that the
  estimate on its way into the store is the one the sources give at this moment
  (`EstimateIsCarried`), and how old the surface values can be, by due time
  rather than by clock (`SurfaceIsDated`): a retained report is used until its
  source is due again, and then it is collected or expires.
* `EstimatesRest`, `EstimatesFollow`, `NobodyWaitsLonger`, `SurfaceStaysYoung` and
  `TypeCorrect` follow.

**Traffic**, for every set of configurations and all answers of the eight sources
(`ConfigAssumption`, `BootsAssumption`; `AnswersAssumption`: a payload is a finite
list):

* `TrafficIsCoherent`: a batch on its way into the store is one of its source, and
  says whether a request of that source failed (`Answered`); what may be used of an
  enabled source was heard by this process, and if it is current the source is not
  among the silent, but for one that is just being ingested (`HeardSources`); the
  records of a usable situation are of sources that were heard (`HeardSituation`);
  and between two collections it is the one the sources give (`Follows`).
* `SituationIsThatOfSources`, `CurrentIsComplete`, `EventsAreNotInherited` and
  `TypeCorrect` follow from it. `ClosuresAreCountedOnce` rests on the lemmas about
  `Kernel`: two events are of one kernel exactly if they have one lineage, so the
  kernels with a closure are as many as the lineages with one.

**RadarCache**, for every set of images, overlays, legends and contexts, all
capacities and any number of processes (`CapacityAssumption`, `BoundsAssumption`,
`NoneAssumption`):

* `CacheIsCoherent`: a file may go when nobody refers to it any more, and three do:
  the manifest, the state of the world, and a page that was loaded before it.
  `RadarInv` relates them through what the worker has in hand: until its own frame
  is published the state of the world has the loop that the worker found in the
  manifest (`Published`), after it the one it wrote, and what pruning keeps is both
  (`LoopRecorded`, `PrunedWell`). Nothing is unlinked while a page that was loaded
  from the older state may still ask for it (`Promised`).
* `ManifestNamesWhatIsThere`, `MosaicIsServed`, `GraceIsGiven`, `ContextIsServed`,
  `CacheIsBounded` and `TypeCorrect` follow from it; the bound needs that the two
  loops have one frame that is not in both (`Kept` has at most `capacity + 1`).

**Reading**, for every world, every set of batches and whatever configuration each
process has (`NoneAssumption`, `RecordsAssumption`: what stands for nothing is no record;
`BoundsAssumption`, `KindsAssumption`; `BatchesAssumption`: adapters report neither
of the components that the program adds itself, and count the events they report;
`RawsAssumption`: numbers and truth values are where a file has them or the reader
refuses it; `EntitiesAssumption`: which component the entities have that the pages
look at, and that those of the machine's own measurements are no remote entity's;
`ReportsAssumption`: no quantity is named like the availability of an
observation, records have a description, and a complete local observation has
something that bears on health; `ClaimsAssumption`: no quantity that a table of a
component names has a name the projection gives to what it says itself, and whether
the radio is connected is a part of what its state means). One theorem,
`AnIdIsOneClaim`, also uses `FeedsAssumption`: two events, alerts or cameras of one
collection that have the same identity have the same description. The program relies
on the providers for that; of its feeds only TomTom's incidents are made unique.

* `GateIsFinal`: `ReadSpec => GateHolds`. A client that was told knows of a failure
  (`told` implies `failed # {}`), and no worker leaves `failed` within a process.
* `AuthorityIsEarned`: `ReadSpec => []CurrentIsEarned`. It needs what the claims of
  each kind of component say of their authority, which are the lemmas on `Semantics`,
  and `EarnedInv`: of an entity that this process asks for and that is not half-written
  the `ObservationState` is the one of the last batch this process completed, or is
  unavailable (`Trusted`); of a local one the health is the one that its components
  have under the thresholds of this process (`Judged`), because `Start` collects it;
  and of any other the last check is from before this process (`Left`). No entity
  that is asked for stays torn, because re-entry or the first cycle qualifies it.
* `ViewsAreOne`: `ReadSpec => []ViewsAgree`, if a health record is not `None`
  (`HealthIsSomething`). Pages and claims are functions of one world, and most of the
  proof is about them; of the estimate, on which they differ, nothing is said.
  `OneKind` has what makes the claims of an entity, the `Spares` lemmas which claims do not have a predicate, and the `...Say` lemmas
  what those that have it say. Of the state it needs `EarnedInv` and `ViewInv`: a
  local entity that is current has a health other than unknown. Values and health
  are written in two steps, so that a batch between them carries the promise
  (`Bears`): if it will make its entity current it has already brought something
  that health is made of.
* `AnIdIsOneClaim`: `ReadSpec => []AnIdNamesOneClaim`, if an `ObservationState`
  is not `None` (`RecordsAreSomething`). The property, which is about entities that are
  not half-written, relates what is read now to every earlier answer, of this process and of those before it.
  - Most kinds of claim have their value among the parts of their identity. One
    function of predicate and identity (`RemoteValue`, `LocalValue`) gives it back,
    and a lemma for each maker of claims (`...Tells`, collected in `Tells`) says so.
    For these nothing has to be known of the state.
  - Reports of events, of alerts and of cameras do not: the identity has the time of
    the check in place of the description (`Dated`, `DatedOnce`). That time names one
    batch only if no check is repeated with other components, so `IdInv` says of each
    claim that was heard that it is spelled by its identity, or is older than the
    last check of its entity, or is of that check and would still be made from the
    components of now (`Holds`). It needs that nothing is known of an entity that was
    never checked (`Checked`), that the second part of a half-written batch is of a
    later check than what qualifies its entity (`Later`), and `EarnedInv`.
* `ConfigurationIsSuitable`: `ReadSpec => []ConfigurationSuits`. What has to be known
  of the state is only that the configuration is `Loaded` from a file that is
  accepted (`ConfigInv`); the rest is arithmetic about the least intervals that
  `Configuration` lets through, and about bands whose thresholds it has compared.
* `TypeCorrect`.

**Requalification**, for every set of relations and every set of questions
(`QuestionsAssumption`: references are finite):

* `RequalificationIsExact`: a plan that is returned names the dependents of what
  has changed and of what it names, and nothing else, each with all the premises
  of it that are affected (`PlanIsExact`). `SearchInv` is the invariant of the
  search: a reference that was met is in the queue or has been recorded as the
  premise of all its dependents (`Over`), and nothing is impacted without a premise
  that was met (`Founded`).
* `PlansAreComplete`: `PlanSpec => []PlanIsComplete`, if an exception is not a plan
  (`FailsIsNoPlan`), so that depths are shortest distances and everything that can
  be reached is there. `CompleteInv` adds to `SearchInv` that the queue is in the
  order of distance and has two distances at most (`QueueIsOrdered`), that what was
  met is where it belongs (`AtItsDistance`), and that nothing as near as the head
  is missing (`HeadIsNext`). That as many rounds as there are references suffice
  is a matter of cardinality: a round that adds nothing is the last that could.

**How.** Induction over numbers is done through the least counterexample
(`WFMin`), because the induction theorems of the library take an operator, which
none of the provers instantiates. The models have folds and recursive functions
where the code loops. `None` and `Fails` are untyped, so what is to be different
from them is an assumption, or for records with unbounded fields the hypothesis of
the theorem (`HealthIsSomething`, `RecordsAreSomething`, `FailsIsNoPlan`).

**Only model-checked**: the liveness properties `StopIsHonoured`, `FailureIsFatal`
and `DueIsCollected`, because the prover has no `ENABLED`, and the violations.

## 5. Not modelled, and plan

Not modelled:

* *Codec* (`core/world/codec.py`) and the data classes of `components.py` that the
  models do not need: encoding. Those of weather, traffic and radar are the sets of
  values of the type theorems, and the models hydrate what was written.
* *Pages, weather feed, console*: formatting; they hold no state and decide nothing
  for the program.
* *The rest of the reality graph* (`source.py`, `query.py`, `collection.py`,
  `economics.py`, `human.py`): data classes and single-pass filters that no
  part of the runtime calls.
* *`holons/systems/boundary.py`*: a description that nothing evaluates.
* *Assurance and install tooling*: runs at build or install time; the unit's
  `Restart=on-failure` is the `Boot` after a failed process in `Runtime`.
* *Engineering lineage*: donor code that the program does not import.
* *Unsynced disk* (`core/world/store.py:117`): what a power loss leaves of a rename
  is decided by the file system.
* *Journal appends of a process that has released its lease* (`runtime.py:289`):
  `World` has one process at a time.
* *A signal handler inside `Event.wait`* (`runtime.py:92`): depends on the
  interpreter.
* *Provider JSON of an unexpected type*: an adapter may raise, which `Runtime` has
  as a worker that fails; the adapters take it as `Fails` where the code does.
* *A reader of a half-written entity*: no property promises it anything (section 3).

What could be added next: a disk with unflushed writes for `DurableLease`.
