------------------------------ MODULE Runtime ------------------------------
(***************************************************************************)
(* The persistent runtime (runtime.py, PersistentRuntime): one main        *)
(* thread, the collection workers it starts and supervises (the guarded    *)
(* threads of world_awareness.py and traffic_awareness.py), the            *)
(* presentation surface, and the snapshot on disk that the next process    *)
(* hydrates.  Processes follow one another without bound: a process ends   *)
(* by an orderly exit or by a crash at any step.                           *)
(*                                                                         *)
(* Workers are numbered in the order the main thread starts them (1 is     *)
(* world-awareness, 2 is traffic-awareness); it stops them in the reverse  *)
(* order.  What the world holds is reduced to one claim per holder: each   *)
(* source of a worker, which a configuration may disable while the worker  *)
(* is enabled, and Local (0), the entities that the main thread collects   *)
(* itself.  What a worker derives from its sources is one more source of   *)
(* it, enabled whenever the worker is.                                     *)
(*                                                                         *)
(* A worker's stop flag, the runtime's stop event, a liveness lifecycle    *)
(* and the recorded failure are each guarded by a lock in the code; a      *)
(* step here is what one critical section, or the code between two of      *)
(* them, does.                                                             *)
(***************************************************************************)
EXTENDS Integers, WorkerLiveness

CONSTANTS
  NWorkers,   \* how many kinds of worker the runtime knows
  Source,     \* what the workers collect
  Collector,  \* the worker of each source
  Configs     \* the configurations a process may be started with

Worker == 1..NWorkers
Local  == 0
Holder == Source \union {Local}

\* The enabled workers, and those of their sources that are enabled.
Config ==
  {c \in [workers : SUBSET Worker, sources : SUBSET Source, presents : BOOLEAN] :
     \A s \in c.sources : Collector[s] \in c.workers}

ASSUME NWorkersAssumption == NWorkers \in Nat
ASSUME SourcesAssumption  == Local \notin Source /\ Collector \in [Source -> Worker]
ASSUME ConfigsAssumption  == Configs \subseteq Config /\ Configs # {}

VARIABLES
  config,        \* the configuration of the current, or of the last, process
  pc,            \* where the main thread is; "down" when no process runs
  at,            \* the worker that re-entry, start-up or shutdown has come to
  scan,          \* the worker that the supervision pass has come to
  seen,          \* the lifecycle the pass read before it looked at the thread
  cont,          \* where the main thread goes on when the pass finds nothing
  phase,         \* which collection, or the final snapshot, is under way
  raised,        \* an exception is leaving _run_owned
  stop,          \* stop_event
  failure,       \* _worker_failure: the first worker recorded, or NoFailure
  localFailure,  \* _local_collection_failure is set
  incomplete,    \* the workers that outlived their join budget
  surface,       \* the presentation server accepts requests
  thread,        \* what each worker's thread is doing
  lifecycle,     \* what each worker's WorkerLiveness says
  stopFlag,      \* each worker's _stop event
  claim,         \* what WorldState holds of each holder
  capture,       \* the claims in the snapshot that is being written
  disk,          \* the claims in the snapshot on disk
  sealed,        \* the last snapshot was this process's forced final one
  exit           \* how the last process ended

mainVars    == <<pc, at, scan, seen, cont, phase, raised>>
runtimeVars == <<stop, failure, localFailure, incomplete>>
workerVars  == <<thread, lifecycle, stopFlag>>
diskVars    == <<capture, disk, sealed>>
vars == <<config, mainVars, runtimeVars, surface, workerVars, claim, diskVars,
          exit>>

NoFailure == 0

\* "none": absent, or withdrawn to UNAVAILABLE.  "persisted": hydrated from
\* disk and neither withdrawn nor observed again by this process.  "torn": a
\* batch has stored a value and not yet the ObservationState that qualifies
\* it.  "earned": a batch of this process was ingested to its end.
Claim == {"none", "persisted", "torn", "earned"}

\* "none": not started.  "spawned": started, before mark_running.  "loop":
\* between two collectors.  "collect": in a provider call.  "ingest": in the
\* middle of a batch.  "raised": an Exception is leaving _run.  "record" and
\* "wake": in the failure callback, before it records and before it sets the
\* stop event.  "dead": returned.  "vanished": ended by a BaseException that
\* _run_guarded does not catch.
ThreadState == {"none", "spawned", "loop", "collect", "ingest", "raised",
                "record", "wake", "dead", "vanished"}

MainState == {"down", "reentry", "start", "poll", "judge", "collect",
              "collecting", "collected", "capture", "replace", "open", "loop",
              "shutdown", "join", "decide", "leave"}

IsAlive(w) == thread[w] \notin {"none", "dead", "vanished"}

\* What the next process reads back of the world as it is now.
Carried == {h \in Holder : claim[h] # "none"}

TypeOK ==
  /\ config \in Configs
  /\ pc \in MainState
  /\ at \in 0..(NWorkers + 1)
  /\ scan \in 1..(NWorkers + 1)
  /\ seen \in WorkerLifecycle
  /\ cont \in {"start", "collect", "collected", "loop", "shutdown"}
  /\ phase \in {"startup", "cycle", "final"}
  /\ raised \in BOOLEAN
  /\ stop \in BOOLEAN
  /\ failure \in Worker \union {NoFailure}
  /\ localFailure \in BOOLEAN
  /\ incomplete \subseteq Worker
  /\ surface \in BOOLEAN
  /\ thread \in [Worker -> ThreadState]
  /\ lifecycle \in [Worker -> WorkerLifecycle]
  /\ stopFlag \in [Worker -> BOOLEAN]
  /\ claim \in [Holder -> Claim]
  /\ capture \subseteq Holder
  /\ disk \subseteq Holder
  /\ sealed \in BOOLEAN
  /\ exit \in {"none", "clean", "error", "killed"}

-----------------------------------------------------------------------------
(* Process start: __init__ (lease, hydration, construction) and the part   *)
(* of _run_owned before re-entry.  A SIGTERM that comes before main() has  *)
(* installed its handlers is a Crash.                                      *)

\* Hydration is silent: everything the snapshot carries is in the world again.
Hydrated == [h \in Holder |-> IF h \in disk THEN "persisted" ELSE "none"]

\* The memory of a process that has done nothing yet.
Fresh ==
  /\ at' = 1 /\ scan' = 1 /\ seen' = "initialized" /\ cont' = "start"
  /\ phase' = "startup" /\ raised' = FALSE
  /\ stop' = FALSE /\ failure' = NoFailure
  /\ localFailure' = FALSE /\ incomplete' = {}
  /\ surface' = FALSE
  /\ thread' = [w \in Worker |-> "none"]
  /\ lifecycle' = [w \in Worker |-> "initialized"]
  /\ stopFlag' = [w \in Worker |-> FALSE]
  /\ capture' = {} /\ sealed' = FALSE

Boot ==
  /\ pc = "down"
  /\ config' \in Configs
  /\ pc' = "reentry" /\ exit' = "none"
  /\ Fresh
  /\ claim' = Hydrated
  /\ UNCHANGED disk

\* The sources that worker w collects in this process.
SourcesOf(w) == {s \in config.sources : Collector[s] = w}

Withdrawn(w) == [h \in Holder |-> IF h \in SourcesOf(w) THEN "none" ELSE claim[h]]

\* Slip: only the first worker withdraws what it left behind.
ReenterFirstOnly ==
  /\ pc = "reentry"
  /\ claim' = Withdrawn(1)
  /\ pc' = "start" /\ at' = 1
  /\ UNCHANGED <<config, scan, seen, cont, phase, raised, runtimeVars, surface,
                 workerVars, diskVars, exit>>

\* prepare_reentry of each enabled worker, which withdraws its enabled sources.
\* A disabled worker has no object, and nothing withdraws what it left in the
\* world, nor what a disabled source of an enabled worker left.
Reenter ==
  /\ pc = "reentry"
  /\ IF at \in Worker
       THEN /\ claim' = Withdrawn(at)
            /\ at' = at + 1
            /\ UNCHANGED pc
       ELSE /\ pc' = "start" /\ at' = 1
            /\ UNCHANGED claim
  /\ UNCHANGED <<config, scan, seen, cont, phase, raised, runtimeVars, surface,
                 workerVars, diskVars, exit>>

\* A journal append that fails here is outside the try: no shutdown follows.
ReenterFails ==
  /\ pc = "reentry"
  /\ pc' = "down" /\ exit' = "error" /\ raised' = TRUE
  /\ UNCHANGED <<config, at, scan, seen, cont, phase, runtimeVars, surface,
                 workerVars, claim, diskVars>>

-----------------------------------------------------------------------------
(* Start-up and supervision.                                               *)

\* Slip: the pass begins before the first worker.
SuperviseFromZero(k) == pc' = "poll" /\ scan' = 0 /\ cont' = k

\* Begin a supervision pass over every enabled worker; go on at k after it.
Supervise(k) == pc' = "poll" /\ scan' = 1 /\ cont' = k

StartWorker ==
  /\ pc = "start" /\ at \in Worker
  /\ at' = at + 1
  /\ IF at \in config.workers
       THEN /\ thread' = [thread EXCEPT ![at] = "spawned"]
            /\ lifecycle' = [lifecycle EXCEPT ![at] = MarkStarting(@)]
            /\ Supervise("start")
       ELSE UNCHANGED <<pc, scan, cont, thread, lifecycle>>
  /\ UNCHANGED <<config, seen, phase, raised, runtimeVars, surface, stopFlag,
                 claim, diskVars, exit>>

\* A stop that is already requested skips the local qualification, and only
\* the qualification: the surface is opened either way.
Qualify ==
  /\ pc = "start" /\ at \notin Worker
  /\ IF stop THEN pc' = "open" /\ UNCHANGED <<scan, cont>>
             ELSE Supervise("collect")
  /\ UNCHANGED <<config, at, seen, phase, raised, runtimeVars, surface,
                 workerVars, claim, diskVars, exit>>

\* supervision_status, first half: the lifecycle is read under the lock.
PollRead ==
  /\ pc = "poll" /\ scan \in Worker
  /\ IF scan \in config.workers
       THEN pc' = "judge" /\ seen' = lifecycle[scan] /\ UNCHANGED scan
       ELSE scan' = scan + 1 /\ UNCHANGED <<pc, seen>>
  /\ UNCHANGED <<config, at, cont, phase, raised, runtimeVars, surface,
                 workerVars, claim, diskVars, exit>>

\* Slip: a thread that was never started counts as one that died.
SilentDeathUnstarted(w, status) ==
  ~IsAlive(w) /\ status \notin {"failed", "stopped", "stopping"}

\* Slip: only a worker that marked itself failed is noticed.
SilentDeathUnnoticed(w, status) == FALSE

\* The thread has been started and is no longer alive, while the status read
\* earlier says it should be.
SilentDeath(w, status) ==
  /\ thread[w] \in {"dead", "vanished"}
  /\ status \notin {"failed", "stopped", "stopping"}

\* _record_worker_failure: the first failure is kept.
Recorded(w) == IF failure = NoFailure THEN w ELSE failure

\* supervision_status, second half, and what _raise_if_worker_failed does
\* with its answer: a failed status is recorded, which also sets stop_event.
PollJudge ==
  /\ pc = "judge"
  /\ pc' = "poll" /\ scan' = scan + 1 /\ seen' = "initialized"
  /\ IF SilentDeath(scan, seen)
       THEN lifecycle' = [lifecycle EXCEPT ![scan] = MarkFailed(@)]
       ELSE UNCHANGED lifecycle
  /\ IF SilentDeath(scan, seen) \/ seen = "failed"
       THEN failure' = Recorded(scan) /\ stop' = TRUE
       ELSE UNCHANGED <<failure, stop>>
  /\ UNCHANGED <<config, at, cont, phase, raised, localFailure, incomplete,
                 surface, thread, stopFlag, claim, diskVars, exit>>

\* An exception in the body of the try goes to the finally, which stops the
\* workers from the last one down.
Unwind == pc' = "shutdown" /\ at' = NWorkers

\* The end of the pass: raise WorkerAuthorityFailure, or go on.  Falling out
\* of the loop (cont = "shutdown") enters the same finally without raising.
PollEnd ==
  /\ pc = "poll" /\ scan \notin Worker
  /\ raised' = (failure # NoFailure)
  /\ IF failure # NoFailure \/ cont = "shutdown"
       THEN Unwind
       ELSE pc' = cont /\ UNCHANGED at
  /\ UNCHANGED <<config, scan, seen, cont, phase, runtimeVars, surface,
                 workerVars, claim, diskVars, exit>>

-----------------------------------------------------------------------------
(* Local collection, the periodic snapshot and the main loop.              *)

\* collect_once ingests one batch after another; between its first value and
\* its last ObservationState the local claims are torn.
CollectBegin ==
  /\ pc = "collect"
  /\ pc' = "collecting"
  /\ claim' = [claim EXCEPT ![Local] = "torn"]
  /\ UNCHANGED <<config, at, scan, seen, cont, phase, raised, runtimeVars,
                 surface, workerVars, diskVars, exit>>

CollectEnd ==
  /\ pc = "collecting"
  /\ claim' = [claim EXCEPT ![Local] = "earned"]
  /\ Supervise("collected")
  /\ UNCHANGED <<config, at, seen, phase, raised, runtimeVars, surface,
                 workerVars, diskVars, exit>>

CollectRaises ==
  /\ pc \in {"collect", "collecting"}
  /\ localFailure' = TRUE /\ stop' = TRUE /\ raised' = TRUE
  /\ Unwind
  /\ UNCHANGED <<config, scan, seen, cont, phase, failure, incomplete, surface,
                 workerVars, claim, diskVars, exit>>

AfterCollection == IF phase = "startup" THEN "open" ELSE "loop"

\* _snapshot_if_due compares clocks; here it is due or it is not.
SnapshotIfDue ==
  /\ pc = "collected"
  /\ \E due \in BOOLEAN : pc' = IF due THEN "capture" ELSE AfterCollection
  /\ UNCHANGED <<config, at, scan, seen, cont, phase, raised, runtimeVars,
                 surface, workerVars, claim, diskVars, exit>>

\* write_json serialises the world under its lock into a temporary file...
Capture ==
  /\ pc = "capture"
  /\ pc' = "replace"
  /\ capture' = Carried
  /\ UNCHANGED <<config, at, scan, seen, cont, phase, raised, runtimeVars,
                 surface, workerVars, claim, disk, sealed, exit>>

\* ... and renames that file over the snapshot.
Replace ==
  /\ pc = "replace"
  /\ disk' = capture /\ capture' = {}
  /\ sealed' = (phase = "final")
  /\ pc' = IF phase = "final" THEN "leave" ELSE AfterCollection
  /\ UNCHANGED <<config, at, scan, seen, cont, phase, raised, runtimeVars,
                 surface, workerVars, claim, exit>>

\* A snapshot that cannot be written is not a local collection failure: in
\* the loop it unwinds into the finally, in the finally it ends the process
\* without a RuntimeStopping event.
SnapshotFails ==
  /\ pc \in {"capture", "replace"}
  /\ raised' = TRUE /\ capture' = {}
  /\ IF phase = "final" THEN pc' = "leave" /\ UNCHANGED at ELSE Unwind
  /\ UNCHANGED <<config, scan, seen, cont, phase, runtimeVars, surface,
                 workerVars, claim, disk, sealed, exit>>

OpenSurface ==
  /\ pc = "open"
  /\ surface' = config.presents
  /\ Supervise("loop")
  /\ UNCHANGED <<config, at, seen, phase, raised, runtimeVars, workerVars,
                 claim, diskVars, exit>>

\* The port is taken.
OpenFails ==
  /\ pc = "open" /\ config.presents
  /\ raised' = TRUE
  /\ Unwind
  /\ UNCHANGED <<config, scan, seen, cont, phase, runtimeVars, surface,
                 workerVars, claim, diskVars, exit>>

\* One turn of the loop: the wait ends by its timeout or by stop_event, and
\* leads to the next cycle or, past the loop, to the last supervision pass.
LoopTurn ==
  /\ pc = "loop"
  /\ IF stop THEN Supervise("shutdown") /\ UNCHANGED phase
             ELSE Supervise("collect") /\ phase' = "cycle"
  /\ UNCHANGED <<config, at, seen, raised, runtimeVars, surface, workerVars,
                 claim, diskVars, exit>>

-----------------------------------------------------------------------------
(* The finally of _run_owned, and run.                                     *)

StopWorker ==
  /\ pc = "shutdown" /\ at \in Worker
  /\ IF at \in config.workers
       THEN /\ lifecycle' = [lifecycle EXCEPT ![at] = MarkStopping(@)]
            /\ stopFlag' = [stopFlag EXCEPT ![at] = TRUE]
            /\ IF thread[at] = "none" THEN at' = at - 1 /\ UNCHANGED pc
                                      ELSE pc' = "join" /\ UNCHANGED at
       ELSE at' = at - 1 /\ UNCHANGED <<pc, lifecycle, stopFlag>>
  /\ UNCHANGED <<config, scan, seen, cont, phase, raised, runtimeVars, surface,
                 thread, claim, diskVars, exit>>

JoinWorker ==
  /\ pc = "join" /\ ~IsAlive(at)
  /\ lifecycle' = [lifecycle EXCEPT ![at] = MarkStopped(@)]
  /\ pc' = "shutdown" /\ at' = at - 1
  /\ UNCHANGED <<config, scan, seen, cont, phase, raised, runtimeVars, surface,
                 thread, stopFlag, claim, diskVars, exit>>

\* Slip: the join has no budget.
JoinForEver == FALSE

JoinTimesOut ==
  /\ pc = "join" /\ IsAlive(at)
  /\ incomplete' = incomplete \union {at}
  /\ pc' = "shutdown" /\ at' = at - 1
  /\ UNCHANGED <<config, scan, seen, cont, phase, raised, stop, failure,
                 localFailure, surface, workerVars, claim, diskVars, exit>>

CloseSurface ==
  /\ pc = "shutdown" /\ at \notin Worker
  /\ surface' = FALSE
  /\ pc' = "decide"
  /\ UNCHANGED <<config, at, scan, seen, cont, phase, raised, runtimeVars,
                 workerVars, claim, diskVars, exit>>

\* Slip: a worker that outlived its join is forgotten.
MaySealWhileRunning == failure = NoFailure /\ ~localFailure

\* Slip: a local collection that broke off half-way is forgotten.
MaySealTorn == incomplete = {} /\ failure = NoFailure

\* Only a runtime that is known to be quiescent and intact may seal its world.
MaySeal == incomplete = {} /\ failure = NoFailure /\ ~localFailure

Decide ==
  /\ pc = "decide"
  /\ IF MaySeal THEN pc' = "capture" /\ phase' = "final"
                ELSE pc' = "leave" /\ UNCHANGED phase
  /\ UNCHANGED <<config, at, scan, seen, cont, raised, runtimeVars, surface,
                 workerVars, claim, diskVars, exit>>

\* RuntimeStopping (whose journal append may fail), the lease is released, the
\* interpreter exits and its daemon threads end wherever they are.
Leave ==
  /\ pc = "leave"
  /\ pc' = "down"
  /\ \E journalFails \in BOOLEAN :
        exit' = IF raised \/ journalFails THEN "error" ELSE "clean"
  /\ UNCHANGED <<config, at, scan, seen, cont, phase, raised, runtimeVars,
                 surface, workerVars, claim, diskVars>>

-----------------------------------------------------------------------------
(* A worker's thread: _run_guarded and the collectors it runs.             *)

Step(w, from, to) ==
  /\ pc # "down"
  /\ thread[w] = from
  /\ thread' = [thread EXCEPT ![w] = to]
  /\ UNCHANGED <<config, mainVars, localFailure, incomplete, surface, stopFlag,
                 diskVars, exit>>

WorkerRuns(w) ==
  /\ Step(w, "spawned", "loop")
  /\ lifecycle' = [lifecycle EXCEPT ![w] = MarkRunning(@)]
  /\ UNCHANGED <<stop, failure, claim>>

WorkerCollects(w) ==
  /\ ~stopFlag[w]
  /\ Step(w, "loop", "collect")
  /\ UNCHANGED <<stop, failure, lifecycle, claim>>

\* ingest_observation_batch stores the values first ...
WorkerStores(w) ==
  /\ Step(w, "collect", "ingest")
  /\ \E s \in SourcesOf(w) : claim' = [claim EXCEPT ![s] = "torn"]
  /\ UNCHANGED <<stop, failure, lifecycle>>

\* ... and the ObservationState last.
WorkerQualifies(w) ==
  /\ Step(w, "ingest", "loop")
  /\ \E s \in SourcesOf(w) :
       claim[s] = "torn" /\ claim' = [claim EXCEPT ![s] = "earned"]
  /\ UNCHANGED <<stop, failure, lifecycle>>

WorkerRaises(w) ==
  /\ \E from \in {"collect", "ingest"} : Step(w, from, "raised")
  /\ UNCHANGED <<stop, failure, lifecycle, claim>>

WorkerFails(w) ==
  /\ Step(w, "raised", "record")
  /\ lifecycle' = [lifecycle EXCEPT ![w] = MarkFailed(@)]
  /\ UNCHANGED <<stop, failure, claim>>

WorkerRecords(w) ==
  /\ Step(w, "record", "wake")
  /\ failure' = Recorded(w)
  /\ UNCHANGED <<stop, lifecycle, claim>>

WorkerWakes(w) ==
  /\ Step(w, "wake", "dead")
  /\ stop' = TRUE
  /\ UNCHANGED <<failure, lifecycle, claim>>

\* The loop is left only when the stop flag is set, and nothing clears the
\* flag: the "returned without a stop request" branch cannot be reached.
WorkerReturns(w) ==
  /\ stopFlag[w]
  /\ Step(w, "loop", "dead")
  /\ lifecycle' = [lifecycle EXCEPT ![w] = MarkStopped(@)]
  /\ UNCHANGED <<stop, failure, claim>>

\* A BaseException that is not an Exception ends the thread unnoticed.
WorkerVanishes(w) ==
  /\ \E from \in {"loop", "collect", "ingest"} : Step(w, from, "vanished")
  /\ UNCHANGED <<stop, failure, lifecycle, claim>>

-----------------------------------------------------------------------------
(* The environment: signals and crashes.                                   *)

\* The SIGINT/SIGTERM handler, which runs between two steps of the main thread.
RequestStop ==
  /\ pc # "down"
  /\ stop' = TRUE
  /\ UNCHANGED <<config, mainVars, failure, localFailure, incomplete, surface,
                 workerVars, claim, diskVars, exit>>

\* SIGKILL, power loss: whatever was in memory is gone.
Crash ==
  /\ pc # "down"
  /\ pc' = "down" /\ exit' = "killed"
  /\ Fresh
  /\ claim' = [h \in Holder |-> "none"]
  /\ UNCHANGED <<config, disk>>

-----------------------------------------------------------------------------
Init ==
  /\ config \in Configs
  /\ pc = "down" /\ at = 1 /\ scan = 1
  /\ seen = "initialized" /\ cont = "start" /\ phase = "startup"
  /\ raised = FALSE
  /\ stop = FALSE /\ failure = NoFailure
  /\ localFailure = FALSE /\ incomplete = {}
  /\ surface = FALSE
  /\ thread = [w \in Worker |-> "none"]
  /\ lifecycle = [w \in Worker |-> "initialized"]
  /\ stopFlag = [w \in Worker |-> FALSE]
  /\ claim = [h \in Holder |-> "none"]
  /\ capture = {} /\ disk = {} /\ sealed = FALSE
  /\ exit = "none"

StartUp == Reenter \/ ReenterFails \/ StartWorker \/ Qualify
Poll == PollRead \/ PollJudge \/ PollEnd
Collection ==
  \/ CollectBegin \/ CollectEnd \/ CollectRaises
  \/ SnapshotIfDue \/ Capture \/ Replace \/ SnapshotFails
Serving == OpenSurface \/ OpenFails \/ LoopTurn
Shutdown ==
  StopWorker \/ JoinWorker \/ JoinTimesOut \/ CloseSurface \/ Decide \/ Leave

MainStep == StartUp \/ Poll \/ Collection \/ Serving \/ Shutdown

WorkerStep(w) ==
  \/ WorkerRuns(w) \/ WorkerCollects(w) \/ WorkerStores(w)
  \/ WorkerQualifies(w) \/ WorkerRaises(w) \/ WorkerFails(w)
  \/ WorkerRecords(w) \/ WorkerWakes(w) \/ WorkerReturns(w)
  \/ WorkerVanishes(w)

Next ==
  \/ Boot \/ MainStep \/ (\E w \in Worker : WorkerStep(w))
  \/ RequestStop \/ Crash

Spec == Init /\ [][Next]_vars

\* The operating system schedules the main thread, every wait of which is
\* bounded: the loop's by the collection interval, a join by its timeout, a
\* local collector by its own.  Nothing is assumed of a worker, which may stay
\* in a provider call for ever, nor of whoever starts the process.
FairSpec == Spec /\ WF_vars(MainStep)

-----------------------------------------------------------------------------
(* Safety.                                                                 *)

\* Once the forced final snapshot is on disk, it is the world as it stays to
\* the end of the process: no worker thread is left that could still change
\* it.  (The comments in the finally of _run_owned, runtime.py:267-281.)
SealedSnapshotIsCurrent ==
  sealed => /\ disk = Carried
            /\ \A w \in Worker : pc # "down" => ~IsAlive(w)

\* A sealed world is whole: no enabled worker has failed and no batch was left
\* half ingested, the local one included.  The one exception is a thread that
\* died of a BaseException after the last supervision pass.
SealedWorldIsWhole ==
  sealed => /\ \A w \in Worker : lifecycle[w] # "failed"
            /\ \A s \in Source :
                 claim[s] = "torn" => thread[Collector[s]] = "vanished"
            /\ claim[Local] # "torn"

\* What the surface shows of a source that this process collects is never a
\* claim of an earlier one: it has been withdrawn or earned again, and the local
\* claims have been qualified again unless the process was already told to stop.
\* What is disabled now keeps the claim it was persisted with (prepare_reentry).
ServedClaimsAreRequalified ==
  surface => /\ \A s \in config.sources : claim[s] # "persisted"
             /\ claim[Local] = "persisted" => stop

\* The runtime never blames a worker that did not break: the recorded one is
\* in the failed state for good and its thread is ending or has ended.
BlameIsDeserved ==
  failure # NoFailure =>
    /\ lifecycle[failure] = "failed"
    /\ thread[failure] \in {"record", "wake", "dead", "vanished"}

\* "failed" and "stopped" are final within a process: neither a late stop, a
\* join nor a supervision pass working on an old reading may undo them.
LifecycleIsFinal ==
  [][pc # "down" /\ exit' # "killed" =>
       \A w \in Worker : lifecycle[w] \in {"failed", "stopped"} =>
                           lifecycle'[w] = lifecycle[w]]_vars

-----------------------------------------------------------------------------
(* Liveness, under FairSpec.                                               *)

\* A stop request ends the process however the workers behave.
StopIsHonoured == (stop /\ pc # "down") ~> (pc = "down")

\* The last supervision pass has not begun.
StillSupervising ==
  /\ pc \notin {"down", "shutdown", "join", "decide", "leave"}
  /\ phase # "final"
  /\ ~(pc \in {"poll", "judge"} /\ cont = "shutdown")

\* A worker that fails, or vanishes, before the last pass makes the process
\* end, and not with success.
FailureIsFatal ==
  \A w \in Worker :
    (StillSupervising /\ (lifecycle[w] = "failed" \/ thread[w] = "vanished"))
      ~> (pc = "down" /\ exit # "clean")

-----------------------------------------------------------------------------
(* What the documentation and the comments say, and the code does not do.  *)

\* docs/RUNTIME_AUTHORITY.md:37: an enabled worker entering failed makes the
\* process exit nonzero.  Stated for a process that joined all its workers, so
\* that the failure was recorded before RuntimeStopping was published.
FailedWorkerExitsNonzero ==
  pc = "down" /\ exit = "clean" /\ incomplete = {} => failure = NoFailure

\* runtime.py:193-194: presentation never exposes persisted remote authority
\* before a fresh observation has been attempted.
RemoteWithdrawnBeforeServing ==
  surface => \A s \in Source : claim[s] # "persisted"
=============================================================================
