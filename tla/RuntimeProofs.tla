--------------------------- MODULE RuntimeProofs ---------------------------
(***************************************************************************)
(* Proofs about Runtime, for any number of workers and any set of          *)
(* configurations.  None of its safety properties is inductive: each rests *)
(* on where the main thread is and on what the threads may still do.  IInv *)
(* collects what they rest on, one named part per argument; the parts lean *)
(* on each other, so they are proved together.                             *)
(***************************************************************************)
EXTENDS Runtime, TLAPS

USE DEF mainVars, runtimeVars, workerVars, diskVars

-----------------------------------------------------------------------------
(* The invariant.                                                          *)

\* What the main thread's counters and its phase may be, given where it is.
Positions ==
  /\ pc = "reentry" => at # 0
  /\ pc = "judge" => scan \in config.workers
  /\ pc = "shutdown" => at <= NWorkers
  /\ pc = "join" => at \in config.workers
  /\ phase = "final" => pc \in {"capture", "replace", "leave", "down"}

NotYetStarted(w) ==
  \/ pc = "reentry"
  \/ pc = "start" /\ at <= w
  \/ pc \in {"poll", "judge"} /\ cont = "start" /\ at <= w

\* Workers are started once, in order, and only if they are enabled.
Starting ==
  \A w \in Worker :
    NotYetStarted(w) \/ w \notin config.workers => thread[w] = "none"

FailedThread == {"record", "wake", "dead", "vanished"}

\* What a lifecycle says of its thread.
Lifecycles ==
  \A w \in Worker :
    /\ thread[w] \in {"record", "wake"} => lifecycle[w] = "failed"
    /\ lifecycle[w] = "failed" => thread[w] \in FailedThread
    /\ lifecycle[w] = "stopped" => ~IsAlive(w)
    /\ lifecycle[w] \in {"stopping", "stopped"} => stopFlag[w]

FinalSnapshot == pc \in {"capture", "replace"} /\ phase = "final"

InFinally ==
  pc \in {"down", "shutdown", "join", "decide", "leave"} \/ FinalSnapshot

\* A worker is told to stop only by the finally, and only when its turn comes.
StopFlags ==
  /\ \A w \in Worker :
       stopFlag[w] => /\ InFinally
                      /\ pc = "shutdown" => w > at
                      /\ pc = "join" => w >= at
  /\ pc = "join" => stopFlag[at]

\* A failed worker is recorded, or about to be recorded by its own thread.
FailuresKnown ==
  \A w \in Worker :
    lifecycle[w] = "failed" => failure # NoFailure \/ thread[w] = "record"

\* A failure that a supervision pass has read stays true.
SeenIsTrue ==
  pc = "judge" /\ seen = "failed" => lifecycle[scan] = "failed"

\* The finally has dealt with worker w.
Settled(w) ==
  \/ pc \in {"shutdown", "join"} /\ w > at
  \/ pc \in {"decide", "leave"}
  \/ FinalSnapshot

Joined == \A w \in Worker : Settled(w) => ~IsAlive(w) \/ w \in incomplete

\* From the decision to seal on, nothing is left that could spoil the seal.
Sealing ==
  FinalSnapshot \/ sealed => MaySeal /\ \A w \in Worker : ~IsAlive(w)

SealedPlace ==
  /\ sealed => pc \in {"leave", "down"} /\ disk = Carried
  /\ pc = "replace" /\ phase = "final" => capture = Carried

\* A half-ingested batch has an owner or an explanation, and a worker has one.
TornExplained ==
  /\ \A s \in Source :
       claim[s] = "torn" => \/ thread[Collector[s]] \in {"ingest", "raised", "vanished"}
                            \/ lifecycle[Collector[s]] = "failed"
  /\ \A s, r \in Source :
       claim[s] = "torn" /\ claim[r] = "torn" /\ Collector[s] = Collector[r] => s = r
  /\ claim[Local] = "torn" => pc = "collecting" \/ localFailure

\* Re-entry has withdrawn what was left of the sources that are enabled.
Reentered ==
  \A s \in config.sources :
    claim[s] = "persisted" => pc = "down" \/ (pc = "reentry" /\ at <= Collector[s])

\* Until the first local collection the surface opens only after a stop.
Unqualified ==
  claim[Local] = "persisted" /\ ~stop =>
    /\ ~surface
    /\ pc \notin {"collecting", "collected", "open", "loop"}
    /\ pc \in {"poll", "judge"} => cont \in {"start", "collect"}
    /\ pc \in {"capture", "replace"} => phase = "final"

SurfaceIsUp ==
  surface => pc \notin {"down", "reentry", "decide", "leave"} /\ phase # "final"

IInv ==
  /\ TypeOK /\ Positions /\ Starting /\ Lifecycles /\ StopFlags
  /\ FailuresKnown /\ SeenIsTrue /\ Joined /\ Sealing /\ SealedPlace
  /\ TornExplained /\ Reentered /\ Unqualified /\ SurfaceIsUp
  /\ BlameIsDeserved

-----------------------------------------------------------------------------
(* The constants, the counters and the types.                              *)

\* A process is configured with workers that exist.
LEMMA ConfigIsTyped ==
  TypeOK => /\ config.workers \subseteq Worker /\ config.presents \in BOOLEAN
            /\ config.sources \subseteq Source
BY ConfigsAssumption DEF TypeOK, Config

\* Workers are numbered from one.
LEMMA WorkerIsNat == Worker \subseteq Nat \ {0}
BY NWorkersAssumption DEF Worker

\* The local claims are of no source.
LEMMA HoldersAreApart ==
  /\ Local \in Holder /\ Source \subseteq Holder /\ Local \notin Source
  /\ \A s \in Source : Collector[s] \in Worker
BY SourcesAssumption DEF Holder

\* What a worker withdraws is of its sources, and of nothing else.
LEMMA WithdrawnIs ==
  ASSUME TypeOK, NEW w
  PROVE  /\ Withdrawn(w) \in [Holder -> Claim]
         /\ \A h \in Holder : Withdrawn(w)[h] \in {"none", claim[h]}
         /\ Withdrawn(w)[Local] = claim[Local]
         /\ \A s \in config.sources : Collector[s] = w => Withdrawn(w)[s] = "none"
BY HoldersAreApart, ConfigIsTyped DEF Withdrawn, SourcesOf, TypeOK, Claim

\* The counters of the main thread stay within the loops they control.
LEMMA PositionsStep ==
  ASSUME TypeOK, Positions, [Next]_vars
  PROVE  Positions'
<1> USE DEF Positions
<1>1. CASE Boot
  BY <1>1 DEF Boot, Fresh, Hydrated
<1>2. CASE StartUp
  BY <1>2, NWorkersAssumption
     DEF StartUp, Reenter, ReenterFails, StartWorker, Qualify, Supervise,
         MarkStarting, TypeOK, Worker
<1>3. CASE Poll
  BY <1>3, NWorkersAssumption
     DEF Poll, PollRead, PollJudge, PollEnd, SilentDeath, Recorded,
         MarkFailed, Unwind, TypeOK, Worker
<1>4. CASE Collection
  BY <1>4, NWorkersAssumption
     DEF Collection, CollectBegin, CollectEnd, CollectRaises, SnapshotIfDue,
         Capture, Replace, SnapshotFails, Supervise, Unwind, AfterCollection,
         TypeOK, Worker
<1>5. CASE Serving
  BY <1>5, NWorkersAssumption
     DEF Serving, OpenSurface, OpenFails, LoopTurn, Supervise, Unwind, TypeOK,
         Worker
<1>6. CASE Shutdown
  BY <1>6, NWorkersAssumption, ConfigIsTyped
     DEF Shutdown, StopWorker, JoinWorker, JoinTimesOut, CloseSurface, Decide,
         Leave, MarkStopping, MarkStopped, IsAlive, TypeOK, Worker
<1>7. ASSUME NEW w \in Worker, WorkerStep(w) PROVE Positions'
  BY <1>7
     DEF WorkerStep, WorkerRuns, WorkerCollects, WorkerStores,
         WorkerQualifies, WorkerRaises, WorkerFails, WorkerRecords,
         WorkerWakes, WorkerReturns, WorkerVanishes, Step, MarkRunning,
         MarkFailed, Recorded, MarkStopped
<1>8. CASE RequestStop
  BY <1>8 DEF RequestStop
<1>9. CASE Crash
  BY <1>9 DEF Crash, Fresh
<1>10. CASE UNCHANGED vars
  BY <1>10 DEF vars
<1> QED
  BY <1>1, <1>2, <1>3, <1>4, <1>5, <1>6, <1>7, <1>8, <1>9, <1>10
     DEF Next, MainStep

\* The memory of a new process has its types.
LEMMA FreshIsTyped ==
  ASSUME Fresh
  PROVE  /\ at' \in 0..(NWorkers + 1) /\ scan' \in 1..(NWorkers + 1)
         /\ seen' \in WorkerLifecycle /\ cont' = "start" /\ phase' = "startup"
         /\ {raised', stop', localFailure', surface', sealed'} \subseteq BOOLEAN
         /\ failure' = NoFailure /\ incomplete' = {} /\ capture' = {}
         /\ thread' \in [Worker -> ThreadState]
         /\ lifecycle' \in [Worker -> WorkerLifecycle]
         /\ stopFlag' \in [Worker -> BOOLEAN]
<1>1. at' \in 0..(NWorkers + 1) /\ scan' \in 1..(NWorkers + 1)
  BY NWorkersAssumption DEF Fresh
<1>2. /\ thread' \in [Worker -> ThreadState]
      /\ lifecycle' \in [Worker -> WorkerLifecycle]
      /\ stopFlag' \in [Worker -> BOOLEAN]
  BY DEF Fresh, ThreadState, WorkerLifecycle
<1> QED BY <1>1, <1>2 DEF Fresh, WorkerLifecycle

\* Every step keeps the types.
LEMMA TypeStep ==
  ASSUME TypeOK, Positions, [Next]_vars
  PROVE  TypeOK'
<1> USE DEF TypeOK
<1>1. CASE Boot
  <2>1. claim' \in [Holder -> Claim]
    BY <1>1 DEF Boot, Hydrated, Claim
  <2>2. Fresh /\ config' \in Configs /\ pc' \in MainState /\ exit' = "none"
        /\ UNCHANGED disk
    BY <1>1 DEF Boot, MainState
  <2> QED BY <2>1, <2>2, FreshIsTyped
<1>2. CASE StartUp
  <2>1. CASE Reenter
    <3>1. claim' \in [Holder -> Claim]
      BY <2>1, WithdrawnIs DEF Reenter
    <3>2. at' \in 0..(NWorkers + 1) /\ pc' \in MainState
      BY <2>1, NWorkersAssumption DEF Reenter, Worker, MainState
    <3> QED BY <2>1, <3>1, <3>2 DEF Reenter
  <2>2. CASE ReenterFails
    BY <2>2 DEF ReenterFails, MainState
  <2>3. CASE StartWorker
    <3>1. /\ thread' \in [Worker -> ThreadState]
          /\ lifecycle' \in [Worker -> WorkerLifecycle]
      BY <2>3 DEF StartWorker, MarkStarting, ThreadState, WorkerLifecycle
    <3>2. at' \in 0..(NWorkers + 1) /\ scan' \in 1..(NWorkers + 1)
      BY <2>3, NWorkersAssumption DEF StartWorker, Supervise, Worker
    <3> QED BY <2>3, <3>1, <3>2 DEF StartWorker, Supervise, MainState
  <2>4. CASE Qualify
    BY <2>4, NWorkersAssumption DEF Qualify, Supervise, MainState
  <2> QED BY <1>2, <2>1, <2>2, <2>3, <2>4 DEF StartUp
<1>3. CASE Poll
  <2>1. CASE PollRead
    BY <2>1, NWorkersAssumption DEF PollRead, Worker, MainState
  <2>2. CASE PollJudge
    <3>1. scan \in Worker
      BY <2>2, ConfigIsTyped DEF PollJudge, Positions
    <3>2. scan' \in 1..(NWorkers + 1)
      BY <2>2, <3>1, NWorkersAssumption DEF PollJudge, Worker
    <3>3. /\ lifecycle' \in [Worker -> WorkerLifecycle]
          /\ seen' \in WorkerLifecycle
      BY <2>2 DEF PollJudge, MarkFailed, WorkerLifecycle
    <3>4. failure' \in Worker \union {NoFailure} /\ stop' \in BOOLEAN
      BY <2>2, <3>1 DEF PollJudge, Recorded
    <3> QED BY <2>2, <3>2, <3>3, <3>4 DEF PollJudge, MainState
  <2>3. CASE PollEnd
    BY <2>3, NWorkersAssumption DEF PollEnd, Unwind, MainState
  <2> QED BY <1>3, <2>1, <2>2, <2>3 DEF Poll
<1>4. CASE Collection
  <2>1. CASE CollectBegin
    BY <2>1 DEF CollectBegin, Claim, MainState
  <2>2. CASE CollectEnd
    <3>1. claim' \in [Holder -> Claim]
      BY <2>2 DEF CollectEnd, Claim
    <3> QED BY <2>2, <3>1, NWorkersAssumption
            DEF CollectEnd, Supervise, MainState
  <2>3. CASE CollectRaises
    BY <2>3, NWorkersAssumption DEF CollectRaises, Unwind, MainState
  <2>4. CASE SnapshotIfDue
    BY <2>4 DEF SnapshotIfDue, AfterCollection, MainState
  <2>5. CASE Capture
    BY <2>5 DEF Capture, Carried, MainState
  <2>6. CASE Replace
    BY <2>6 DEF Replace, AfterCollection, MainState
  <2>7. CASE SnapshotFails
    BY <2>7, NWorkersAssumption DEF SnapshotFails, Unwind, MainState
  <2> QED BY <1>4, <2>1, <2>2, <2>3, <2>4, <2>5, <2>6, <2>7 DEF Collection
<1>5. CASE Serving
  <2>1. CASE OpenSurface
    BY <2>1, ConfigIsTyped, NWorkersAssumption
       DEF OpenSurface, Supervise, MainState
  <2>2. CASE OpenFails
    BY <2>2, NWorkersAssumption DEF OpenFails, Unwind, MainState
  <2>3. CASE LoopTurn
    BY <2>3, NWorkersAssumption DEF LoopTurn, Supervise, MainState
  <2> QED BY <1>5, <2>1, <2>2, <2>3 DEF Serving
<1>6. CASE Shutdown
  <2>1. CASE StopWorker
    <3>1. /\ lifecycle' \in [Worker -> WorkerLifecycle]
          /\ stopFlag' \in [Worker -> BOOLEAN]
      BY <2>1 DEF StopWorker, MarkStopping, WorkerLifecycle
    <3>2. at' \in 0..(NWorkers + 1) /\ pc' \in MainState
      BY <2>1, NWorkersAssumption DEF StopWorker, Worker, MainState
    <3> QED BY <2>1, <3>1, <3>2 DEF StopWorker
  <2>2. CASE JoinWorker
    <3>1. at \in Worker
      BY <2>2, ConfigIsTyped DEF JoinWorker, Positions
    <3> QED BY <2>2, <3>1, NWorkersAssumption
            DEF JoinWorker, MarkStopped, WorkerLifecycle, Worker, MainState
  <2>3. CASE JoinTimesOut
    <3>1. at \in Worker
      BY <2>3, ConfigIsTyped DEF JoinTimesOut, Positions
    <3> QED BY <2>3, <3>1, NWorkersAssumption
            DEF JoinTimesOut, Worker, MainState
  <2>4. CASE CloseSurface
    BY <2>4 DEF CloseSurface, MainState
  <2>5. CASE Decide
    BY <2>5 DEF Decide, MainState
  <2>6. CASE Leave
    BY <2>6 DEF Leave, MainState
  <2> QED BY <1>6, <2>1, <2>2, <2>3, <2>4, <2>5, <2>6 DEF Shutdown
<1>7. ASSUME NEW w \in Worker, WorkerStep(w) PROVE TypeOK'
  <2> USE DEF Step
  <2>1. CASE WorkerRuns(w)
    BY <2>1 DEF WorkerRuns, MarkRunning, ThreadState, WorkerLifecycle
  <2>2. CASE WorkerCollects(w)
    BY <2>2 DEF WorkerCollects, ThreadState
  <2>3. CASE WorkerStores(w)
    BY <2>3 DEF WorkerStores, ThreadState, Claim
  <2>4. CASE WorkerQualifies(w)
    BY <2>4 DEF WorkerQualifies, ThreadState, Claim
  <2>5. CASE WorkerRaises(w)
    BY <2>5 DEF WorkerRaises, ThreadState
  <2>6. CASE WorkerFails(w)
    BY <2>6 DEF WorkerFails, MarkFailed, ThreadState, WorkerLifecycle
  <2>7. CASE WorkerRecords(w)
    BY <2>7 DEF WorkerRecords, Recorded, ThreadState
  <2>8. CASE WorkerWakes(w)
    BY <2>8 DEF WorkerWakes, ThreadState
  <2>9. CASE WorkerReturns(w)
    BY <2>9 DEF WorkerReturns, MarkStopped, ThreadState, WorkerLifecycle
  <2>10. CASE WorkerVanishes(w)
    BY <2>10 DEF WorkerVanishes, ThreadState
  <2> QED BY <1>7, <2>1, <2>2, <2>3, <2>4, <2>5, <2>6, <2>7, <2>8, <2>9, <2>10
          DEF WorkerStep
<1>8. CASE RequestStop
  BY <1>8 DEF RequestStop
<1>9. CASE Crash
  <2>1. claim' \in [Holder -> Claim]
    BY <1>9 DEF Crash, Claim
  <2>2. /\ Fresh /\ pc' \in MainState /\ exit' = "killed"
        /\ UNCHANGED <<config, disk>>
    BY <1>9 DEF Crash, MainState
  <2> QED BY <2>1, <2>2, FreshIsTyped
<1>10. CASE UNCHANGED vars
  BY <1>10 DEF vars
<1> QED
  BY <1>1, <1>2, <1>3, <1>4, <1>5, <1>6, <1>7, <1>8, <1>9, <1>10
     DEF Next, MainStep

\* So does the initial state.
LEMMA InitIsTyped == Init => TypeOK /\ Positions
<1> SUFFICES ASSUME Init PROVE TypeOK /\ Positions
  OBVIOUS
<1>1. at \in 0..(NWorkers + 1) /\ scan \in 1..(NWorkers + 1)
  BY NWorkersAssumption DEF Init
<1>2. /\ thread \in [Worker -> ThreadState]
      /\ lifecycle \in [Worker -> WorkerLifecycle]
      /\ stopFlag \in [Worker -> BOOLEAN]
      /\ claim \in [Holder -> Claim]
  BY DEF Init, ThreadState, WorkerLifecycle, Claim
<1>3. pc \in MainState /\ seen \in WorkerLifecycle
  BY DEF Init, MainState, WorkerLifecycle
<1>4. Positions
  BY DEF Init, Positions
<1> QED BY <1>1, <1>2, <1>3, <1>4 DEF Init, TypeOK

\* Every reachable state has the types that TypeOK states.
THEOREM TypeCorrect == Spec => []TypeOK
<1>1. TypeOK /\ Positions /\ [Next]_vars => (TypeOK /\ Positions)'
  BY TypeStep, PositionsStep
<1> QED BY InitIsTyped, <1>1, PTL DEF Spec

-----------------------------------------------------------------------------
(* The parts of the invariant, one lemma each.                             *)

\* Only StartWorker starts a thread, once for each enabled worker.
LEMMA StartingStep ==
  ASSUME TypeOK, Starting, [Next]_vars
  PROVE  Starting'
<1> USE WorkerIsNat DEF Starting, NotYetStarted
<1>1. CASE Boot
  BY <1>1 DEF Boot, Fresh, Hydrated
<1>2. CASE StartUp
  BY <1>2
     DEF StartUp, Reenter, ReenterFails, StartWorker, Qualify, Supervise,
         MarkStarting, TypeOK
<1>3. CASE Poll
  BY <1>3
     DEF Poll, PollRead, PollJudge, PollEnd, SilentDeath, Recorded,
         MarkFailed, Unwind, TypeOK
<1>4. CASE Collection
  BY <1>4
     DEF Collection, CollectBegin, CollectEnd, CollectRaises, SnapshotIfDue,
         Capture, Replace, SnapshotFails, Supervise, Unwind, AfterCollection
<1>5. CASE Serving
  BY <1>5 DEF Serving, OpenSurface, OpenFails, LoopTurn, Supervise, Unwind
<1>6. CASE Shutdown
  BY <1>6
     DEF Shutdown, StopWorker, JoinWorker, JoinTimesOut, CloseSurface, Decide,
         Leave, MarkStopping, MarkStopped, IsAlive
<1>7. ASSUME NEW w \in Worker, WorkerStep(w) PROVE Starting'
  BY <1>7
     DEF WorkerStep, WorkerRuns, WorkerCollects, WorkerStores,
         WorkerQualifies, WorkerRaises, WorkerFails, WorkerRecords,
         WorkerWakes, WorkerReturns, WorkerVanishes, Step, MarkRunning,
         MarkFailed, Recorded, MarkStopped, TypeOK
<1>8. CASE RequestStop
  BY <1>8 DEF RequestStop
<1>9. CASE Crash
  BY <1>9 DEF Crash, Fresh
<1>10. CASE UNCHANGED vars
  BY <1>10 DEF vars
<1> QED
  BY <1>1, <1>2, <1>3, <1>4, <1>5, <1>6, <1>7, <1>8, <1>9, <1>10
     DEF Next, MainStep

\* A lifecycle and its thread change together, or in an order that keeps the
\* lifecycle true of the thread.
LEMMA LifecyclesStep ==
  ASSUME TypeOK, Positions, Starting, Lifecycles, StopFlags, [Next]_vars
  PROVE  Lifecycles'
<1> USE DEF Lifecycles, FailedThread, IsAlive
<1>1. CASE Boot
  BY <1>1 DEF Boot, Fresh, Hydrated
<1>2. CASE StartUp
  BY <1>2
     DEF StartUp, Reenter, ReenterFails, StartWorker, Qualify, Supervise,
         MarkStarting, TypeOK, Starting, NotYetStarted, StopFlags, InFinally,
         FinalSnapshot
<1>3. CASE Poll
  BY <1>3, ConfigIsTyped
     DEF Poll, PollRead, PollJudge, PollEnd, SilentDeath, Recorded,
         MarkFailed, Unwind, TypeOK, Positions
<1>4. CASE Collection
  BY <1>4
     DEF Collection, CollectBegin, CollectEnd, CollectRaises, SnapshotIfDue,
         Capture, Replace, SnapshotFails, Supervise, Unwind, AfterCollection
<1>5. CASE Serving
  BY <1>5 DEF Serving, OpenSurface, OpenFails, LoopTurn, Supervise, Unwind
<1>6. CASE Shutdown
  <2>1. CASE StopWorker
    BY <2>1 DEF StopWorker, MarkStopping, TypeOK, StopFlags, Starting
  <2>2. CASE JoinWorker
    BY <2>2 DEF JoinWorker, MarkStopped, IsAlive, TypeOK, StopFlags
  <2>3. CASE JoinTimesOut
    BY <2>3 DEF JoinTimesOut, IsAlive
  <2>4. CASE CloseSurface
    BY <2>4 DEF CloseSurface
  <2>5. CASE Decide
    BY <2>5 DEF Decide
  <2>6. CASE Leave
    BY <2>6 DEF Leave
  <2> QED
    BY <1>6, <2>1, <2>2, <2>3, <2>4, <2>5, <2>6 DEF Shutdown
<1>7. ASSUME NEW w \in Worker, WorkerStep(w) PROVE Lifecycles'
  <2>1. CASE WorkerRuns(w)
    BY <2>1 DEF WorkerRuns, MarkRunning, Step, TypeOK
  <2>2. CASE WorkerCollects(w)
    BY <2>2 DEF WorkerCollects, Step, TypeOK
  <2>3. CASE WorkerStores(w)
    BY <2>3 DEF WorkerStores, Step, TypeOK
  <2>4. CASE WorkerQualifies(w)
    BY <2>4 DEF WorkerQualifies, Step, TypeOK
  <2>5. CASE WorkerRaises(w)
    BY <2>5 DEF WorkerRaises, Step, TypeOK
  <2>6. CASE WorkerFails(w)
    BY <2>6 DEF WorkerFails, MarkFailed, Step, TypeOK
  <2>7. CASE WorkerRecords(w)
    BY <2>7 DEF WorkerRecords, Recorded, Step, TypeOK
  <2>8. CASE WorkerWakes(w)
    BY <2>8 DEF WorkerWakes, Step, TypeOK
  <2>9. CASE WorkerReturns(w)
    BY <2>9 DEF WorkerReturns, MarkStopped, Step, TypeOK
  <2>10. CASE WorkerVanishes(w)
    BY <2>10 DEF WorkerVanishes, Step, TypeOK
  <2> QED
    BY <1>7, <2>1, <2>2, <2>3, <2>4, <2>5, <2>6, <2>7, <2>8, <2>9, <2>10
       DEF WorkerStep
<1>8. CASE RequestStop
  BY <1>8 DEF RequestStop
<1>9. CASE Crash
  BY <1>9 DEF Crash, Fresh
<1>10. CASE UNCHANGED vars
  BY <1>10 DEF vars
<1> QED
  BY <1>1, <1>2, <1>3, <1>4, <1>5, <1>6, <1>7, <1>8, <1>9, <1>10
     DEF Next, MainStep

\* Stop flags are set by StopWorker, from the last worker down.
LEMMA StopFlagsStep ==
  ASSUME TypeOK, Positions, StopFlags, [Next]_vars
  PROVE  StopFlags'
<1> USE WorkerIsNat DEF StopFlags, InFinally, FinalSnapshot
<1>1. CASE Boot
  BY <1>1 DEF Boot, Fresh, Hydrated
<1>2. CASE StartUp
  BY <1>2
     DEF StartUp, Reenter, ReenterFails, StartWorker, Qualify, Supervise,
         MarkStarting
<1>3. CASE Poll
  BY <1>3
     DEF Poll, PollRead, PollJudge, PollEnd, SilentDeath, Recorded,
         MarkFailed, Unwind, TypeOK
<1>4. CASE Collection
  BY <1>4
     DEF Collection, CollectBegin, CollectEnd, CollectRaises, SnapshotIfDue,
         Capture, Replace, SnapshotFails, Supervise, Unwind, AfterCollection,
         Positions
<1>5. CASE Serving
  BY <1>5 DEF Serving, OpenSurface, OpenFails, LoopTurn, Supervise, Unwind
<1>6. CASE Shutdown
  BY <1>6, ConfigIsTyped
     DEF Shutdown, StopWorker, JoinWorker, JoinTimesOut, CloseSurface, Decide,
         Leave, MarkStopping, MarkStopped, IsAlive, TypeOK, Positions
<1>7. ASSUME NEW w \in Worker, WorkerStep(w) PROVE StopFlags'
  BY <1>7
     DEF WorkerStep, WorkerRuns, WorkerCollects, WorkerStores,
         WorkerQualifies, WorkerRaises, WorkerFails, WorkerRecords,
         WorkerWakes, WorkerReturns, WorkerVanishes, Step, MarkRunning,
         MarkFailed, Recorded, MarkStopped
<1>8. CASE RequestStop
  BY <1>8 DEF RequestStop
<1>9. CASE Crash
  BY <1>9 DEF Crash, Fresh
<1>10. CASE UNCHANGED vars
  BY <1>10 DEF vars
<1> QED
  BY <1>1, <1>2, <1>3, <1>4, <1>5, <1>6, <1>7, <1>8, <1>9, <1>10
     DEF Next, MainStep

\* Whoever marks a worker failed records it, at once or as its next step.
LEMMA FailuresKnownStep ==
  ASSUME TypeOK, Positions, FailuresKnown, [Next]_vars
  PROVE  FailuresKnown'
<1> USE WorkerIsNat DEF FailuresKnown, NoFailure
<1>1. CASE Boot
  BY <1>1 DEF Boot, Fresh, Hydrated
<1>2. CASE StartUp
  BY <1>2
     DEF StartUp, Reenter, ReenterFails, StartWorker, Qualify, Supervise,
         MarkStarting, TypeOK
<1>3. CASE Poll
  BY <1>3, ConfigIsTyped
     DEF Poll, PollRead, PollJudge, PollEnd, SilentDeath, Recorded,
         MarkFailed, Unwind, TypeOK, Positions
<1>4. CASE Collection
  BY <1>4
     DEF Collection, CollectBegin, CollectEnd, CollectRaises, SnapshotIfDue,
         Capture, Replace, SnapshotFails, Supervise, Unwind, AfterCollection
<1>5. CASE Serving
  BY <1>5 DEF Serving, OpenSurface, OpenFails, LoopTurn, Supervise, Unwind
<1>6. CASE Shutdown
  BY <1>6
     DEF Shutdown, StopWorker, JoinWorker, JoinTimesOut, CloseSurface, Decide,
         Leave, MarkStopping, MarkStopped, IsAlive, TypeOK
<1>7. ASSUME NEW w \in Worker, WorkerStep(w) PROVE FailuresKnown'
  BY <1>7
     DEF WorkerStep, WorkerRuns, WorkerCollects, WorkerStores,
         WorkerQualifies, WorkerRaises, WorkerFails, WorkerRecords,
         WorkerWakes, WorkerReturns, WorkerVanishes, Step, MarkRunning,
         MarkFailed, Recorded, MarkStopped, TypeOK
<1>8. CASE RequestStop
  BY <1>8 DEF RequestStop
<1>9. CASE Crash
  BY <1>9 DEF Crash, Fresh
<1>10. CASE UNCHANGED vars
  BY <1>10 DEF vars
<1> QED
  BY <1>1, <1>2, <1>3, <1>4, <1>5, <1>6, <1>7, <1>8, <1>9, <1>10
     DEF Next, MainStep

\* No step takes a failure back between the two halves of a pass.
LEMMA SeenIsTrueStep ==
  ASSUME TypeOK, Positions, Lifecycles, SeenIsTrue, [Next]_vars
  PROVE  SeenIsTrue'
<1> USE DEF SeenIsTrue
<1>1. CASE Boot
  BY <1>1 DEF Boot, Fresh, Hydrated
<1>2. CASE StartUp
  BY <1>2
     DEF StartUp, Reenter, ReenterFails, StartWorker, Qualify, Supervise,
         MarkStarting
<1>3. CASE Poll
  BY <1>3
     DEF Poll, PollRead, PollJudge, PollEnd, SilentDeath, Recorded,
         MarkFailed, Unwind, TypeOK
<1>4. CASE Collection
  BY <1>4
     DEF Collection, CollectBegin, CollectEnd, CollectRaises, SnapshotIfDue,
         Capture, Replace, SnapshotFails, Supervise, Unwind, AfterCollection
<1>5. CASE Serving
  BY <1>5 DEF Serving, OpenSurface, OpenFails, LoopTurn, Supervise, Unwind
<1>6. CASE Shutdown
  BY <1>6
     DEF Shutdown, StopWorker, JoinWorker, JoinTimesOut, CloseSurface, Decide,
         Leave, MarkStopping, MarkStopped, IsAlive
<1>7. ASSUME NEW w \in Worker, WorkerStep(w) PROVE SeenIsTrue'
  BY <1>7, ConfigIsTyped
     DEF WorkerStep, WorkerRuns, WorkerCollects, WorkerStores,
         WorkerQualifies, WorkerRaises, WorkerFails, WorkerRecords,
         WorkerWakes, WorkerReturns, WorkerVanishes, Step, MarkRunning,
         MarkFailed, Recorded, MarkStopped, TypeOK, Positions, Lifecycles,
         FailedThread
<1>8. CASE RequestStop
  BY <1>8 DEF RequestStop
<1>9. CASE Crash
  BY <1>9 DEF Crash, Fresh
<1>10. CASE UNCHANGED vars
  BY <1>10 DEF vars
<1> QED
  BY <1>1, <1>2, <1>3, <1>4, <1>5, <1>6, <1>7, <1>8, <1>9, <1>10
     DEF Next, MainStep

\* The finally leaves a worker behind only joined or listed as incomplete.
LEMMA JoinedStep ==
  ASSUME TypeOK, Positions, Starting, Joined, [Next]_vars
  PROVE  Joined'
<1> USE WorkerIsNat DEF Joined, Settled, FinalSnapshot, IsAlive
<1>1. CASE Boot
  BY <1>1 DEF Boot, Fresh, Hydrated
<1>2. CASE StartUp
  BY <1>2
     DEF StartUp, Reenter, ReenterFails, StartWorker, Qualify, Supervise,
         MarkStarting, Positions
<1>3. CASE Poll
  BY <1>3, NWorkersAssumption
     DEF Poll, PollRead, PollJudge, PollEnd, SilentDeath, Recorded,
         MarkFailed, Unwind, TypeOK, Worker
<1>4. CASE Collection
  BY <1>4, NWorkersAssumption
     DEF Collection, CollectBegin, CollectEnd, CollectRaises, SnapshotIfDue,
         Capture, Replace, SnapshotFails, Supervise, Unwind, AfterCollection,
         TypeOK, Worker, Positions
<1>5. CASE Serving
  BY <1>5, NWorkersAssumption
     DEF Serving, OpenSurface, OpenFails, LoopTurn, Supervise, Unwind, TypeOK,
         Worker
<1>6. CASE Shutdown
  <2>1. CASE StopWorker
    BY <2>1
       DEF StopWorker, MarkStopping, TypeOK, Positions, Starting,
           NotYetStarted
  <2>2. CASE JoinWorker
    BY <2>2 DEF JoinWorker, MarkStopped, IsAlive, TypeOK
  <2>3. CASE JoinTimesOut
    BY <2>3 DEF JoinTimesOut, IsAlive, TypeOK
  <2>4. CASE CloseSurface
    BY <2>4, NWorkersAssumption DEF CloseSurface, TypeOK, Positions, Worker
  <2>5. CASE Decide
    BY <2>5 DEF Decide
  <2>6. CASE Leave
    BY <2>6 DEF Leave
  <2> QED
    BY <1>6, <2>1, <2>2, <2>3, <2>4, <2>5, <2>6 DEF Shutdown
<1>7. ASSUME NEW w \in Worker, WorkerStep(w) PROVE Joined'
  BY <1>7
     DEF WorkerStep, WorkerRuns, WorkerCollects, WorkerStores,
         WorkerQualifies, WorkerRaises, WorkerFails, WorkerRecords,
         WorkerWakes, WorkerReturns, WorkerVanishes, Step, MarkRunning,
         MarkFailed, Recorded, MarkStopped, TypeOK
<1>8. CASE RequestStop
  BY <1>8 DEF RequestStop
<1>9. CASE Crash
  BY <1>9 DEF Crash, Fresh
<1>10. CASE UNCHANGED vars
  BY <1>10 DEF vars
<1> QED
  BY <1>1, <1>2, <1>3, <1>4, <1>5, <1>6, <1>7, <1>8, <1>9, <1>10
     DEF Next, MainStep

\* MaySeal is decided after every join, and no thread is left to undo it.
LEMMA SealingStep ==
  ASSUME TypeOK, Positions, Joined, SealedPlace, Sealing, [Next]_vars
  PROVE  Sealing'
<1> USE DEF Sealing, FinalSnapshot, IsAlive, MaySeal
<1>1. CASE Boot
  BY <1>1 DEF Boot, Fresh, Hydrated
<1>2. CASE StartUp
  BY <1>2
     DEF StartUp, Reenter, ReenterFails, StartWorker, Qualify, Supervise,
         MarkStarting, SealedPlace, Positions
<1>3. CASE Poll
  BY <1>3
     DEF Poll, PollRead, PollJudge, PollEnd, SilentDeath, Recorded,
         MarkFailed, Unwind, SealedPlace, Positions
<1>4. CASE Collection
  BY <1>4
     DEF Collection, CollectBegin, CollectEnd, CollectRaises, SnapshotIfDue,
         Capture, Replace, SnapshotFails, Supervise, Unwind, AfterCollection,
         SealedPlace, Positions
<1>5. CASE Serving
  BY <1>5
     DEF Serving, OpenSurface, OpenFails, LoopTurn, Supervise, Unwind,
         SealedPlace, Positions
<1>6. CASE Shutdown
  BY <1>6
     DEF Shutdown, StopWorker, JoinWorker, JoinTimesOut, CloseSurface, Decide,
         Leave, MarkStopping, MarkStopped, IsAlive, SealedPlace, Positions,
         Joined, Settled
<1>7. ASSUME NEW w \in Worker, WorkerStep(w) PROVE Sealing'
  BY <1>7
     DEF WorkerStep, WorkerRuns, WorkerCollects, WorkerStores,
         WorkerQualifies, WorkerRaises, WorkerFails, WorkerRecords,
         WorkerWakes, WorkerReturns, WorkerVanishes, Step, MarkRunning,
         MarkFailed, Recorded, MarkStopped, TypeOK
<1>8. CASE RequestStop
  BY <1>8 DEF RequestStop
<1>9. CASE Crash
  BY <1>9 DEF Crash, Fresh
<1>10. CASE UNCHANGED vars
  BY <1>10 DEF vars
<1> QED
  BY <1>1, <1>2, <1>3, <1>4, <1>5, <1>6, <1>7, <1>8, <1>9, <1>10
     DEF Next, MainStep

\* With no worker alive the world stands still from the final Capture on.
LEMMA SealedPlaceStep ==
  ASSUME TypeOK, Positions, Sealing, SealedPlace, [Next]_vars
  PROVE  SealedPlace'
<1> USE DEF SealedPlace, Carried
<1>1. CASE Boot
  BY <1>1 DEF Boot, Fresh, Hydrated
<1>2. CASE StartUp
  BY <1>2
     DEF StartUp, Reenter, ReenterFails, StartWorker, Qualify, Supervise,
         MarkStarting
<1>3. CASE Poll
  BY <1>3
     DEF Poll, PollRead, PollJudge, PollEnd, SilentDeath, Recorded,
         MarkFailed, Unwind, TypeOK
<1>4. CASE Collection
  <2>1. CASE CollectBegin
    BY <2>1 DEF CollectBegin
  <2>2. CASE CollectEnd
    BY <2>2 DEF CollectEnd, Supervise
  <2>3. CASE CollectRaises
    BY <2>3 DEF CollectRaises, Unwind
  <2>4. CASE SnapshotIfDue
    BY <2>4 DEF SnapshotIfDue, AfterCollection
  <2>5. CASE Capture
    BY <2>5 DEF Capture
  <2>6. CASE Replace
    BY <2>6 DEF Replace, AfterCollection
  <2>7. CASE SnapshotFails
    BY <2>7 DEF SnapshotFails, Unwind
  <2> QED
    BY <1>4, <2>1, <2>2, <2>3, <2>4, <2>5, <2>6, <2>7 DEF Collection
<1>5. CASE Serving
  BY <1>5 DEF Serving, OpenSurface, OpenFails, LoopTurn, Supervise, Unwind
<1>6. CASE Shutdown
  BY <1>6
     DEF Shutdown, StopWorker, JoinWorker, JoinTimesOut, CloseSurface, Decide,
         Leave, MarkStopping, MarkStopped, IsAlive
<1>7. ASSUME NEW w \in Worker, WorkerStep(w) PROVE SealedPlace'
  BY <1>7
     DEF WorkerStep, WorkerRuns, WorkerCollects, WorkerStores,
         WorkerQualifies, WorkerRaises, WorkerFails, WorkerRecords,
         WorkerWakes, WorkerReturns, WorkerVanishes, Step, MarkRunning,
         MarkFailed, Recorded, MarkStopped, Sealing, FinalSnapshot, IsAlive
<1>8. CASE RequestStop
  BY <1>8 DEF RequestStop
<1>9. CASE Crash
  BY <1>9 DEF Crash, Fresh
<1>10. CASE UNCHANGED vars
  BY <1>10 DEF vars
<1> QED
  BY <1>1, <1>2, <1>3, <1>4, <1>5, <1>6, <1>7, <1>8, <1>9, <1>10
     DEF Next, MainStep

\* A batch is broken off only by an ending of its thread or its process.
LEMMA TornExplainedStep ==
  ASSUME TypeOK, Positions, Starting, Lifecycles, TornExplained, [Next]_vars
  PROVE  TornExplained'
<1> USE DEF TornExplained
<1>1. CASE Boot
  BY <1>1, HoldersAreApart DEF Boot, Fresh, Hydrated
<1>2. CASE StartUp
  <2>1. CASE Reenter
    BY <2>1, WithdrawnIs, HoldersAreApart, WorkerIsNat, ConfigIsTyped DEF Reenter, TypeOK, Positions, Worker
  <2>2. CASE ~Reenter
    BY <1>2, <2>2, HoldersAreApart
       DEF StartUp, ReenterFails, StartWorker, Qualify, Supervise,
           MarkStarting, TypeOK, Starting, NotYetStarted, Lifecycles,
           FailedThread
  <2> QED BY <2>1, <2>2
<1>3. CASE Poll
  BY <1>3, HoldersAreApart
     DEF Poll, PollRead, PollJudge, PollEnd, SilentDeath, Recorded,
         MarkFailed, Unwind, TypeOK
<1>4. CASE Collection
  BY <1>4, HoldersAreApart
     DEF Collection, CollectBegin, CollectEnd, CollectRaises, SnapshotIfDue,
         Capture, Replace, SnapshotFails, Supervise, Unwind, AfterCollection,
         TypeOK
<1>5. CASE Serving
  BY <1>5 DEF Serving, OpenSurface, OpenFails, LoopTurn, Supervise, Unwind
<1>6. CASE Shutdown
  BY <1>6, HoldersAreApart
     DEF Shutdown, StopWorker, JoinWorker, JoinTimesOut, CloseSurface, Decide,
         Leave, MarkStopping, MarkStopped, IsAlive, TypeOK
<1>7. ASSUME NEW w \in Worker, WorkerStep(w) PROVE TornExplained'
  <2>1. CASE WorkerRuns(w)
    BY <2>1, HoldersAreApart
       DEF WorkerRuns, MarkRunning, Step, TypeOK, Lifecycles, FailedThread
  <2>2. CASE WorkerCollects(w)
    BY <2>2, HoldersAreApart
       DEF WorkerCollects, Step, TypeOK, Lifecycles, FailedThread
  <2>3. CASE WorkerStores(w)
    <3>1. PICK s \in SourcesOf(w) : claim' = [claim EXCEPT ![s] = "torn"]
      BY <2>3 DEF WorkerStores
    <3>2. s \in Source /\ Collector[s] = w
      BY ConfigIsTyped DEF SourcesOf
    <3>3. thread[w] = "collect" /\ thread' = [thread EXCEPT ![w] = "ingest"]
          /\ UNCHANGED <<pc, localFailure, lifecycle>>
      BY <2>3 DEF WorkerStores, Step
    <3>4. lifecycle[w] # "failed"
      BY <3>3 DEF Lifecycles, FailedThread
    <3>5. \A r \in Source : Collector[r] = w => claim[r] # "torn"
      BY <3>3, <3>4
    <3>6. thread'[w] = "ingest" /\ \A v \in Worker \ {w} : thread'[v] = thread[v]
      BY <3>3 DEF TypeOK
    <3>7. \A h \in Holder : h # s => claim'[h] = claim[h]
      BY <3>1 DEF TypeOK
    <3> QED BY <3>2, <3>3, <3>5, <3>6, <3>7, HoldersAreApart
  <2>4. CASE WorkerQualifies(w)
    <3>1. PICK s \in SourcesOf(w) :
            claim[s] = "torn" /\ claim' = [claim EXCEPT ![s] = "earned"]
      BY <2>4 DEF WorkerQualifies
    <3>2. s \in Source /\ Collector[s] = w
      BY ConfigIsTyped DEF SourcesOf
    <3>3. thread' = [thread EXCEPT ![w] = "loop"]
          /\ UNCHANGED <<pc, localFailure, lifecycle>>
      BY <2>4 DEF WorkerQualifies, Step
    <3>4. \A r \in Source \ {s} : Collector[r] = w => claim[r] # "torn"
      BY <3>1, <3>2
    <3>5. \A v \in Worker \ {w} : thread'[v] = thread[v]
      BY <3>3 DEF TypeOK
    <3>6. claim'[s] # "torn" /\ \A h \in Holder : h # s => claim'[h] = claim[h]
      BY <3>1, <3>2, HoldersAreApart DEF TypeOK
    <3> QED BY <3>2, <3>3, <3>4, <3>5, <3>6, HoldersAreApart
  <2>5. CASE WorkerRaises(w)
    BY <2>5, HoldersAreApart
       DEF WorkerRaises, Step, TypeOK, Lifecycles, FailedThread
  <2>6. CASE WorkerFails(w)
    BY <2>6, HoldersAreApart
       DEF WorkerFails, MarkFailed, Step, TypeOK, Lifecycles, FailedThread
  <2>7. CASE WorkerRecords(w)
    BY <2>7, HoldersAreApart
       DEF WorkerRecords, Recorded, Step, TypeOK, Lifecycles, FailedThread
  <2>8. CASE WorkerWakes(w)
    BY <2>8, HoldersAreApart
       DEF WorkerWakes, Step, TypeOK, Lifecycles, FailedThread
  <2>9. CASE WorkerReturns(w)
    BY <2>9, HoldersAreApart
       DEF WorkerReturns, MarkStopped, Step, TypeOK, Lifecycles, FailedThread
  <2>10. CASE WorkerVanishes(w)
    BY <2>10, HoldersAreApart
       DEF WorkerVanishes, Step, TypeOK, Lifecycles, FailedThread
  <2> QED
    BY <1>7, <2>1, <2>2, <2>3, <2>4, <2>5, <2>6, <2>7, <2>8, <2>9, <2>10
       DEF WorkerStep
<1>8. CASE RequestStop
  BY <1>8 DEF RequestStop
<1>9. CASE Crash
  BY <1>9, HoldersAreApart DEF Crash, Fresh
<1>10. CASE UNCHANGED vars
  BY <1>10 DEF vars
<1> QED
  BY <1>1, <1>2, <1>3, <1>4, <1>5, <1>6, <1>7, <1>8, <1>9, <1>10
     DEF Next, MainStep

\* Re-entry withdraws one enabled worker after another.
LEMMA ReenteredStep ==
  ASSUME TypeOK, Positions, Reentered, [Next]_vars
  PROVE  Reentered'
<1> USE WorkerIsNat, ConfigIsTyped, HoldersAreApart DEF Reentered
<1>1. CASE Boot
  <2>1. config'.sources \subseteq Source
    BY <1>1, ConfigsAssumption DEF Boot, Config
  <2>2. pc' = "reentry" /\ at' = 1
    BY <1>1 DEF Boot, Fresh
  <2>3. \A s \in config'.sources : 1 <= Collector[s]
    BY <2>1, NWorkersAssumption DEF Worker
  <2> QED BY <2>2, <2>3
<1>2. CASE StartUp
  <2>1. CASE Reenter
    <3>1. CASE at \in Worker
      <4>1. claim' = Withdrawn(at) /\ at' = at + 1 /\ UNCHANGED <<pc, config>>
            /\ pc = "reentry"
        BY <2>1, <3>1 DEF Reenter
      <4>2. ASSUME NEW s \in config.sources, claim'[s] = "persisted"
            PROVE  at + 1 <= Collector[s]
        <5>1. Collector[s] # at /\ claim[s] = "persisted" /\ Collector[s] \in Worker
          BY <4>1, <4>2, WithdrawnIs DEF Claim
        <5>2. at <= Collector[s]
          BY <4>1, <5>1
        <5> QED BY <3>1, <5>1, <5>2 DEF Worker
      <4> QED BY <4>1, <4>2
    <3>2. CASE at \notin Worker
      <4>1. pc = "reentry" /\ UNCHANGED <<claim, config>>
        BY <2>1, <3>2 DEF Reenter
      <4>2. \A v \in Worker : ~(at <= v)
        BY <3>2, <4>1, NWorkersAssumption DEF TypeOK, Positions, Worker
      <4> QED BY <4>1, <4>2
    <3> QED BY <3>1, <3>2
  <2>2. CASE ~Reenter
    BY <1>2, <2>2, NWorkersAssumption
       DEF StartUp, ReenterFails, StartWorker, Qualify, Supervise,
           MarkStarting, TypeOK, Positions, Worker
  <2> QED BY <2>1, <2>2
<1>3. CASE Poll
  BY <1>3
     DEF Poll, PollRead, PollJudge, PollEnd, SilentDeath, Recorded,
         MarkFailed, Unwind
<1>4. CASE Collection
  BY <1>4, HoldersAreApart
     DEF Collection, CollectBegin, CollectEnd, CollectRaises, SnapshotIfDue,
         Capture, Replace, SnapshotFails, Supervise, Unwind, AfterCollection,
         TypeOK
<1>5. CASE Serving
  BY <1>5 DEF Serving, OpenSurface, OpenFails, LoopTurn, Supervise, Unwind
<1>6. CASE Shutdown
  BY <1>6
     DEF Shutdown, StopWorker, JoinWorker, JoinTimesOut, CloseSurface, Decide,
         Leave, MarkStopping, MarkStopped, IsAlive
<1>7. ASSUME NEW w \in Worker, WorkerStep(w) PROVE Reentered'
  BY <1>7
     DEF WorkerStep, WorkerRuns, WorkerCollects, WorkerStores,
         WorkerQualifies, WorkerRaises, WorkerFails, WorkerRecords,
         WorkerWakes, WorkerReturns, WorkerVanishes, Step, MarkRunning,
         MarkFailed, Recorded, MarkStopped, TypeOK
<1>8. CASE RequestStop
  BY <1>8 DEF RequestStop
<1>9. CASE Crash
  BY <1>9 DEF Crash, Fresh
<1>10. CASE UNCHANGED vars
  BY <1>10 DEF vars
<1> QED
  BY <1>1, <1>2, <1>3, <1>4, <1>5, <1>6, <1>7, <1>8, <1>9, <1>10
     DEF Next, MainStep

\* The way to OpenSurface leads through the first local collection or a stop.
LEMMA UnqualifiedStep ==
  ASSUME TypeOK, Positions, Unqualified, SurfaceIsUp, [Next]_vars
  PROVE  Unqualified'
<1> USE HoldersAreApart DEF Unqualified
<1>1. CASE Boot
  BY <1>1 DEF Boot, Fresh, Hydrated
<1>2. CASE StartUp
  <2>1. CASE Reenter
    BY <2>1, WithdrawnIs, HoldersAreApart, WorkerIsNat, ConfigIsTyped DEF Reenter, TypeOK, Positions, Worker
  <2>2. CASE ~Reenter
    BY <1>2, <2>2
       DEF StartUp, ReenterFails, StartWorker, Qualify, Supervise,
           MarkStarting, TypeOK
  <2> QED BY <2>1, <2>2
<1>3. CASE Poll
  BY <1>3
     DEF Poll, PollRead, PollJudge, PollEnd, SilentDeath, Recorded,
         MarkFailed, Unwind
<1>4. CASE Collection
  BY <1>4
     DEF Collection, CollectBegin, CollectEnd, CollectRaises, SnapshotIfDue,
         Capture, Replace, SnapshotFails, Supervise, Unwind, AfterCollection,
         TypeOK
<1>5. CASE Serving
  BY <1>5 DEF Serving, OpenSurface, OpenFails, LoopTurn, Supervise, Unwind
<1>6. CASE Shutdown
  BY <1>6
     DEF Shutdown, StopWorker, JoinWorker, JoinTimesOut, CloseSurface, Decide,
         Leave, MarkStopping, MarkStopped, IsAlive
<1>7. ASSUME NEW w \in Worker, WorkerStep(w) PROVE Unqualified'
  BY <1>7
     DEF WorkerStep, WorkerRuns, WorkerCollects, WorkerStores,
         WorkerQualifies, WorkerRaises, WorkerFails, WorkerRecords,
         WorkerWakes, WorkerReturns, WorkerVanishes, Step, MarkRunning,
         MarkFailed, Recorded, MarkStopped, TypeOK
<1>8. CASE RequestStop
  BY <1>8 DEF RequestStop
<1>9. CASE Crash
  BY <1>9 DEF Crash, Fresh
<1>10. CASE UNCHANGED vars
  BY <1>10 DEF vars
<1> QED
  BY <1>1, <1>2, <1>3, <1>4, <1>5, <1>6, <1>7, <1>8, <1>9, <1>10
     DEF Next, MainStep

\* The surface is closed before the process decides about its snapshot.
LEMMA SurfaceStep ==
  ASSUME TypeOK, Positions, SurfaceIsUp, [Next]_vars
  PROVE  SurfaceIsUp'
<1> USE DEF SurfaceIsUp, Positions
<1>1. CASE Boot
  BY <1>1 DEF Boot, Fresh, Hydrated
<1>2. CASE StartUp
  BY <1>2
     DEF StartUp, Reenter, ReenterFails, StartWorker, Qualify, Supervise,
         MarkStarting
<1>3. CASE Poll
  BY <1>3
     DEF Poll, PollRead, PollJudge, PollEnd, SilentDeath, Recorded,
         MarkFailed, Unwind, TypeOK
<1>4. CASE Collection
  BY <1>4
     DEF Collection, CollectBegin, CollectEnd, CollectRaises, SnapshotIfDue,
         Capture, Replace, SnapshotFails, Supervise, Unwind, AfterCollection
<1>5. CASE Serving
  BY <1>5 DEF Serving, OpenSurface, OpenFails, LoopTurn, Supervise, Unwind
<1>6. CASE Shutdown
  BY <1>6
     DEF Shutdown, StopWorker, JoinWorker, JoinTimesOut, CloseSurface, Decide,
         Leave, MarkStopping, MarkStopped, IsAlive
<1>7. ASSUME NEW w \in Worker, WorkerStep(w) PROVE SurfaceIsUp'
  BY <1>7
     DEF WorkerStep, WorkerRuns, WorkerCollects, WorkerStores,
         WorkerQualifies, WorkerRaises, WorkerFails, WorkerRecords,
         WorkerWakes, WorkerReturns, WorkerVanishes, Step, MarkRunning,
         MarkFailed, Recorded, MarkStopped
<1>8. CASE RequestStop
  BY <1>8 DEF RequestStop
<1>9. CASE Crash
  BY <1>9 DEF Crash, Fresh
<1>10. CASE UNCHANGED vars
  BY <1>10 DEF vars
<1> QED
  BY <1>1, <1>2, <1>3, <1>4, <1>5, <1>6, <1>7, <1>8, <1>9, <1>10
     DEF Next, MainStep

\* A recorded failure is that of a failed worker, and stays so.
LEMMA BlameStep ==
  ASSUME TypeOK, Positions, Starting, Lifecycles, SeenIsTrue, BlameIsDeserved,
         [Next]_vars
  PROVE  BlameIsDeserved'
<1> USE WorkerIsNat DEF BlameIsDeserved, NoFailure
<1>1. CASE Boot
  BY <1>1 DEF Boot, Fresh, Hydrated
<1>2. CASE StartUp
  BY <1>2
     DEF StartUp, Reenter, ReenterFails, StartWorker, Qualify, Supervise,
         MarkStarting, TypeOK, Starting, NotYetStarted
<1>3. CASE Poll
  BY <1>3, ConfigIsTyped
     DEF Poll, PollRead, PollJudge, PollEnd, SilentDeath, Recorded,
         MarkFailed, Unwind, TypeOK, Positions, Lifecycles, FailedThread,
         SeenIsTrue
<1>4. CASE Collection
  BY <1>4
     DEF Collection, CollectBegin, CollectEnd, CollectRaises, SnapshotIfDue,
         Capture, Replace, SnapshotFails, Supervise, Unwind, AfterCollection
<1>5. CASE Serving
  BY <1>5 DEF Serving, OpenSurface, OpenFails, LoopTurn, Supervise, Unwind
<1>6. CASE Shutdown
  BY <1>6
     DEF Shutdown, StopWorker, JoinWorker, JoinTimesOut, CloseSurface, Decide,
         Leave, MarkStopping, MarkStopped, IsAlive, TypeOK
<1>7. ASSUME NEW w \in Worker, WorkerStep(w) PROVE BlameIsDeserved'
  BY <1>7
     DEF WorkerStep, WorkerRuns, WorkerCollects, WorkerStores,
         WorkerQualifies, WorkerRaises, WorkerFails, WorkerRecords,
         WorkerWakes, WorkerReturns, WorkerVanishes, Step, MarkRunning,
         MarkFailed, Recorded, MarkStopped, TypeOK, Lifecycles
<1>8. CASE RequestStop
  BY <1>8 DEF RequestStop
<1>9. CASE Crash
  BY <1>9 DEF Crash, Fresh
<1>10. CASE UNCHANGED vars
  BY <1>10 DEF vars
<1> QED
  BY <1>1, <1>2, <1>3, <1>4, <1>5, <1>6, <1>7, <1>8, <1>9, <1>10
     DEF Next, MainStep

\* The first process finds an empty disk and nothing running.
LEMMA InitIsGood == Init => IInv
<1> SUFFICES ASSUME Init PROVE IInv
  OBVIOUS
<1>1. TypeOK /\ Positions
  BY InitIsTyped
<1>2. Starting /\ Lifecycles /\ StopFlags /\ FailuresKnown /\ Joined
  BY DEF Init, Starting, NotYetStarted, Lifecycles, IsAlive, StopFlags,
         FailuresKnown, Joined, Settled, FinalSnapshot
<1>3. SeenIsTrue /\ Sealing /\ SealedPlace /\ SurfaceIsUp /\ BlameIsDeserved
  BY DEF Init, SeenIsTrue, Sealing, FinalSnapshot, SealedPlace, SurfaceIsUp,
         BlameIsDeserved
<1>4. TornExplained /\ Reentered /\ Unqualified
  BY <1>1, HoldersAreApart, ConfigIsTyped
     DEF Init, TornExplained, Reentered, Unqualified
<1> QED BY <1>1, <1>2, <1>3, <1>4 DEF IInv

\* Every part of the invariant holds in every reachable state.
THEOREM Invariance == Spec => []IInv
<1>1. IInv /\ [Next]_vars => IInv'
  BY TypeStep, PositionsStep, StartingStep, LifecyclesStep, StopFlagsStep,
     FailuresKnownStep, SeenIsTrueStep, JoinedStep, SealingStep,
     SealedPlaceStep, TornExplainedStep, ReenteredStep, UnqualifiedStep,
     SurfaceStep, BlameStep
     DEF IInv
<1> QED BY InitIsGood, <1>1, PTL DEF Spec

\* The forced final snapshot is the world as the process leaves it: nothing
\* that could change the world is alive once it is on disk.
THEOREM SealIsCurrent == Spec => []SealedSnapshotIsCurrent
<1>1. IInv => SealedSnapshotIsCurrent
  BY DEF IInv, Sealing, SealedPlace, SealedSnapshotIsCurrent
<1> QED BY Invariance, <1>1, PTL

\* A sealed world holds no batch broken off half-way, save that of a thread
\* that a BaseException ended unseen, and no failed worker.
THEOREM SealIsWhole == Spec => []SealedWorldIsWhole
<1>1. IInv => SealedWorldIsWhole
  <2> SUFFICES ASSUME IInv, sealed PROVE SealedWorldIsWhole
    BY DEF SealedWorldIsWhole
  <2>1. /\ failure = NoFailure /\ ~localFailure
        /\ \A w \in Worker : ~IsAlive(w)
    BY DEF IInv, Sealing, MaySeal
  <2>2. ASSUME NEW w \in Worker PROVE lifecycle[w] # "failed"
    BY <2>1 DEF IInv, FailuresKnown, IsAlive
  <2>3. ASSUME NEW s \in Source, claim[s] = "torn"
        PROVE  thread[Collector[s]] = "vanished"
    BY <2>1, <2>2, <2>3, HoldersAreApart DEF IInv, TornExplained, IsAlive
  <2>4. claim[Local] # "torn"
    BY <2>1 DEF IInv, TornExplained, SealedPlace
  <2> QED BY <2>2, <2>3, <2>4 DEF SealedWorldIsWhole
<1> QED BY Invariance, <1>1, PTL

\* The surface never shows what an earlier process left of a source that is
\* enabled now, nor, unless a stop is pending, of the local collectors.
THEOREM ServesRequalified == Spec => []ServedClaimsAreRequalified
<1>1. IInv => ServedClaimsAreRequalified
  BY DEF IInv, Reentered, Unqualified, SurfaceIsUp, ServedClaimsAreRequalified
<1> QED BY Invariance, <1>1, PTL

\* The worker that _record_worker_failure keeps has failed.
THEOREM BlamesTheFailed == Spec => []BlameIsDeserved
<1>1. IInv => BlameIsDeserved
  BY DEF IInv
<1> QED BY Invariance, <1>1, PTL

\* Within a process no step takes a lifecycle out of failed or stopped.
THEOREM FinalStates == Spec => LifecycleIsFinal
<1> DEFINE Final ==
      pc # "down" /\ exit' # "killed" =>
        \A w \in Worker : lifecycle[w] \in {"failed", "stopped"} =>
                            lifecycle'[w] = lifecycle[w]
<1>1. IInv /\ [Next]_vars => [Final]_vars
  <2> SUFFICES ASSUME IInv, Next, pc # "down", exit' # "killed",
                      NEW w \in Worker, lifecycle[w] \in {"failed", "stopped"}
               PROVE  lifecycle'[w] = lifecycle[w]
    OBVIOUS
  <2>0. TypeOK /\ Positions /\ Starting /\ Lifecycles /\ StopFlags
    BY DEF IInv
  <2>1. ~Boot /\ ~Crash
    BY DEF Boot, Crash
  <2>2. CASE UNCHANGED lifecycle
    BY <2>2
  <2>3. CASE StartWorker
    BY <2>0, <2>3, WorkerIsNat
       DEF StartWorker, MarkStarting, TypeOK, Starting, NotYetStarted,
           Lifecycles, FailedThread, StopFlags, InFinally, FinalSnapshot
  <2>4. CASE PollJudge
    <3>1. scan \in Worker
      BY <2>0, <2>4, ConfigIsTyped DEF PollJudge, Positions
    <3> QED BY <2>0, <2>4, <3>1
            DEF PollJudge, MarkFailed, SilentDeath, TypeOK, Lifecycles,
                StopFlags, InFinally, FinalSnapshot
  <2>5. CASE StopWorker
    BY <2>0, <2>5, WorkerIsNat
       DEF StopWorker, MarkStopping, TypeOK, Lifecycles, StopFlags
  <2>6. CASE JoinWorker
    BY <2>0, <2>6 DEF JoinWorker, MarkStopped, TypeOK
  <2>7. ASSUME NEW v \in Worker, WorkerStep(v)
        PROVE  lifecycle'[w] = lifecycle[w]
    BY <2>0, <2>7
       DEF WorkerStep, Step, WorkerRuns, WorkerCollects, WorkerStores,
           WorkerQualifies, WorkerRaises, WorkerFails, WorkerRecords,
           WorkerWakes, WorkerReturns, WorkerVanishes, MarkRunning, MarkFailed,
           MarkStopped, TypeOK, Lifecycles, FailedThread, IsAlive
  <2>8. MainStep => \/ UNCHANGED lifecycle
                    \/ StartWorker \/ PollJudge \/ StopWorker \/ JoinWorker
    BY DEF MainStep, StartUp, Reenter, ReenterFails, Qualify, Poll, PollRead,
           PollEnd, Collection, CollectBegin, CollectEnd, CollectRaises,
           SnapshotIfDue, Capture, Replace, SnapshotFails, Serving,
           OpenSurface, OpenFails, LoopTurn, Shutdown, JoinTimesOut,
           CloseSurface, Decide, Leave
  <2>9. RequestStop => UNCHANGED lifecycle
    BY DEF RequestStop
  <2>10. CASE MainStep
    BY <2>2, <2>3, <2>4, <2>5, <2>6, <2>8, <2>10
  <2>11. CASE RequestStop
    BY <2>2, <2>9, <2>11
  <2> QED BY <2>1, <2>7, <2>10, <2>11 DEF Next
<1> QED BY Invariance, <1>1, PTL DEF Spec, LifecycleIsFinal
=============================================================================
