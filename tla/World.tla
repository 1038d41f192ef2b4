------------------------------- MODULE World -------------------------------
(***************************************************************************)
(* The world store with everything that happens inside one of its updates: *)
(* batches of observations (bootstrap.py), the store and its lock          *)
(* (core/world/store.py), the synchronous event bus (core/events/bus.py),  *)
(* the journal and its lock (core/events/journal.py), and the health       *)
(* system as a handler of the cycle event (holons/systems/health.py).      *)
(*                                                                         *)
(* Several threads ingest, each for the entities it owns; any thread may   *)
(* read while the lock is free; the main thread writes snapshots; the      *)
(* process may crash and start again from the snapshot, and the journal    *)
(* goes on.  The journal is the last record of every component, and the    *)
(* world is a function from entities to components by kind.                *)
(*                                                                         *)
(* A process is the runtime, or the one-shot diagnostic (app.py), which    *)
(* takes the same lease, collects once and rewrites the same snapshot, but *)
(* attaches no journal to its bus.  Each process loads the thresholds of   *)
(* health, and their file may change between two of them.                  *)
(*                                                                         *)
(* The bus takes its lock only to copy its registry, so publishing is not  *)
(* a step that can be interrupted; the order in which an event reaches the *)
(* journal and the handlers is the order of the steps below.               *)
(***************************************************************************)
EXTENDS Health, FiniteSets

CONSTANTS
  Thread,    \* threads that ingest
  Main,      \* the one of them that owns the snapshot
  NoThread,
  Entity,
  Owner,     \* the thread that ingests for each entity
  Kinds,     \* the kinds of component each entity may have
  Topology,  \* what reconcile_topology stores, as items of a batch
  Batches,   \* the batches of observations that may arrive for each entity
  Cycles,    \* the entities whose batches publish a cycle event
  Thresholds \* the contents that config/health.json may have

ASSUME ThreadAssumption == Main \in Thread /\ NoThread \notin Thread
ASSUME EntityAssumption ==
  /\ Owner \in [Entity -> Thread]
  /\ Cycles \subseteq Entity

\* Batches are sequences, and the topology is reconciled by the main thread.
ASSUME BatchesAssumption ==
  /\ \A e \in Entity : \A batch \in Batches[e] :
       Len(batch) \in Nat /\ DOMAIN batch = 1..Len(batch)
  /\ Topology \in Seq({Topology[i] : i \in DOMAIN Topology})
  /\ \A i \in DOMAIN Topology :
       Topology[i].entity \in Entity /\ Owner[Topology[i].entity] = Main

VARIABLES
  run,       \* is there a process, and is it stopping
  process,   \* that process, or the last one
  left,      \* what a diagnostic has still to collect
  judged,    \* the entities whose health this process has evaluated
  world,     \* WorldState.entities
  lock,      \* the thread that holds the lock of the world
  pen,       \* the thread that holds the write lock of the journal
  thread,    \* where each thread is in its batch
  journal,   \* the last component recorded of each entity and kind
  disk,      \* the snapshot
  shot,      \* the content of a snapshot that is being written
  lag,       \* <<e, k>>: the restored component is not the one on record
  orderly    \* the last process sealed its snapshot

self == <<process, left, judged>>
vars == <<run, self, world, lock, pen, thread, journal, disk, shot, lag, orderly>>
durable == <<journal, disk, lag, orderly>>

\* The runtime, with a journal, or a diagnostic, without one.
Processes == [thresholds : Thresholds, journals : BOOLEAN]

Local == {e \in Entity : Owner[e] = Main}

Empty == [e \in Entity |-> [k \in Kinds[e] |-> None]]

Idle == [at |-> "idle", todo |-> <<>>, significance |-> "sample"]

\* What a thread has still to do: components to store, and cycle events.
Item(e, component) == [entity |-> e, component |-> component]
CycleEvent == [kind |-> "cycle"]

\* Cycles are published by the main thread, for entities that have a health;
\* the topology says nothing that bears on it.
ASSUME CyclesAssumption ==
  /\ CycleEvent # None
  /\ \A e \in Cycles : Owner[e] = Main /\ {"observation", "health"} \subseteq Kinds[e]
  /\ \A i \in DOMAIN Topology : Topology[i].component.kind = "node"

-----------------------------------------------------------------------------
(* What ingesting a batch of observations has to do                        *)

\* The times are left out; succeeded stands for a last_success_at.
ObservationState(e, batch) ==
  [kind |-> "observation", availability |-> Availability(batch),
   reasons |-> Reasons(batch),
   succeeded |-> \/ Successful(batch)
                 \/ /\ world[e]["observation"] # None
                    /\ world[e]["observation"].succeeded]

\* One item for each observation; its component is None if it has no value.
Values(e, batch) == [i \in DOMAIN batch |-> Item(e, batch[i].value)]

Cycle(e) == IF e \in Cycles THEN <<Item(e, CycleEvent)>> ELSE <<>>

\* Slip: the cycle is published before the batch is qualified.
TodoEarlyCycle(e, batch) ==
  Append(Values(e, batch) \o Cycle(e), Item(e, ObservationState(e, batch)))

\* Values first, what qualifies them next, then the cycle event.
Todo(e, batch) ==
  Append(Values(e, batch), Item(e, ObservationState(e, batch))) \o Cycle(e)

-----------------------------------------------------------------------------
At(t, place) == run # "off" /\ thread[t].at = place
Where(t)     == Head(thread[t].todo).entity
What(t)      == Head(thread[t].todo).component
Stored(t)    == world[Where(t)][What(t).kind]

\* Slip: a thread goes on when nothing is left.
RestForEver(th) == [th EXCEPT !.at = "observe", !.todo = Tail(@)]

\* The thread goes on with what is left of its batch.
Rest(th) ==
  IF Len(th.todo) <= 1 THEN Idle
  ELSE [th EXCEPT !.at = "observe", !.todo = Tail(@)]

\* ingest_observation_batch, up to its first call of _observe.  A diagnostic
\* has no workers, and collect_once takes each local entity once.
Begin(t, e, batch) ==
  /\ At(t, "idle") /\ run = "up" /\ lock = NoThread
  /\ Owner[e] = t
  /\ process.journals \/ e \in left
  /\ left' = left \ {e}
  /\ thread' = [thread EXCEPT ![t] =
       [Idle EXCEPT !.at = "observe", !.todo = Todo(e, batch)]]
  /\ UNCHANGED <<run, process, judged, world, lock, pen, shot, durable>>

\* An observation without a value: what was observed before stays as it is.
Pass(t) ==
  /\ At(t, "observe") /\ What(t) = None
  /\ thread' = [thread EXCEPT ![t] = Rest(@)]
  /\ UNCHANGED <<run, self, world, lock, pen, shot, durable>>

\* _observe: the previous component is read, and the change is weighed.
Observe(t) ==
  /\ At(t, "observe") /\ What(t) \notin {None, CycleEvent} /\ lock = NoThread
  /\ thread' = [thread EXCEPT ![t].at = "enter",
                  ![t].significance =
                    Significance(Stored(t), What(t), process.thresholds)]
  /\ UNCHANGED <<run, self, world, lock, pen, shot, durable>>

\* An ObservationState carries the time of its check: no two are equal.
Same(previous, component) ==
  previous = component /\ component.kind # "observation"

\* upsert_component: nothing happens if the component is there already ...
Skip(t) ==
  /\ At(t, "enter") /\ lock = NoThread
  /\ Same(Stored(t), What(t))
  /\ thread' = [thread EXCEPT ![t] = Rest(@)]
  /\ UNCHANGED <<run, self, world, lock, pen, shot, durable>>

\* Slip: the event is published when the lock has been released.
StoreAndRelease(t) ==
  /\ At(t, "enter") /\ lock = NoThread
  /\ ~Same(Stored(t), What(t))
  /\ world' = [world EXCEPT ![Where(t)][What(t).kind] = What(t)]
  /\ thread' = [thread EXCEPT ![t].at = "publish"]
  /\ UNCHANGED <<run, self, lock, pen, shot, durable>>

\* ... or it is stored, and its event is published under the lock.
Store(t) ==
  /\ At(t, "enter") /\ lock = NoThread
  /\ ~Same(Stored(t), What(t))
  /\ world' = [world EXCEPT ![Where(t)][What(t).kind] = What(t)]
  /\ lock' = t
  /\ thread' = [thread EXCEPT ![t].at = "publish"]
  /\ UNCHANGED <<run, self, pen, shot, durable>>

\* EventJournal.record: a sample is not recorded, and the update is over; so
\* it is when no journal listens ...
Ignore(t) ==
  /\ At(t, "publish")
  /\ thread[t].significance = "sample" \/ ~process.journals
  /\ lock' = NoThread
  /\ thread' = [thread EXCEPT ![t] = Rest(@)]
  /\ UNCHANGED <<run, self, world, pen, shot, durable>>

\* ... anything else waits for the journal ...
TakePen(t) ==
  /\ At(t, "publish") /\ thread[t].significance = "material"
  /\ process.journals /\ pen = NoThread
  /\ pen' = t
  /\ thread' = [thread EXCEPT ![t].at = "write"]
  /\ UNCHANGED <<run, self, world, lock, shot, durable>>

\* ... and is appended to it, which ends the update as well.
Record(t) ==
  /\ At(t, "write")
  /\ journal' = [journal EXCEPT ![Where(t)][What(t).kind] = What(t)]
  /\ lag' = lag \ {<<Where(t), What(t).kind>>}
  /\ pen' = NoThread /\ lock' = NoThread
  /\ thread' = [thread EXCEPT ![t] = Rest(@)]
  /\ UNCHANGED <<run, self, world, disk, shot, orderly>>

\* The file cannot be opened or written: the exception leaves both locks and
\* every caller; the component stays in the world.
RecordFails(t) ==
  /\ At(t, "write")
  /\ pen' = NoThread /\ lock' = NoThread
  /\ thread' = [thread EXCEPT ![t] = [Idle EXCEPT !.at = "failed"]]
  /\ UNCHANGED <<run, self, world, shot, durable>>

\* The handler of the cycle event: health, if it is not what is stored.
Derive(t) ==
  LET health == Evaluate(world[Where(t)], process.thresholds)
  IN /\ At(t, "observe") /\ What(t) = CycleEvent /\ lock = NoThread
     /\ thread' = [thread EXCEPT ![t] =
          IF world[Where(t)]["health"] = health THEN Rest(@)
          ELSE [@ EXCEPT !.at = "enter", !.significance = "material",
                         !.todo = <<Item(Where(t), health)>> \o Tail(thread[t].todo)]]
     /\ judged' = judged \union {Where(t)}
     /\ UNCHANGED <<run, process, left, world, lock, pen, shot, durable>>

-----------------------------------------------------------------------------
(* The process                                                             *)

\* What a journal that is read from its beginning says of a component: all of
\* its signature, except the signal of a link, which may change unrecorded.
Durable(c, t) ==
  IF c = None THEN None
  ELSE CASE c.kind = "wifi"   -> c.meaning
         [] c.kind = "uptime" -> None
         [] OTHER             -> Signature(c, t)

\* The components there may be, each as <<entity, kind>>.
Components == UNION {{e} \X Kinds[e] : e \in Entity}

Unrecorded(w, t) ==
  {c \in Components :
     /\ w[c[1]][c[2]] # None
     /\ Durable(w[c[1]][c[2]], t) # Durable(journal[c[1]][c[2]], t)}

\* create_context, then reconcile_topology in the main thread.
Boot(p) ==
  /\ run = "off"
  /\ run' = "up" /\ process' = p
  /\ left' = IF p.journals THEN {} ELSE Local
  /\ judged' = {}
  /\ world' = disk
  /\ lag' = Unrecorded(disk, p.thresholds)
  /\ thread' = [thread EXCEPT ![Main] =
       IF Topology = <<>> THEN Idle
       ELSE [Idle EXCEPT !.at = "observe", !.todo = Topology]]
  /\ UNCHANGED <<lock, pen, journal, disk, shot, orderly>>

\* write_json, the content: read under the lock by the idle main thread.
Capture ==
  /\ run = "up" /\ process.journals
  /\ At(Main, "idle") /\ lock = NoThread
  /\ shot' = world
  /\ thread' = [thread EXCEPT ![Main].at = "save"]
  /\ UNCHANGED <<run, self, world, lock, pen, durable>>

\* write_json, the rename.
Replace ==
  /\ At(Main, "save")
  /\ disk' = shot
  /\ shot' = Empty
  /\ thread' = [thread EXCEPT ![Main] = Idle]
  /\ UNCHANGED <<run, self, world, lock, pen, journal, lag, orderly>>

Stop ==
  /\ run = "up" /\ process.journals
  /\ run' = "stopping"
  /\ UNCHANGED <<self, world, lock, pen, thread, shot, durable>>

Gone ==
  /\ run' = "off" /\ left' = {} /\ judged' = {}
  /\ world' = Empty /\ shot' = Empty
  /\ lock' = NoThread /\ pen' = NoThread
  /\ thread' = [t \in Thread |-> Idle]

Failed == {t \in Thread : thread[t].at = "failed"}

\* Slip: the final snapshot is written whoever has failed.
LeaveAnyway ==
  /\ run = "stopping"
  /\ \A t \in Thread : thread[t].at \in {"idle", "failed"}
  /\ disk' = world
  /\ orderly' = TRUE
  /\ Gone
  /\ UNCHANGED <<process, journal, lag>>

\* Every thread has ended: the final snapshot, unless one has failed.
Leave ==
  /\ run = "stopping"
  /\ \A t \in Thread : thread[t].at \in {"idle", "failed"}
  /\ disk' = IF Failed = {} THEN world ELSE disk
  /\ orderly' = (Failed = {})
  /\ Gone
  /\ UNCHANGED <<process, journal, lag>>

\* app.py: what a diagnostic has collected is written, and the process ends.
Finish ==
  /\ run = "up" /\ ~process.journals
  /\ At(Main, "idle") /\ left = {}
  /\ disk' = world
  /\ orderly' = TRUE
  /\ Gone
  /\ UNCHANGED <<process, journal, lag>>

Crash ==
  /\ run # "off"
  /\ orderly' = FALSE
  /\ Gone
  /\ UNCHANGED <<process, journal, disk, lag>>

Init ==
  /\ run = "off"
  /\ process \in Processes /\ left = {} /\ judged = {}
  /\ world = Empty
  /\ lock = NoThread /\ pen = NoThread
  /\ thread = [t \in Thread |-> Idle]
  /\ journal = Empty /\ disk = Empty /\ shot = Empty
  /\ lag = {}
  /\ orderly = TRUE

Step(t) ==
  \/ Pass(t) \/ Observe(t) \/ Skip(t) \/ Store(t) \/ Ignore(t)
  \/ TakePen(t) \/ Record(t) \/ RecordFails(t) \/ Derive(t)

Arrival(t) == \E e \in Entity : \E batch \in Batches[e] : Begin(t, e, batch)

Next ==
  \/ \E t \in Thread : Arrival(t) \/ Step(t)
  \/ \E p \in Processes : Boot(p)
  \/ Capture \/ Replace \/ Stop \/ Leave \/ Finish \/ Crash

Spec == Init /\ [][Next]_vars

-----------------------------------------------------------------------------
Places == {"idle", "observe", "enter", "publish", "write", "save", "failed"}

TypeOK ==
  /\ run \in {"off", "up", "stopping"}
  /\ process \in Processes
  /\ left \subseteq Local /\ judged \subseteq Entity
  /\ \A w \in {world, journal, disk, shot} :
       \A e \in Entity : \A k \in Kinds[e] : w[e][k] = None \/ w[e][k].kind = k
  /\ lock \in Thread \union {NoThread}
  /\ pen \in {NoThread, lock}
  /\ \A t \in Thread :
       /\ thread[t].at \in Places
       /\ thread[t].significance \in {"sample", "material"}
       /\ thread[t].todo = <<>> <=> thread[t].at \in {"idle", "save", "failed"}
  /\ lag \subseteq Components
  /\ orderly \in BOOLEAN

\* Whoever reads the world, while nobody is inside an update of it, finds
\* nothing that the journal does not have: for each component the last record
\* has its meaning and its band.  Excepted are entities whose thread has
\* failed, whose last update may be unrecorded, what a snapshot older than the
\* journal brought back, and what a diagnostic, which has no journal, collects
\* (app.py:24-31).  (store.py publishes inside the lock.)
ReadableIsRecorded ==
  run # "off" =>
    \A c \in Unrecorded(world, process.thresholds) :
      \/ lock = Owner[c[1]]
      \/ Owner[c[1]] \in Failed
      \/ c \in lag
      \/ ~process.journals /\ c[1] \in Local

\* Between its batches, the health of an entity is the one that its components
\* give (bootstrap.py: values, state, cycle event, in this order): under the
\* thresholds of this process, once it has evaluated the entity; until then,
\* after a restart from a snapshot that was taken at any time, under those of
\* an earlier process, which may be others (runtime.py:212-216).
HealthFollowsTelemetry ==
  \A e \in Cycles :
    /\ At(Owner[e], "idle")
    /\ world[e]["observation"] # None
    => \E t \in Thresholds :
         /\ world[e]["health"] = Evaluate(world[e], t)
         /\ e \in judged => t = process.thresholds

\* A process that starts after one that ended in order restores nothing that
\* differs from the journal, except what already did when it was last restored;
\* what a diagnostic collected, which has no journal (app.py:24-31); and levels
\* that other thresholds place in other bands (health.json has changed).
OrderlyStopAddsNoLag ==
  [][run = "off" /\ run' = "up" /\ orderly =>
       \A c \in lag' \ lag :
         \/ ~process.journals /\ c[1] \in Local
         \/ process.thresholds # process'.thresholds /\ c[2] \in BandedKinds]_vars
=============================================================================
