----------------------------- MODULE WorldProofs -----------------------------
(***************************************************************************)
(* Theorems about World, for every set of threads and entities, all kinds  *)
(* of component and all batches.  First: ReadableIsRecorded and what       *)
(* follows of an orderly stop; then HealthFollowsTelemetry.                *)
(*                                                                         *)
(* The property speaks of the moments at which the lock is free; what it   *)
(* rests on is what a thread knows before it takes the lock.  A thread     *)
(* weighs a change without the lock and stores it later; that its          *)
(* significance still holds then is because nobody else writes for its     *)
(* entities.  So the invariant has who owns what a thread has to do, what  *)
(* a weighed change is relative to the world, and that the only component  *)
(* that may be unrecorded is the one that the holder of the lock is about  *)
(* to record.                                                              *)
(***************************************************************************)
EXTENDS World, SequenceTheorems, TLAPS

-----------------------------------------------------------------------------
(* What a thread has to do                                                 *)

\* Items for entities that t owns.
Worklist(t, todo) ==
  \E S : /\ todo \in Seq(S)
         /\ \A w \in S : w.entity \in Entity /\ Owner[w.entity] = t

LEMMA NothingToDo == \A t : Worklist(t, <<>>)
<1> SUFFICES ASSUME NEW t PROVE Worklist(t, <<>>)
  OBVIOUS
<1> DEFINE S == {}
<1>1. <<>> \in Seq(S) /\ \A w \in S : w.entity \in Entity /\ Owner[w.entity] = t
  OBVIOUS
<1> HIDE DEF S
<1> QED BY <1>1 DEF Worklist

LEMMA FirstToDo ==
  ASSUME NEW t, NEW todo, Worklist(t, todo), todo # <<>>
  PROVE  /\ Head(todo).entity \in Entity /\ Owner[Head(todo).entity] = t
         /\ Worklist(t, Tail(todo))
         /\ Len(todo) > 1 => Tail(todo) # <<>>
<1>1. PICK S : todo \in Seq(S) /\ \A w \in S : w.entity \in Entity /\ Owner[w.entity] = t
  BY DEF Worklist
<1>2. Head(todo) \in S /\ Tail(todo) \in Seq(S) /\ Len(Tail(todo)) = Len(todo) - 1
  BY <1>1
<1>3. Worklist(t, Tail(todo))
  BY <1>1, <1>2 DEF Worklist
<1>4. Len(todo) > 1 => Tail(todo) # <<>>
  <2>1. Len(<<>>) = 0
    OBVIOUS
  <2>2. Len(todo) > 1 => Len(Tail(todo)) # 0
    BY <1>1, <1>2
  <2> QED BY <2>1, <2>2
<1>5. Head(todo).entity \in Entity /\ Owner[Head(todo).entity] = t
  BY <1>1, <1>2
<1> QED BY <1>3, <1>4, <1>5

LEMMA AllToDo ==
  ASSUME NEW e \in Entity, NEW batch \in Batches[e]
  PROVE  Worklist(Owner[e], Todo(e, batch)) /\ Todo(e, batch) # <<>>
<1> DEFINE S == {w \in {Values(e, batch)[i] : i \in DOMAIN batch}
                        \union {Item(e, ObservationState(e, batch)), Item(e, CycleEvent)} :
                   w.entity = e}
           T == Append(Values(e, batch), Item(e, ObservationState(e, batch)))
<1>1. \A c : Item(e, c).entity = e
  BY DEF Item
<1>2. Values(e, batch) \in [1..Len(batch) -> S]
  BY <1>1, BatchesAssumption DEF Values
<1>3. Values(e, batch) \in Seq(S)
  BY <1>2, BatchesAssumption
<1>4. Item(e, ObservationState(e, batch)) \in S /\ Item(e, CycleEvent) \in S
  BY <1>1
<1>5. T \in Seq(S) /\ Len(T) # 0
  BY <1>3, <1>4
<1>6. Cycle(e) \in Seq(S)
  <2> DEFINE item == Item(e, CycleEvent)
  <2>1. item \in S
    BY <1>4
  <2>2. Cycle(e) = <<item>> \/ Cycle(e) = <<>>
    BY DEF Cycle
  <2> HIDE DEF item, S
  <2>3. <<item>> \in Seq(S) /\ <<>> \in Seq(S)
    BY <2>1
  <2> QED BY <2>2, <2>3
<1>7. Todo(e, batch) = T \o Cycle(e)
  BY DEF Todo
<1>8. \A w \in S : w.entity = e
  OBVIOUS
<1> HIDE DEF S, T
<1>9. Todo(e, batch) \in Seq(S) /\ Len(Todo(e, batch)) # 0
  BY <1>5, <1>6, <1>7
<1> QED BY <1>8, <1>9 DEF Worklist

LEMMA HealthToDo ==
  ASSUME NEW t, NEW todo, Worklist(t, todo), todo # <<>>, NEW c
  PROVE  LET new == <<Item(Head(todo).entity, c)>> \o Tail(todo)
         IN Worklist(t, new) /\ new # <<>>
<1>1. PICK S : todo \in Seq(S) /\ \A w \in S : w.entity \in Entity /\ Owner[w.entity] = t
  BY DEF Worklist
<1> DEFINE item == Item(Head(todo).entity, c)
           U == S \union {item}
<1>2. item.entity = Head(todo).entity
  BY DEF Item
<1>3. \A w \in U : w.entity \in Entity /\ Owner[w.entity] = t
  BY <1>1, <1>2
<1> HIDE DEF item
<1>4. <<item>> \in Seq(U) /\ Tail(todo) \in Seq(U) /\ Len(<<item>>) = 1
  BY <1>1
<1>5. <<item>> \o Tail(todo) \in Seq(U) /\ Len(<<item>> \o Tail(todo)) # 0
  BY <1>4
<1> QED BY <1>3, <1>5 DEF Worklist, item

LEMMA TopologyToDo == Worklist(Main, Topology)
<1> DEFINE S == {Topology[i] : i \in DOMAIN Topology}
<1>1. Topology \in Seq(S) /\ \A w \in S : w.entity \in Entity /\ Owner[w.entity] = Main
  BY BatchesAssumption
<1> QED BY <1>1 DEF Worklist

-----------------------------------------------------------------------------
\* A change that is a sample leaves what the journal has to say as it is.
LEMMA SampleIs ==
  ASSUME NEW previous, NEW c, NEW h, c # None,
         previous # None => previous.kind = c.kind,
         Significance(previous, c, h) = "sample"
  PROVE  previous # None /\ Durable(c, h) = Durable(previous, h)
<1>1. previous # None /\ previous.kind = c.kind
  BY DEF Significance
<1>2. c.kind \notin {"uptime", "wifi"} => Signature(previous, h) = Signature(c, h)
  BY <1>1 DEF Significance
<1>3. c.kind = "wifi" => previous.meaning = c.meaning
  BY <1>1 DEF Significance, SameLink
<1> QED BY <1>1, <1>2, <1>3 DEF Durable

LEMMA SignificanceType ==
  \A previous, c, h : Significance(previous, c, h) \in {"sample", "material"}
BY DEF Significance

-----------------------------------------------------------------------------
(* The inductive invariant                                                 *)

IsWorld(w) ==
  /\ DOMAIN w = Entity
  /\ \A e \in Entity :
       /\ DOMAIN w[e] = Kinds[e]
       /\ \A k \in Kinds[e] : w[e][k] = None \/ w[e][k].kind = k

\* What a component says under the thresholds of this process.
Says(c) == Durable(c, process.thresholds)

\* What is collected for e while no journal listens.
Unheard(e) == ~process.journals /\ e \in Local

\* The change that t has weighed and not yet stored is still what it was.
Weighed(t) ==
  What(t).kind \in Kinds[Where(t)] =>
    Stored(t) # None /\ Says(What(t)) = Says(Stored(t))

Written(t) == What(t).kind \in Kinds[Where(t)] => Stored(t) = What(t)

InUpdate == {"publish", "write"}

Own(t) ==
  /\ DOMAIN thread[t] = {"at", "todo", "significance"}
  /\ Worklist(t, thread[t].todo)
  /\ thread[t].at \in {"observe", "enter"} \union InUpdate => thread[t].todo # <<>>
  /\ thread[t].significance \in {"sample", "material"}
  /\ lock = t <=> thread[t].at \in InUpdate
  /\ thread[t].at = "enter" /\ thread[t].significance = "sample" => Weighed(t)
  /\ thread[t].at \in InUpdate => Written(t)

\* The component that the holder of the lock is about to record.
Pending(e, k) ==
  /\ lock = Owner[e]
  /\ Where(lock) = e /\ What(lock).kind = k
  /\ thread[lock].significance = "material"

Settled(e, k) ==
  \/ <<e, k>> \in lag
  \/ world[e][k] = None
  \/ Says(world[e][k]) = Says(journal[e][k])

Known(e) ==
  \A k \in Kinds[e] :
    Settled(e, k) \/ Owner[e] \in Failed \/ Pending(e, k) \/ Unheard(e)

\* In a diagnostic nobody but the main thread does anything.
Alone == process.journals \/ \A t \in Thread \ {Main} : thread[t] = Idle

Worlds == IsWorld(world) /\ IsWorld(journal) /\ IsWorld(disk) /\ IsWorld(shot)

WorldInv ==
  /\ DOMAIN thread = Thread
  /\ Worlds
  /\ lock \in Thread \union {NoThread}
  /\ \A t \in Thread : Own(t)
  /\ run = "off" => /\ lock = NoThread /\ world = Empty
                    /\ \A t \in Thread : thread[t] = Idle
  /\ \A e \in Entity : Known(e)
  /\ process \in Processes /\ Alone /\ left \subseteq Local

LEMMA EmptyIs == IsWorld(Empty)
BY DEF IsWorld, Empty

LEMMA IdleIs ==
  /\ DOMAIN Idle = {"at", "todo", "significance"}
  /\ Idle.at = "idle" /\ Idle.todo = <<>> /\ Idle.significance = "sample"
BY DEF Idle

LEMMA InitWorld == Init => WorldInv
<1> SUFFICES ASSUME Init PROVE WorldInv
  OBVIOUS
<1>1. Worlds
  BY EmptyIs DEF Init, Worlds
<1>2. \A t \in Thread : Own(t)
  BY IdleIs, NothingToDo, ThreadAssumption DEF Init, Own, InUpdate
<1>3. \A e \in Entity : Known(e)
  BY DEF Init, Known, Settled, Empty
<1> QED BY <1>1, <1>2, <1>3 DEF Init, WorldInv, Alone

\* A step of one thread leaves to the others what is theirs.
LEMMA StepOf ==
  ASSUME WorldInv, NEW t \in Thread,
         run # "off", run' # "off",
         process' = process, left' \subseteq left,
         thread[t].at # "idle" \/ process.journals \/ t = Main,
         DOMAIN thread' = Thread,
         \A u \in Thread \ {t} : thread'[u] = thread[u],
         lock' = lock \/ {lock, lock'} \subseteq {t, NoThread},
         \A e \in Entity : Owner[e] # t =>
           /\ world'[e] = world[e] /\ journal'[e] = journal[e]
           /\ \A k : <<e, k>> \in lag' <=> <<e, k>> \in lag,
         Worlds',
         Own(t)',
         \A e \in Entity : Owner[e] = t => Known(e)'
  PROVE  WorldInv'
<1>1. \A u \in Thread \ {t} : lock' = u <=> lock = u
  BY ThreadAssumption
<1>2. ASSUME NEW u \in Thread \ {t} PROVE Own(u)'
  <2>1. Own(u) /\ thread'[u] = thread[u]
    BY DEF WorldInv
  <2>2. thread[u].todo # <<>> => /\ Where(u) \in Entity /\ Owner[Where(u)] = u
    BY <2>1, FirstToDo DEF Own, Where
  <2>3. /\ Where(u)' = Where(u) /\ What(u)' = What(u)
        /\ thread[u].todo # <<>> => Stored(u)' = Stored(u)
    BY <2>1, <2>2 DEF Where, What, Stored
  <2>4. thread[u].todo # <<>> => Weighed(u)' = Weighed(u) /\ Written(u)' = Written(u)
    BY <2>3 DEF Weighed, Written, Says
  <2>5. thread[u].at = "enter" => thread[u].todo # <<>>
    BY <2>1 DEF Own
  <2>6. thread[u].at \in InUpdate => thread[u].todo # <<>>
    BY <2>1 DEF Own
  <2> QED BY <1>1, <2>1, <2>4, <2>5, <2>6 DEF Own
<1>3. ASSUME NEW e \in Entity, Owner[e] # t PROVE Known(e)'
  <2>1. Owner[e] \in Thread \ {t}
    BY <1>3, EntityAssumption
  <2>2. Known(e) /\ thread'[Owner[e]] = thread[Owner[e]]
    BY <2>1 DEF WorldInv
  <2>3. Owner[e] \in Failed <=> Owner[e] \in Failed'
    BY <2>2 DEF Failed
  <2>4. (\A k : Settled(e, k)' <=> Settled(e, k)) /\ (Unheard(e)' <=> Unheard(e))
    BY <1>3 DEF Settled, Says, Unheard
  <2>5. ASSUME NEW k, Pending(e, k) PROVE Pending(e, k)'
    <3>1. lock = Owner[e] /\ lock' = Owner[e]
      BY <1>1, <2>1, <2>5 DEF Pending
    <3> QED BY <2>2, <2>5, <3>1 DEF Pending, Where, What
  <2> QED BY <2>2, <2>3, <2>4, <2>5 DEF Known
<1>4. lock' \in Thread \union {NoThread}
  BY DEF WorldInv
<1>5. \A u \in Thread : Own(u)'
  BY <1>2
<1>6. \A e \in Entity : Known(e)'
  BY <1>3
<1>7. process' \in Processes /\ Alone' /\ left' \subseteq Local
  BY IdleIs DEF WorldInv, Alone
<1> QED BY <1>4, <1>5, <1>6, <1>7 DEF WorldInv

\* What t has ingested is settled while it is in no update.
LEMMA OwnSettled ==
  ASSUME WorldInv, NEW t \in Thread, lock # t, t \notin Failed,
         NEW e \in Entity, Owner[e] = t, NEW k \in Kinds[e]
  PROVE  Settled(e, k) \/ Unheard(e)
BY DEF WorldInv, Known, Pending

\* A step that moves a thread and touches nothing else.
LEMMA PrivateStep ==
  ASSUME WorldInv, NEW t \in Thread,
         run # "off", run' # "off", lock # t, t \notin Failed,
         UNCHANGED <<process, world, lock, journal, lag>>, left' \subseteq left,
         thread[t].at # "idle" \/ process.journals \/ t = Main,
         DOMAIN thread' = Thread,
         \A u \in Thread \ {t} : thread'[u] = thread[u],
         Worlds', Own(t)'
  PROVE  WorldInv'
<1>1. ASSUME NEW e \in Entity, Owner[e] = t PROVE Known(e)'
  <2>1. ASSUME NEW k \in Kinds[e] PROVE Settled(e, k)' \/ Unheard(e)'
    <3>1. Settled(e, k) \/ Unheard(e)
      BY <1>1, OwnSettled
    <3> QED BY <3>1 DEF Settled, Says, Unheard
  <2> QED BY <2>1 DEF Known
<1> QED BY <1>1, StepOf

LEMMA RestIs ==
  ASSUME NEW t, NEW th, DOMAIN th = {"at", "todo", "significance"},
         Worklist(t, th.todo), th.todo # <<>>,
         th.significance \in {"sample", "material"}
  PROVE  /\ DOMAIN Rest(th) = {"at", "todo", "significance"}
         /\ Worklist(t, Rest(th).todo)
         /\ Rest(th).at \in {"idle", "observe"}
         /\ Rest(th).at = "observe" => Rest(th).todo # <<>>
         /\ Rest(th).significance \in {"sample", "material"}
<1>1. CASE Len(th.todo) <= 1
  <2>1. Rest(th) = Idle
    BY <1>1 DEF Rest
  <2> QED BY <2>1, IdleIs, NothingToDo
<1>2. CASE ~(Len(th.todo) <= 1)
  <2>1. Rest(th) = [th EXCEPT !.at = "observe", !.todo = Tail(@)]
    BY <1>2 DEF Rest
  <2>2. PICK S : th.todo \in Seq(S)
    BY DEF Worklist
  <2>3. Len(th.todo) > 1
    BY <1>2, <2>2
  <2>4. Worklist(t, Tail(th.todo)) /\ Tail(th.todo) # <<>>
    BY <2>3, FirstToDo
  <2>5. Rest(th).todo = Tail(th.todo) /\ Rest(th).at = "observe"
        /\ Rest(th).significance = th.significance
    BY <2>1
  <2> QED BY <2>1, <2>4, <2>5
<1> QED BY <1>1, <1>2

\* A thread that has rested is in order, whatever else has changed.
LEMMA RestOwn ==
  ASSUME WorldInv, NEW t \in Thread, thread[t].todo # <<>>,
         thread' = [thread EXCEPT ![t] = Rest(@)], lock' # t
  PROVE  Own(t)' /\ t \notin Failed'
<1>1. thread'[t] = Rest(thread[t])
  BY DEF WorldInv
<1>2. Own(t)
  BY DEF WorldInv
<1>3. /\ DOMAIN thread'[t] = {"at", "todo", "significance"}
      /\ Worklist(t, thread'[t].todo)
      /\ thread'[t].at \in {"idle", "observe"}
      /\ thread'[t].at = "observe" => thread'[t].todo # <<>>
      /\ thread'[t].significance \in {"sample", "material"}
  BY <1>1, <1>2, RestIs DEF Own
<1> QED BY <1>3 DEF Own, InUpdate, Failed

-----------------------------------------------------------------------------
(* The steps of a thread outside an update                                 *)

LEMMA BeginStep ==
  ASSUME WorldInv, NEW t \in Thread, NEW e \in Entity, NEW batch \in Batches[e],
         Begin(t, e, batch)
  PROVE  WorldInv'
<1> DEFINE todo == Todo(e, batch)
<1>1. Worklist(t, todo) /\ todo # <<>>
  BY AllToDo DEF Begin
<1> HIDE DEF todo
<1>2. thread' = [thread EXCEPT ![t] = [Idle EXCEPT !.at = "observe", !.todo = todo]]
  BY DEF Begin, todo
<1>3. /\ DOMAIN thread'[t] = {"at", "todo", "significance"}
      /\ thread'[t].at = "observe" /\ thread'[t].todo = todo
      /\ thread'[t].significance = "sample"
  BY <1>2, IdleIs DEF WorldInv
<1>4. lock # t /\ lock' = lock /\ t \notin Failed /\ run # "off" /\ run' # "off"
  BY ThreadAssumption DEF Begin, At, Failed
<1>5. Own(t)'
  BY <1>1, <1>3, <1>4 DEF Own, InUpdate
<1>6. Worlds' /\ UNCHANGED <<process, world, lock, journal, lag>>
  BY DEF Begin, durable, WorldInv, Worlds
<1>7. left' \subseteq left /\ (process.journals \/ t = Main)
  BY DEF Begin, WorldInv, Local
<1> QED BY <1>2, <1>4, <1>5, <1>6, <1>7, PrivateStep DEF WorldInv

LEMMA PassStep ==
  ASSUME WorldInv, NEW t \in Thread, Pass(t) PROVE WorldInv'
<1>1. thread' = [thread EXCEPT ![t] = Rest(@)]
  BY DEF Pass
<1>2. Own(t) /\ thread[t].at = "observe" /\ run # "off" /\ run' # "off"
  BY DEF WorldInv, Pass, At
<1>3. lock # t /\ lock' = lock /\ t \notin Failed /\ thread[t].todo # <<>>
  BY <1>2 DEF Own, InUpdate, Failed, Pass
<1>4. Own(t)'
  BY <1>1, <1>3, RestOwn
<1>5. Worlds' /\ UNCHANGED <<process, left, world, lock, journal, lag>>
  BY DEF Pass, self, durable, WorldInv, Worlds
<1> QED BY <1>1, <1>2, <1>3, <1>4, <1>5, PrivateStep DEF WorldInv

LEMMA SkipStep ==
  ASSUME WorldInv, NEW t \in Thread, Skip(t) PROVE WorldInv'
<1>1. thread' = [thread EXCEPT ![t] = Rest(@)]
  BY DEF Skip
<1>2. Own(t) /\ thread[t].at = "enter" /\ run # "off" /\ run' # "off"
  BY DEF WorldInv, Skip, At
<1>3. lock # t /\ lock' = lock /\ t \notin Failed /\ thread[t].todo # <<>>
  BY <1>2 DEF Own, InUpdate, Failed, Skip
<1>4. Own(t)'
  BY <1>1, <1>3, RestOwn
<1>5. Worlds' /\ UNCHANGED <<process, left, world, lock, journal, lag>>
  BY DEF Skip, self, durable, WorldInv, Worlds
<1> QED BY <1>1, <1>2, <1>3, <1>4, <1>5, PrivateStep DEF WorldInv

LEMMA ObserveStep ==
  ASSUME WorldInv, NEW t \in Thread, Observe(t) PROVE WorldInv'
<1>1. Own(t) /\ thread[t].at = "observe" /\ run # "off" /\ run' # "off"
  BY DEF WorldInv, Observe, At
<1>2. lock # t /\ lock' = lock /\ t \notin Failed /\ thread[t].todo # <<>>
  BY <1>1 DEF Own, InUpdate, Failed, Observe
<1>3. PICK e, k, c, previous :
        /\ e = Where(t) /\ c = What(t) /\ k = c.kind /\ previous = Stored(t)
  OBVIOUS
<1>4. /\ DOMAIN thread'[t] = {"at", "todo", "significance"}
      /\ thread'[t].at = "enter" /\ thread'[t].todo = thread[t].todo
      /\ thread'[t].significance = Significance(previous, c, process.thresholds)
  BY <1>1, <1>3 DEF WorldInv, Observe, Own
<1>5. e \in Entity /\ Owner[e] = t
  BY <1>1, <1>2, <1>3, FirstToDo DEF Own, Where
<1>6. Where(t)' = e /\ What(t)' = c /\ Stored(t)' = previous
      /\ previous = world[e][k]
  BY <1>3, <1>4 DEF Where, What, Stored, Observe
<1>7. k \in Kinds[e] => previous = None \/ previous.kind = k
  BY <1>5, <1>6 DEF WorldInv, Worlds, IsWorld
<1>8. c # None
  BY <1>3 DEF Observe
<1>9. k \in Kinds[e] /\ Significance(previous, c, process.thresholds) = "sample"
        => previous # None /\ Says(c) = Says(previous)
  BY <1>3, <1>7, <1>8, SampleIs DEF Says
<1>10. thread'[t].significance = "sample" => Weighed(t)'
  BY <1>3, <1>4, <1>6, <1>9 DEF Weighed, Says, Observe, self
<1>11. Own(t)'
  <2>1. Worklist(t, thread'[t].todo) /\ thread'[t].todo # <<>>
    BY <1>1, <1>2, <1>4 DEF Own
  <2>2. thread'[t].significance \in {"sample", "material"}
    BY <1>4, SignificanceType
  <2> QED BY <1>2, <1>4, <1>10, <2>1, <2>2 DEF Own, InUpdate
<1>12. Worlds' /\ UNCHANGED <<process, left, world, lock, journal, lag>>
       /\ DOMAIN thread' = Thread /\ \A u \in Thread \ {t} : thread'[u] = thread[u]
  BY DEF Observe, self, durable, WorldInv, Worlds
<1> QED BY <1>1, <1>2, <1>11, <1>12, PrivateStep

LEMMA DeriveStep ==
  ASSUME WorldInv, NEW t \in Thread, Derive(t) PROVE WorldInv'
<1>1. Own(t) /\ thread[t].at = "observe" /\ run # "off" /\ run' # "off"
  BY DEF WorldInv, Derive, At
<1>2. lock # t /\ lock' = lock /\ t \notin Failed /\ thread[t].todo # <<>>
  BY <1>1 DEF Own, InUpdate, Failed, Derive
<1> DEFINE health == Evaluate(world[Where(t)], process.thresholds)
           todo == <<Item(Where(t), health)>> \o Tail(thread[t].todo)
<1>3. Worklist(t, todo) /\ todo # <<>>
  <2> HIDE DEF health
  <2> QED BY <1>1, <1>2, HealthToDo DEF Own, Where
<1>4. thread' = [thread EXCEPT ![t] =
                   IF world[Where(t)]["health"] = health THEN Rest(@)
                   ELSE [@ EXCEPT !.at = "enter", !.significance = "material",
                                  !.todo = todo]]
  BY DEF Derive
<1> HIDE DEF health, todo
<1>5. UNCHANGED <<run, process, left, world, lock, pen, shot, durable>>
  BY DEF Derive
<1>6. Own(t)'
  <2>1. CASE world[Where(t)]["health"] = health
    <3>1. thread' = [thread EXCEPT ![t] = Rest(@)]
      BY <1>4, <2>1
    <3> QED BY <1>2, <3>1, RestOwn
  <2>2. CASE world[Where(t)]["health"] # health
    <3>1. /\ DOMAIN thread'[t] = {"at", "todo", "significance"}
          /\ thread'[t].at = "enter" /\ thread'[t].todo = todo
          /\ thread'[t].significance = "material"
      BY <1>1, <1>4, <2>2 DEF WorldInv, Own
    <3> QED BY <1>2, <1>3, <3>1 DEF Own, InUpdate
  <2> QED BY <2>1, <2>2
<1>7. Worlds' /\ UNCHANGED <<process, left, world, lock, journal, lag>>
      /\ DOMAIN thread' = Thread /\ \A u \in Thread \ {t} : thread'[u] = thread[u]
  BY <1>4, <1>5 DEF durable, WorldInv, Worlds
<1> QED BY <1>1, <1>2, <1>6, <1>7, PrivateStep

-----------------------------------------------------------------------------
(* The steps of an update                                                  *)

Put(w, e, c) == [w EXCEPT ![e][c.kind] = c]

\* A component put in its place makes a world of a world.
LEMMA PutIs ==
  ASSUME NEW w, IsWorld(w), NEW e, NEW c
  PROVE  /\ IsWorld(Put(w, e, c))
         /\ \A f \in Entity : \A k \in Kinds[f] :
              Put(w, e, c)[f][k] = IF f = e /\ k = c.kind THEN c ELSE w[f][k]
         /\ \A f \in Entity : f # e => Put(w, e, c)[f] = w[f]
<1> DEFINE new == Put(w, e, c)
<1>1. DOMAIN new = Entity /\ \A f \in Entity : DOMAIN new[f] = Kinds[f]
  BY DEF Put, IsWorld
<1>2. \A f \in Entity : \A k \in Kinds[f] :
        new[f][k] = IF f = e /\ k = c.kind THEN c ELSE w[f][k]
  BY DEF Put, IsWorld
<1>3. \A f \in Entity : f # e => new[f] = w[f]
  BY DEF Put, IsWorld
<1> HIDE DEF new
<1>4. IsWorld(new)
  BY <1>1, <1>2 DEF IsWorld
<1> QED BY <1>2, <1>3, <1>4 DEF new

LEMMA StoreStep ==
  ASSUME WorldInv, NEW t \in Thread, Store(t) PROVE WorldInv'
<1>1. /\ Own(t) /\ thread[t].at = "enter" /\ run # "off" /\ run' # "off"
      /\ lock = NoThread /\ lock' = t
  BY DEF WorldInv, Store, At
<1>2. lock # t /\ t \notin Failed /\ thread[t].todo # <<>>
  BY <1>1, ThreadAssumption DEF Own, Failed
<1>3. PICK e, k, c : e = Where(t) /\ c = What(t) /\ k = c.kind
  OBVIOUS
<1>4. e \in Entity /\ Owner[e] = t
  BY <1>1, <1>2, <1>3, FirstToDo DEF Own, Where
<1>5. world' = Put(world, e, c)
  BY <1>3 DEF Store, Put
<1>6. /\ IsWorld(world')
      /\ \A f \in Entity : \A j \in Kinds[f] :
           world'[f][j] = IF f = e /\ j = k THEN c ELSE world[f][j]
      /\ \A f \in Entity : f # e => world'[f] = world[f]
  <2>1. IsWorld(world)
    BY DEF WorldInv, Worlds
  <2>2. /\ IsWorld(world')
        /\ \A f \in Entity : \A j \in Kinds[f] :
             world'[f][j] = IF f = e /\ j = c.kind THEN c ELSE world[f][j]
        /\ \A f \in Entity : f # e => world'[f] = world[f]
    BY <1>5, <2>1, PutIs
  <2> QED BY <1>3, <2>2
<1>7. /\ DOMAIN thread' = Thread /\ \A u \in Thread \ {t} : thread'[u] = thread[u]
      /\ DOMAIN thread'[t] = {"at", "todo", "significance"}
      /\ thread'[t].at = "publish" /\ thread'[t].todo = thread[t].todo
      /\ thread'[t].significance = thread[t].significance
  BY <1>1 DEF WorldInv, Store, Own
<1>8. Where(t)' = e /\ What(t)' = c
  BY <1>3, <1>7 DEF Where, What
<1>9. Own(t)'
  <2>1. Written(t)'
    BY <1>3, <1>4, <1>6, <1>8 DEF Written, Stored
  <2> QED BY <1>1, <1>2, <1>7, <2>1 DEF Own, InUpdate
<1>10. ASSUME NEW f \in Entity, Owner[f] = t PROVE Known(f)'
  <2> SUFFICES ASSUME NEW j \in Kinds[f]
               PROVE  Settled(f, j)' \/ Pending(f, j)' \/ Unheard(f)'
    BY DEF Known
  <2>1. Settled(f, j) \/ Unheard(f)
    BY <1>2, <1>10, OwnSettled
  <2>2. lag' = lag /\ journal' = journal /\ process' = process
    BY DEF Store, self, durable
  <2>6. CASE Unheard(f)
    BY <2>2, <2>6 DEF Unheard
  <2>3. CASE Settled(f, j) /\ (f # e \/ j # k)
    BY <1>6, <2>2, <2>3 DEF Settled, Says
  <2>4. CASE f = e /\ j = k /\ thread[t].significance = "material"
    <3>1. Where(lock)' = e /\ What(lock)' = c
      BY <1>1, <1>8 DEF Where, What
    <3>2. Pending(f, j)'
      BY <1>1, <1>3, <1>4, <1>7, <2>4, <3>1 DEF Pending
    <3> QED BY <3>2
  <2>5. CASE Settled(f, j) /\ f = e /\ j = k /\ thread[t].significance = "sample"
    <3>1. world[e][k] # None /\ Says(c) = Says(world[e][k])
      BY <1>1, <1>3, <2>5 DEF Own, Weighed, Stored
    <3>2. world'[f][j] = c
      BY <1>6, <2>5
    <3> QED BY <2>2, <2>5, <3>1, <3>2 DEF Settled, Says
  <2> QED BY <1>1, <2>1, <2>3, <2>4, <2>5, <2>6 DEF Own
<1>11. Worlds' /\ UNCHANGED <<process, left, lag, journal>>
  BY <1>6 DEF Store, self, durable, WorldInv, Worlds
<1>12. \A f \in Entity : Owner[f] # t =>
         /\ world'[f] = world[f] /\ journal'[f] = journal[f]
         /\ \A j : <<f, j>> \in lag' <=> <<f, j>> \in lag
  BY <1>4, <1>6, <1>11
<1>13. {lock, lock'} \subseteq {t, NoThread}
  BY <1>1
<1> QED BY <1>1, <1>7, <1>9, <1>10, <1>11, <1>12, <1>13, StepOf

LEMMA IgnoreStep ==
  ASSUME WorldInv, NEW t \in Thread, Ignore(t) PROVE WorldInv'
<1>1. /\ Own(t) /\ thread[t].at = "publish" /\ run # "off" /\ run' # "off"
      /\ thread[t].significance = "sample" \/ ~process.journals
      /\ lock' = NoThread /\ thread' = [thread EXCEPT ![t] = Rest(@)]
  BY DEF WorldInv, Ignore, At
<1>2. lock = t /\ lock' # t /\ t \notin Failed /\ thread[t].todo # <<>>
  BY <1>1, ThreadAssumption DEF Own, InUpdate, Failed
<1>3. Own(t)'
  BY <1>1, <1>2, RestOwn
<1>4. UNCHANGED <<process, left, world, journal, lag>> /\ Worlds'
  BY DEF Ignore, self, durable, WorldInv, Worlds
<1>5. ASSUME NEW e \in Entity, Owner[e] = t PROVE Known(e)'
  <2> SUFFICES ASSUME NEW k \in Kinds[e] PROVE Settled(e, k)' \/ Unheard(e)'
    BY DEF Known
  <2>1. ~process.journals => Unheard(e)
    BY <1>1, <1>5, IdleIs DEF WorldInv, Alone, Unheard, Local
  <2>2. Settled(e, k) \/ Unheard(e)
    BY <1>1, <1>2, <1>5, <2>1 DEF WorldInv, Known, Pending
  <2> QED BY <1>4, <2>2 DEF Settled, Says, Unheard
<1>6. DOMAIN thread' = Thread /\ \A u \in Thread \ {t} : thread'[u] = thread[u]
  BY <1>1 DEF WorldInv
<1>7. {lock, lock'} \subseteq {t, NoThread}
  BY <1>1, <1>2
<1> QED BY <1>1, <1>3, <1>4, <1>5, <1>6, <1>7, StepOf

LEMMA TakePenStep ==
  ASSUME WorldInv, NEW t \in Thread, TakePen(t) PROVE WorldInv'
<1>1. /\ Own(t) /\ thread[t].at = "publish" /\ run # "off" /\ run' # "off"
      /\ lock' = lock
  BY DEF WorldInv, TakePen, At
<1>2. lock = t /\ t \notin Failed /\ thread[t].todo # <<>>
  BY <1>1 DEF Own, InUpdate, Failed
<1>3. /\ DOMAIN thread' = Thread /\ \A u \in Thread \ {t} : thread'[u] = thread[u]
      /\ DOMAIN thread'[t] = {"at", "todo", "significance"}
      /\ thread'[t].at = "write" /\ thread'[t].todo = thread[t].todo
      /\ thread'[t].significance = thread[t].significance
  BY <1>1 DEF WorldInv, TakePen, Own
<1>4. UNCHANGED <<process, left, world, journal, lag>> /\ Worlds'
  BY DEF TakePen, self, durable, WorldInv, Worlds
<1>5. Where(t)' = Where(t) /\ What(t)' = What(t) /\ Stored(t)' = Stored(t)
  BY <1>3, <1>4 DEF Where, What, Stored
<1>6. Own(t)'
  <2>1. Written(t)'
    BY <1>1, <1>5 DEF Own, InUpdate, Written
  <2> QED BY <1>1, <1>2, <1>3, <2>1 DEF Own, InUpdate
<1>7. ASSUME NEW e \in Entity, Owner[e] = t PROVE Known(e)'
  <2> SUFFICES ASSUME NEW k \in Kinds[e]
               PROVE  Settled(e, k)' \/ Pending(e, k)' \/ Unheard(e)'
    BY DEF Known
  <2>1. Settled(e, k) \/ Pending(e, k) \/ Unheard(e)
    BY <1>2, <1>7 DEF WorldInv, Known
  <2>2. (Settled(e, k) => Settled(e, k)') /\ (Unheard(e) => Unheard(e)')
    BY <1>4 DEF Settled, Says, Unheard
  <2>3. Where(lock)' = Where(lock) /\ What(lock)' = What(lock)
    BY <1>1, <1>2, <1>5 DEF Where, What
  <2>4. Pending(e, k) => Pending(e, k)'
    BY <1>1, <1>2, <1>3, <2>3 DEF Pending
  <2> QED BY <2>1, <2>2, <2>4
<1> QED BY <1>1, <1>3, <1>4, <1>6, <1>7, StepOf

LEMMA RecordStep ==
  ASSUME WorldInv, NEW t \in Thread, Record(t) PROVE WorldInv'
<1>1. /\ Own(t) /\ thread[t].at = "write" /\ run # "off" /\ run' # "off"
      /\ lock' = NoThread
      /\ thread' = [thread EXCEPT ![t] = Rest(@)]
  BY DEF WorldInv, Record, At
<1>2. lock = t /\ lock' # t /\ t \notin Failed /\ thread[t].todo # <<>>
  BY <1>1, ThreadAssumption DEF Own, InUpdate, Failed
<1>3. Own(t)'
  BY <1>1, <1>2, RestOwn
<1>4. PICK e, k, c : e = Where(t) /\ c = What(t) /\ k = c.kind
  OBVIOUS
<1>5. e \in Entity /\ Owner[e] = t
  BY <1>1, <1>2, <1>4, FirstToDo DEF Own, Where
<1>6. journal' = Put(journal, e, c) /\ lag' = lag \ {<<e, k>>}
      /\ UNCHANGED <<process, left, world>>
  BY <1>4 DEF Record, self, Put
<1>7. /\ IsWorld(journal')
      /\ \A f \in Entity : \A j \in Kinds[f] :
           journal'[f][j] = IF f = e /\ j = k THEN c ELSE journal[f][j]
      /\ \A f \in Entity : f # e => journal'[f] = journal[f]
  <2>1. IsWorld(journal)
    BY DEF WorldInv, Worlds
  <2>2. /\ IsWorld(journal')
        /\ \A f \in Entity : \A j \in Kinds[f] :
             journal'[f][j] = IF f = e /\ j = c.kind THEN c ELSE journal[f][j]
        /\ \A f \in Entity : f # e => journal'[f] = journal[f]
    BY <1>6, <2>1, PutIs
  <2> QED BY <1>4, <2>2
<1>8. ASSUME NEW f \in Entity, Owner[f] = t PROVE Known(f)'
  <2> SUFFICES ASSUME NEW j \in Kinds[f] PROVE Settled(f, j)' \/ Unheard(f)'
    BY DEF Known
  <2>1. CASE f = e /\ j = k
    <3>1. world[f][j] = c
      BY <1>1, <1>4, <2>1 DEF Own, InUpdate, Written, Stored
    <3>2. journal'[f][j] = c
      BY <1>7, <2>1
    <3> QED BY <1>6, <3>1, <3>2 DEF Settled
  <2>2. CASE ~(f = e /\ j = k)
    <3>1. ~Pending(f, j)
      BY <1>2, <1>4, <2>2 DEF Pending
    <3>2. Settled(f, j) \/ Unheard(f)
      BY <1>2, <1>8, <3>1 DEF WorldInv, Known
    <3>3. journal'[f][j] = journal[f][j]
      BY <1>7, <2>2
    <3>4. <<f, j>> \in lag => <<f, j>> \in lag'
      BY <1>6, <2>2
    <3> QED BY <1>6, <3>2, <3>3, <3>4 DEF Settled, Says, Unheard
  <2> QED BY <2>1, <2>2
<1>9. Worlds'
  BY <1>6, <1>7 DEF Record, WorldInv, Worlds
<1>10. \A f \in Entity : Owner[f] # t =>
         /\ world'[f] = world[f] /\ journal'[f] = journal[f]
         /\ \A j : <<f, j>> \in lag' <=> <<f, j>> \in lag
  BY <1>5, <1>6, <1>7
<1>11. DOMAIN thread' = Thread /\ \A u \in Thread \ {t} : thread'[u] = thread[u]
  BY <1>1 DEF WorldInv
<1>12. {lock, lock'} \subseteq {t, NoThread}
  BY <1>1, <1>2
<1>13. process' = process /\ left' \subseteq left /\ thread[t].at # "idle"
  BY <1>1, <1>6
<1> QED BY <1>1, <1>3, <1>8, <1>9, <1>10, <1>11, <1>12, <1>13, StepOf

LEMMA RecordFailsStep ==
  ASSUME WorldInv, NEW t \in Thread, RecordFails(t) PROVE WorldInv'
<1>1. /\ Own(t) /\ thread[t].at = "write" /\ run # "off" /\ run' # "off"
      /\ lock' = NoThread
      /\ thread' = [thread EXCEPT ![t] = [Idle EXCEPT !.at = "failed"]]
  BY DEF WorldInv, RecordFails, At
<1>2. lock = t /\ lock' # t
  BY <1>1, ThreadAssumption DEF Own, InUpdate
<1>3. /\ DOMAIN thread'[t] = {"at", "todo", "significance"}
      /\ thread'[t].at = "failed" /\ thread'[t].todo = <<>>
      /\ thread'[t].significance = "sample"
  BY <1>1, IdleIs DEF WorldInv
<1>4. Own(t)'
  BY <1>2, <1>3, NothingToDo DEF Own, InUpdate
<1>5. t \in Failed'
  BY <1>3 DEF Failed
<1>6. \A e \in Entity : Owner[e] = t => Known(e)'
  BY <1>5 DEF Known
<1>7. UNCHANGED <<process, left, world, journal, lag>> /\ Worlds'
  BY DEF RecordFails, self, durable, WorldInv, Worlds
<1>8. DOMAIN thread' = Thread /\ \A u \in Thread \ {t} : thread'[u] = thread[u]
  BY <1>1 DEF WorldInv
<1>9. {lock, lock'} \subseteq {t, NoThread}
  BY <1>1, <1>2
<1> QED BY <1>1, <1>4, <1>6, <1>7, <1>8, <1>9, StepOf

-----------------------------------------------------------------------------
(* The steps of the process                                                *)

LEMMA BootStep ==
  ASSUME WorldInv, NEW p \in Processes, Boot(p) PROVE WorldInv'
<1>1. /\ run' = "up" /\ world' = disk /\ lag' = Unrecorded(disk, p.thresholds)
      /\ process' = p
      /\ lock = NoThread /\ lock' = NoThread /\ journal' = journal
      /\ \A t \in Thread : thread[t] = Idle
  BY DEF Boot, WorldInv
<1>2. Worlds'
  BY DEF Boot, WorldInv, Worlds
<1>3. DOMAIN thread' = Thread
  BY DEF Boot, WorldInv
<1>4. ASSUME NEW t \in Thread PROVE Own(t)'
  <2>1. lock' # t
    BY <1>1, ThreadAssumption
  <2>2. CASE t = Main /\ Topology # <<>>
    <3>1. thread'[t] = [Idle EXCEPT !.at = "observe", !.todo = Topology]
      BY <2>2 DEF Boot, WorldInv
    <3>2. /\ DOMAIN thread'[t] = {"at", "todo", "significance"}
          /\ thread'[t].at = "observe" /\ thread'[t].todo = Topology
          /\ thread'[t].significance = "sample"
      BY <3>1, IdleIs
    <3> QED BY <2>1, <2>2, <3>2, TopologyToDo DEF Own, InUpdate
  <2>3. CASE ~(t = Main /\ Topology # <<>>)
    <3>1. thread'[t] = Idle
      BY <1>1, <2>3 DEF Boot, WorldInv
    <3> QED BY <2>1, <3>1, IdleIs, NothingToDo DEF Own, InUpdate
  <2> QED BY <2>2, <2>3
<1>5. ASSUME NEW e \in Entity, NEW k \in Kinds[e] PROVE Settled(e, k)'
  <2>1. <<e, k>> \in Components
    <3> DEFINE all == {{f} \X Kinds[f] : f \in Entity}
    <3>1. {e} \X Kinds[e] \in all
      OBVIOUS
    <3>2. <<e, k>> \in {e} \X Kinds[e]
      OBVIOUS
    <3> QED BY <3>1, <3>2 DEF Components
  <2>2. \/ <<e, k>> \in Unrecorded(disk, p.thresholds)
        \/ disk[e][k] = None
        \/ Durable(disk[e][k], p.thresholds) = Durable(journal[e][k], p.thresholds)
    BY <2>1 DEF Unrecorded
  <2> QED BY <1>1, <2>2 DEF Settled, Says
<1>6. \A e \in Entity : Known(e)'
  BY <1>5 DEF Known
<1>7. Alone' /\ left' \subseteq Local
  BY <1>1 DEF Boot, WorldInv, Alone
<1> QED BY <1>1, <1>2, <1>3, <1>4, <1>6, <1>7 DEF WorldInv

LEMMA CaptureStep == WorldInv /\ Capture => WorldInv'
<1> SUFFICES ASSUME WorldInv, Capture PROVE WorldInv'
  OBVIOUS
<1>1. /\ Main \in Thread /\ Own(Main) /\ run # "off" /\ run' # "off"
      /\ thread[Main].at = "idle"
  BY ThreadAssumption DEF Capture, At, WorldInv
<1>2. lock # Main /\ lock' = lock /\ Main \notin Failed
  BY <1>1, ThreadAssumption DEF Capture, Failed
<1>3. /\ DOMAIN thread' = Thread /\ \A u \in Thread \ {Main} : thread'[u] = thread[u]
      /\ DOMAIN thread'[Main] = {"at", "todo", "significance"}
      /\ thread'[Main].at = "save" /\ thread'[Main].todo = thread[Main].todo
      /\ thread'[Main].significance = thread[Main].significance
  BY <1>1 DEF WorldInv, Capture, Own
<1>4. Own(Main)'
  BY <1>1, <1>2, <1>3 DEF Own, InUpdate
<1>5. Worlds' /\ UNCHANGED <<process, left, world, lock, journal, lag>>
  BY DEF Capture, self, durable, WorldInv, Worlds
<1> QED BY <1>1, <1>2, <1>3, <1>4, <1>5, PrivateStep

LEMMA ReplaceStep == WorldInv /\ Replace => WorldInv'
<1> SUFFICES ASSUME WorldInv, Replace PROVE WorldInv'
  OBVIOUS
<1>1. /\ Main \in Thread /\ Own(Main) /\ run # "off" /\ run' # "off"
      /\ thread[Main].at = "save"
  BY ThreadAssumption DEF Replace, At, WorldInv
<1>2. lock # Main /\ lock' = lock /\ Main \notin Failed
  BY <1>1 DEF Replace, Own, InUpdate, Failed
<1>3. /\ DOMAIN thread' = Thread /\ \A u \in Thread \ {Main} : thread'[u] = thread[u]
      /\ thread'[Main] = Idle
  BY <1>1 DEF WorldInv, Replace
<1>4. Own(Main)'
  BY <1>2, <1>3, IdleIs, NothingToDo DEF Own, InUpdate
<1>5. Worlds' /\ UNCHANGED <<process, left, world, lock, journal, lag>>
  BY EmptyIs DEF Replace, self, WorldInv, Worlds
<1> QED BY <1>1, <1>2, <1>3, <1>4, <1>5, PrivateStep

\* The process ends, in order or not: what the snapshot becomes is a world.
LEMMA GoneStep ==
  ASSUME WorldInv, Gone, UNCHANGED <<process, journal, lag>>, IsWorld(disk')
  PROVE  WorldInv'
<1>1. /\ run' = "off" /\ lock' = NoThread /\ world' = Empty /\ shot' = Empty
      /\ thread' = [t \in Thread |-> Idle]
  BY DEF Gone
<1>2. Worlds'
  BY <1>1, EmptyIs DEF WorldInv, Worlds
<1>3. \A t \in Thread : Own(t)'
  BY <1>1, IdleIs, NothingToDo, ThreadAssumption DEF Own, InUpdate
<1>4. \A e \in Entity : Known(e)'
  BY <1>1 DEF Known, Settled, Empty
<1>5. Alone' /\ left' \subseteq Local
  BY <1>1 DEF Gone, Alone
<1> QED BY <1>1, <1>2, <1>3, <1>4, <1>5 DEF WorldInv

LEMMA StillWorld ==
  ASSUME WorldInv, run' = "off" => run = "off",
         UNCHANGED <<process, left, world, lock, thread, journal, disk, shot, lag>>
  PROVE  WorldInv'
<1>1. ASSUME NEW t \in Thread PROVE Own(t)'
  <2>1. Own(t)
    BY DEF WorldInv
  <2> QED BY <2>1 DEF Own, Weighed, Written, Where, What, Stored, Says
<1>2. ASSUME NEW e \in Entity PROVE Known(e)'
  <2>1. Known(e)
    BY DEF WorldInv
  <2> QED BY <2>1 DEF Known, Settled, Pending, Failed, Where, What, Says, Unheard
<1>3. Worlds'
  BY DEF WorldInv, Worlds
<1>4. Alone'
  BY DEF WorldInv, Alone
<1> QED BY <1>1, <1>2, <1>3, <1>4 DEF WorldInv

LEMMA StepWorld == WorldInv /\ [Next]_vars => WorldInv'
<1> SUFFICES ASSUME WorldInv, [Next]_vars PROVE WorldInv'
  OBVIOUS
<1>1. ASSUME NEW t \in Thread, Arrival(t) PROVE WorldInv'
  BY <1>1, BeginStep DEF Arrival
<1>2. ASSUME NEW t \in Thread, Step(t) PROVE WorldInv'
  BY <1>2, PassStep, ObserveStep, SkipStep, StoreStep, IgnoreStep, TakePenStep,
     RecordStep, RecordFailsStep, DeriveStep DEF Step
<1>3. ASSUME NEW p \in Processes, Boot(p) PROVE WorldInv'
  BY <1>3, BootStep
<1>4. CASE Capture
  BY <1>4, CaptureStep
<1>5. CASE Replace
  BY <1>5, ReplaceStep
<1>6. CASE Stop
  BY <1>6, StillWorld DEF Stop, self, durable
<1>7. CASE Leave
  <2>1. IsWorld(disk')
    BY <1>7 DEF Leave, WorldInv, Worlds
  <2> QED BY <1>7, <2>1, GoneStep DEF Leave
<1>8. CASE Crash
  <2>1. IsWorld(disk')
    BY <1>8 DEF Crash, WorldInv, Worlds
  <2> QED BY <1>8, <2>1, GoneStep DEF Crash
<1>9. CASE Finish
  <2>1. IsWorld(disk')
    BY <1>9 DEF Finish, WorldInv, Worlds
  <2> QED BY <1>9, <2>1, GoneStep DEF Finish
<1>10. CASE UNCHANGED vars
  BY <1>10, StillWorld DEF vars, self
<1> QED BY <1>1, <1>2, <1>3, <1>4, <1>5, <1>6, <1>7, <1>8, <1>9, <1>10 DEF Next

LEMMA KnownIsReadable == WorldInv => ReadableIsRecorded
<1> SUFFICES ASSUME WorldInv, NEW c \in Unrecorded(world, process.thresholds)
             PROVE  \/ lock = Owner[c[1]] \/ Owner[c[1]] \in Failed \/ c \in lag
                    \/ ~process.journals /\ c[1] \in Local
  BY DEF ReadableIsRecorded
<1>1. c \in Components /\ world[c[1]][c[2]] # None
      /\ Says(world[c[1]][c[2]]) # Says(journal[c[1]][c[2]])
  BY DEF Unrecorded, Says
<1>2. PICK e \in Entity : c \in {e} \X Kinds[e]
  BY <1>1 DEF Components
<1>3. PICK k \in Kinds[e] : c = <<e, k>>
  BY <1>2
<1>4. Settled(e, k) \/ Owner[e] \in Failed \/ Pending(e, k) \/ Unheard(e)
  BY DEF WorldInv, Known
<1> QED BY <1>1, <1>3, <1>4 DEF Settled, Pending, Unheard

\* Whoever reads the world outside an update finds nothing that the journal
\* does not have, whatever the threads, the entities, the batches, the
\* failures of the journal and the crashes: the event is published under the
\* lock (store.py), and a change that is weighed as a sample outside the lock
\* is still one when it is stored (bootstrap.py, _observe), because a thread
\* is the only one that writes for its entities.
THEOREM ReadersFindWhatIsRecorded == Spec => []ReadableIsRecorded
<1>1. Init => WorldInv
  BY InitWorld
<1>2. WorldInv /\ [Next]_vars => WorldInv'
  BY StepWorld
<1>3. WorldInv => ReadableIsRecorded
  BY KnownIsReadable
<1> QED BY <1>1, <1>2, <1>3, PTL DEF Spec
-----------------------------------------------------------------------------
(* An orderly stop                                                         *)

\* What an orderly end has left on the disk is on record, or what a diagnostic
\* collected.
Sealed ==
  run = "off" /\ orderly =>
    \A c \in Unrecorded(disk, process.thresholds) : c \in lag \/ Unheard(c[1])

LEMMA ComponentIs ==
  ASSUME NEW c \in Components
  PROVE  c[1] \in Entity /\ c[2] \in Kinds[c[1]] /\ Owner[c[1]] \in Thread
<1>1. PICK e \in Entity : c \in {e} \X Kinds[e]
  BY DEF Components
<1> QED BY <1>1, EntityAssumption

LEMMA InitSealed == Init => Sealed
<1> SUFFICES ASSUME Init, NEW c \in Unrecorded(disk, process.thresholds) PROVE FALSE
  BY DEF Sealed
<1>1. c \in Components /\ disk[c[1]][c[2]] # None
  BY DEF Unrecorded
<1>2. disk[c[1]][c[2]] = None
  BY <1>1, ComponentIs DEF Init, Empty
<1> QED BY <1>1, <1>2

\* The world that a process leaves behind when nobody is inside an update.
LEMMA LeftBehind ==
  ASSUME WorldInv, run # "off", \A t \in Thread : thread[t].at \notin InUpdate,
         Failed = {}, disk' = world, UNCHANGED <<process, journal, lag>>
  PROVE  (\A c \in Unrecorded(disk, process.thresholds) : c \in lag \/ Unheard(c[1]))'
<1>1. \A t \in Thread : lock # t
  BY DEF WorldInv, Own
<1>2. \A c \in Unrecorded(world, process.thresholds) : c \in lag \/ Unheard(c[1])
  BY <1>1, KnownIsReadable, ComponentIs DEF ReadableIsRecorded, Unrecorded, Unheard
<1>3. Unrecorded(disk, process.thresholds)' = Unrecorded(world, process.thresholds)
  BY DEF Unrecorded
<1> QED BY <1>2, <1>3 DEF Unheard

LEMMA StepSealed == WorldInv /\ Sealed /\ [Next]_vars => Sealed'
<1> SUFFICES ASSUME WorldInv, Sealed, [Next]_vars, run' = "off", orderly'
             PROVE  (\A c \in Unrecorded(disk, process.thresholds) :
                       c \in lag \/ Unheard(c[1]))'
  BY DEF Sealed
<1>1. CASE Leave
  <2>1. /\ run # "off" /\ Failed = {} /\ disk' = world
        /\ UNCHANGED <<process, journal, lag>>
        /\ \A t \in Thread : thread[t].at \notin InUpdate
    BY <1>1 DEF Leave, InUpdate
  <2> QED BY <2>1, LeftBehind
<1>2. CASE Finish
  <2>1. /\ run # "off" /\ disk' = world /\ ~process.journals
        /\ UNCHANGED <<process, journal, lag>> /\ thread[Main].at = "idle"
    BY <1>2 DEF Finish, At
  <2>2. \A t \in Thread : thread[t].at = "idle"
    BY <2>1, IdleIs DEF WorldInv, Alone
  <2> QED BY <2>1, <2>2, LeftBehind DEF InUpdate, Failed
<1>3. CASE UNCHANGED vars
  BY <1>3 DEF vars, self, Sealed, Unrecorded, Unheard
<1>4. CASE Crash
  BY <1>4 DEF Crash
<1>5. ASSUME NEW p \in Processes, Boot(p) PROVE FALSE
  BY <1>5 DEF Boot
<1>6. ASSUME NEW t \in Thread, Arrival(t) \/ Step(t) PROVE FALSE
  <2>1. ASSUME NEW e \in Entity, NEW batch \in Batches[e], Begin(t, e, batch)
        PROVE  FALSE
    BY <2>1 DEF Begin, At
  <2>2. CASE Step(t)
    BY <2>2 DEF Step, At, Pass, Observe, Skip, Store, Ignore, TakePen, Record,
                RecordFails, Derive
  <2> QED BY <1>6, <2>1, <2>2 DEF Arrival
<1>7. CASE Capture \/ Replace \/ Stop
  BY <1>7 DEF Capture, Replace, Stop, At
<1> QED BY <1>1, <1>2, <1>3, <1>4, <1>5, <1>6, <1>7 DEF Next

\* Only what is placed in bands says something else under other thresholds.
LEMMA OnlyBands ==
  ASSUME NEW c, c # None => c.kind \notin BandedKinds, NEW g, NEW h
  PROVE  Durable(c, g) = Durable(c, h)
<1>1. c # None => Signature(c, g) = Signature(c, h)
  BY DEF Signature
<1> QED BY <1>1 DEF Durable

\* What a process that follows an orderly end restores.
LEMMA BootSealed ==
  ASSUME WorldInv, Sealed, orderly, NEW p \in Processes, Boot(p),
         NEW c \in lag' \ lag
  PROVE  \/ Unheard(c[1])
         \/ process.thresholds # process'.thresholds /\ c[2] \in BandedKinds
<1> DEFINE stored == disk[c[1]][c[2]]
           known  == journal[c[1]][c[2]]
<1>1. /\ run = "off" /\ process' = p
      /\ c \in Unrecorded(disk, p.thresholds) /\ c \notin lag
  BY DEF Boot
<1>2. c \in Components /\ stored # None
      /\ Durable(stored, p.thresholds) # Durable(known, p.thresholds)
  BY <1>1 DEF Unrecorded
<1>3. CASE p.thresholds = process.thresholds
  BY <1>1, <1>3 DEF Sealed
<1>4. CASE c[2] \notin BandedKinds
  <2>1. stored.kind = c[2] /\ (known # None => known.kind = c[2])
    BY <1>2, ComponentIs DEF WorldInv, Worlds, IsWorld
  <2> HIDE DEF stored, known
  <2>2. /\ Durable(stored, p.thresholds) = Durable(stored, process.thresholds)
        /\ Durable(known, p.thresholds) = Durable(known, process.thresholds)
    BY <1>4, <2>1, OnlyBands
  <2>3. c \in Unrecorded(disk, process.thresholds)
    BY <1>2, <2>2 DEF Unrecorded, stored, known
  <2> QED BY <1>1, <2>3 DEF Sealed
<1> QED BY <1>1, <1>3, <1>4

\* The snapshot of a process that ends in order (runtime.py, after the workers
\* are joined and none has failed; app.py at its end) holds nothing that the
\* journal does not, except what a diagnostic has collected without one: the
\* next process restores no other component that nobody recorded, unless its
\* thresholds place a recorded level in another band.
THEOREM OrderlyStopIsComplete == Spec => OrderlyStopAddsNoLag
<1>1. WorldInv /\ Sealed /\ [Next]_vars =>
        [run = "off" /\ run' = "up" /\ orderly =>
           \A c \in lag' \ lag :
             \/ ~process.journals /\ c[1] \in Local
             \/ process.thresholds # process'.thresholds /\ c[2] \in BandedKinds]_vars
  <2> SUFFICES ASSUME WorldInv, Sealed, [Next]_vars,
                      run = "off", run' = "up", orderly, NEW c \in lag' \ lag
               PROVE  \/ ~process.journals /\ c[1] \in Local
                      \/ /\ process.thresholds # process'.thresholds
                         /\ c[2] \in BandedKinds
    OBVIOUS
  <2>1. ASSUME NEW p \in Processes, Boot(p)
        PROVE  \/ ~process.journals /\ c[1] \in Local
               \/ process.thresholds # process'.thresholds /\ c[2] \in BandedKinds
    BY <2>1, BootSealed DEF Unheard
  <2>2. CASE ~\E p \in Processes : Boot(p)
    <3>1. ASSUME NEW t \in Thread, Step(t) PROVE FALSE
      BY <3>1 DEF Step, At, Pass, Observe, Skip, Store, Ignore, TakePen, Record,
                  RecordFails, Derive
    <3>2. ASSUME NEW t \in Thread, Arrival(t) PROVE FALSE
      BY <3>2 DEF Arrival, Begin, At
    <3>3. ~(UNCHANGED vars)
      BY DEF vars
    <3> QED BY <2>2, <3>1, <3>2, <3>3
            DEF Next, Capture, Replace, Stop, Leave, Finish, Crash, At
  <2> QED BY <2>1, <2>2
<1>2. Init => WorldInv /\ Sealed
  BY InitWorld, InitSealed
<1>3. WorldInv /\ Sealed /\ [Next]_vars => WorldInv' /\ Sealed'
  BY StepWorld, StepSealed
<1> QED BY <1>1, <1>2, <1>3, PTL DEF Spec, OrderlyStopAddsNoLag

-----------------------------------------------------------------------------
(***************************************************************************)
(* HealthFollowsTelemetry.                                                 *)
(*                                                                         *)
(* Health is derived last: a batch ends in its cycle event, and the health *)
(* that follows from it depends on no health and no node.  So the main     *)
(* thread, which ingests for all entities that have a health, is always in *)
(* one of three situations: it reconciles the topology and all health is   *)
(* right; it ingests for one entity, and the cycle event is still to come; *)
(* or it stores the health that has been derived.  Snapshots are taken in  *)
(* the first.                                                              *)
(***************************************************************************)

-----------------------------------------------------------------------------
(* What health depends on                                                  *)

\* Two sets of components that differ in a health or a node at most.
Alike(v, w) ==
  /\ DOMAIN v = DOMAIN w
  /\ \A k \in DOMAIN v : k \notin {"health", "node"} => v[k] = w[k]

LEMMA AlikePresent ==
  ASSUME NEW v, NEW w, Alike(v, w), NEW k, k \notin {"health", "node"}
  PROVE  /\ Present(v, k) <=> Present(w, k)
         /\ Present(v, k) => v[k] = w[k]
BY DEF Alike, Present

LEMMA AlikeBands ==
  ASSUME NEW v, NEW w, Alike(v, w), NEW band, NEW h
  PROVE  AtBand(v, band, h) = AtBand(w, band, h)
<1>1. \A k \in BandedKinds : /\ Present(v, k) <=> Present(w, k)
                             /\ Present(v, k) => v[k] = w[k]
  BY AlikePresent DEF BandedKinds
<1> QED BY <1>1 DEF AtBand

LEMMA AlikeCritical ==
  ASSUME NEW v, NEW w, Alike(v, w), NEW h
  PROVE  CriticalReasons(v, h) = CriticalReasons(w, h)
<1>1. AtBand(v, 2, h) = AtBand(w, 2, h)
  BY AlikeBands
<1>2. Reason(Present(v, "usb") /\ ~v["usb"].present, <<"usb", "absent">>)
        = Reason(Present(w, "usb") /\ ~w["usb"].present, <<"usb", "absent">>)
  BY AlikePresent DEF Reason
<1>3. Reason(Present(v, "wifi") /\ ~v["wifi"].connected, <<"wifi", "disconnected">>)
        = Reason(Present(w, "wifi") /\ ~w["wifi"].connected, <<"wifi", "disconnected">>)
  BY AlikePresent DEF Reason
<1> QED BY <1>1, <1>2, <1>3 DEF CriticalReasons

LEMMA AlikeWarning ==
  ASSUME NEW v, NEW w, Alike(v, w), NEW h
  PROVE  WarningReasons(v, h) = WarningReasons(w, h)
<1>1. AtBand(v, 1, h) = AtBand(w, 1, h)
  BY AlikeBands
<1>2. /\ Present(v, "usb") <=> Present(w, "usb")
      /\ Present(v, "usb") => v["usb"] = w["usb"]
      /\ Present(v, "wifi") <=> Present(w, "wifi")
      /\ Present(v, "wifi") => v["wifi"] = w["wifi"]
  BY AlikePresent
<1> QED BY <1>1, <1>2 DEF WarningReasons, Reason

LEMMA AlikeHealth ==
  ASSUME NEW v, NEW w, Alike(v, w), NEW h
  PROVE  Evaluate(v, h) = Evaluate(w, h)
<1>1. /\ CriticalReasons(v, h) = CriticalReasons(w, h)
      /\ WarningReasons(v, h) = WarningReasons(w, h)
  BY AlikeCritical, AlikeWarning
<1>2. /\ Present(v, "observation") <=> Present(w, "observation")
      /\ Present(v, "observation") => v["observation"] = w["observation"]
  BY AlikePresent
<1>3. BearsHealth(v) <=> BearsHealth(w)
  BY AlikePresent DEF BearsHealth, BandedKinds
<1> QED BY <1>1, <1>2, <1>3 DEF Evaluate, TelemetryIs

LEMMA HealthKind == \A w, h : Evaluate(w, h).kind = "health"
BY DEF Evaluate, HealthState

-----------------------------------------------------------------------------
(* What is left of a batch                                                 *)

Nodes(todo) ==
  \E S : todo \in Seq(S) /\ \A x \in S : x.component.kind = "node"

\* What is left is about e, and ends with its cycle event if it has one.
Ending(e, todo) ==
  /\ \E S : todo \in Seq(S) /\ \A x \in S : x.entity = e
  /\ todo # <<>>
  /\ e \in Cycles => todo[Len(todo)] = Item(e, CycleEvent)

LEMMA NoNodes == Nodes(<<>>)
<1> DEFINE S == {}
<1>1. <<>> \in Seq(S) /\ \A x \in S : x.component.kind = "node"
  OBVIOUS
<1> HIDE DEF S
<1> QED BY <1>1 DEF Nodes

LEMMA TopologyNodes == Nodes(Topology)
<1> DEFINE S == {Topology[i] : i \in DOMAIN Topology}
<1>1. Topology \in Seq(S) /\ \A x \in S : x.component.kind = "node"
  BY BatchesAssumption, CyclesAssumption
<1> QED BY <1>1 DEF Nodes

LEMMA RestNodes ==
  ASSUME NEW th, DOMAIN th = {"at", "todo", "significance"}, Nodes(th.todo),
         th.todo # <<>>
  PROVE  /\ Nodes(Rest(th).todo)
         /\ Head(th.todo).component.kind = "node"
<1>1. PICK S : th.todo \in Seq(S) /\ \A x \in S : x.component.kind = "node"
  BY DEF Nodes
<1>2. Head(th.todo) \in S /\ Tail(th.todo) \in Seq(S)
  BY <1>1
<1>3. Rest(th).todo = <<>> \/ Rest(th).todo = Tail(th.todo)
  <2>1. CASE Len(th.todo) <= 1
    BY <2>1, IdleIs DEF Rest
  <2>2. CASE ~(Len(th.todo) <= 1)
    BY <2>2 DEF Rest
  <2> QED BY <2>1, <2>2
<1>4. Nodes(Tail(th.todo))
  BY <1>1, <1>2 DEF Nodes
<1> QED BY <1>1, <1>2, <1>3, <1>4, NoNodes

LEMMA EndingIs ==
  ASSUME NEW e, NEW todo, Ending(e, todo)
  PROVE  /\ Head(todo).entity = e
         /\ Len(todo) \in Nat /\ Len(todo) # 0
         /\ Len(todo) > 1 => Ending(e, Tail(todo))
         /\ e \in Cycles /\ Len(todo) <= 1 => Head(todo) = Item(e, CycleEvent)
<1>1. PICK S : todo \in Seq(S) /\ \A x \in S : x.entity = e
  BY DEF Ending
<1>2. /\ Head(todo) \in S /\ Tail(todo) \in Seq(S) /\ Head(todo) = todo[1]
      /\ Len(todo) \in Nat /\ Len(todo) # 0 /\ Len(Tail(todo)) = Len(todo) - 1
      /\ \A i \in 1..(Len(todo) - 1) : Tail(todo)[i] = todo[i + 1]
  BY <1>1 DEF Ending
<1>3. ASSUME Len(todo) > 1 PROVE Ending(e, Tail(todo))
  <2>1. Len(Tail(todo)) # 0
    BY <1>2, <1>3
  <2>2. Tail(todo) # <<>>
    BY <2>1
  <2>3. Tail(todo)[Len(Tail(todo))] = todo[Len(todo)]
    BY <1>2, <1>3
  <2> QED BY <1>1, <1>2, <2>2, <2>3 DEF Ending
<1>4. Len(todo) <= 1 => Len(todo) = 1
  BY <1>2
<1> QED BY <1>1, <1>2, <1>3, <1>4 DEF Ending

LEMMA BatchEnding ==
  ASSUME NEW e \in Entity, NEW batch \in Batches[e]
  PROVE  Ending(e, Todo(e, batch))
<1> DEFINE S == {w \in {Values(e, batch)[i] : i \in DOMAIN batch}
                        \union {Item(e, ObservationState(e, batch)), Item(e, CycleEvent)} :
                   w.entity = e}
           T == Append(Values(e, batch), Item(e, ObservationState(e, batch)))
           item == Item(e, CycleEvent)
<1>1. \A c : Item(e, c).entity = e
  BY DEF Item
<1>2. Values(e, batch) \in [1..Len(batch) -> S]
  BY <1>1, BatchesAssumption DEF Values
<1>3. Values(e, batch) \in Seq(S)
  BY <1>2, BatchesAssumption
<1>4. Item(e, ObservationState(e, batch)) \in S /\ item \in S
  BY <1>1
<1>5. T \in Seq(S) /\ Len(T) # 0
  BY <1>3, <1>4
<1>6. \A w \in S : w.entity = e
  OBVIOUS
<1>7. Todo(e, batch) = T \o Cycle(e)
  BY DEF Todo
<1>8. Cycle(e) = IF e \in Cycles THEN <<item>> ELSE <<>>
  BY DEF Cycle
<1> HIDE DEF S, T, item
<1>9. CASE e \in Cycles
  <2>1. Todo(e, batch) = T \o <<item>>
    BY <1>7, <1>8, <1>9
  <2>2. <<item>> \in Seq(S) /\ Len(<<item>>) = 1 /\ <<item>>[1] = item
    BY <1>4
  <2>3. /\ T \o <<item>> \in Seq(S) /\ Len(T \o <<item>>) = Len(T) + 1
        /\ (T \o <<item>>)[Len(T) + 1] = item
    BY <1>5, <2>2
  <2>4. Todo(e, batch) \in Seq(S) /\ Len(Todo(e, batch)) # 0
        /\ Todo(e, batch)[Len(Todo(e, batch))] = item
    BY <1>5, <2>1, <2>3
  <2>5. Todo(e, batch) # <<>>
    BY <2>4
  <2> QED BY <1>6, <2>4, <2>5 DEF Ending, item
<1>10. CASE e \notin Cycles
  <2>1. <<>> \in Seq(S)
    OBVIOUS
  <2>2. Todo(e, batch) \in Seq(S) /\ Len(Todo(e, batch)) # 0
    BY <1>5, <1>7, <1>8, <1>10, <2>1
  <2>3. Todo(e, batch) # <<>>
    BY <2>2
  <2> QED BY <1>6, <1>10, <2>2, <2>3 DEF Ending
<1> QED BY <1>9, <1>10

\* A derived component in the place of the cycle event.
LEMMA DerivedEnding ==
  ASSUME NEW e, NEW todo, Ending(e, todo), NEW c
  PROVE  LET new == <<Item(e, c)>> \o Tail(todo)
         IN /\ Len(todo) <= 1 => new = <<Item(e, c)>>
            /\ Len(todo) > 1 => Ending(e, new)
            /\ Head(new) = Item(e, c)
<1>1. PICK S : todo \in Seq(S) /\ \A x \in S : x.entity = e
  BY DEF Ending
<1> DEFINE item == Item(e, c)
           U == S \union {item}
           new == <<item>> \o Tail(todo)
<1>2. item.entity = e
  BY DEF Item
<1>3. \A x \in U : x.entity = e
  BY <1>1, <1>2
<1> HIDE DEF item
<1>4. /\ Tail(todo) \in Seq(U) /\ <<item>> \in Seq(U) /\ Len(<<item>>) = 1
      /\ Len(todo) \in Nat /\ Len(todo) # 0 /\ Len(Tail(todo)) = Len(todo) - 1
      /\ \A i \in 1..(Len(todo) - 1) : Tail(todo)[i] = todo[i + 1]
  BY <1>1 DEF Ending
<1>5. /\ new \in Seq(U) /\ Len(new) = Len(todo)
      /\ new[1] = item
      /\ \A i \in 2..Len(todo) : new[i] = todo[i]
  BY <1>4
<1>6. Head(new) = item /\ new # <<>>
  <2>1. Len(new) # 0
    BY <1>4, <1>5
  <2> QED BY <1>5, <2>1
<1>7. ASSUME Len(todo) > 1 PROVE Ending(e, new)
  <2>1. new[Len(new)] = todo[Len(todo)]
    BY <1>4, <1>5, <1>7
  <2> HIDE DEF new, U
  <2> QED BY <1>3, <1>5, <1>6, <2>1 DEF Ending
<1>8. ASSUME Len(todo) <= 1 PROVE new = <<item>>
  <2>1. Len(todo) = 1
    BY <1>4, <1>8
  <2>2. Len(new) = Len(<<item>>) /\ \A i \in 1..Len(new) : new[i] = <<item>>[i]
    <3>1. Len(new) = 1 /\ new[1] = item /\ <<item>>[1] = item
      BY <1>5, <2>1
    <3> HIDE DEF new
    <3> QED BY <1>4, <3>1
  <2> HIDE DEF new, U
  <2> QED BY <1>4, <1>5, <2>2, SeqEqual
<1> QED BY <1>6, <1>7, <1>8 DEF item

-----------------------------------------------------------------------------
(* The inductive invariant                                                 *)

\* The health of e in w is what its components give under one of levels.
Follows(w, e, levels) ==
  w[e]["observation"] # None => \E h \in levels : w[e]["health"] = Evaluate(w[e], h)

\* The thresholds that the health of e may still stem from.
Bases(e) == IF e \in judged THEN {process.thresholds} ELSE Thresholds

Sound(w) == \A e \in Cycles : Follows(w, e, Thresholds)

Right       == \A e \in Cycles : Follows(world, e, Bases(e))
RightBut(e) == \A f \in Cycles : f # e => Follows(world, f, Bases(f))

Busy == {"observe", "enter"} \union InUpdate

Reconciling == Right /\ Nodes(thread[Main].todo)

Ingesting(e) ==
  /\ RightBut(e)
  /\ Ending(e, thread[Main].todo)
  /\ thread[Main].at \in Busy
  /\ thread[Main].at # "observe" => What(Main) # CycleEvent

Deriving(e) ==
  /\ RightBut(e)
  /\ thread[Main].at \in {"enter"} \union InUpdate
  /\ \E health :
       /\ health.kind = "health"
       /\ thread[Main].todo = <<Item(e, health)>>
       /\ e \in Cycles =>
            /\ health = Evaluate(world[e], process.thresholds)
            /\ thread[Main].at \in InUpdate => world[e]["health"] = health

Engaged == Reconciling \/ \E e : Ingesting(e) \/ Deriving(e)

HealthInv ==
  /\ Sound(disk) /\ Sound(shot)
  /\ run # "off" /\ Main \notin Failed => Engaged

LEMMA SoundEmpty == Sound(Empty)
BY CyclesAssumption, EntityAssumption DEF Sound, Follows, Empty

LEMMA InitHealth == Init => HealthInv
BY SoundEmpty DEF Init, HealthInv

\* What stems from the thresholds of this process stems from allowed ones.
LEMMA BasesAre ==
  ASSUME WorldInv, NEW e
  PROVE  process.thresholds \in Bases(e) /\ Bases(e) \subseteq Thresholds
BY DEF WorldInv, Processes, Bases

LEMMA RightIsSound == WorldInv /\ Right => Sound(world)
BY BasesAre DEF Right, Sound, Follows

\* A component stored for one entity leaves the health of the others right,
\* and so does a node.
LEMMA PutFollows ==
  ASSUME NEW w, IsWorld(w), NEW e, NEW c, NEW f \in Cycles, f # e \/ c.kind = "node",
         NEW levels, Follows(w, f, levels)
  PROVE  Follows(Put(w, e, c), f, levels)
<1>1. f \in Entity /\ {"observation", "health"} \subseteq Kinds[f]
  BY CyclesAssumption, EntityAssumption
<1>2. IsWorld(Put(w, e, c))
  BY PutIs
<1>3. CASE f # e
  <2>1. Put(w, e, c)[f] = w[f]
    BY <1>1, <1>3, PutIs
  <2> QED BY <2>1 DEF Follows
<1>4. CASE c.kind = "node"
  <2>1. \A k \in Kinds[f] : k # "node" => Put(w, e, c)[f][k] = w[f][k]
    BY <1>1, <1>4, PutIs
  <2>2. Alike(Put(w, e, c)[f], w[f])
    BY <1>1, <1>2, <2>1 DEF Alike, IsWorld
  <2>3. \A h : Evaluate(Put(w, e, c)[f], h) = Evaluate(w[f], h)
    BY <2>2, AlikeHealth
  <2>4. /\ Put(w, e, c)[f]["observation"] = w[f]["observation"]
        /\ Put(w, e, c)[f]["health"] = w[f]["health"]
    BY <1>1, <2>1
  <2> QED BY <2>3, <2>4 DEF Follows
<1> QED BY <1>3, <1>4

LEMMA PutHealth ==
  ASSUME NEW w, IsWorld(w), NEW e \in Cycles, NEW c, c.kind = "health"
  PROVE  /\ Put(w, e, c)[e]["health"] = c
         /\ \A h : Evaluate(Put(w, e, c)[e], h) = Evaluate(w[e], h)
<1>1. e \in Entity /\ "health" \in Kinds[e]
  BY CyclesAssumption, EntityAssumption
<1>2. IsWorld(Put(w, e, c))
  BY PutIs
<1>3. \A k \in Kinds[e] : Put(w, e, c)[e][k] = IF k = "health" THEN c ELSE w[e][k]
  BY <1>1, PutIs
<1>4. Alike(Put(w, e, c)[e], w[e])
  BY <1>1, <1>2, <1>3 DEF Alike, IsWorld
<1> QED BY <1>1, <1>3, <1>4, AlikeHealth

-----------------------------------------------------------------------------
(* The steps of the main thread                                            *)

\* It has done with one item: if that was the last of an entity that has a
\* health, its health is right.
LEMMA RestHealth ==
  ASSUME WorldInv, HealthInv, run # "off",
         UNCHANGED <<process, world, disk, shot>>,
         \/ judged' = judged
         \/ judged' = judged \union {Where(Main)} /\ ~Reconciling,
         thread' = [thread EXCEPT ![Main] = Rest(@)],
         thread[Main].at \in Busy,
         \A e \in Cycles :
           (Ingesting(e) /\ Len(thread[Main].todo) <= 1) \/ Deriving(e)
             => Follows(world, e, Bases(e)')
  PROVE  HealthInv'
<1>1. Own(Main) /\ Main \in Thread /\ DOMAIN thread = Thread
  BY ThreadAssumption DEF WorldInv
<1>2. thread'[Main] = Rest(thread[Main])
  BY <1>1
<1>3. Engaged
  BY DEF HealthInv, Failed, Busy, InUpdate
<1>4. thread[Main].todo # <<>> /\ DOMAIN thread[Main] = {"at", "todo", "significance"}
  BY <1>1 DEF Own, Busy
<1>5. CASE Reconciling
  <2>1. Nodes(thread'[Main].todo)
    BY <1>2, <1>4, <1>5, RestNodes DEF Reconciling
  <2>2. Reconciling'
    BY <1>5, <2>1 DEF Reconciling, Right, Follows, Bases
  <2> QED BY <2>2 DEF HealthInv, Engaged
<1>6. ASSUME NEW e, Ingesting(e) PROVE HealthInv'
  <2>1. /\ Len(thread[Main].todo) > 1 => Ending(e, Tail(thread[Main].todo))
        /\ Len(thread[Main].todo) \in Nat /\ Where(Main) = e
    BY <1>6, EndingIs DEF Ingesting, Where
  <2>4. RightBut(e)'
    BY <1>6, <2>1 DEF Ingesting, RightBut, Follows, Bases
  <2>2. CASE Len(thread[Main].todo) <= 1
    <3>1. thread'[Main].todo = <<>>
      BY <1>2, <2>2, IdleIs DEF Rest
    <3>2. e \in Cycles => Follows(world, e, Bases(e))'
      BY <1>6, <2>2 DEF Follows
    <3>3. Reconciling'
      BY <2>4, <3>1, <3>2, NoNodes DEF Reconciling, Right, RightBut
    <3> QED BY <3>3 DEF HealthInv, Engaged
  <2>3. CASE ~(Len(thread[Main].todo) <= 1)
    <3>1. /\ thread'[Main].todo = Tail(thread[Main].todo)
          /\ thread'[Main].at = "observe"
      <4>1. thread'[Main] = [thread[Main] EXCEPT !.at = "observe", !.todo = Tail(@)]
        BY <1>2, <2>3 DEF Rest
      <4> QED BY <1>4, <4>1
    <3>2. Ending(e, thread'[Main].todo)
      BY <2>1, <2>3, <3>1
    <3>3. Ingesting(e)'
      BY <2>4, <3>1, <3>2 DEF Ingesting, Busy
    <3> QED BY <3>3 DEF HealthInv, Engaged
  <2> QED BY <2>2, <2>3
<1>7. ASSUME NEW e, Deriving(e) PROVE HealthInv'
  <2>1. PICK health : thread[Main].todo = <<Item(e, health)>>
    BY <1>7 DEF Deriving
  <2>5. Where(Main) = e
    BY <2>1 DEF Where, Item
  <2>2. thread'[Main].todo = <<>>
    BY <1>2, <2>1, IdleIs DEF Rest
  <2>3. RightBut(e)' /\ (e \in Cycles => Follows(world, e, Bases(e))')
    BY <1>7, <2>5 DEF Deriving, RightBut, Follows, Bases
  <2>4. Reconciling'
    BY <2>2, <2>3, NoNodes DEF Reconciling, Right, RightBut
  <2> QED BY <2>4 DEF HealthInv, Engaged
<1> QED BY <1>3, <1>5, <1>6, <1>7 DEF Engaged

\* Where the main thread is at work on an item that is no cycle event, the
\* item is not the last of what it ingests for an entity that has a health.
LEMMA NotTheLast ==
  ASSUME NEW e \in Cycles, Ingesting(e), What(Main) # CycleEvent
  PROVE  ~(Len(thread[Main].todo) <= 1)
<1>1. Len(thread[Main].todo) <= 1 => Head(thread[Main].todo) = Item(e, CycleEvent)
  BY EndingIs DEF Ingesting
<1> QED BY <1>1 DEF What, Item

LEMMA BeginHealth ==
  ASSUME WorldInv, HealthInv, NEW e \in Entity, NEW batch \in Batches[e],
         Begin(Main, e, batch)
  PROVE  HealthInv'
<1> DEFINE todo == Todo(e, batch)
<1>1. Ending(e, todo)
  BY BatchEnding
<1> HIDE DEF todo
<1>2. thread' = [thread EXCEPT ![Main] = [Idle EXCEPT !.at = "observe", !.todo = todo]]
  BY DEF Begin, todo
<1>3. thread'[Main].at = "observe" /\ thread'[Main].todo = todo
  BY <1>2, IdleIs, ThreadAssumption DEF WorldInv
<1>4. Reconciling
  BY DEF Begin, At, HealthInv, Failed, Engaged, Ingesting, Deriving, Busy, InUpdate
<1>5. UNCHANGED <<process, judged, world, disk, shot>>
  BY DEF Begin, durable
<1>6. Ingesting(e)'
  BY <1>1, <1>3, <1>4, <1>5
     DEF Ingesting, Reconciling, Right, RightBut, Follows, Bases, Busy
<1> QED BY <1>5, <1>6 DEF HealthInv, Engaged

LEMMA PassHealth ==
  ASSUME WorldInv, HealthInv, Pass(Main) PROVE HealthInv'
<1>1. What(Main) # CycleEvent /\ thread[Main].at = "observe" /\ run # "off"
  BY CyclesAssumption DEF Pass, At
<1>2. \A e \in Cycles : ~(Ingesting(e) /\ Len(thread[Main].todo) <= 1) /\ ~Deriving(e)
  BY <1>1, NotTheLast DEF Deriving, InUpdate
<1>3. thread' = [thread EXCEPT ![Main] = Rest(@)] /\ UNCHANGED <<process, judged, world, disk, shot>>
  BY DEF Pass, self, durable
<1> QED BY <1>1, <1>2, <1>3, RestHealth DEF Busy

\* What is stored already, or has just been stored, is right.
LEMMA DoneHealth ==
  ASSUME WorldInv, HealthInv, run # "off",
         UNCHANGED <<process, judged, world, disk, shot>>,
         thread' = [thread EXCEPT ![Main] = Rest(@)],
         thread[Main].at \in {"enter"} \union InUpdate,
         thread[Main].at = "enter" => Stored(Main) = What(Main)
  PROVE  HealthInv'
<1>1. \A e \in Cycles : Ingesting(e) => ~(Len(thread[Main].todo) <= 1)
  BY NotTheLast DEF Ingesting, InUpdate
<1>2. ASSUME NEW e \in Cycles, Deriving(e) PROVE Follows(world, e, Bases(e)')
  <2>1. PICK health :
          /\ health.kind = "health"
          /\ thread[Main].todo = <<Item(e, health)>>
          /\ health = Evaluate(world[e], process.thresholds)
          /\ thread[Main].at \in InUpdate => world[e]["health"] = health
    BY <1>2 DEF Deriving
  <2>2. Where(Main) = e /\ What(Main) = health
    BY <2>1 DEF Where, What, Item
  <2>3. thread[Main].at = "enter" => world[e]["health"] = health
    BY <2>1, <2>2 DEF Stored
  <2>4. process.thresholds \in Bases(e)'
    BY BasesAre DEF Bases
  <2> QED BY <2>1, <2>3, <2>4 DEF Follows
<1> QED BY <1>1, <1>2, RestHealth DEF Busy

LEMMA ObserveHealth ==
  ASSUME WorldInv, HealthInv, Observe(Main) PROVE HealthInv'
<1>1. /\ thread[Main].at = "observe" /\ run # "off" /\ What(Main) # CycleEvent
      /\ Own(Main) /\ UNCHANGED <<process, judged, world, disk, shot>>
  BY ThreadAssumption DEF Observe, At, self, durable, WorldInv
<1>2. thread'[Main].at = "enter" /\ thread'[Main].todo = thread[Main].todo
  BY <1>1, ThreadAssumption DEF Observe, WorldInv, Own
<1>3. What(Main)' = What(Main)
  BY <1>2 DEF What
<1>4. Engaged
  BY <1>1 DEF HealthInv, Failed
<1>5. Reconciling => Reconciling'
  BY <1>1, <1>2 DEF Reconciling, Right, Follows, Bases
<1>6. \A e : Ingesting(e) => Ingesting(e)'
  BY <1>1, <1>2, <1>3 DEF Ingesting, RightBut, Follows, Bases, Busy
<1>7. \A e : ~Deriving(e)
  BY <1>1 DEF Deriving, InUpdate
<1> QED BY <1>1, <1>4, <1>5, <1>6, <1>7 DEF HealthInv, Engaged

LEMMA TakePenHealth ==
  ASSUME WorldInv, HealthInv, TakePen(Main) PROVE HealthInv'
<1>1. /\ thread[Main].at = "publish" /\ run # "off"
      /\ Own(Main) /\ UNCHANGED <<process, judged, world, disk, shot>>
  BY ThreadAssumption DEF TakePen, At, self, durable, WorldInv
<1>2. thread'[Main].at = "write" /\ thread'[Main].todo = thread[Main].todo
  BY <1>1, ThreadAssumption DEF TakePen, WorldInv, Own
<1>3. What(Main)' = What(Main)
  BY <1>2 DEF What
<1>4. Engaged
  BY <1>1 DEF HealthInv, Failed
<1>5. Reconciling => Reconciling'
  BY <1>1, <1>2 DEF Reconciling, Right, Follows, Bases
<1>6. \A e : Ingesting(e) => Ingesting(e)'
  BY <1>1, <1>2, <1>3 DEF Ingesting, RightBut, Follows, Bases, Busy, InUpdate
<1>7. \A e : Deriving(e) => Deriving(e)'
  BY <1>1, <1>2 DEF Deriving, RightBut, Follows, Bases, InUpdate
<1> QED BY <1>1, <1>4, <1>5, <1>6, <1>7 DEF HealthInv, Engaged

LEMMA DonesHealth ==
  ASSUME WorldInv, HealthInv, Skip(Main) \/ Ignore(Main) \/ Record(Main)
  PROVE  HealthInv'
<1>1. CASE Skip(Main)
  <2>1. /\ run # "off" /\ thread[Main].at = "enter" /\ Stored(Main) = What(Main)
        /\ thread' = [thread EXCEPT ![Main] = Rest(@)]
        /\ UNCHANGED <<process, judged, world, disk, shot>>
    BY <1>1 DEF Skip, At, Same, self, durable
  <2> QED BY <2>1, DoneHealth
<1>2. CASE Ignore(Main)
  <2>1. /\ run # "off" /\ thread[Main].at = "publish"
        /\ thread' = [thread EXCEPT ![Main] = Rest(@)]
        /\ UNCHANGED <<process, judged, world, disk, shot>>
    BY <1>2 DEF Ignore, At, self, durable
  <2> QED BY <2>1, DoneHealth DEF InUpdate
<1>3. CASE Record(Main)
  <2>1. /\ run # "off" /\ thread[Main].at = "write"
        /\ thread' = [thread EXCEPT ![Main] = Rest(@)]
        /\ UNCHANGED <<process, judged, world, disk, shot>>
    BY <1>3 DEF Record, At, self
  <2> QED BY <2>1, DoneHealth DEF InUpdate
<1> QED BY <1>1, <1>2, <1>3

LEMMA StoreHealth ==
  ASSUME WorldInv, HealthInv, Store(Main) PROVE HealthInv'
<1>1. /\ thread[Main].at = "enter" /\ run # "off"
      /\ Own(Main) /\ UNCHANGED <<process, judged, disk, shot>> /\ IsWorld(world)
      /\ thread[Main].todo # <<>>
  BY ThreadAssumption DEF Store, At, self, durable, WorldInv, Worlds, Own
<1>2. /\ thread'[Main].at = "publish" /\ thread'[Main].todo = thread[Main].todo
      /\ DOMAIN thread[Main] = {"at", "todo", "significance"}
  BY <1>1, ThreadAssumption DEF Store, WorldInv, Own
<1>3. PICK place, c : place = Where(Main) /\ c = What(Main)
  OBVIOUS
<1>4. world' = Put(world, place, c)
  BY <1>3 DEF Store, Put
<1>5. What(Main)' = What(Main)
  BY <1>2 DEF What
<1>6. Engaged
  BY <1>1 DEF HealthInv, Failed
<1>7. CASE Reconciling
  <2>1. c.kind = "node"
    BY <1>1, <1>2, <1>3, <1>7, RestNodes DEF Reconciling, What
  <2>2. \A f \in Cycles : Follows(Put(world, place, c), f, Bases(f))
    BY <1>1, <1>7, <2>1, PutFollows DEF Reconciling, Right
  <2>3. Reconciling'
    BY <1>1, <1>2, <1>4, <1>7, <2>2 DEF Reconciling, Right, Bases
  <2> QED BY <1>1, <2>3 DEF HealthInv, Engaged
<1>8. ASSUME NEW e, Ingesting(e) PROVE HealthInv'
  <2>1. place = e
    BY <1>3, <1>8, EndingIs DEF Ingesting, Where
  <2>2. \A f \in Cycles : f # e => Follows(Put(world, place, c), f, Bases(f))
    BY <1>1, <1>8, <2>1, PutFollows DEF Ingesting, RightBut
  <2>3. RightBut(e)'
    BY <1>1, <1>4, <2>2 DEF RightBut, Bases
  <2>4. Ingesting(e)'
    BY <1>1, <1>2, <1>5, <1>8, <2>3 DEF Ingesting, Busy, InUpdate
  <2> QED BY <1>1, <2>4 DEF HealthInv, Engaged
<1>9. ASSUME NEW e, Deriving(e) PROVE HealthInv'
  <2>1. PICK health :
          /\ health.kind = "health"
          /\ thread[Main].todo = <<Item(e, health)>>
          /\ e \in Cycles => health = Evaluate(world[e], process.thresholds)
    BY <1>9 DEF Deriving
  <2>2. place = e /\ c = health
    BY <1>3, <2>1 DEF Where, What, Item
  <2>3. \A f \in Cycles : f # e => Follows(Put(world, place, c), f, Bases(f))
    BY <1>1, <1>9, <2>2, PutFollows DEF Deriving, RightBut
  <2>4. e \in Cycles =>
          /\ Put(world, place, c)[e]["health"] = health
          /\ health = Evaluate(Put(world, place, c)[e], process.thresholds)
    BY <1>1, <2>1, <2>2, PutHealth
  <2>6. RightBut(e)'
    BY <1>1, <1>4, <2>3 DEF RightBut, Bases
  <2>5. Deriving(e)'
    BY <1>1, <1>2, <1>4, <2>1, <2>6, <2>4 DEF Deriving, InUpdate
  <2> QED BY <1>1, <2>5 DEF HealthInv, Engaged
<1> QED BY <1>6, <1>7, <1>8, <1>9 DEF Engaged

LEMMA RecordFailsHealth ==
  ASSUME WorldInv, HealthInv, RecordFails(Main) PROVE HealthInv'
<1>1. thread'[Main] = [Idle EXCEPT !.at = "failed"] /\ UNCHANGED <<disk, shot>>
  BY ThreadAssumption DEF RecordFails, durable, WorldInv
<1>2. Main \in Failed'
  BY <1>1, IdleIs, ThreadAssumption DEF Failed
<1> QED BY <1>1, <1>2 DEF HealthInv

LEMMA DeriveHealth ==
  ASSUME WorldInv, HealthInv, Derive(Main) PROVE HealthInv'
<1>1. /\ thread[Main].at = "observe" /\ run # "off" /\ What(Main) = CycleEvent
      /\ Own(Main) /\ UNCHANGED <<process, world, disk, shot>>
      /\ judged' = judged \union {Where(Main)}
      /\ thread[Main].todo # <<>>
      /\ DOMAIN thread[Main] = {"at", "todo", "significance"}
      /\ DOMAIN thread = Thread /\ Main \in Thread
  BY ThreadAssumption DEF Derive, At, durable, WorldInv, Own
<1> DEFINE health == Evaluate(world[Where(Main)], process.thresholds)
           todo == <<Item(Where(Main), health)>> \o Tail(thread[Main].todo)
<1>2. thread' = [thread EXCEPT ![Main] =
                   IF world[Where(Main)]["health"] = health THEN Rest(@)
                   ELSE [@ EXCEPT !.at = "enter", !.significance = "material",
                                  !.todo = todo]]
  BY DEF Derive
<1>3. health.kind = "health"
  BY HealthKind
<1>4. PICK place : place = Where(Main)
  OBVIOUS
<1>5. health = Evaluate(world[place], process.thresholds)
  BY <1>4
<1>6. todo = <<Item(place, health)>> \o Tail(thread[Main].todo)
  BY <1>4
<1> HIDE DEF health, todo
<1>7. ~Reconciling /\ \A e : ~Deriving(e)
  <2>1. CycleEvent.kind = "cycle"
    BY DEF CycleEvent
  <2>2. Reconciling => CycleEvent.kind = "node"
    BY <1>1, RestNodes DEF Reconciling, What
  <2> QED BY <1>1, <2>1, <2>2 DEF Deriving, InUpdate
<1>8. PICK e : Ingesting(e)
  BY <1>1, <1>7 DEF HealthInv, Engaged, Failed
<1>9. place = e
  BY <1>4, <1>8, EndingIs DEF Ingesting, Where
<1>12. RightBut(e)'
  BY <1>1, <1>4, <1>8, <1>9 DEF Ingesting, RightBut, Follows, Bases
<1>10. CASE world[place]["health"] = health
  <2>1. thread' = [thread EXCEPT ![Main] = Rest(@)]
    BY <1>2, <1>4, <1>10
  <2>2. \A f \in Cycles : Ingesting(f) => Follows(world, f, Bases(f)')
    <3> SUFFICES ASSUME NEW f \in Cycles, Ingesting(f)
                 PROVE  Follows(world, f, Bases(f)')
      OBVIOUS
    <3>1. place = f
      BY <1>4, EndingIs DEF Ingesting, Where
    <3>2. process.thresholds \in Bases(f)'
      BY <1>1, BasesAre DEF Bases
    <3> QED BY <1>5, <1>10, <3>1, <3>2 DEF Follows
  <2> QED BY <1>1, <1>7, <2>1, <2>2, RestHealth DEF Busy
<1>11. CASE world[place]["health"] # health
  <2>1. /\ thread'[Main].at = "enter" /\ thread'[Main].todo = todo
    BY <1>1, <1>2, <1>4, <1>11
  <2>2. CASE Len(thread[Main].todo) <= 1
    <3>1. todo = <<Item(e, health)>>
      BY <1>6, <1>8, <1>9, <2>2, DerivedEnding DEF Ingesting
    <3>2. Deriving(e)'
      BY <1>1, <1>3, <1>5, <1>9, <1>12, <2>1, <3>1 DEF Deriving, InUpdate
    <3> QED BY <1>1, <3>2 DEF HealthInv, Engaged
  <2>3. CASE ~(Len(thread[Main].todo) <= 1)
    <3>1. Len(thread[Main].todo) > 1
      BY <1>8, <2>3, EndingIs DEF Ingesting
    <3>2. Ending(e, todo) /\ Head(todo) = Item(e, health)
      BY <1>6, <1>8, <1>9, <3>1, DerivedEnding DEF Ingesting
    <3>3. What(Main)' = health
      BY <2>1, <3>2 DEF What, Item
    <3>4. What(Main)' # CycleEvent
      BY <1>3, <3>3 DEF CycleEvent
    <3>5. Ingesting(e)'
      BY <1>12, <2>1, <3>2, <3>4 DEF Ingesting, Busy
    <3> QED BY <1>1, <3>5 DEF HealthInv, Engaged
  <2> QED BY <2>2, <2>3
<1> QED BY <1>10, <1>11

LEMMA MainHealth ==
  ASSUME WorldInv, HealthInv, Arrival(Main) \/ Step(Main) PROVE HealthInv'
<1>1. CASE Arrival(Main)
  BY <1>1, BeginHealth DEF Arrival
<1>2. CASE Step(Main)
  BY <1>2, PassHealth, ObserveHealth, DonesHealth, StoreHealth, TakePenHealth,
     RecordFailsHealth, DeriveHealth DEF Step
<1> QED BY <1>1, <1>2

-----------------------------------------------------------------------------
(* The steps of the other threads, and of the process                      *)

\* Another thread touches no entity that has a health.
LEMMA OthersHealth ==
  ASSUME WorldInv, HealthInv, NEW t \in Thread, t # Main, Arrival(t) \/ Step(t)
  PROVE  HealthInv'
<1>1. /\ run # "off" /\ UNCHANGED <<process, disk, shot>>
      /\ thread'[Main] = thread[Main]
  <2>1. CASE Arrival(t)
    <3>1. PICK e, batch : Begin(t, e, batch)
      BY <2>1 DEF Arrival
    <3> QED BY <3>1, ThreadAssumption DEF Begin, At, self, durable, WorldInv
  <2>2. CASE Step(t)
    <3>1. CASE Derive(t)
      <4>1. PICK th : thread' = [thread EXCEPT ![t] = th]
        BY <3>1 DEF Derive
      <4> QED BY <3>1, <4>1, ThreadAssumption DEF Derive, At, self, durable, WorldInv
    <3>2. CASE ~Derive(t)
      BY <2>2, <3>2, ThreadAssumption
         DEF Step, Pass, Observe, Skip, Store, Ignore, TakePen, Record, RecordFails,
             At, self, durable, WorldInv
    <3> QED BY <3>1, <3>2
  <2> QED BY <2>1, <2>2
<1>2. \A f \in Cycles : world'[f] = world[f]
  <2>1. CASE Store(t)
    <3>1. Own(t) /\ thread[t].todo # <<>>
      BY <2>1 DEF WorldInv, Store, At, Own
    <3>2. Owner[Where(t)] = t
      BY <3>1, FirstToDo DEF Own, Where
    <3>3. PICK e, c : e = Where(t) /\ c = What(t)
      OBVIOUS
    <3>4. world' = Put(world, e, c) /\ IsWorld(world) /\ Owner[e] = t
      BY <2>1, <3>2, <3>3 DEF Store, Put, WorldInv, Worlds
    <3> QED BY <3>4, PutIs, CyclesAssumption, EntityAssumption
  <2>2. CASE ~Store(t)
    BY <2>2 DEF Arrival, Begin, Step, Pass, Observe, Skip, Ignore, TakePen, Record,
                RecordFails, Derive, durable
  <2> QED BY <2>1, <2>2
<1>8. \A f \in Cycles : Bases(f)' = Bases(f)
  <2>1. CASE Derive(t)
    <3>1. Own(t) /\ thread[t].todo # <<>>
      BY <2>1 DEF WorldInv, Derive, At, Own
    <3>2. Owner[Where(t)] = t /\ judged' = judged \union {Where(t)}
      BY <2>1, <3>1, FirstToDo DEF Own, Where, Derive
    <3>3. Where(t) \notin Cycles
      BY <3>2, CyclesAssumption
    <3> QED BY <1>1, <3>2, <3>3 DEF Bases
  <2>2. CASE ~Derive(t)
    <3>1. judged' = judged
      BY <2>2 DEF Arrival, Begin, Step, Pass, Observe, Skip, Store, Ignore, TakePen,
                  Record, RecordFails, self
    <3> QED BY <1>1, <3>1 DEF Bases
  <2> QED BY <2>1, <2>2
<1>3. Main \in Failed' <=> Main \in Failed
  BY <1>1 DEF Failed
<1>4. What(Main)' = What(Main)
  BY <1>1 DEF What
<1>5. Reconciling => Reconciling'
  BY <1>1, <1>2, <1>8 DEF Reconciling, Right, Follows
<1>6. \A e : Ingesting(e) => Ingesting(e)'
  BY <1>1, <1>2, <1>4, <1>8 DEF Ingesting, RightBut, Follows
<1>7. \A e : Deriving(e) => Deriving(e)'
  BY <1>1, <1>2, <1>8 DEF Deriving, RightBut, Follows
<1> QED BY <1>1, <1>3, <1>5, <1>6, <1>7 DEF HealthInv, Engaged

LEMMA IdleIsRight ==
  ASSUME HealthInv, run # "off", thread[Main].at = "idle"
  PROVE  Right /\ Reconciling
BY DEF HealthInv, Failed, Engaged, Ingesting, Deriving, Reconciling, Busy, InUpdate

LEMMA BootHealth ==
  ASSUME WorldInv, HealthInv, NEW p \in Processes, Boot(p)
  PROVE  HealthInv'
<1>1. UNCHANGED <<disk, shot>> /\ world' = disk /\ judged' = {}
  BY DEF Boot
<1>2. thread'[Main].todo = Topology \/ thread'[Main].todo = <<>>
  BY IdleIs, ThreadAssumption DEF Boot, WorldInv
<1>3. Right'
  BY <1>1 DEF HealthInv, Sound, Right, Follows, Bases
<1>4. Reconciling'
  BY <1>2, <1>3, NoNodes, TopologyNodes DEF Reconciling
<1> QED BY <1>1, <1>4 DEF HealthInv, Engaged

LEMMA EndHealth ==
  ASSUME WorldInv, HealthInv, Leave \/ Finish \/ Crash PROVE HealthInv'
<1>1. run # "off" /\ run' = "off" /\ shot' = Empty
  BY DEF Leave, Finish, Crash, Gone
<1>2. CASE disk' = disk
  BY <1>1, <1>2, SoundEmpty DEF HealthInv
<1>3. CASE disk' # disk
  <2>1. thread[Main].at = "idle" /\ disk' = world
    BY <1>3, ThreadAssumption DEF Leave, Finish, Crash, Failed, At
  <2> QED BY <1>1, <2>1, IdleIsRight, RightIsSound, SoundEmpty DEF HealthInv
<1> QED BY <1>2, <1>3

LEMMA ProcessHealth ==
  ASSUME WorldInv, HealthInv, Capture \/ Replace \/ Stop
  PROVE  HealthInv'
<1>1. CASE Capture
  <2>1. /\ run # "off" /\ thread[Main].at = "idle" /\ shot' = world
        /\ UNCHANGED <<process, judged, world, disk>>
    BY <1>1 DEF Capture, At, self, durable
  <2>2. Own(Main)
    BY ThreadAssumption DEF WorldInv
  <2>3. thread'[Main].todo = thread[Main].todo
    BY <1>1, <2>2, ThreadAssumption DEF Capture, WorldInv, Own
  <2>4. Right /\ Reconciling
    BY <2>1, IdleIsRight
  <2>5. Reconciling'
    BY <2>1, <2>3, <2>4 DEF Reconciling, Right, Follows, Bases
  <2> QED BY <2>1, <2>4, <2>5, RightIsSound DEF HealthInv, Engaged
<1>2. CASE Replace
  <2>1. /\ run # "off" /\ thread[Main].at = "save" /\ disk' = shot
        /\ shot' = Empty /\ UNCHANGED <<process, judged, world>>
        /\ thread'[Main] = Idle
    BY <1>2, ThreadAssumption DEF Replace, At, self, WorldInv
  <2>2. Reconciling
    BY <2>1 DEF HealthInv, Failed, Engaged, Ingesting, Deriving, Busy, InUpdate
  <2>3. Reconciling'
    BY <2>1, <2>2, IdleIs, NoNodes DEF Reconciling, Right, Follows, Bases
  <2> QED BY <2>1, <2>3, SoundEmpty DEF HealthInv, Engaged
<1>3. CASE Stop
  <2>1. run # "off" /\ UNCHANGED <<process, judged, world, disk, shot, thread>>
    BY <1>3 DEF Stop, self, durable
  <2>2. Engaged => Engaged'
    BY <2>1 DEF Engaged, Reconciling, Ingesting, Deriving, Right, RightBut, Follows,
                Bases, What
  <2> QED BY <2>1, <2>2 DEF HealthInv, Failed
<1> QED BY <1>1, <1>2, <1>3

LEMMA StepHealth == WorldInv /\ HealthInv /\ [Next]_vars => HealthInv'
<1> SUFFICES ASSUME WorldInv, HealthInv, [Next]_vars PROVE HealthInv'
  OBVIOUS
<1>1. CASE Next
  BY <1>1, MainHealth, OthersHealth, BootHealth, ProcessHealth, EndHealth DEF Next
<1>2. CASE UNCHANGED vars
  <2>1. UNCHANGED <<run, process, judged, world, disk, shot, thread>>
    BY <1>2 DEF vars, self
  <2>2. Engaged => Engaged'
    BY <2>1 DEF Engaged, Reconciling, Ingesting, Deriving, Right, RightBut, Follows,
                Bases, What
  <2> QED BY <2>1, <2>2 DEF HealthInv, Failed
<1> QED BY <1>1, <1>2

\* Between its batches the health of an entity is what its components give,
\* whatever the batches, the failures of the journal, the thresholds of each
\* process, and the moments at which snapshots are taken and processes die:
\* under the thresholds of this process once it has evaluated the entity, under
\* those of an earlier one before.  Values, state and cycle event are in this
\* order (bootstrap.py), and the main thread, which alone publishes cycles,
\* takes no snapshot in between.
THEOREM HealthIsDerivedLast == Spec => []HealthFollowsTelemetry
<1>1. Init => WorldInv /\ HealthInv
  BY InitWorld, InitHealth
<1>2. WorldInv /\ HealthInv /\ [Next]_vars => WorldInv' /\ HealthInv'
  BY StepWorld, StepHealth
<1>3. WorldInv /\ HealthInv => HealthFollowsTelemetry
  <2> SUFFICES ASSUME HealthInv, WorldInv, NEW e \in Cycles,
                      At(Owner[e], "idle"), world[e]["observation"] # None
               PROVE  \E t \in Thresholds :
                        /\ world[e]["health"] = Evaluate(world[e], t)
                        /\ e \in judged => t = process.thresholds
    BY DEF HealthFollowsTelemetry
  <2>1. Follows(world, e, Bases(e))
    BY IdleIsRight, CyclesAssumption DEF At, Right
  <2>2. PICK h \in Bases(e) : world[e]["health"] = Evaluate(world[e], h)
    BY <2>1 DEF Follows
  <2> QED BY <2>2, BasesAre DEF Bases
<1> QED BY <1>1, <1>2, <1>3, PTL DEF Spec

-----------------------------------------------------------------------------
(* Types: a thread has something to do just when it is in a batch, and the *)
(* pen is with a thread that writes, which is then the one inside an       *)
(* update.                                                                 *)

Resting == {"idle", "save", "failed"}

InPlace(t) ==
  /\ thread[t].at \in Places
  /\ thread[t].todo = <<>> <=> thread[t].at \in Resting

PenWrites == pen = NoThread \/ (pen \in Thread /\ thread[pen].at = "write")

Typed ==
  /\ run \in {"off", "up", "stopping"}
  /\ \A t \in Thread : InPlace(t)
  /\ PenWrites
  /\ judged \subseteq Entity /\ lag \subseteq Components
  /\ orderly \in BOOLEAN

LEMMA InitTyped == Init => Typed
<1> SUFFICES ASSUME Init PROVE Typed
  OBVIOUS
<1>1. \A t \in Thread : InPlace(t)
  BY IdleIs DEF Init, InPlace, Places, Resting
<1> QED BY <1>1 DEF Init, Typed, PenWrites

\* A thread that rests has nothing left to do, or goes on with its batch.
LEMMA RestPlace ==
  ASSUME WorldInv, NEW t \in Thread, thread[t].todo # <<>>,
         thread' = [thread EXCEPT ![t] = Rest(@)]
  PROVE  InPlace(t)'
<1>1. thread'[t] = Rest(thread[t])
  BY DEF WorldInv
<1>2. /\ DOMAIN thread[t] = {"at", "todo", "significance"}
      /\ Worklist(t, thread[t].todo)
  BY DEF WorldInv, Own
<1>3. CASE Len(thread[t].todo) <= 1
  <2>1. thread'[t] = Idle
    BY <1>1, <1>3 DEF Rest
  <2> QED BY <2>1, IdleIs DEF InPlace, Places, Resting
<1>4. CASE ~(Len(thread[t].todo) <= 1)
  <2>1. thread'[t] = [thread[t] EXCEPT !.at = "observe", !.todo = Tail(@)]
    BY <1>1, <1>4 DEF Rest
  <2>2. thread'[t].at = "observe" /\ thread'[t].todo = Tail(thread[t].todo)
    BY <1>2, <2>1
  <2>3. Len(thread[t].todo) > 1
    BY <1>2, <1>4 DEF Worklist
  <2>4. Tail(thread[t].todo) # <<>>
    BY <1>2, <2>3, FirstToDo
  <2> QED BY <2>2, <2>4 DEF InPlace, Places, Resting
<1> QED BY <1>3, <1>4

\* A step of one thread leaves the others where they are.
LEMMA StepPlaces ==
  ASSUME Typed, NEW t \in Thread,
         \A u \in Thread \ {t} : thread'[u] = thread[u],
         InPlace(t)', PenWrites', UNCHANGED <<run, orderly>>,
         lag' \subseteq lag, judged' \subseteq Entity
  PROVE  Typed'
<1>1. ASSUME NEW u \in Thread \ {t} PROVE InPlace(u)'
  BY DEF Typed, InPlace
<1>2. \A u \in Thread : InPlace(u)'
  BY <1>1
<1>3. /\ run' \in {"off", "up", "stopping"} /\ orderly' \in BOOLEAN
      /\ lag' \subseteq Components
  BY DEF Typed
<1> QED BY <1>2, <1>3 DEF Typed

\* Whoever does not write does not have the pen, and it stays where it is.
LEMMA PenStays ==
  ASSUME Typed, NEW t \in Thread, thread[t].at # "write", pen' = pen,
         \A u \in Thread \ {t} : thread'[u] = thread[u]
  PROVE  PenWrites'
BY DEF Typed, PenWrites

LEMMA ThreadTyped ==
  ASSUME WorldInv, Typed, NEW t \in Thread, Arrival(t) \/ Step(t)
  PROVE  Typed'
<1>1. Own(t) /\ InPlace(t) /\ DOMAIN thread = Thread
  BY DEF WorldInv, Typed
<1>2. /\ DOMAIN thread[t] = {"at", "todo", "significance"}
      /\ thread[t].at \in {"observe", "enter", "publish", "write"}
           => thread[t].todo # <<>>
  BY <1>1 DEF Own, InUpdate
<1>3. ASSUME NEW e \in Entity, NEW batch \in Batches[e], Begin(t, e, batch)
      PROVE  Typed'
  <2> DEFINE todo == Todo(e, batch)
  <2>1. todo # <<>>
    BY AllToDo
  <2> HIDE DEF todo
  <2>2. /\ thread' = [thread EXCEPT ![t] = [Idle EXCEPT !.at = "observe", !.todo = todo]]
        /\ thread[t].at = "idle" /\ UNCHANGED <<run, judged, pen, lag, orderly>>
    BY <1>3 DEF Begin, At, self, durable, todo
  <2>3. thread'[t].at = "observe" /\ thread'[t].todo = todo
    BY <1>1, <2>2, IdleIs
  <2>4. InPlace(t)'
    BY <2>1, <2>3 DEF InPlace, Places, Resting
  <2> QED BY <1>1, <2>2, <2>4, PenStays, StepPlaces DEF Typed
<1>4. CASE Pass(t) \/ Skip(t) \/ Ignore(t)
  <2>1. /\ thread' = [thread EXCEPT ![t] = Rest(@)]
        /\ thread[t].at \in {"observe", "enter", "publish"}
        /\ UNCHANGED <<run, judged, pen, lag, orderly>>
    BY <1>4 DEF Pass, Skip, Ignore, At, self, durable
  <2>2. InPlace(t)'
    BY <1>2, <2>1, RestPlace
  <2> QED BY <1>1, <2>1, <2>2, PenStays, StepPlaces DEF Typed
<1>5. CASE Observe(t) \/ Store(t)
  <2>1. /\ \A u \in Thread \ {t} : thread'[u] = thread[u]
        /\ thread'[t].at \in {"enter", "publish"}
        /\ thread'[t].todo = thread[t].todo
    BY <1>1, <1>2, <1>5 DEF Observe, Store
  <2>2. thread[t].at \in {"observe", "enter"} /\ UNCHANGED <<run, judged, pen, lag, orderly>>
    BY <1>5 DEF Observe, Store, At, self, durable
  <2>3. InPlace(t)'
    BY <1>2, <2>1, <2>2 DEF InPlace, Places, Resting
  <2> QED BY <2>1, <2>2, <2>3, PenStays, StepPlaces DEF Typed
<1>6. CASE TakePen(t)
  <2>1. /\ \A u \in Thread \ {t} : thread'[u] = thread[u]
        /\ thread'[t].at = "write" /\ thread'[t].todo = thread[t].todo
        /\ thread[t].at = "publish" /\ pen' = t /\ UNCHANGED <<run, judged, lag, orderly>>
    BY <1>1, <1>2, <1>6 DEF TakePen, At, self, durable
  <2>2. InPlace(t)' /\ PenWrites'
    BY <1>2, <2>1 DEF InPlace, Places, Resting, PenWrites
  <2> QED BY <2>1, <2>2, StepPlaces DEF Typed
<1>7. CASE Record(t)
  <2>1. /\ thread' = [thread EXCEPT ![t] = Rest(@)]
        /\ thread[t].at = "write" /\ pen' = NoThread
        /\ lag' \subseteq lag /\ UNCHANGED <<run, judged, orderly>>
    BY <1>7 DEF Record, At, self
  <2>2. InPlace(t)' /\ PenWrites'
    BY <1>2, <2>1, RestPlace DEF PenWrites
  <2> QED BY <1>1, <2>1, <2>2, StepPlaces DEF Typed
<1>8. CASE RecordFails(t)
  <2>1. /\ thread' = [thread EXCEPT ![t] = [Idle EXCEPT !.at = "failed"]]
        /\ pen' = NoThread /\ UNCHANGED <<run, judged, lag, orderly>>
    BY <1>8 DEF RecordFails, self, durable
  <2>2. thread'[t].at = "failed" /\ thread'[t].todo = <<>>
    BY <1>1, <2>1, IdleIs
  <2>3. InPlace(t)' /\ PenWrites'
    BY <2>1, <2>2 DEF InPlace, Places, Resting, PenWrites
  <2> QED BY <1>1, <2>1, <2>3, StepPlaces DEF Typed
<1>9. CASE Derive(t)
  <2> DEFINE health == Evaluate(world[Where(t)], process.thresholds)
             todo == <<Item(Where(t), health)>> \o Tail(thread[t].todo)
  <2>1. /\ thread[t].at = "observe" /\ UNCHANGED <<run, pen, lag, orderly>>
        /\ judged' = judged \union {Where(t)}
    BY <1>9 DEF Derive, At, durable
  <2>5. judged' \subseteq Entity
    <3>1. Where(t) \in Entity
      BY <1>1, <1>2, <2>1, FirstToDo DEF Own, Where
    <3> QED BY <2>1, <3>1 DEF Typed
  <2>2. todo # <<>>
    <3> HIDE DEF health
    <3> QED BY <1>1, <1>2, <2>1, HealthToDo DEF Own, Where
  <2>3. thread' = [thread EXCEPT ![t] =
                     IF world[Where(t)]["health"] = health THEN Rest(@)
                     ELSE [@ EXCEPT !.at = "enter", !.significance = "material",
                                    !.todo = todo]]
    BY <1>9 DEF Derive
  <2> HIDE DEF health, todo
  <2>4. InPlace(t)'
    <3>1. CASE world[Where(t)]["health"] = health
      <4>1. thread' = [thread EXCEPT ![t] = Rest(@)]
        BY <2>3, <3>1
      <4> QED BY <1>2, <2>1, <4>1, RestPlace
    <3>2. CASE world[Where(t)]["health"] # health
      <4>1. thread'[t].at = "enter" /\ thread'[t].todo = todo
        BY <1>1, <1>2, <2>3, <3>2
      <4> QED BY <2>2, <4>1 DEF InPlace, Places, Resting
    <3> QED BY <3>1, <3>2
  <2> QED BY <1>1, <2>1, <2>3, <2>4, <2>5, PenStays, StepPlaces
<1> QED BY <1>3, <1>4, <1>5, <1>6, <1>7, <1>8, <1>9 DEF Arrival, Step

\* The steps of the process, which touch the main thread at most.
LEMMA ProcessTyped ==
  ASSUME WorldInv, Typed, (\E p \in Processes : Boot(p)) \/ Capture \/ Replace \/ Stop
  PROVE  Typed'
<1>1. Main \in Thread /\ DOMAIN thread = Thread /\ InPlace(Main)
      /\ DOMAIN thread[Main] = {"at", "todo", "significance"}
  BY ThreadAssumption DEF WorldInv, Typed, Own
<1>2. ASSUME NEW p \in Processes, Boot(p) PROVE Typed'
  <2>1. /\ run' = "up" /\ judged' = {} /\ lag' \subseteq Components /\ orderly' \in BOOLEAN
        /\ \A t \in Thread : thread[t] = Idle
    BY <1>2 DEF Boot, WorldInv, Typed, Unrecorded
  <2>2. pen' = NoThread
    BY <1>2, <2>1, IdleIs DEF Boot, Typed, PenWrites
  <2>3. ASSUME NEW t \in Thread PROVE InPlace(t)'
    <3>1. CASE t = Main /\ Topology # <<>>
      <4>1. thread'[t] = [Idle EXCEPT !.at = "observe", !.todo = Topology]
        BY <1>1, <1>2, <3>1 DEF Boot
      <4>2. thread'[t].at = "observe" /\ thread'[t].todo = Topology
        BY <4>1, IdleIs
      <4> QED BY <3>1, <4>2 DEF InPlace, Places, Resting
    <3>2. CASE ~(t = Main /\ Topology # <<>>)
      <4>1. thread'[t] = Idle
        BY <1>1, <1>2, <2>1, <3>2 DEF Boot
      <4> QED BY <4>1, IdleIs DEF InPlace, Places, Resting
    <3> QED BY <3>1, <3>2
  <2> QED BY <2>1, <2>2, <2>3 DEF Typed, PenWrites
<1>3. CASE Capture
  <2>1. /\ \A u \in Thread \ {Main} : thread'[u] = thread[u]
        /\ thread'[Main].at = "save" /\ thread'[Main].todo = thread[Main].todo
        /\ thread[Main].at = "idle" /\ UNCHANGED <<run, judged, pen, lag, orderly>>
    BY <1>1, <1>3 DEF Capture, At, self, durable
  <2>2. InPlace(Main)'
    BY <1>1, <2>1 DEF InPlace, Places, Resting
  <2> QED BY <1>1, <2>1, <2>2, PenStays, StepPlaces DEF Typed
<1>4. CASE Replace
  <2>1. /\ \A u \in Thread \ {Main} : thread'[u] = thread[u]
        /\ thread'[Main] = Idle
        /\ thread[Main].at = "save" /\ UNCHANGED <<run, judged, pen, lag, orderly>>
    BY <1>1, <1>4 DEF Replace, At, self
  <2>2. InPlace(Main)'
    BY <2>1, IdleIs DEF InPlace, Places, Resting
  <2> QED BY <1>1, <2>1, <2>2, PenStays, StepPlaces DEF Typed
<1>5. CASE Stop
  BY <1>5 DEF Stop, self, durable, Typed, InPlace, PenWrites
<1> QED BY <1>2, <1>3, <1>4, <1>5

LEMMA GoneTyped == Typed /\ Gone /\ lag' = lag /\ orderly' \in BOOLEAN => Typed'
<1> SUFFICES ASSUME Typed, Gone, lag' = lag, orderly' \in BOOLEAN PROVE Typed'
  OBVIOUS
<1>1. \A t \in Thread : InPlace(t)'
  BY IdleIs DEF Gone, InPlace, Places, Resting
<1> QED BY <1>1 DEF Gone, Typed, PenWrites

LEMMA StepTyped == WorldInv /\ Typed /\ [Next]_vars => Typed'
<1> SUFFICES ASSUME WorldInv, Typed, [Next]_vars PROVE Typed'
  OBVIOUS
<1>1. CASE Leave \/ Finish \/ Crash
  <2>1. Gone /\ lag' = lag /\ orderly' \in BOOLEAN
    BY <1>1 DEF Leave, Finish, Crash
  <2> QED BY <2>1, GoneTyped
<1>2. CASE UNCHANGED vars
  BY <1>2 DEF vars, self, Typed, InPlace, PenWrites
<1> QED BY <1>1, <1>2, ThreadTyped, ProcessTyped DEF Next

\* Types, and three facts of the protocol of the two locks: the journal's pen
\* is only ever with the thread that holds the lock of the world (the journal
\* is written from inside an update, store.py and journal.py), a thread has
\* something to do just when it is in a batch, and what is held of a kind is
\* of this kind, in the world, in the journal and in both snapshots.
THEOREM TypeCorrect == Spec => []TypeOK
<1>1. Init => WorldInv /\ Typed
  BY InitWorld, InitTyped
<1>2. WorldInv /\ Typed /\ [Next]_vars => WorldInv' /\ Typed'
  BY StepWorld, StepTyped
<1>3. WorldInv /\ Typed => TypeOK
  <2> SUFFICES ASSUME WorldInv, Typed PROVE TypeOK
    OBVIOUS
  <2>1. \A w \in {world, journal, disk, shot} :
          \A e \in Entity : \A k \in Kinds[e] : w[e][k] = None \/ w[e][k].kind = k
    BY DEF WorldInv, Worlds, IsWorld
  <2>2. pen \in {NoThread, lock}
    BY DEF WorldInv, Own, InUpdate, Typed, PenWrites
  <2>3. \A t \in Thread :
          /\ thread[t].at \in Places
          /\ thread[t].significance \in {"sample", "material"}
          /\ thread[t].todo = <<>> <=> thread[t].at \in {"idle", "save", "failed"}
    BY DEF WorldInv, Own, Typed, InPlace, Resting
  <2> QED BY <2>1, <2>2, <2>3 DEF TypeOK, WorldInv, Typed
<1> QED BY <1>1, <1>2, <1>3, PTL DEF Spec
=============================================================================
