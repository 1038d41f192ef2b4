------------------------------ MODULE Traffic ------------------------------
(***************************************************************************)
(* The traffic awareness worker as it collects: eight sources, asked in    *)
(* turn by one thread; the entity of each; the situation that is derived   *)
(* anew after every collection; and the withdrawal of what an earlier      *)
(* process left (traffic_awareness.py).                                    *)
(*                                                                         *)
(* A clock says no more than which sources are due.  A snapshot matters    *)
(* only if it is the last one of its process, so it is part of the end of  *)
(* a process, after the last thing that the snapshot has.  Runtime has the *)
(* life of the thread.                                                     *)
(***************************************************************************)
EXTENDS TrafficAdapters

CONSTANTS
  Configs,   \* sets of providers that a configuration may enable
  Answers,   \* what each source may answer
  Boots      \* bound of the number of processes; the last leaves no snapshot

\* The order of a pass.
Order == <<"events", "signs", "cmpd", "flow", "cameras", "wzdx", "charlotte",
           "incidents">>
Source == ToSet(Order)
EventSource == {"events", "wzdx", "cmpd", "charlotte", "incidents"}

\* Slip: fixtures and flow do not lead to a new situation.
FusingEvents == EventSource

\* The sources after whose collection the situation is derived anew: _collect
\* does so for every one.
Fusing == Source

\* The provider whose configuration enables a source.
Group(s) == CASE s \in {"events", "signs", "cameras"} -> "drivenc"
              [] s \in {"flow", "incidents"}          -> "tomtom"
              [] OTHER                                -> s

ASSUME ConfigAssumption == Configs \subseteq SUBSET {Group(s) : s \in Source}

VARIABLES
  config,   \* the providers of the running process; None: there is none
  world,    \* per source and for the situation: component and availability
  disk,     \* the snapshot
  due,      \* the sources whose next_due has come
  worker,   \* what the worker is doing for which source; the batch it has and
             \* for which entity
  heard,    \* sources that answered in this process
  silent,   \* enabled sources of which a request failed when last asked
  boots     \* how many processes there were

vars == <<config, world, disk, due, worker, heard, silent, boots>>
process == <<config, disk, boots>>

Enabled(s) == Group(s) \in config

NoWorld == [s \in Source \union {"situation"} |->
              [state |-> None, availability |-> None]]

Waiting == [at |-> "wait", source |-> None, entity |-> None, batch |-> <<>>]
Asking(s) == [Waiting EXCEPT !.at = "ask", !.source = s]
Ingesting(s, entity, batch) ==
  [at |-> "store", source |-> s, entity |-> entity, batch |-> batch]

Usable(s) == world[s].state # None /\ world[s].availability \in {"current", "degraded"}
Missing(s) == world[s].availability \in {None, "unavailable"}

-----------------------------------------------------------------------------
(* A pass of the loop                                                      *)

Position(s) == CHOOSE i \in DOMAIN Order : Order[i] = s

\* Slip: a source whose interval has not passed takes its turn as well.
DueAfterOfAll(i, dues) == {j \in DOMAIN Order : j > i /\ Enabled(Order[j])}

DueAfter(i, dues) == {j \in DOMAIN Order : j > i /\ Order[j] \in dues}

\* Slip: after a collection the pass starts again from its beginning.
OnwardFromStart(i, dues) ==
  IF DueAfter(0, dues) = {} THEN Waiting ELSE Asking(Order[Min(DueAfter(0, dues))])

\* The next source of the pass that is due, or the end of the pass.
Onward(i, dues) ==
  IF DueAfter(i, dues) = {} THEN Waiting ELSE Asking(Order[Min(DueAfter(i, dues))])

BeginPass ==
  /\ worker.at = "wait" /\ due # {}
  /\ worker' = Onward(0, due)
  /\ UNCHANGED <<process, world, due, heard, silent>>

Collect(s, answer) ==
  CASE s = "events"    -> EventsCollect(answer)
    [] s = "signs"     -> SignsCollect(answer)
    [] s = "cmpd"      -> CMPDCollect(answer)
    [] s = "flow"      -> FlowCollect(answer)
    [] s = "cameras"   -> CamerasCollect(answer)
    [] s = "wzdx"      -> WZDxCollect(answer)
    [] s = "charlotte" -> CharlotteCollect(answer)
    [] s = "incidents" -> IncidentsCollect(answer)

\* What a source may tell, its component; the events among that; and what may
\* be derived from it.
Told(s) == {Collect(s, a)[1].value : a \in {b \in Answers[s] : Successful(Collect(s, b))}}
Events  == UNION {ToSet(c.items) : c \in UNION {Told(s) : s \in EventSource}}
Families ==
  {c.family : c \in UNION {Told(s) : s \in Source}} \union {e.family : e \in Events}
Kernels ==
  [key : {Lineage(e) : e \in Events}, families : SUBSET Families,
   records : SUBSET {<<e.provider, e.record>> : e \in Events}, closed : BOOLEAN]
Situations ==
  [kind : {"situation"}, kernels : SUBSET Kernels, closures : Nat,
   families : SUBSET Families, cameras : Nat, signs : Nat, probes : Nat,
   records : Nat, gaps : SUBSET Source]

\* A payload is a finite list, and so is what the adapter reports of it.
ASSUME AnswersAssumption ==
  \A s \in Source : \A c \in Told(s) : c.items \in Seq(ToSet(c.items)) /\ c.active \in Nat
ASSUME BootsAssumption == Boots \in Nat
ASSUME NoneAssumption ==
  /\ None \notin Configs /\ None \notin {"current", "degraded", "unavailable"}
  /\ None \notin Situations /\ \A s \in Source : None \notin Told(s)

\* Some request of the source was not answered.
SomeSilence(s, answer) ==
  \/ answer = Fails
  \/ s \in {"flow", "incidents"} /\ \E i \in DOMAIN answer : answer[i] = Fails

Answer(answer) ==
  LET s     == worker.source
      batch == Collect(s, answer)
  IN /\ worker.at = "ask"
     /\ worker' = Ingesting(s, s, batch)
     /\ heard'  = IF Successful(batch) THEN heard \union {s} ELSE heard
     /\ silent' = IF SomeSilence(s, answer) THEN silent \union {s} ELSE silent \ {s}
     /\ UNCHANGED <<process, world, due>>

-----------------------------------------------------------------------------
(* ingest_observation_batch, then _recompute_situation                     *)

\* The component of the batch is stored.
Store ==
  /\ worker.at = "store"
  /\ worker' = [worker EXCEPT !.at = "qualify"]
  /\ LET value == worker.batch[1].value
     IN world' = [world EXCEPT ![worker.entity].state = IF value = None THEN @ ELSE value]
  /\ UNCHANGED <<process, due, heard, silent>>

\* The enabled sources that are not there.
Gaps == {s \in Source : Enabled(s) /\ Missing(s)}

\* Events are read of enabled sources; cameras, signs and flow of any.
SituationNow ==
  LET Other(s) == IF Usable(s) THEN world[s].state ELSE None
  IN Situation({world[s].state : s \in {e \in EventSource : Enabled(e) /\ Usable(e)}},
               Other("cameras"), Other("signs"), Other("flow"), Gaps)

Degraded(s) ==
  world[s].availability = "degraded"
    /\ (s \in EventSource => Enabled(s) /\ world[s].state # None)

SituationBatch ==
  IF SituationNow = None THEN <<Unavailable("traffic.fusion", {"no source"})>>
  ELSE IF Gaps # {} \/ \E s \in Source : Degraded(s)
  THEN <<Partial("traffic.fusion", SituationNow, {"degraded"})>>
  ELSE <<Observed("traffic.fusion", SituationNow)>>

\* The ObservationState of the batch, which ends it; that of a source leads to
\* the situation, that of the situation to the next source of the pass.
Qualify ==
  /\ worker.at = "qualify"
  /\ world' = [world EXCEPT ![worker.entity].availability = Availability(worker.batch)]
  /\ IF worker.entity \in Fusing
     THEN /\ worker' = [Asking(worker.source) EXCEPT !.at = "derive"]
          /\ UNCHANGED due
     ELSE /\ due' = due \ {worker.source}
          /\ worker' = Onward(Position(worker.source), due')
  /\ UNCHANGED <<process, heard, silent>>

Derive ==
  /\ worker.at = "derive"
  /\ worker' = Ingesting(worker.source, "situation", SituationBatch)
  /\ UNCHANGED <<process, world, due, heard, silent>>

-----------------------------------------------------------------------------
(* Time and the process                                                    *)

\* The interval of a source has passed.
Expire(s) ==
  /\ config # None /\ Enabled(s) /\ s \notin due
  /\ due' = due \union {s}
  /\ UNCHANGED <<process, world, worker, heard, silent>>

\* Slip: the situation that an earlier process derived stays until the next.
ReentryOfSources(w, providers) ==
  [s \in DOMAIN w |->
     IF s # "situation" /\ Group(s) \in providers
     THEN [w[s] EXCEPT !.availability = "unavailable"] ELSE w[s]]

\* prepare_reentry: enabled sources and the situation, no other.
Reentry(w, providers) ==
  [s \in DOMAIN w |->
     IF s = "situation" \/ Group(s) \in providers
     THEN [w[s] EXCEPT !.availability = "unavailable"] ELSE w[s]]

Boot(providers) ==
  /\ config = None /\ boots < Boots
  /\ config' = providers /\ boots' = boots + 1
  /\ world' = Reentry(disk, providers)
  /\ due' = {s \in Source : Group(s) \in providers}
  /\ worker' = Waiting /\ heard' = {} /\ silent' = {}
  /\ disk' = NoWorld

\* A stop or a crash, and the last snapshot if there was one.
End(snapshot) ==
  /\ config # None
  /\ config' = None /\ world' = NoWorld /\ due' = {} /\ worker' = Waiting
  /\ heard' = {} /\ silent' = {}
  /\ disk' = IF boots < Boots THEN snapshot ELSE NoWorld
  /\ UNCHANGED boots

Init ==
  /\ config = None /\ world = NoWorld /\ disk = NoWorld /\ due = {}
  /\ worker = Waiting /\ heard = {} /\ silent = {} /\ boots = 0

Working ==
  \/ BeginPass \/ Store \/ Qualify \/ Derive
  \/ worker.at = "ask" /\ \E answer \in Answers[worker.source] : Answer(answer)

Next ==
  \/ Working
  \/ \E s \in Source : Expire(s)
  \/ \E providers \in Configs : Boot(providers)
  \/ End(world) \/ End(disk)

\* Every request has a timeout and every wait is at most a second.
Fairness == WF_vars(Working)

Spec == Init /\ [][Next]_vars /\ Fairness

-----------------------------------------------------------------------------
TypeOK ==
  /\ config \in Configs \union {None}
  /\ \A w \in {world, disk} : \A s \in DOMAIN w :
       /\ w[s].availability \in {None, "current", "degraded", "unavailable"}
       /\ w[s].availability \in {"current", "degraded"} => w[s].state # None
       /\ w[s].state # None =>
            w[s].state.kind = IF s = "situation" THEN "situation" ELSE "collection"
  /\ worker.at \in {"wait", "ask", "store", "qualify", "derive"}
  /\ worker.source \in due \union {None}
  /\ worker.entity \in {worker.source, "situation", None}
  /\ config = None <=> due = {} /\ worker = Waiting /\ world = NoWorld /\ boots \in 0 .. Boots
  /\ heard \union silent \union due \subseteq {s \in Source : config # None /\ Enabled(s)}
  /\ boots \in 0 .. Boots

Between == config # None /\ worker.at \in {"wait", "ask"}

\* Between two collections the situation is the one that the sources give now,
\* with what is missing named, and it is unavailable if they give none
\* (_collect derives it anew after every source, in whatever order they come).
SituationFollowsSources ==
  Between /\ world["situation"].availability \in {"current", "degraded"} =>
    world["situation"].state = SituationNow

\* A situation that says of itself that it is current lacks nothing: every
\* enabled source has answered this process, and of none a request failed when
\* it was last asked, be it one tile of nine (prepare_reentry,
\* _recompute_situation, TomTomIncidentsAdapter.collect).
CurrentMeansAllAnswered ==
  Between /\ world["situation"].availability = "current" =>
    \A s \in Source : Enabled(s) => s \in heard \ silent

\* Whose records the events of a source are.
Teller == [events |-> "DriveNC", wzdx |-> "WZDx", cmpd |-> "CMPD",
           charlotte |-> "Charlotte", incidents |-> "TomTom"]

\* A usable situation has no event that an earlier process was told: every
\* record it refers to is of a source that answered this one, whatever the
\* snapshot held and whichever sources are enabled now (prepare_reentry).
EventsAreOfThisProcess ==
  config # None /\ world["situation"].availability \in {"current", "degraded"} =>
    \A k \in world["situation"].state.kernels : \A r \in k.records :
      \E s \in heard \intersect EventSource : Teller[s] = r[1]

\* A closure that several providers report from one first source counts once,
\* reports of different families stay apart, no report is lost, and what two
\* providers say is taken for one event only if both have it from NCDOT's own
\* system (derive_traffic_situation, source_family_for_drivenc, _source_family).
ClosuresCountOnce ==
  Between /\ world["situation"].availability \in {"current", "degraded"} =>
    LET events == UNION {ToSet(world[s].state.items) :
                           s \in {e \in EventSource : Enabled(e) /\ Usable(e)}}
        closed == {e \in events : e.closed = TRUE}
        Same(e, f) == e.family = f.family
                        /\ IF e.upstream # None THEN e.upstream = f.upstream ELSE e = f
        kernels == world["situation"].state.kernels
    IN /\ world["situation"].state.closures =
            Cardinality({{f \in closed : Same(e, f)} : e \in closed})
       /\ \A k \in kernels : Cardinality(k.families) = 1
       /\ \A k \in kernels : \A r, s \in k.records :
            r[1] # s[1] => k.families = {ATMSERS}
       /\ {<<e.provider, e.record>> : e \in events} = UNION {k.records : k \in kernels}

\* Whatever the others do, a source that is due is collected, unless the
\* process ends (_run: the pass goes on where it was).
DueIsCollected == \A s \in Source : s \in due ~> s \notin due
=============================================================================
