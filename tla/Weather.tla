------------------------------ MODULE Weather ------------------------------
(***************************************************************************)
(* The world awareness worker as it collects: six sources with intervals   *)
(* of their own, asked in turn by one thread that each of them may block;  *)
(* the entity of each source; surface retention; the estimate that follows *)
(* three of the sources; and the withdrawal of what an earlier process     *)
(* left (world_awareness.py).                                              *)
(*                                                                         *)
(* Time passes while the worker waits, while a provider is asked and while *)
(* there is no process.  A unit of time is long against the second for     *)
(* which the loop sleeps, so a worker that waits asks as soon as a source  *)
(* is due.  The main thread takes snapshots whenever it likes.  Runtime    *)
(* has the life of the thread; here the process runs, leaves or crashes.   *)
(***************************************************************************)
EXTENDS WeatherAdapters

CONSTANTS
  Configs,   \* sets of sources that a configuration may enable
  Interval,  \* interval_seconds of each source
  Patience,  \* timeout_seconds of each source, what a request may take at most
  PointsAge, \* points_refresh_seconds
  Answers,   \* what each provider may answer; times are relative to now
  Horizon,   \* bound of the clock
  Boots      \* bound of the number of processes; the last leaves no snapshot

\* The order of a pass.
Order == <<"alerts", "surface", "weather", "forecast", "radar", "context">>
Source == ToSet(Order)

\* Slip: the forecast, only compared with, does not lead to a new estimate.
FusingMeasured == {"surface", "weather"}

\* The sources after whose collection the estimate is derived anew.
Fusing == {"surface", "weather", "forecast"}

Kinds(s) == CASE s = "weather"  -> {"weather", "day"}
              [] s = "forecast" -> {"hourly"}
              [] OTHER          -> {s}

ASSUME ClockAssumption ==
  /\ Horizon \in Nat /\ Boots \in Nat /\ MaxAge \in Nat /\ Ahead \in Nat /\ PointsAge \in Nat
  /\ Interval \in [Source -> Nat \ {0}]
  /\ Patience \in [Source -> Nat]
ASSUME ConfigAssumption == Configs \subseteq SUBSET Source

VARIABLES
  now,      \* the clock, of the wall and the monotonic one
  enabled,  \* the sources of the running process; None: there is none
  world,    \* per source and for the estimate: components and availability
  disk,     \* the snapshot
  due,      \* next_due
  worker,   \* what the worker is doing for which source; the batch it has, for
             \* which entity; and how long the provider has been asked
  fresh,    \* _surface_fresh_since_reentry
  points,   \* when the forecast endpoint was resolved; None: not resolved
  heard,    \* sources that answered in this process
  boots     \* how many processes there were

vars == <<now, enabled, world, disk, due, worker, fresh, points, heard, boots>>
process == <<enabled, boots>>

Unknown(s) == [values |-> [k \in Kinds(s) |-> None], availability |-> None]
NoWorld    == [s \in Source \union {"estimate"} |-> Unknown(s)]

Waiting == [at |-> "wait", source |-> None, entity |-> None, batch |-> <<>>,
            spent |-> 0]
Asking(s) == [Waiting EXCEPT !.at = "ask", !.source = s]
Ingesting(s, entity, batch) ==
  [Asking(s) EXCEPT !.at = "store", !.entity = entity, !.batch = batch]

Usable(s)  == world[s].availability \in {"current", "degraded"}
Current(s) == world[s].availability = "current"
Value(s, kind) == world[s].values[kind]

-----------------------------------------------------------------------------
(* A pass of the loop                                                      *)

Position(s) == CHOOSE i \in DOMAIN Order : Order[i] = s

\* Slip: a source that is not enabled takes its turn as well.
DueAfterOfAll(i, dues) == {j \in DOMAIN Order : j > i /\ dues[Order[j]] <= now}

DueAfter(i, dues) ==
  {j \in DOMAIN Order : j > i /\ Order[j] \in enabled /\ dues[Order[j]] <= now}

\* Slip: after a collection the pass starts again from its beginning.
OnwardFromStart(i, dues) ==
  IF DueAfter(0, dues) = {} THEN Waiting ELSE Asking(Order[Min(DueAfter(0, dues))])

\* The next source of the pass that is due, or the end of the pass.
Onward(i, dues) ==
  IF DueAfter(i, dues) = {} THEN Waiting ELSE Asking(Order[Min(DueAfter(i, dues))])

BeginPass ==
  /\ enabled # None /\ worker.at = "wait" /\ DueAfter(0, due) # {}
  /\ worker' = Onward(0, due)
  /\ UNCHANGED <<now, process, world, disk, due, fresh, points, heard>>

-----------------------------------------------------------------------------
(* The adapters; t is the time at which the answer arrives                 *)

Dated(rows, t) ==
  IF rows = Fails THEN Fails
  ELSE [i \in DOMAIN rows |->
          IF rows[i] = None \/ rows[i].at = None THEN rows[i]
          ELSE [rows[i] EXCEPT !.at = t - @]]

DatedHours(periods, t) ==
  IF periods = Fails THEN Fails
  ELSE [i \in DOMAIN periods |->
          IF periods[i] \in {None, Fails} \/ periods[i].start = None
          THEN periods[i]
          ELSE [periods[i] EXCEPT !.start = t + @]]

Collect(s, answer, t) ==
  CASE s = "alerts"   -> AlertsCollect(answer)
    [] s = "surface"  -> SurfaceCollect(Dated(answer, t), t)
    [] s = "weather"  -> OpenMeteoCollect(answer)
    [] s = "forecast" -> ForecastCollect(DatedHours(answer, t))
    [] OTHER          -> answer     \* the radar adapters are in RadarCache

\* The components of the sources that are fused, and of the estimate.
Optional(S) == S \union {None}
Rows ==
  [station : Optional(Int), at : Optional(Int), distance : Optional(Int),
   temp : Optional(Int)]
SurfaceStates ==
  [kind : {"surface"}, freshest : Int, selected : Int, stations : SUBSET Int,
   median : Optional(Int), spread : Optional(Int)]
WeatherStates  == [kind : {"weather"}, temp : Optional(Int)]
ForecastStates ==
  [kind : {"hourly"}, hours : Seq([start : Optional(Int), temp : Optional(Int)])]
Estimates ==
  [kind : {"estimate"}, primary : {"surface", "weather"}, temp : Int,
   station : Optional(Int), modelDelta : Optional(Int),
   forecastDelta : Optional(Int), reference : Optional(Int)]

\* Payloads are finite lists; the times and temperatures in them are numbers;
\* and what is parsed has the type that the code declares for it.
ASSUME AnswersAssumption ==
  /\ Answers["surface"] \subseteq Seq(Optional(Rows)) \union {Fails}
  /\ \A t \in 0 .. Horizon :
       /\ \A rows \in Answers["surface"] :
            LET batch == Collect("surface", rows, t)
            IN Successful(batch) => batch[1].value \in SurfaceStates
       /\ \A periods \in Answers["forecast"] :
            LET batch == Collect("forecast", periods, t)
            IN Successful(batch) => batch[1].value \in ForecastStates
  /\ \A answer \in Answers["weather"] \ {Fails} :
       /\ answer.current \in WeatherStates \union {Fails}
       /\ answer.daily = Fails \/ answer.daily.kind = "day"
  /\ \A s \in {"radar", "context"} : \A answer \in Answers[s] :
       Len(answer) \in Nat /\ DOMAIN answer = 1 .. Len(answer)
ASSUME NoneAssumption ==
  /\ None \notin Configs /\ None \notin {"current", "degraded", "unavailable"}
  /\ None \notin SurfaceStates /\ None \notin Estimates

\* _resolve and the reset after any failure: an endpoint is asked for again
\* when there is none or it is old.
PointsAfter(batch) ==
  IF ~Successful(batch) THEN None
  ELSE IF points # None /\ now - points < PointsAge THEN points ELSE now

\* Slip: a report that is young enough is retained, whoever observed it.
EarnedByAge ==
  Value("surface", "surface") # None
    /\ InWindow(Value("surface", "surface").freshest, now)

\* Slip: what this process observed is retained for ever.
EarnedForEver == fresh /\ Value("surface", "surface") # None

\* _surface_retention_is_earned
RetentionIsEarned ==
  /\ fresh
  /\ Value("surface", "surface") # None
  /\ InWindow(Value("surface", "surface").freshest, now)

\* _collect_surface: a failed retrieval may leave the last values usable.
SurfaceBatch(batch) ==
  IF Availability(batch) = "unavailable" /\ RetentionIsEarned
  THEN <<Retained("aviationweather.metar", {<<"retained", "metar">>})>>
  ELSE batch

Answer(answer) ==
  LET s     == worker.source
      batch == Collect(s, answer, now)
  IN /\ worker.at = "ask"
     /\ worker' = Ingesting(s, s, IF s = "surface" THEN SurfaceBatch(batch) ELSE batch)
     /\ fresh'  = (fresh \/ (s = "surface" /\ Successful(batch)))
     /\ points' = IF s = "forecast" THEN PointsAfter(batch) ELSE points
     /\ heard'  = IF Successful(batch) THEN heard \union {s} ELSE heard
     /\ UNCHANGED <<now, process, world, disk, due>>

-----------------------------------------------------------------------------
(* ingest_observation_batch, then _recompute_estimate where there is one   *)

\* The values of the batch are stored.
Store ==
  /\ worker.at = "store"
  /\ LET batch == worker.batch
         New(k) == {i \in DOMAIN batch : batch[i].value # None /\ batch[i].value.kind = k}
     IN world' = [world EXCEPT ![worker.entity].values =
          [k \in DOMAIN @ |-> IF New(k) = {} THEN @[k] ELSE batch[Max(New(k))].value]]
  /\ worker' = [worker EXCEPT !.at = "qualify"]
  /\ UNCHANGED <<now, process, disk, due, fresh, points, heard>>

EstimateNow(at) ==
  Estimate(Value("surface", "surface"), Usable("surface"),
           Value("weather", "weather"), Current("weather"),
           Value("forecast", "hourly"), Current("forecast"), at)

EstimateBatch(estimate) ==
  IF estimate = None THEN Failed("weather.fusion")
  ELSE <<Observed("weather.fusion", estimate)>>

\* The ObservationState of the batch, which ends it; a source that is fused
\* goes on to the estimate, anything else to the next source of the pass.
Qualify ==
  /\ worker.at = "qualify"
  /\ world' = [world EXCEPT ![worker.entity].availability = Availability(worker.batch)]
  /\ IF worker.entity \in Fusing
     THEN /\ worker' = [Asking(worker.source) EXCEPT !.at = "fuse"]
          /\ UNCHANGED due
     ELSE /\ due' = [due EXCEPT ![worker.source] = now + Interval[worker.source]]
          /\ worker' = Onward(Position(worker.source), due')
  /\ UNCHANGED <<now, process, disk, fresh, points, heard>>

\* _recompute_estimate, which only reads.
Fuse ==
  /\ worker.at = "fuse"
  /\ worker' = Ingesting(worker.source, "estimate", EstimateBatch(EstimateNow(now)))
  /\ UNCHANGED <<now, process, world, disk, due, fresh, points, heard>>

-----------------------------------------------------------------------------
(* Time and the process                                                    *)

Tick ==
  /\ now < Horizon
  /\ now' = now + 1
  /\ \/ enabled = None /\ UNCHANGED worker
     \/ /\ enabled # None /\ worker.at = "wait" /\ DueAfter(0, due) = {}
        /\ UNCHANGED worker
     \/ /\ enabled # None /\ worker.at = "ask"
        /\ worker.spent < Patience[worker.source]
        /\ worker' = [worker EXCEPT !.spent = @ + 1]
  /\ UNCHANGED <<process, world, disk, due, fresh, points, heard>>

\* prepare_reentry: enabled sources and the estimate, no other.
Reentry(w, config) ==
  [s \in DOMAIN w |->
     IF s \in config \union {"estimate"}
     THEN [w[s] EXCEPT !.availability = "unavailable"] ELSE w[s]]

Boot(config) ==
  /\ enabled = None /\ boots < Boots
  /\ enabled' = config /\ boots' = boots + 1
  /\ world' = Reentry(disk, config)
  /\ due' = [s \in Source |-> now]
  /\ worker' = Waiting /\ fresh' = FALSE /\ points' = None /\ heard' = {}
  /\ disk' = IF boots' = Boots THEN NoWorld ELSE disk
  /\ UNCHANGED now

Snapshot ==
  /\ enabled # None /\ boots < Boots /\ disk # world
  /\ disk' = world
  /\ UNCHANGED <<now, process, world, due, worker, fresh, points, heard>>

\* Gone, and with it everything but the snapshot.
Gone ==
  /\ enabled' = None
  /\ world' = NoWorld /\ worker' = Waiting
  /\ fresh' = FALSE /\ points' = None /\ heard' = {}
  /\ due' = [s \in Source |-> 0]
  /\ UNCHANGED <<now, boots>>

\* The worker stops between two collections; the final snapshot is written.
Leave ==
  /\ enabled # None /\ boots < Boots
  /\ worker.at = "wait" \/ (worker.at = "ask" /\ worker.spent = 0)
  /\ disk' = world
  /\ Gone

\* A crash, or an answer that makes a collector raise: no snapshot.
Crash == enabled # None /\ Gone /\ UNCHANGED disk

Init ==
  /\ now = 0 /\ enabled = None
  /\ world = NoWorld /\ disk = NoWorld
  /\ due = [s \in Source |-> 0]
  /\ worker = Waiting /\ fresh = FALSE /\ points = None /\ heard = {}
  /\ boots = 0

Next ==
  \/ BeginPass \/ Store \/ Qualify \/ Fuse
  \/ Tick \/ Snapshot \/ Leave \/ Crash
  \/ \E config \in Configs : Boot(config)
  \/ worker.at = "ask" /\ \E answer \in Answers[worker.source] : Answer(answer)

Spec == Init /\ [][Next]_vars

-----------------------------------------------------------------------------
TypeOK ==
  /\ now \in 0 .. Horizon
  /\ enabled \in Configs \union {None}
  /\ \A w \in {world, disk} : \A s \in DOMAIN w :
       /\ w[s].availability \in {None, "current", "degraded", "unavailable"}
       /\ \A k \in Kinds(s) : w[s].values[k] = None \/ w[s].values[k].kind = k
  /\ \A s \in Source : due[s] \in 0 .. Horizon + Interval[s]
  /\ worker.at \in {"wait", "ask", "store", "qualify", "fuse"}
  /\ worker.source \in Source \union {None}
  /\ worker.entity \in {worker.source, "estimate", None}
  /\ worker.at = "ask" => worker.source \in enabled
  /\ heard \in SUBSET Source /\ (heard # {} => heard \subseteq enabled)
  /\ points = None \/ points <= now
  /\ fresh => "surface" \in heard
  /\ boots \in 0 .. Boots

\* A current estimate says nothing that this process was not told: every
\* enabled source it was taken from, or compared with, has answered since the
\* process started, however young the values of the snapshot looked
\* (world_awareness.py: prepare_reentry, _surface_retention_is_earned).
EstimateRestsOnThisProcess ==
  LET e == Value("estimate", "estimate")
      Told(s) == s \in enabled => s \in heard
  IN enabled # None /\ Current("estimate") =>
       /\ Told(e.primary)
       /\ e.modelDelta # None => Told("weather")
       /\ e.forecastDelta # None => Told("forecast")

\* Between two collections the estimate is the one that the sources give now,
\* or gave when one of them was last collected; once there was a collection it
\* is unavailable exactly when they give none (every caller of
\* _recompute_estimate, which reads the world again).
EstimateFollowsSources ==
  enabled # None /\ worker.at \in {"wait", "ask"} =>
    /\ Current("estimate") =>
         \E t \in 0 .. now : Value("estimate", "estimate") = EstimateNow(t)
    /\ heard \intersect Fusing # {} =>
         (Current("estimate") <=> EstimateNow(now) # None)

\* How long a source may wait for its turn: every request of one round.
Turn(s) == IF s \in enabled THEN Patience[s] ELSE 0
Round   == Turn("alerts") + Turn("surface") + Turn("weather") + Turn("forecast")
             + Turn("radar") + Turn("context")

\* Surface values that may be used are not older than what the window, the
\* interval and one round of slow providers allow: retention prolongs nothing.
SurfaceIsYoung ==
  enabled # None /\ "surface" \in enabled /\ Usable("surface") =>
    now - Value("surface", "surface").freshest
      <= MaxAge + Interval["surface"] + Round

\* However slow the others are, a source that is due gets its turn within one
\* round (_run: the pass goes on where it was).
NobodyStarves ==
  enabled # None => \A s \in enabled : now <= due[s] + Round
=============================================================================
