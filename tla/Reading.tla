------------------------------- MODULE Reading -------------------------------
(***************************************************************************)
(* What a client of the surface is told while the collectors go on         *)
(* writing: the handler of GET and HEAD requests (presentation/server.py)  *)
(* over the world that batches of observations change in two steps, the    *)
(* values and then what qualifies them (bootstrap.py), across failures of  *)
(* the workers and crashes of the process.                                 *)
(*                                                                         *)
(* Runtime has the order in which a process starts and ends, World what    *)
(* happens inside an update, Weather and Traffic where the batches come    *)
(* from; here a process starts in one step, its world is the one that was  *)
(* there when the last one died, and the batches are given.  The client    *)
(* sends one request at a time; requests for an untrusted host, for the    *)
(* pages themselves and for cached images never get to the world.          *)
(***************************************************************************)
EXTENDS Presentation, Health, Configuration

CONSTANTS
  Owner,      \* the thread that collects for each entity
  Adapter,    \* the adapter that observes each entity
  Kinds,      \* the kinds of component each entity may have
  Batches,    \* the batches that may arrive for each entity
  EnabledBy,  \* the <<section, flag>> pairs that enable each remote entity
  Raws,       \* the configuration files that may be given
  Started,    \* those of them that a process is started with (a bound)
  Focuses,    \* sets of entities; a behaviour collects for those of one (a bound)
  Queries,    \* what may be asked of the semantic page
  Horizon     \* the last moment at which anything is collected (a bound)

ASSUME NoneAssumption ==
  /\ None \notin {"current", "degraded", "unavailable", "degraded_or_mixed", "true"}
  /\ None \notin {Loaded(raw) : raw \in Raws}

ASSUME BoundsAssumption ==
  /\ Horizon \in Nat
  /\ \A e \in DOMAIN Owner : Owner[e] \in {"main", "world", "traffic"}
  /\ \A f \in Focuses : f \subseteq DOMAIN Owner

\* What None stands for is no record.
ASSUME RecordsAssumption ==
  \A e \in DOMAIN Owner : \A batch \in Batches[e] : \A at \in 1..Horizon :
    [entity |-> e, batch |-> batch, at |-> at] # None

\* In a file, a key that asks for a number has one, or its value is Fails or None;
\* the same of a truth value, of a list and of the levels of the thresholds.
ASSUME RawsAssumption ==
  LET Number(x) == x \in {Fails, None} \/ x \in Int
      Numbers(section, keys) ==
        section # None => \A k \in keys \intersect DOMAIN section : Number(section[k])
      Gives(section, key) == section # None /\ key \in DOMAIN section
  IN \A raw \in Raws :
       /\ Numbers(raw.drivenc, {"events", "signs", "cameras"})
       /\ Numbers(raw.forecast, {"interval", "points_refresh"})
       /\ \A k \in Families : \A level \in {"warning", "critical"} :
            Number(raw.thresholds[k][level])
       /\ Gives(raw.anchor, "enabled") =>
            raw.anchor.enabled \in BOOLEAN \union {Fails, None}
       /\ Gives(raw.tomtom, "probes") =>
            LET probes == raw.tomtom.probes
            IN \/ probes \in {Fails, None}
               \/ Len(probes) \in Nat /\ DOMAIN probes = 1..Len(probes)

ASSUME KindsAssumption == \A e \in DOMAIN Owner : "observation" \in Kinds[e]

\* Adapters report neither of the components that the program adds itself, and
\* count the events that they report.
ASSUME BatchesAssumption ==
  \A e \in DOMAIN Owner : \A batch \in Batches[e] :
    /\ Len(batch) \in Nat /\ DOMAIN batch = 1..Len(batch)
    /\ \A i \in DOMAIN batch :
         batch[i].value # None =>
           /\ batch[i].value.kind \notin {"observation", "health"}
           /\ batch[i].value.kind = "events" /\ batch[i].value.local = 0
                => batch[i].value.events = {}

\* The components of the entities that the pages look at more closely.
ASSUME EntitiesAssumption ==
  LET Just(e, kind) == e \in DOMAIN Owner /\ Kinds[e] = {"observation", kind}
      local == {"engage-one", "tenda-u11-pro"}
  IN /\ {e \in DOMAIN Owner : Owner[e] = "main"} = local
     /\ \A e \in local :
          /\ {"observation", "health"} \subseteq Kinds[e]
          /\ Kinds[e] \subseteq
               {"observation", "health", "uptime", "usb", "wifi"} \union BandedKinds
     /\ \A e \in DOMAIN Owner \ local :
          Kinds[e] \intersect ({"health", "usb", "wifi"} \union BandedKinds) = {}
     /\ \A e \in EventSources : Just(e, "events")
     /\ Just("local-traffic-tomtom-flow", "flow")
     /\ Just("local-traffic-drivenc-cameras", "cameras")
     /\ Just("local-traffic-drivenc-signs", "signs")
     /\ Just("local-weather-alerts", "alerts")
     /\ Just("local-weather-radar", "mosaic")

\* No quantity has the name of the predicate that says what an observation is
\* worth, a record of an event has a description, and what a local adapter could
\* observe in full has something in it that health is made of.
ASSUME ReportsAssumption ==
  LET Quantities(table) == "observation_availability" \notin DOMAIN table
  IN \A e \in DOMAIN Owner : \A batch \in Batches[e] :
       /\ \A i \in DOMAIN batch :
            LET value == batch[i].value
            IN /\ value # None /\ value.kind = "events" =>
                    \A r \in value.events :
                      r.rest # None /\ Quantities(r.dimensions) /\ Quantities(r.metrics)
               /\ value # None /\ value.kind = "flow" =>
                    \A probe \in value.probes : Quantities(probe.readings)
       /\ Owner[e] = "main" /\ Availability(batch) = "current" =>
            \E i \in DOMAIN batch :
              /\ batch[i].value # None
              /\ batch[i].value.kind \in Kinds[e] \intersect (BandedKinds \union {"usb", "wifi"})

\* Predicates that do not end the identity of a claim with its value: no quantity
\* of a table is named like them.
OwnPredicates ==
  { "observation_availability", "new_observation_unavailable", NegativeEvidence,
    "provider_reports_road_closure", "provider_reports_event_record",
    "provider_reports_alert", "provider_reports_camera", "radar_image_artifact",
    "radar_context_artifact", "tomtom_flow_confidence", "probe_collection_completeness" }

\* The quantities of a component are not named like what the program says of its
\* own, and whether the radio is connected is a part of what its state means.
Plain(value) ==
  LET Named(table) == DOMAIN table \intersect OwnPredicates = {}
  IN /\ value.kind = "events" =>
          \A r \in value.events : Named(r.dimensions) /\ Named(r.metrics)
     /\ value.kind = "alerts" => \A a \in value.alerts : Named(a.classes)
     /\ value.kind = "flow" => \A probe \in value.probes : Named(probe.readings)
     /\ value.kind = "hourly" => \A h \in value.hours : Named(h.readings)
     /\ value.kind = "surface" =>
          \A s \in value.stations : Named(s.categories) /\ Named(s.readings)
     /\ value.kind \in {"weather", "daily", "estimate"} => Named(value.readings)
     /\ value.kind = "wifi" => value.connected = value.meaning[2]

ASSUME ClaimsAssumption ==
  \A e \in DOMAIN Owner : \A batch \in Batches[e] : \A i \in DOMAIN batch :
    batch[i].value # None => Plain(batch[i].value)

\* Two records of one collection that have the same identity have the same
\* description.  Providers see to it, the program does not.
Single(value) ==
  /\ value.kind = "events" =>
       \A r, s \in value.events :
         <<r.id, r.updated, r.reported>> = <<s.id, s.updated, s.reported>>
           => r.rest = s.rest
  /\ value.kind = "alerts" =>
       \A a, b \in value.alerts :
         <<a.id, a.sent, a.effective, a.expires>> = <<b.id, b.sent, b.effective, b.expires>>
           => a.rest = b.rest
  /\ value.kind = "cameras" =>
       \A r, s \in value.cameras :
         <<r.id, r.status, r.video>> = <<s.id, s.status, s.video>> => r.rest = s.rest

ASSUME FeedsAssumption ==
  \A e \in DOMAIN Owner : \A batch \in Batches[e] : \A i \in DOMAIN batch :
    batch[i].value # None => Single(batch[i].value)

VARIABLES
  config,    \* the configuration that the process has accepted
  focus,     \* the entities that are collected for, none if no process is started
  world,     \* WorldState.entities
  writing,   \* the batch that each thread has stored and not qualified
  torn,      \* entities whose batch an earlier process stored and nobody qualified
  failed,    \* workers that have failed
  clock,
  born,      \* when the process started, 0 while there is none
  request,   \* what the client waits for
  answer,    \* what it was told last, unless it has asked again
  told,      \* it was told that a worker of this process has failed
  good       \* the outcome of the last batch that this process completed for each entity

process  == <<config, focus, clock, born>>
client   == <<request, answer, told>>
readVars == <<process, world, writing, torn, failed, client, good>>

Entities == DOMAIN Owner
Threads  == {Owner[e] : e \in Entities}

\* Slip: the main thread is listed with the workers.
AllThreads == Threads

\* The workers that are listed with their lifecycle.
Workers == Threads \ {"main"}
LocalEntities == {e \in Entities : Owner[e] = "main"}

ReadInit ==
  /\ config = None /\ focus = {}
  /\ world = [e \in Entities |-> [k \in Kinds[e] |-> None]]
  /\ writing = [t \in Threads |-> None] /\ torn = {}
  /\ failed = {} /\ clock = 0 /\ born = 0
  /\ request = None /\ answer = None /\ told = FALSE
  /\ good = [e \in Entities |-> None]

\* Every process reads the two files before anything else, and they may have
\* changed since the last one did.
Configure(raw) ==
  /\ config = None /\ clock < Horizon
  /\ focus # {} => raw \in Started
  /\ Accepts(raw)
  /\ config' = Loaded(raw)
  /\ focus' \in (IF focus # {} THEN {focus}
                 ELSE IF raw \in Started THEN Focuses ELSE {{}})
  /\ UNCHANGED <<clock, born, world, writing, torn, failed, client, good>>

-----------------------------------------------------------------------------
(* Collecting                                                              *)

\* The worker asks the providers that are enabled and derives the rest.
Enabled(e) ==
  /\ config.world.enabled
  /\ Owner[e] = "traffic" => config.traffic.enabled
  /\ \A flag \in EnabledBy[e] : config[flag[1]][flag[2]]

Withdrawn == {e \in Entities \ LocalEntities : Enabled(e)}

\* The entities that this process asks for; what an earlier one has left of the
\* others stays as it is.
Collected == LocalEntities \union Withdrawn

\* The values of a batch; what could not be observed stays as it was.
Stored(comps, batch) ==
  [k \in DOMAIN comps |->
     LET new == {i \in DOMAIN batch : batch[i].value # None /\ batch[i].value.kind = k}
     IN IF new = {} THEN comps[k] ELSE batch[Max(new)].value]

ObservationOf(e, comps, batch, at) ==
  [ kind |-> "observation", adapter |-> Adapter[e],
    availability |-> Availability(batch), reasons |-> Reasons(batch), checked |-> at,
    succeeded |-> IF Successful(batch) THEN at
                  ELSE IF comps["observation"] = None THEN None
                  ELSE comps["observation"].succeeded ]

\* What qualifies the values, and the health that a local cycle derives from both.
QualifiedBy(e, comps, batch, at) ==
  LET observed == [comps EXCEPT !["observation"] = ObservationOf(e, comps, batch, at)]
  IN IF e \in LocalEntities
     THEN [observed EXCEPT !["health"] = Evaluate(observed, config.thresholds)]
     ELSE observed

\* Slip: a new process trusts what the last one had observed.
WithdrawNothing(e, comps, at) == comps

\* _withdraw: whatever an earlier process knew is no longer current.
Withdraw(e, comps, at) ==
  QualifiedBy(e, comps, <<Unavailable(Adapter[e], "awaiting fresh observation")>>, at)

\* A process re-enters its world: remote entities are withdrawn, local ones are
\* collected once, and the surface opens.
Start ==
  /\ config # None /\ focus # {} /\ born = 0 /\ clock < Horizon
  /\ \E batch \in [LocalEntities -> UNION {Batches[e] : e \in LocalEntities}] :
       /\ \A e \in LocalEntities : batch[e] \in Batches[e]
       /\ world' = [e \in Entities |->
            IF e \in LocalEntities
            THEN QualifiedBy(e, Stored(world[e], batch[e]), batch[e], clock + 1)
            ELSE IF e \in Withdrawn THEN Withdraw(e, world[e], clock + 1)
            ELSE world[e]]
       /\ good' = [e \in Entities |-> IF e \in LocalEntities THEN Availability(batch[e])
                                    ELSE None]
  /\ torn' = torn \ Collected
  /\ clock' = clock + 1 /\ born' = clock + 1
  /\ UNCHANGED <<config, focus, writing, failed, client>>

\* ingest_observation_batch: first its values are stored ...
Collect(e, batch) ==
  /\ born # 0 /\ clock < Horizon
  /\ Owner[e] \notin failed /\ writing[Owner[e]] = None
  /\ e \in focus \intersect Collected
  /\ clock' = clock + 1
  /\ world' = [world EXCEPT ![e] = Stored(@, batch)]
  /\ writing' = [writing EXCEPT
       ![Owner[e]] = [entity |-> e, batch |-> batch, at |-> clock + 1]]
  /\ UNCHANGED <<config, focus, born, torn, failed, client, good>>

\* ... then its ObservationState.
Qualify(t) ==
  LET w == writing[t]
  IN /\ born # 0 /\ w # None /\ t \notin failed
     /\ world' = [world EXCEPT ![w.entity] = QualifiedBy(w.entity, @, w.batch, w.at)]
     /\ good' = [good EXCEPT ![w.entity] = Availability(w.batch)]
     /\ writing' = [writing EXCEPT ![t] = None]
     /\ UNCHANGED <<process, torn, failed, client>>

\* A worker fails, between two batches or in the middle of one.  The main
\* thread then ends the process; that the other worker fails before it does is
\* left out (a bound).
Raise(t) ==
  /\ born # 0 /\ failed = {}
  /\ failed' = failed \union {t}
  /\ UNCHANGED <<process, world, writing, torn, client, good>>

\* The entities of which a batch is stored and not qualified.
Half == {writing[t].entity : t \in {u \in Threads : writing[u] # None}}

\* The process dies; its world is there again when the next one starts, with
\* what was half-written.
Die ==
  /\ born # 0
  /\ config' = None
  /\ born' = 0 /\ failed' = {} /\ request' = None /\ told' = FALSE
  /\ writing' = [t \in Threads |-> None] /\ torn' = torn \union Half
  /\ good' = [e \in Entities |-> None]
  /\ UNCHANGED <<focus, clock, world, answer>>

-----------------------------------------------------------------------------
(* Answering                                                               *)

Pages == {"systems", "world", "traffic", "semantics"}

\* Slip: the newest page is not refused.
GatedButSemantics == {"world", "traffic"}

\* Pages that are refused as soon as a worker has failed.
Gated == {"world", "traffic", "semantics"}

Refused(page) == page \in Gated /\ failed # {}

Requests ==
  {[page |-> p, query |-> None] : p \in Pages \ {"semantics"}}
    \union {[page |-> "semantics", query |-> q] : q \in Queries}

\* What a page shows of the world as it is now.
Bodies(r) ==
  CASE r.page = "systems"   -> {SystemsPage(world, failed)}
    [] r.page = "world"     -> {WorldPage(world)}
    [] r.page = "traffic"   -> {TrafficPage(world, config.anchor)}
    [] r.page = "semantics" -> SemanticPages(world, r.query)

\* Of an answer only the claims are kept, with the entities that were half-written.
Answered(page, status, body) ==
  /\ answer' = [ page |-> page, status |-> status,
                 claims |-> IF body # None /\ page = "semantics" THEN body.claims ELSE {},
                 half |-> Half \union torn ]
  /\ told' = \/ told
             \/ status = 503
             \/ page = "systems" /\ body # None /\ body.workers # {}

\* do_GET, up to the reading of the world.
Get(r) ==
  /\ born # 0 /\ request = None
  /\ IF Refused(r.page)
     THEN Answered(r.page, 503, None) /\ UNCHANGED request
     ELSE request' = r /\ answer' = None /\ UNCHANGED told
  /\ UNCHANGED <<process, world, writing, torn, failed, good>>

\* The rest of do_GET: the gate is not asked again.
Respond ==
  /\ born # 0 /\ request # None
  /\ IF request.query # None /\ ~WellFormed(request.query)
     THEN Answered(request.page, 400, None)
     ELSE \E body \in Bodies(request) : Answered(request.page, 200, body)
  /\ request' = None
  /\ UNCHANGED <<process, world, writing, torn, failed, good>>

\* do_HEAD: the gate and nothing else, whatever the query.
HeadOf(page) ==
  /\ born # 0 /\ request = None
  /\ Answered(page, IF Refused(page) THEN 503 ELSE 200, None)
  /\ UNCHANGED <<process, world, writing, torn, failed, request, good>>

-----------------------------------------------------------------------------
ReadNext ==
  \/ config = None /\ \E raw \in Raws : Configure(raw)
  \/ Start
  \/ born # 0 /\ \E e \in focus : \E batch \in Batches[e] : Collect(e, batch)
  \/ \E t \in Threads : Qualify(t)
  \/ \E t \in Workers : Raise(t)
  \/ Die
  \/ \E r \in Requests : Get(r)
  \/ \E page \in Pages : HeadOf(page)
  \/ Respond

ReadSpec == ReadInit /\ [][ReadNext]_readVars

-----------------------------------------------------------------------------
(* What is promised                                                        *)

\* Every part of the state has its shape.
TypeOK ==
  /\ config = None \/ config.anchor.enabled \in BOOLEAN
  /\ focus \subseteq Entities
  /\ \A e \in Entities : DOMAIN world[e] = Kinds[e]
  /\ \A t \in Threads : writing[t] # None => Owner[writing[t].entity] = t
  /\ torn \subseteq Entities /\ failed \subseteq {"world", "traffic"}
  /\ clock \in 0..Horizon /\ born \in 0..clock
  /\ request \in Requests \union {None}
  /\ answer # None => answer.page \in Pages /\ answer.status \in {200, 400, 503}
  /\ told \in BOOLEAN
  /\ \A e \in Entities : good[e] \in {None, "current", "degraded", "unavailable"}

\* The gate of presentation/server.py is final: when a client has been told of
\* a failed worker, by a refusal or by the systems page, the same process does
\* not show it a projection of the world again; and the systems page, which
\* is how an operator learns which worker it was, is never refused.
GateHolds ==
  [][answer' # None =>
       /\ told /\ told' /\ answer'.page \in {"world", "traffic", "semantics"}
            => answer'.status = 503
       /\ answer'.page = "systems" => answer'.status = 200]_answer

\* Entities of which no batch is half-written, by this process or by one before
\* it that died over it.
Whole == Entities \ (Half \union torn)

\* The claims of the last answer about an entity that was whole then.
Heard(e) ==
  IF answer = None \/ e \in answer.half THEN {}
  ELSE {c \in answer.claims : c.entity = e}

\* A claim keeps its meaning: two claims with one id, of one reading or of an
\* earlier answer and of the world as it has become since, in this process or
\* the next, have the same value (semantics/projection.py makes the id of a
\* digest).  What is read of an entity whose batch is half-written is left
\* out: there a new value goes under the id of the old one, and if the process
\* dies over it and the source is not enabled in the next one, it stays so.
AnIdNamesOneClaim ==
  born # 0 =>
    \A e \in Whole :
      LET now == EntityClaims(e, world[e])
          all == now \union Heard(e)
      IN \A c \in now : \A d \in all :
           c.predicate = d.predicate /\ c.subject = d.subject /\ c.id = d.id
             => c.value = d.value

\* The health of an entity is what its components are worth in this process:
\* derived from its own last batch, by the thresholds that it has loaded.
Judged(e) ==
  good[e] # None /\ world[e]["health"] = Evaluate(world[e], config.thresholds)

\* Authority is earned by the process that claims it (prepare_reentry, and the
\* whole of semantics/projection.py).  Of an entity that this process asks for,
\* what says that it is current or degraded is so by the last batch that this
\* process has completed, whatever an earlier process has left under whatever
\* configuration; evidence, which is that nothing is near, is only given where
\* everybody was asked and the answer was empty.  Two kinds of claims say that
\* they are current whatever the ObservationState says: health, which this
\* process then has derived from its own last batch, and the estimate, for
\* which nothing is promised here (see EstimateIsWithdrawn).  An entity that
\* is not asked for in this process keeps the authority that an earlier one gave
\* it, and the time that goes with its claims is from before this process.  What
\* is half-written is left out: new values have the authority of the old ones.
CurrentIsEarned ==
  born # 0 =>
    /\ \A e \in Whole \intersect Collected : \A c \in EntityClaims(e, world[e]) :
         /\ c.current = "true" =>
              \/ good[e] = "current"
              \/ c.predicate = "health_status" /\ Judged(e)
              \/ c.subject = <<e, "current-weather-estimate">>
         /\ c.authority = "degraded_or_mixed" => good[e] = "degraded"
         /\ c.kind = "evidence" =>
              good[e] = "current" /\ world[e]["events"].events = {}
    /\ \A e \in Entities \ Collected :
         world[e]["observation"] # None => world[e]["observation"].checked < born

\* docs/CODEX_OMEGA_CONFORMANCE.md:50: "restored remote freshness is withdrawn
\* for every new provider/derived estimate before presentation".  Of an estimate
\* that this process has withdrawn and not made again no claim says that it is
\* current.
EstimateIsWithdrawn ==
  born # 0 =>
    \A e \in Whole \intersect Withdrawn : \A c \in EntityClaims(e, world[e]) :
      good[e] = None => c.current # "true"

UsableAuthority == {"current", "degraded_or_mixed"}

\* The pages and the claims are two projections of the same world, written
\* twice; they agree on what may be relied on (presentation/projection.py and
\* semantics/projection.py): an event of the traffic page, an alert, the radar
\* image, the sources that are named as degrading; and a summary that is
\* nominal and current hides no claim of a local entity that is not.  Of the
\* estimate they do not agree, and nothing is said here: the page takes its
\* current_now from the ObservationState, the claims are current whatever it says.
ViewsAgree ==
  LET shown   == WorldPage(world)
      traffic == TrafficPage(world, None)
      systems == SystemsPage(world, {})
      Of(e, predicate) == {c \in EntityClaims(e, world[e]) : c.predicate = predicate}
      Values(e, predicate) == {c.value : c \in Of(e, predicate)}
      Rely(e, predicate, authority) ==
        \A c \in Of(e, predicate) : c.authority \in authority
  IN /\ \A r \in traffic.events :
          r.authoritative <=> Rely(r.source, "provider_reports_event_record", UsableAuthority)
     /\ \A e \in TrafficSources :
          e \in traffic.degrading <=>
            Values(e, "observation_availability") \notin {{}, {"current"}}
     /\ Of("local-weather-alerts", "provider_reports_alert") # {} =>
          (shown.alerts.authoritative <=>
             Rely("local-weather-alerts", "provider_reports_alert", {"current"}))
     /\ shown.radar.image # None =>
          (shown.radar.displayable <=>
             Rely("local-weather-radar", "radar_image_artifact", UsableAuthority))
     /\ systems.health = "nominal" /\ systems.observation = "current" =>
          \A e \in LocalEntities : Values(e, "health_status") = {"nominal"}

-----------------------------------------------------------------------------
(* What an accepted configuration leaves out                               *)

\* DriveNC documents ten calls in sixty seconds: how often a resource that is
\* due every interval may be asked within a minute.
CallsInAMinute(interval) == 60 \div interval + 1

\* Whatever percentages the file gives, each of the two bands can be entered.
Reachable(family) ==
  /\ \E p \in 0..100 : HighBand(p, family.warning, family.critical) = 1
  /\ \E p \in 0..100 : HighBand(p, family.warning, family.critical) = 2

\* A configuration that is accepted keeps what the workers rely on: the limit
\* that config.py quotes for DriveNC is kept, every band of health can be
\* reached, the points of the grid are not fetched more often than forecasts,
\* an anchor on the traffic page says where it comes from, and no two probes
\* of one flow page have the same name.
ConfigurationSuits ==
  config # None =>
    /\ CallsInAMinute(config.drivenc.events) + CallsInAMinute(config.drivenc.signs)
         + CallsInAMinute(config.drivenc.cameras) <= 10
    /\ \A k \in Families : Reachable(config.thresholds[k])
    /\ config.forecast.points_refresh \div config.forecast.interval >= 1
    /\ Site(config.anchor) # None =>
         {config.anchor.lineage, config.anchor.record, config.anchor.sha}
           \intersect {None, ""} = {}
    /\ Cardinality({FlowProbes(config.tomtom)[i].id : i \in DOMAIN FlowProbes(config.tomtom)})
         = Len(FlowProbes(config.tomtom))
=============================================================================
