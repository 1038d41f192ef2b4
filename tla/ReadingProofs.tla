---------------------------- MODULE ReadingProofs ----------------------------
(***************************************************************************)
(* Theorems about Reading, for every set of entities, batches, queries and *)
(* configurations.                                                         *)
(***************************************************************************)
EXTENDS Reading, FiniteSetTheorems, WellFoundedInduction, TLAPS

-----------------------------------------------------------------------------
(***************************************************************************)
(* The gate                                                                *)
(*                                                                         *)
(* GateHolds speaks of two answers; between them the client may send a     *)
(* request that is not refused, because the gate is asked when a request   *)
(* arrives and not when its answer is made.  What carries it over is that  *)
(* a client that has been told waits for nothing but the systems page.     *)
(***************************************************************************)
TellingInv ==
  /\ request # None => request \in Requests
  /\ told => /\ failed # {}
             /\ request # None => request.page = "systems"

\* Requests for the systems page are never refused and have no query.
LEMMA SystemsRequest ==
  /\ ~Refused("systems")
  /\ \A r \in Requests : r.page \in Pages /\ (r.page = "systems" => r.query = None)
BY DEF Requests, Refused, Gated, Pages

\* An answer tells of a failure only if there is one.
LEMMA TellingIsTrue ==
  ASSUME NEW page, NEW status, NEW body,
         Answered(page, status, body), told => failed # {},
         status = 503 => failed # {},
         page = "systems" /\ body # None => body.workers = failed
  PROVE  told' => failed # {}
BY DEF Answered

LEMMA AnswerSays ==
  ASSUME NEW page, NEW status, NEW body, Answered(page, status, body)
  PROVE  answer'.page = page /\ answer'.status = status
BY DEF Answered

LEMMA InitTelling == ReadInit => TellingInv
BY DEF ReadInit, TellingInv

LEMMA StepTelling == TellingInv /\ [ReadNext]_readVars => TellingInv'
<1> SUFFICES ASSUME TellingInv, [ReadNext]_readVars PROVE TellingInv'
  OBVIOUS
<1> USE DEF TellingInv
<1>1. CASE UNCHANGED readVars
  BY <1>1 DEF readVars, client
<1>2. CASE \E raw \in Raws : Configure(raw)
  BY <1>2 DEF Configure, client
<1>3. CASE Start
  BY <1>3 DEF Start, client
<1>4. CASE \E e \in focus : \E batch \in Batches[e] : Collect(e, batch)
  BY <1>4 DEF Collect, client
<1>5. CASE \E t \in Threads : Qualify(t)
  BY <1>5 DEF Qualify, client
<1>6. CASE \E t \in Workers : Raise(t)
  BY <1>6 DEF Raise, client
<1>7. CASE Die
  BY <1>7 DEF Die
<1>8. ASSUME NEW r \in Requests, Get(r) PROVE TellingInv'
  <2>1. CASE Refused(r.page)
    <3>1. Answered(r.page, 503, None) /\ request' = None /\ failed' = failed
      BY <1>8, <2>1 DEF Get
    <3> QED BY <2>1, <3>1, TellingIsTrue DEF Refused
  <2>2. CASE ~Refused(r.page)
    <3>1. request' = r /\ told' = told /\ failed' = failed
      BY <1>8, <2>2 DEF Get
    <3>2. told => r.page \notin Gated
      BY <2>2 DEF Refused
    <3> QED BY <3>1, <3>2, SystemsRequest DEF Gated, Pages
  <2> QED BY <2>1, <2>2
<1>9. ASSUME NEW page \in Pages, HeadOf(page) PROVE TellingInv'
  <2>1. Answered(page, IF Refused(page) THEN 503 ELSE 200, None)
          /\ request' = request /\ request = None /\ failed' = failed
    BY <1>9 DEF HeadOf
  <2>2. (IF Refused(page) THEN 503 ELSE 200) = 503 => failed # {}
    BY DEF Refused
  <2> QED BY <2>1, <2>2, TellingIsTrue
<1>10. CASE Respond
  <2>1. request' = None /\ failed' = failed /\ request \in Requests
    BY <1>10 DEF Respond
  <2>2. CASE Answered(request.page, 400, None)
    BY <2>1, <2>2, TellingIsTrue
  <2>3. ASSUME NEW body \in Bodies(request), Answered(request.page, 200, body)
        PROVE  told' => failed # {}
    <3>1. request.page = "systems" => body = SystemsPage(world, failed)
      BY <2>3 DEF Bodies
    <3>2. request.page = "systems" => body.workers = failed
      BY <3>1 DEF SystemsPage
    <3> QED BY <2>3, <3>2, TellingIsTrue
  <2> QED BY <1>10, <2>1, <2>2, <2>3 DEF Respond
<1> QED
  BY <1>1, <1>2, <1>3, <1>4, <1>5, <1>6, <1>7, <1>8, <1>9, <1>10 DEF ReadNext

\* No step shows the world to a client that was told, nor refuses the systems
\* page (the handlers of presentation/server.py).
GateStep ==
  answer' # None =>
    /\ told /\ told' /\ answer'.page \in {"world", "traffic", "semantics"}
         => answer'.status = 503
    /\ answer'.page = "systems" => answer'.status = 200

LEMMA StepGate == TellingInv /\ [ReadNext]_readVars => [GateStep]_answer
<1> SUFFICES ASSUME TellingInv, ReadNext, answer' # answer PROVE GateStep
  BY DEF readVars, client
<1> USE DEF TellingInv
<1>1. ASSUME NEW r \in Requests, Get(r) PROVE GateStep
  <2>1. CASE Refused(r.page)
    <3>1. answer'.page = r.page /\ answer'.status = 503
      BY <1>1, <2>1, AnswerSays DEF Get
    <3> QED BY <2>1, <3>1, SystemsRequest DEF GateStep
  <2>2. CASE ~Refused(r.page)
    BY <1>1, <2>2 DEF Get, GateStep
  <2> QED BY <2>1, <2>2
<1>2. ASSUME NEW page \in Pages, HeadOf(page) PROVE GateStep
  <2>1. answer'.page = page
          /\ answer'.status = IF Refused(page) THEN 503 ELSE 200
    BY <1>2, AnswerSays DEF HeadOf
  <2>2. told /\ page \in {"world", "traffic", "semantics"} => Refused(page)
    BY DEF Refused, Gated
  <2> QED BY <2>1, <2>2, SystemsRequest DEF GateStep
<1>3. CASE Respond
  <2>1. request \in Requests /\ (told => request.page = "systems")
    BY <1>3 DEF Respond
  <2>2. \/ /\ request.query # None
           /\ Answered(request.page, 400, None)
        \/ \E body : Answered(request.page, 200, body)
    BY <1>3 DEF Respond
  <2>3. /\ answer'.page = request.page
        /\ request.page = "systems" => answer'.status = 200
    BY <2>1, <2>2, SystemsRequest, AnswerSays
  <2> QED BY <2>1, <2>3 DEF GateStep
<1>4. \/ \E r \in Requests : Get(r)
      \/ \E page \in Pages : HeadOf(page)
      \/ Respond
  BY DEF ReadNext, Configure, Start, Collect, Qualify, Raise, Die, client
<1> QED BY <1>1, <1>2, <1>3, <1>4

\* In every run, whatever fails between two requests or during one, the gate is
\* final: the handlers of do_GET and do_HEAD never show a projection of the
\* world to a client that was told of a failed worker by the same process.
THEOREM GateIsFinal == ReadSpec => GateHolds
<1>1. ReadInit => TellingInv
  BY InitTelling
<1>2. TellingInv /\ [ReadNext]_readVars => TellingInv'
  BY StepTelling
<1>3. TellingInv /\ [ReadNext]_readVars => [GateStep]_answer
  BY StepGate
<1> QED BY <1>1, <1>2, <1>3, PTL DEF ReadSpec, GateHolds, GateStep

-----------------------------------------------------------------------------
(***************************************************************************)
(* What every claim of an entity has in common, whatever its components    *)
(* say (semantics/projection.py): it is of that entity, it has the         *)
(* authority of the entity's ObservationState or one that does not depend  *)
(* on it, and it is evidence only where everybody was asked.               *)
(***************************************************************************)

\* Claims that came about in one way, and are no evidence.
Of(claims, by) ==
  \A c \in claims :
    /\ c.entity = by.entity /\ c.authority = by.authority /\ c.current = by.current
    /\ c.kind # "evidence"

\* A claim is worth what obs gives it, or nothing is said of its worth; the
\* estimate gives it itself.
Worth(c, obs) ==
  \/ c.authority = AuthorityOf(obs) /\ c.current = CurrentOf(obs)
  \/ c.authority = None /\ c.current = None
  \/ /\ c.authority = "locally_derived"
     /\ c.subject = <<c.entity, "current-weather-estimate">>

\* Health gives it itself too.
Judges(c, comps) ==
  Has(comps, "health") /\ c.predicate = "health_status" /\ c.authority = "locally_derived"

\* Claims of an entity that are worth what is said there.
From(claims, e, obs) ==
  \A c \in claims : c.entity = e /\ Worth(c, obs) /\ c.kind # "evidence"

LEMMA ClaimIs ==
  ASSUME NEW kind, NEW subject, NEW predicate, NEW identity, NEW value, NEW by
  PROVE  LET c == Claim(kind, subject, predicate, identity, value, by)
         IN /\ c.entity = by.entity /\ c.kind = kind
            /\ c.authority = by.authority /\ c.current = by.current
            /\ c.subject = subject /\ c.predicate = predicate
BY DEF Claim

LEMMA AboutIs ==
  ASSUME NEW kind, NEW subject, NEW predicate, NEW identity, NEW value, NEW by,
         NEW proposition
  PROVE  LET c == About(proposition,
                        Claim(kind, subject, predicate, identity, value, by))
         IN /\ c.entity = by.entity /\ c.kind = kind
            /\ c.authority = by.authority /\ c.current = by.current
BY DEF About, Claim

LEMMA ClaimsAre ==
  ASSUME NEW kind, kind # "evidence", NEW subject, NEW table, NEW identity, NEW by
  PROVE  Of(Claims(kind, subject, table, identity, by), by)
BY ClaimIs DEF Claims, Of

LEMMA MeasurementsAre ==
  ASSUME NEW subject, NEW table, NEW identity, NEW by
  PROVE  Of(Measurements(subject, table, identity, by), by)
BY ClaimsAre DEF Measurements

LEMMA PredictionsAre ==
  ASSUME NEW subject, NEW table, NEW identity, NEW by
  PROVE  Of(Predictions(subject, table, identity, by), by)
BY ClaimsAre DEF Predictions

LEMMA SpatialIs ==
  ASSUME NEW subject, NEW predicate, NEW place, NEW identity, NEW by
  PROVE  Of(Spatial(subject, predicate, place, identity, by), by)
BY ClaimIs DEF Spatial, When, Of

LEMMA ScopeIs ==
  ASSUME NEW subject, NEW scope, NEW at, NEW by
  PROVE  Of(CollectionScope(subject, scope, at, by), by)
BY SpatialIs DEF CollectionScope

LEMMA SourceReportIs ==
  ASSUME NEW subject, NEW predicate, NEW identity, NEW value, NEW by
  PROVE  Of(SourceReport(subject, predicate, identity, value, by), by)
BY ClaimIs DEF SourceReport, When, Of

LEMMA ArtifactIs ==
  ASSUME NEW subject, NEW predicate, NEW identity, NEW value, NEW by
  PROVE  Of(Artifact(subject, predicate, identity, value, by), by)
BY ClaimIs DEF Artifact, Of

\* Where a claim came from, as a record of its four parts.
Originates(by) ==
  by = [ entity |-> by.entity, origin |-> by.origin, authority |-> by.authority,
         current |-> by.current ]

LEMMA OriginIs ==
  ASSUME NEW e, NEW obs
  PROVE  /\ Originates(Provider(e, obs)) /\ Originates(Derived(e, obs))
         /\ Originates(Local(e))
         /\ Provider(e, obs).entity = e /\ Provider(e, obs).authority = AuthorityOf(obs)
         /\ Derived(e, obs).entity = e  /\ Derived(e, obs).authority = AuthorityOf(obs)
         /\ Provider(e, obs).current = CurrentOf(obs)
         /\ Derived(e, obs).current = CurrentOf(obs)
         /\ Local(e).entity = e         /\ Local(e).authority = "locally_derived"
BY DEF Originates, Provider, Derived, Local, Origin

LEMMA ForeignIs ==
  ASSUME NEW by, Originates(by)
  PROVE  /\ Foreign(by).entity = by.entity /\ Foreign(by).authority = by.authority
         /\ Foreign(by).current = by.current
BY DEF Foreign, Originates

LEMMA ForeignNativeIs ==
  ASSUME NEW subject, NEW table, NEW identity, NEW by, Originates(by)
  PROVE  Of(ForeignNative(subject, table, identity, by), by)
BY ClaimsAre, ForeignIs DEF ForeignNative, Of

LEMMA UnionIs ==
  ASSUME NEW A, NEW B, NEW by, Of(A, by), Of(B, by)
  PROVE  Of(A \union B, by)
BY DEF Of

LEMMA WhenIs ==
  ASSUME NEW condition, NEW A, NEW by, condition => Of(A, by)
  PROVE  Of(When(condition, A), by)
BY DEF Of, When

LEMMA ByOfEntity ==
  ASSUME NEW A, NEW e, NEW obs,
         Of(A, Provider(e, obs)) \/ Of(A, Derived(e, obs))
  PROVE  From(A, e, obs)
BY OriginIs DEF Of, From, Worth

-----------------------------------------------------------------------------
(* The traffic                                                             *)

LEMMA ProbeClaimsAre ==
  ASSUME NEW e, NEW probe, NEW at, NEW by, Originates(by)
  PROVE  Of(ProbeClaims(e, probe, at, by), by)
<1> DEFINE subject == <<e, "flow-probe", probe.id>>
           native == { About(<<subject, "provider-native-confidence">>,
                  Claim("foreign_native", subject, "tomtom_flow_confidence",
                        <<at, probe.confidence, probe.id>>,
                        probe.confidence, Foreign(by))) }
<1>1. Of(native, by)
  BY AboutIs, ForeignIs DEF Of
<1> DEFINE place    == Spatial(subject, "flow_query_point", probe.place, <<at, probe.id>>, by)
           road     == Spatial(subject, "matched_road_geometry", probe.geometry,
                               <<at, probe.id, probe.openlr>>, by)
           readings == Measurements(subject, probe.readings, <<at, probe.id>>, by)
           closure  == SourceReport(subject, "provider_reports_road_closure",
                         <<at, probe.id, probe.closure, probe.openlr>>, probe.closure, by)
           trust    == When(probe.confidence # None, native)
<1>2. Of(trust, by)
  BY <1>1, WhenIs
<1>3. Of(place, by) /\ Of(road, by) /\ Of(readings, by) /\ Of(closure, by)
  BY SpatialIs, MeasurementsAre, SourceReportIs
<1>4. ProbeClaims(e, probe, at, by)
        = place \union road \union readings \union closure \union trust
  BY DEF ProbeClaims
<1> HIDE DEF place, road, readings, closure, trust
<1> QED BY <1>2, <1>3, <1>4, UnionIs

LEMMA TrafficFlowIs ==
  ASSUME NEW e, NEW c, NEW obs
  PROVE  From(TrafficFlow(e, c, obs), e, obs)
<1> DEFINE at == CheckedAt(obs)
           by == Provider(e, obs)
           collection == <<e, "flow-collection">>
           quality == { Claim("data_quality", collection, "probe_collection_completeness",
               <<at, c.successful, c.configured>>,
               Truth(c.successful = c.configured), by) }
<1>1. Of(When(c.configured > 0, quality), by)
  BY ClaimIs DEF Of, When
<1>2. \A probe \in c.probes : Of(ProbeClaims(e, probe, at, by), by)
  BY ProbeClaimsAre, OriginIs
<1>3. Of(UNION {ProbeClaims(e, probe, at, by) : probe \in c.probes}, by)
  BY <1>2 DEF Of
<1> DEFINE scope  == CollectionScope(collection, c.scope, at, by)
           whole  == When(c.configured > 0, quality)
           probes == UNION {ProbeClaims(e, probe, at, by) : probe \in c.probes}
<1>4. Of(scope, by) /\ Of(whole, by) /\ Of(probes, by)
  BY <1>1, <1>3, ScopeIs
<1>5. TrafficFlow(e, c, obs) = scope \union whole \union probes
  BY DEF TrafficFlow
<1> HIDE DEF scope, whole, probes
<1>6. Of(TrafficFlow(e, c, obs), by)
  BY <1>4, <1>5, UnionIs
<1> QED BY <1>6, ByOfEntity

LEMMA EventClaimsAre ==
  ASSUME NEW e, NEW record, NEW at, NEW by, Originates(by)
  PROVE  Of(EventClaims(e, record, at, by), by)
BY SpatialIs, ForeignNativeIs, SourceReportIs, MeasurementsAre
   DEF EventClaims, EventReport, Of

LEMMA CameraClaimsAre ==
  ASSUME NEW e, NEW r, NEW at, NEW by
  PROVE  Of(CameraClaims(e, r, at, by), by)
BY SpatialIs, ArtifactIs DEF CameraClaims, Of

LEMMA TrafficCamerasAre ==
  ASSUME NEW e, NEW c, NEW obs
  PROVE  From(TrafficCameras(e, c, obs), e, obs)
<1>1. Of(TrafficCameras(e, c, obs), Provider(e, obs))
  BY ScopeIs, CameraClaimsAre DEF TrafficCameras, Of
<1> QED BY <1>1, ByOfEntity

LEMMA SignClaimsAre ==
  ASSUME NEW e, NEW r, NEW at, NEW by
  PROVE  Of(SignClaims(e, r, at, by), by)
BY SpatialIs, ArtifactIs DEF SignClaims, Of

LEMMA TrafficMessageSignsAre ==
  ASSUME NEW e, NEW c, NEW obs
  PROVE  From(TrafficMessageSigns(e, c, obs), e, obs)
<1>1. Of(TrafficMessageSigns(e, c, obs), Provider(e, obs))
  BY ScopeIs, SignClaimsAre DEF TrafficMessageSigns, Of
<1> QED BY <1>1, ByOfEntity

LEMMA TrafficSituationIs ==
  ASSUME NEW e, NEW c, NEW obs
  PROVE  From(TrafficSituation(e, c, obs), e, obs)
<1> DEFINE by      == Derived(e, obs)
           scope   == CollectionScope(<<e, "traffic-situation-scope">>, c.scope, c.derived, by)
           gaps    == { About(<<<<e, "collection-gap", i>>, "known_collection_gap">>,
                          Claim("collection_gap", <<e>>, "known_collection_gap",
                                <<c.derived, c.gaps[i]>>, c.gaps[i], by)) : i \in DOMAIN c.gaps }
           kernels == { Claim("identity_association", <<e, "kernel", kernel.id>>,
                          "same_upstream_event_representation",
                          <<c.derived, kernel.records>>, kernel.records, by) :
                            kernel \in {k \in c.kernels : k.basis = "upstream identifier"} }
<1> HIDE DEF by
<1>1. Of(scope, by)
  BY ScopeIs
<1>2. Of(gaps, by)
  <2>1. ASSUME NEW i \in DOMAIN c.gaps
        PROVE  LET d == About(<<<<e, "collection-gap", i>>, "known_collection_gap">>,
                          Claim("collection_gap", <<e>>, "known_collection_gap",
                                <<c.derived, c.gaps[i]>>, c.gaps[i], by))
               IN /\ d.entity = by.entity /\ d.authority = by.authority /\ d.current = by.current
                  /\ d.kind = "collection_gap"
    BY AboutIs
  <2> QED BY <2>1 DEF Of
<1>3. Of(kernels, by)
  <2>1. ASSUME NEW kernel
        PROVE  LET d == Claim("identity_association", <<e, "kernel", kernel.id>>,
                          "same_upstream_event_representation",
                          <<c.derived, kernel.records>>, kernel.records, by)
               IN /\ d.entity = by.entity /\ d.authority = by.authority /\ d.current = by.current
                  /\ d.kind = "identity_association"
    BY ClaimIs
  <2> QED BY <2>1 DEF Of
<1>4. TrafficSituation(e, c, obs) = scope \union gaps \union kernels
  BY DEF TrafficSituation, by
<1> HIDE DEF scope, gaps, kernels
<1>5. Of(TrafficSituation(e, c, obs), by)
  BY <1>1, <1>2, <1>3, <1>4, UnionIs
<1> QED BY <1>5, ByOfEntity DEF by

-----------------------------------------------------------------------------
(* The weather                                                             *)

LEMMA WeatherStateIs ==
  ASSUME NEW e, NEW c, NEW obs
  PROVE  From(WeatherState(e, c, obs), e, obs)
<1>1. Of(WeatherState(e, c, obs), Provider(e, obs))
  BY ForeignNativeIs, MeasurementsAre, OriginIs, UnionIs DEF WeatherState
<1> QED BY <1>1, ByOfEntity

LEMMA DailyForecastIs ==
  ASSUME NEW e, NEW c, NEW obs
  PROVE  From(DailyForecast(e, c, obs), e, obs)
BY PredictionsAre, ByOfEntity DEF DailyForecast

LEMMA HourlyForecastIs ==
  ASSUME NEW e, NEW c, NEW obs
  PROVE  From(HourlyForecast(e, c, obs), e, obs)
<1>1. Of(HourlyForecast(e, c, obs), Provider(e, obs))
  <2>1. ASSUME NEW h
        PROVE  Of(Predictions(<<e, "hourly-forecast", h.start>>, h.readings,
                              <<h.start, c.updated, CheckedAt(obs)>>, Provider(e, obs)),
                  Provider(e, obs))
    BY PredictionsAre
  <2> QED BY <2>1 DEF HourlyForecast, Of
<1> QED BY <1>1, ByOfEntity

LEMMA StationClaimsAre ==
  ASSUME NEW e, NEW s, NEW at, NEW by, Originates(by)
  PROVE  Of(StationClaims(e, s, at, by), by)
<1> DEFINE subject    == <<e, "surface-station", s.id>>
           identity   == <<s.id, s.at, at>>
           categories == ForeignNative(subject, s.categories, identity, by)
           metar      == When(s.raw # None, Artifact(subject, "raw_metar_artifact",
                                              Append(identity, s.raw), s.raw, by))
           readings   == Measurements(subject, s.readings, identity, by)
<1>1. Of(categories, by) /\ Of(readings, by)
  BY ForeignNativeIs, MeasurementsAre
<1>2. Of(metar, by)
  BY ArtifactIs, WhenIs
<1>3. StationClaims(e, s, at, by) = categories \union metar \union readings
  BY DEF StationClaims
<1> HIDE DEF categories, metar, readings
<1> QED BY <1>1, <1>2, <1>3, UnionIs

LEMMA SurfaceNetworkIs ==
  ASSUME NEW e, NEW c, NEW obs
  PROVE  From(SurfaceNetwork(e, c, obs), e, obs)
<1>1. Of(SurfaceNetwork(e, c, obs), Provider(e, obs))
  BY StationClaimsAre, OriginIs DEF SurfaceNetwork, Of
<1> QED BY <1>1, ByOfEntity

LEMMA WeatherEstimateIs ==
  ASSUME NEW e, NEW c, NEW obs
  PROVE  From(WeatherEstimate(e, c), e, obs)
<1> DEFINE subject  == <<e, "current-weather-estimate">>
           identity == <<c.derived, c.method>>
<1>1. Local(e).entity = e /\ Local(e).authority = "locally_derived"
  BY OriginIs
<1>2. ASSUME NEW d \in WeatherEstimate(e, c)
      PROVE  d.entity = e /\ Worth(d, obs) /\ d.kind # "evidence"
  <2>1. PICK k \in Told(c.readings) :
          d = Claim("measurement", subject, k, Append(identity, c.readings[k]),
                    c.readings[k], Local(e))
    BY DEF WeatherEstimate, Measurements, Claims
  <2> HIDE DEF subject
  <2>2. /\ d.entity = Local(e).entity /\ d.authority = Local(e).authority
        /\ d.subject = subject /\ d.kind = "measurement"
    BY <2>1, ClaimIs
  <2> QED BY <1>1, <2>2 DEF Worth, subject
<1> QED BY <1>2 DEF From

LEMMA AlertClaimsAre ==
  ASSUME NEW e, NEW a, NEW at, NEW by, Originates(by)
  PROVE  Of(AlertClaims(e, a, at, by), by)
BY ForeignNativeIs, SourceReportIs DEF AlertClaims, Of

LEMMA WeatherAlertsAre ==
  ASSUME NEW e, NEW c, NEW obs
  PROVE  From(WeatherAlerts(e, c, obs), e, obs)
<1>1. Of(WeatherAlerts(e, c, obs), Provider(e, obs))
  BY AlertClaimsAre, OriginIs DEF WeatherAlerts, Of
<1> QED BY <1>1, ByOfEntity

LEMMA RadarMosaicIs ==
  ASSUME NEW e, NEW c, NEW obs
  PROVE  From(RadarMosaic(e, c, obs), e, obs)
<1>1. Of(RadarMosaic(e, c, obs), Provider(e, obs))
  BY ArtifactIs, SpatialIs DEF RadarMosaic, Of
<1> QED BY <1>1, ByOfEntity

LEMMA RadarContextIs ==
  ASSUME NEW e, NEW c, NEW obs
  PROVE  From(RadarContext(e, c, obs), e, obs)
<1>1. Of(RadarContext(e, c, obs), Provider(e, obs))
  BY ArtifactIs, SpatialIs DEF RadarContext, Of
<1> QED BY <1>1, ByOfEntity

-----------------------------------------------------------------------------
(* The machine itself                                                      *)

LEMMA WhenFrom ==
  ASSUME NEW condition, NEW A, NEW e, NEW obs, From(A, e, obs)
  PROVE  From(When(condition, A), e, obs)
BY DEF When, From

LEMMA LevelIs ==
  ASSUME NEW comps, NEW kind, NEW subject, NEW predicate, NEW at, NEW e, NEW obs
  PROVE  From(Level(comps, kind, subject, predicate, at, Provider(e, obs)), e, obs)
<1>1. Of(Level(comps, kind, subject, predicate, at, Provider(e, obs)), Provider(e, obs))
  BY ClaimIs DEF Level, When, Of
<1> QED BY <1>1, ByOfEntity

LEMMA SystemStateIs ==
  ASSUME NEW e, NEW comps, NEW obs
  PROVE  \A c \in SystemState(e, comps, obs) :
           c.entity = e /\ (Worth(c, obs) \/ Judges(c, comps)) /\ c.kind # "evidence"
<1> DEFINE at    == CheckedAt(obs)
           by    == Provider(e, obs)
           wifi  == comps["wifi"]
           condition == { Condition(e, "health_status",
                            <<comps["health"].status, comps["health"].reasons>>,
                            comps["health"].status, Local(e)) }
           usb   == { Condition(e, "usb_device_present",
                        <<at, comps["usb"].present, comps["usb"].mode>>,
                        Truth(comps["usb"].present), by) }
           link  == { Condition(e, "wifi_connected", <<at, wifi.meaning>>,
                        Truth(wifi.connected), by) }
           signal == { Claim("measurement", <<e, "wifi-link">>, "wifi_signal",
                         <<at, wifi.meaning[1], wifi.signal>>,
                         ToString(wifi.signal), by) }
           air   == link \union When(wifi.signal # None, signal)
           A == When(Has(comps, "health"), condition)
           B == Level(comps, "compute", <<e>>, "cpu_utilization", at, by)
           C == Level(comps, "memory", <<e>>, "memory_used", at, by)
           D == Level(comps, "storage", <<e, "storage">>, "storage_used", at, by)
           E == Level(comps, "temperature", <<e>>, "temperature", at, by)
           F == When(Has(comps, "usb"), usb)
           G == When(Has(comps, "wifi"), air)
<1>1. Of(usb, by) /\ Of(link, by)
  BY ClaimIs DEF Condition, Of
<1>8. \A c \in A : c.entity = e /\ Judges(c, comps) /\ c.kind # "evidence"
  <2>1. Local(e).entity = e /\ Local(e).authority = "locally_derived"
    BY OriginIs
  <2> QED BY <2>1, ClaimIs DEF Condition, When, Judges
<1>2. Of(signal, by)
  BY ClaimIs DEF Of
<1>3. SystemState(e, comps, obs)
        = A \union B \union C \union D \union E \union F \union G
  BY DEF SystemState
<1> HIDE DEF condition, usb, link, signal
<1>4. From(F, e, obs)
  BY <1>1, WhenIs, ByOfEntity
<1>5. Of(air, by)
  BY <1>1, <1>2, WhenIs, UnionIs
<1> HIDE DEF air
<1>6. From(G, e, obs)
  BY <1>5, WhenIs, ByOfEntity
<1>7. From(B, e, obs) /\ From(C, e, obs) /\ From(D, e, obs) /\ From(E, e, obs)
  BY LevelIs
<1> HIDE DEF A, B, C, D, E, F, G
<1> QED BY <1>3, <1>4, <1>6, <1>7, <1>8 DEF From

-----------------------------------------------------------------------------
(* Observations, evidence, and all of it                                   *)

LEMMA ObservationClaimsAre ==
  ASSUME NEW e, NEW obs
  PROVE  \A c \in ObservationClaims(e, obs) :
           c.entity = e /\ Worth(c, obs) /\ c.kind # "evidence"
<1> DEFINE by  == Origin(e, "source_observed", None, None)
           yes == Truth(TRUE)
           is  == { About(<<<<e, "observation", obs.adapter>>, "availability">>,
                      Claim("observation_state", <<e>>, "observation_availability",
                            <<obs.checked, obs.availability, obs.reasons>>,
                            obs.availability, by)) }
           not == { About(<<<<e, "absence", obs.adapter>>, "new_observation_unavailable">>,
                      Claim("absence", <<e>>, "new_observation_unavailable",
                            <<obs.checked, obs.reasons>>, yes, by)) }
<1>1. by.entity = e /\ by.authority = None /\ by.current = None
  BY DEF Origin
<1> HIDE DEF by, yes
<1> DEFINE absent == When(obs.availability = "unavailable", not)
<1>2. Of(is, by)
  BY AboutIs DEF Of
<1>3. Of(not, by)
  BY AboutIs DEF Of
<1>4. ObservationClaims(e, obs) = is \union absent
  BY DEF ObservationClaims, by, yes
<1> HIDE DEF is, not
<1>5. Of(absent, by)
  BY <1>3, WhenIs
<1> HIDE DEF absent
<1>6. Of(ObservationClaims(e, obs), by)
  BY <1>2, <1>4, <1>5, UnionIs
<1> QED BY <1>1, <1>6 DEF Of, Worth

\* Evidence is given by a current collection that reports no local records.
LEMMA NothingNearIs ==
  ASSUME NEW e, NEW c, NEW obs, NEW d \in NothingNear(e, c, obs)
  PROVE  /\ d.entity = e /\ d.authority = AuthorityOf(obs) /\ d.current = CurrentOf(obs)
         /\ obs # None /\ obs.availability = "current" /\ c.local = 0
<1> DEFINE by    == Provider(e, obs)
           yes   == Truth(TRUE)
           claim == Claim("evidence", <<e, "event-collection">>, NegativeEvidence,
                          <<CheckedAt(obs), c.total, c.scope>>, yes, by)
<1> HIDE DEF yes
<1>1. /\ claim.entity = by.entity /\ claim.authority = by.authority
      /\ claim.current = by.current
  BY ClaimIs
<1>2. by.entity = e /\ by.authority = AuthorityOf(obs) /\ by.current = CurrentOf(obs)
  BY OriginIs
<1>3. /\ d = claim
      /\ obs # None /\ obs.availability = "current" /\ c.local = 0
  BY DEF NothingNear, When, yes
<1> HIDE DEF claim, by
<1> QED BY <1>1, <1>2, <1>3

LEMMA TrafficEventsAre ==
  ASSUME NEW e, NEW c, NEW obs
  PROVE  \E rest : /\ From(rest, e, obs)
                   /\ TrafficEvents(e, c, obs) = rest \union NothingNear(e, c, obs)
<1> DEFINE at == CheckedAt(obs)
           by == Provider(e, obs)
           scope  == CollectionScope(<<e, "event-collection">>, c.scope, at, by)
           events == UNION {EventClaims(e, record, at, by) : record \in c.events}
<1>1. Of(scope, by)
  BY ScopeIs
<1>2. Of(events, by)
  BY EventClaimsAre, OriginIs DEF Of
<1>3. From(scope \union events, e, obs)
  BY <1>1, <1>2, UnionIs, ByOfEntity
<1>4. TrafficEvents(e, c, obs) = scope \union NothingNear(e, c, obs) \union events
  BY DEF TrafficEvents
<1> HIDE DEF scope, events
<1> QED BY <1>3, <1>4

\* Of all the claims of an entity: see the top of this module.
LEMMA EntityClaimsAre ==
  ASSUME NEW e, NEW comps,
         NEW d \in EntityClaims(e, comps)
  PROVE  LET obs == IF Has(comps, "observation") THEN comps["observation"] ELSE None
         IN /\ d.entity = e
            /\ Worth(d, obs) \/ Judges(d, comps)
            /\ d.kind = "evidence" =>
                 /\ obs # None /\ obs.availability = "current"
                 /\ Has(comps, "events") /\ comps["events"].local = 0
<1> DEFINE obs == IF Has(comps, "observation") THEN comps["observation"] ELSE None
           O == When(Has(comps, "observation"), ObservationClaims(e, obs))
           N == When(Has(comps, "events"), TrafficEvents(e, comps["events"], obs))
           A == When(Has(comps, "flow"), TrafficFlow(e, comps["flow"], obs))
           B == When(Has(comps, "weather"), WeatherState(e, comps["weather"], obs))
           C == When(Has(comps, "daily"), DailyForecast(e, comps["daily"], obs))
           D == When(Has(comps, "hourly"), HourlyForecast(e, comps["hourly"], obs))
           E == When(Has(comps, "surface"), SurfaceNetwork(e, comps["surface"], obs))
           F == When(Has(comps, "estimate"), WeatherEstimate(e, comps["estimate"]))
           G == When(Has(comps, "alerts"), WeatherAlerts(e, comps["alerts"], obs))
           H == When(Has(comps, "mosaic"), RadarMosaic(e, comps["mosaic"], obs))
           I == When(Has(comps, "context"), RadarContext(e, comps["context"], obs))
           J == When(Has(comps, "cameras"), TrafficCameras(e, comps["cameras"], obs))
           K == When(Has(comps, "signs"), TrafficMessageSigns(e, comps["signs"], obs))
           L == When(Has(comps, "situation"), TrafficSituation(e, comps["situation"], obs))
           M == SystemState(e, comps, obs)
<1>1. EntityClaims(e, comps) = O \union A \union N \union B \union C \union D \union E
        \union F \union G \union H \union I \union J \union K \union L \union M
  BY DEF EntityClaims
<1> HIDE DEF obs
<1>2. From(A, e, obs) /\ From(J, e, obs) /\ From(K, e, obs) /\ From(L, e, obs)
  BY WhenFrom, TrafficFlowIs, TrafficCamerasAre, TrafficMessageSignsAre, TrafficSituationIs
<1>3. From(B, e, obs) /\ From(C, e, obs) /\ From(D, e, obs) /\ From(E, e, obs)
  BY WhenFrom, WeatherStateIs, DailyForecastIs, HourlyForecastIs, SurfaceNetworkIs
<1>4. From(F, e, obs) /\ From(G, e, obs) /\ From(H, e, obs) /\ From(I, e, obs)
  BY WhenFrom, WeatherEstimateIs, WeatherAlertsAre, RadarMosaicIs, RadarContextIs
<1> DEFINE Good == /\ d.entity = e
                   /\ Worth(d, obs) \/ Judges(d, comps)
                   /\ d.kind = "evidence" =>
                        /\ obs # None /\ obs.availability = "current"
                        /\ Has(comps, "events") /\ comps["events"].local = 0
<1>5. d \in M => Good
  BY SystemStateIs
<1>6. d \in O => Good
  BY ObservationClaimsAre DEF When
<1>7. d \in N => Good
  <2>1. PICK rest : /\ From(rest, e, obs)
                    /\ TrafficEvents(e, comps["events"], obs)
                         = rest \union NothingNear(e, comps["events"], obs)
    BY TrafficEventsAre
  <2>2. d \in rest => Good
    BY <2>1 DEF From
  <2>3. d \in NothingNear(e, comps["events"], obs) /\ Has(comps, "events") => Good
    BY NothingNearIs DEF Worth
  <2> QED BY <2>1, <2>2, <2>3 DEF When
<1> HIDE DEF O, N, A, B, C, D, E, F, G, H, I, J, K, L, M
<1>8. Good
  BY <1>1, <1>2, <1>3, <1>4, <1>5, <1>6, <1>7 DEF From
<1> QED BY <1>8 DEF obs

-----------------------------------------------------------------------------
(***************************************************************************)
(* CurrentIsEarned.  With what the claims of an entity have in common,     *)
(* what is left is that the ObservationState they are qualified with is    *)
(* the one that this process has earned.                                   *)
(*                                                                         *)
(* CurrentIsEarned is not inductive: a process that starts finds the       *)
(* ObservationStates of an earlier one, and it has to be known that they   *)
(* are of entities that prepare_reentry withdraws, or that are collected   *)
(* before the surface opens, or that were checked before it; and a batch   *)
(* that is half-written qualifies its entity later, with what it said of   *)
(* its source, and with the health that all of its components then have.   *)
(***************************************************************************)
-----------------------------------------------------------------------------
(* The last value of a kind in a batch                                     *)

LEMMA SmallestIs ==
  ASSUME NEW T, T \subseteq Nat, T # {}
  PROVE  \E x \in T : \A y \in T : x <= y
<1>1. PICK x \in T : \A y \in T : ~ (<<y, x>> \in OpToRel(<, Nat))
  BY WFMin, NatLessThanWellFounded, Zenon
<1>2. \A y \in T : ~ (y < x)
  BY <1>1, Zenon DEF OpToRel
<1> QED BY <1>2

LEMMA MaxIs ==
  ASSUME NEW n \in Nat, NEW S, S \subseteq 1..n, S # {}
  PROVE  Max(S) \in S /\ \A x \in S : Max(S) >= x
<1> DEFINE T == {n - x : x \in S}
<1>1. T \subseteq Nat /\ T # {}
  <2>1. \A x \in S : n - x \in Nat
    OBVIOUS
  <2> QED BY <2>1
<1>2. PICK y \in T : \A z \in T : y <= z
  BY <1>1, SmallestIs
<1>3. PICK x \in S : y = n - x
  OBVIOUS
<1>4. \A z \in S : x >= z
  <2>1. ASSUME NEW z \in S PROVE x >= z
    <3>1. n - z \in T
      OBVIOUS
    <3>2. n - x <= n - z
      BY <1>2, <1>3, <3>1
    <3> QED BY <3>2
  <2> QED BY <2>1
<1> QED BY <1>4 DEF Max

-----------------------------------------------------------------------------
(* A batch                                                                 *)

\* An events component that counts no local events has none.
Counted(comps) ==
  /\ "events" \in DOMAIN comps
  /\ comps["events"] # None
  /\ comps["events"].local = 0
  => comps["events"].events = {}

LEMMA StoredIs ==
  ASSUME NEW e \in Entities, NEW batch \in Batches[e], NEW comps, Counted(comps)
  PROVE  LET s == Stored(comps, batch)
         IN /\ DOMAIN s = DOMAIN comps
            /\ "observation" \in DOMAIN comps => s["observation"] = comps["observation"]
            /\ Counted(s)
<1> DEFINE new(k) == {i \in DOMAIN batch :
                        batch[i].value # None /\ batch[i].value.kind = k}
           s == Stored(comps, batch)
<1>1. s = [k \in DOMAIN comps |->
             IF new(k) = {} THEN comps[k] ELSE batch[Max(new(k))].value]
  BY DEF Stored
<1>2. new("observation") = {}
  BY BatchesAssumption DEF Entities
<1>3. new("events") # {} => Max(new("events")) \in new("events")
  BY MaxIs, BatchesAssumption DEF Entities
<1>4. \A i \in new("events") : batch[i].value.local = 0 => batch[i].value.events = {}
  BY BatchesAssumption DEF Entities
<1> HIDE DEF new, s
<1>5. Counted(s)
  BY <1>1, <1>3, <1>4 DEF Counted
<1>6. "observation" \in DOMAIN comps => s["observation"] = comps["observation"]
  BY <1>1, <1>2
<1> QED BY <1>1, <1>5, <1>6 DEF s

Availabilities == {"current", "degraded", "unavailable"}

LEMMA AvailabilityIs ==
  ASSUME NEW batch
  PROVE  Availability(batch) \in Availabilities
BY DEF Availability, Availabilities

LEMMA NobodyAnswered ==
  ASSUME NEW source, NEW detail
  PROVE  Availability(<<Unavailable(source, detail)>>) = "unavailable"
BY DEF Availability, Unavailable

LEMMA QualifiedIs ==
  ASSUME NEW e, NEW comps, "observation" \in DOMAIN comps, NEW batch, NEW at
  PROVE  LET q == QualifiedBy(e, comps, batch, at)
         IN /\ DOMAIN q = DOMAIN comps
            /\ q["observation"].availability = Availability(batch)
            /\ q["observation"].checked = at
            /\ Counted(comps) => Counted(q)
<1> DEFINE observed == [comps EXCEPT !["observation"] = ObservationOf(e, comps, batch, at)]
<1>1. /\ DOMAIN observed = DOMAIN comps
      /\ observed["observation"] = ObservationOf(e, comps, batch, at)
      /\ "events" \in DOMAIN comps => observed["events"] = comps["events"]
  OBVIOUS
<1>2. /\ ObservationOf(e, comps, batch, at).availability = Availability(batch)
      /\ ObservationOf(e, comps, batch, at).checked = at
  BY DEF ObservationOf
<1> DEFINE checked == [observed EXCEPT !["health"] = Evaluate(observed, config.thresholds)]
<1>3. QualifiedBy(e, comps, batch, at) = IF e \in LocalEntities THEN checked ELSE observed
  BY DEF QualifiedBy
<1> HIDE DEF observed
<1>4. /\ DOMAIN checked = DOMAIN comps
      /\ checked["observation"] = observed["observation"]
      /\ "events" \in DOMAIN comps => checked["events"] = comps["events"]
  BY <1>1
<1> HIDE DEF checked
<1> QED BY <1>1, <1>2, <1>3, <1>4 DEF Counted

-----------------------------------------------------------------------------
(* The inductive invariant                                                 *)

\* The components of an entity, whoever has written them and whenever.
Kept(e) ==
  LET obs == world[e]["observation"]
  IN /\ DOMAIN world[e] = Kinds[e]
     /\ Counted(world[e])
     /\ obs = None \/ obs.availability \in Availabilities
     /\ obs = None \/ obs.checked \in 0..clock

\* A batch that is half-written is one that arrived for its entity.
Arrived(t) ==
  writing[t] # None =>
    /\ writing[t].entity \in Collected
    /\ Owner[writing[t].entity] = t
    /\ writing[t].batch \in Batches[writing[t].entity]
    /\ writing[t].at \in 0..clock

\* What is not worthless was said by this process.
Trusted(e) ==
  LET obs == world[e]["observation"]
  IN obs = None \/ obs.availability = "unavailable" \/ good[e] = obs.availability

\* What this process does not ask for was checked before it was there.
Left(e) ==
  LET obs == world[e]["observation"]
  IN obs = None \/ obs.checked < born

\* What a process knows of the entities that it asks for, and of the others.
Earned ==
  /\ config # None /\ focus # {} /\ torn \intersect Collected = {}
  /\ \A e \in Whole \intersect Collected : Trusted(e)
  /\ \A e \in Whole \intersect LocalEntities : Judged(e)
  /\ \A e \in Entities \ Collected : Left(e)

EarnedInv ==
  /\ DOMAIN world = Entities /\ DOMAIN good = Entities /\ DOMAIN writing = Threads
  /\ clock \in Nat /\ born \in 0..clock /\ torn \subseteq Entities
  /\ \A e \in Entities : Kept(e)
  /\ \A t \in Threads : Arrived(t)
  /\ born = 0 => \A t \in Threads : writing[t] = None
  /\ born # 0 => Earned

LEMMA InitEarned == ReadInit => EarnedInv
<1> SUFFICES ASSUME ReadInit PROVE EarnedInv
  OBVIOUS
<1> USE DEF ReadInit
<1>1. \A e \in Entities :
        /\ DOMAIN world[e] = Kinds[e]
        /\ \A k \in Kinds[e] : world[e][k] = None
  OBVIOUS
<1>2. \A e \in Entities : Kept(e)
  BY <1>1, KindsAssumption DEF Kept, Counted, Entities
<1>3. \A t \in Threads : writing[t] = None
  OBVIOUS
<1>4. \A t \in Threads : Arrived(t)
  BY <1>3 DEF Arrived
<1> QED BY <1>2, <1>3, <1>4 DEF EarnedInv

\* Health is not made of health.
LEMMA HealthOfHealth ==
  ASSUME NEW comps, NEW health, NEW t
  PROVE  Evaluate([comps EXCEPT !["health"] = health], t) = Evaluate(comps, t)
<1> DEFINE q == [comps EXCEPT !["health"] = health]
<1>1. DOMAIN q = DOMAIN comps /\ \A k \in DOMAIN comps \ {"health"} : q[k] = comps[k]
  OBVIOUS
<1>2. "health" \notin BandedKinds /\ "health" \notin {"usb", "wifi", "observation"}
  BY DEF BandedKinds
<1> HIDE DEF q
<1>3. \A k \in BandedKinds \union {"usb", "wifi", "observation"} :
        /\ Present(q, k) <=> Present(comps, k)
        /\ Present(comps, k) => q[k] = comps[k]
  BY <1>1, <1>2 DEF Present
<1>4. \A band : AtBand(q, band, t) = AtBand(comps, band, t)
  <2> TAKE band
  <2>1. {j \in BandedKinds : Present(q, j) /\ Band(q[j], t) = band}
          = {j \in BandedKinds : Present(comps, j) /\ Band(comps[j], t) = band}
    BY <1>3
  <2>2. \A k \in {j \in BandedKinds : Present(comps, j) /\ Band(comps[j], t) = band} :
          q[k].level = comps[k].level
    BY <1>3
  <2> QED BY <2>1, <2>2 DEF AtBand
<1>5. CriticalReasons(q, t) = CriticalReasons(comps, t)
  BY <1>3, <1>4 DEF CriticalReasons, Reason
<1>6. WarningReasons(q, t) = WarningReasons(comps, t)
  BY <1>3, <1>4 DEF WarningReasons, Reason
<1>7. \A availability : /\ TelemetryIs(q, availability) <=> TelemetryIs(comps, availability)
                        /\ TelemetryIs(comps, availability)
                             => q["observation"] = comps["observation"]
  BY <1>3 DEF TelemetryIs
<1>8. BearsHealth(q) <=> BearsHealth(comps)
  BY <1>3 DEF BearsHealth
<1>9. Evaluate(q, t) = Evaluate(comps, t)
  BY <1>5, <1>6, <1>7, <1>8 DEF Evaluate
<1> QED BY <1>9 DEF q

\* The health that a batch leaves is that of all that the entity then has.
LEMMA QualifiedHealth ==
  ASSUME NEW e \in LocalEntities, NEW comps, "health" \in DOMAIN comps, NEW batch, NEW at
  PROVE  LET q == QualifiedBy(e, comps, batch, at)
         IN q["health"] = Evaluate(q, config.thresholds)
<1> DEFINE observed == [comps EXCEPT !["observation"] = ObservationOf(e, comps, batch, at)]
           health   == Evaluate(observed, config.thresholds)
           checked  == [observed EXCEPT !["health"] = health]
<1>1. QualifiedBy(e, comps, batch, at) = checked
  BY DEF QualifiedBy
<1>2. "health" \in DOMAIN observed
  OBVIOUS
<1> HIDE DEF observed
<1>3. Evaluate(checked, config.thresholds) = health
  BY HealthOfHealth
<1>4. checked["health"] = health
  BY <1>2
<1> QED BY <1>1, <1>3, <1>4

\* The process starts: all that it asks for is qualified anew.
LEMMA StartEarned == EarnedInv /\ Start => EarnedInv'
<1> SUFFICES ASSUME EarnedInv, Start PROVE EarnedInv'
  OBVIOUS
<1>1. PICK batch \in [LocalEntities -> UNION {Batches[e] : e \in LocalEntities}] :
        /\ \A e \in LocalEntities : batch[e] \in Batches[e]
        /\ world' = [e \in Entities |->
             IF e \in LocalEntities
             THEN QualifiedBy(e, Stored(world[e], batch[e]), batch[e], clock + 1)
             ELSE IF e \in Withdrawn THEN Withdraw(e, world[e], clock + 1)
             ELSE world[e]]
        /\ good' = [e \in Entities |-> IF e \in LocalEntities THEN Availability(batch[e])
                                     ELSE None]
  BY DEF Start
<1>2. /\ config # None /\ focus # {} /\ UNCHANGED <<config, focus, writing>>
      /\ clock \in Nat /\ clock' = clock + 1 /\ born' = clock + 1
      /\ torn' = torn \ Collected /\ torn \subseteq Entities
      /\ \A t \in Threads : writing[t] = None
  BY DEF Start, EarnedInv
<1>3. Collected' = Collected
  BY <1>2 DEF Collected, Withdrawn, Enabled
<1>4. \A t \in Threads : writing'[t] = None /\ Arrived(t)'
  BY <1>2 DEF Arrived
<1>5. ASSUME NEW e \in Entities
      PROVE  /\ Kept(e)'
             /\ IF e \in Collected THEN Trusted(e)' ELSE Left(e)'
             /\ e \in LocalEntities => Judged(e)'
  <2>1. /\ DOMAIN world[e] = Kinds[e] /\ Counted(world[e])
        /\ "observation" \in DOMAIN world[e]
        /\ LET obs == world[e]["observation"]
           IN obs = None \/ (obs.availability \in Availabilities /\ obs.checked \in 0..clock)
    BY KindsAssumption DEF EarnedInv, Kept, Entities
  <2>2. CASE e \in LocalEntities
    <3> DEFINE stored    == Stored(world[e], batch[e])
               qualified == QualifiedBy(e, stored, batch[e], clock + 1)
    <3>1. /\ DOMAIN stored = DOMAIN world[e] /\ Counted(stored)
      BY <1>1, <2>1, <2>2, StoredIs
    <3> HIDE DEF stored
    <3>2. /\ DOMAIN qualified = DOMAIN world[e] /\ Counted(qualified)
          /\ qualified["observation"].availability = Availability(batch[e])
          /\ qualified["observation"].checked = clock + 1
      BY <2>1, <3>1, QualifiedIs
    <3>3. world'[e] = qualified /\ good'[e] = Availability(batch[e])
      BY <1>1, <2>2 DEF stored
    <3>4. qualified["health"] = Evaluate(qualified, config.thresholds)
      BY <2>1, <2>2, <3>1, QualifiedHealth, EntitiesAssumption DEF LocalEntities, Entities
    <3> HIDE DEF qualified
    <3>5. Judged(e)'
      BY <1>2, <3>3, <3>4, AvailabilityIs, NoneAssumption DEF Judged, Availabilities
    <3>6. Kept(e)' /\ Trusted(e)' /\ e \in Collected
      BY <1>2, <2>1, <2>2, <3>2, <3>3, AvailabilityIs DEF Kept, Trusted, Collected
    <3> QED BY <3>5, <3>6
  <2>3. CASE e \in Withdrawn \ LocalEntities
    <3> DEFINE nobody == <<Unavailable(Adapter[e], "awaiting fresh observation")>>
               qualified == QualifiedBy(e, world[e], nobody, clock + 1)
    <3>1. Availability(nobody) = "unavailable"
      BY NobodyAnswered
    <3>2. world'[e] = qualified
      BY <1>1, <2>3 DEF Withdraw
    <3> HIDE DEF nobody
    <3>3. /\ DOMAIN qualified = DOMAIN world[e] /\ Counted(qualified)
          /\ qualified["observation"].availability = Availability(nobody)
          /\ qualified["observation"].checked = clock + 1
      BY <2>1, QualifiedIs
    <3> HIDE DEF qualified
    <3> QED
      BY <1>2, <2>1, <2>3, <3>1, <3>2, <3>3
      DEF Kept, Trusted, Collected, Availabilities
  <2>4. CASE e \notin Collected
    <3>1. world'[e] = world[e] /\ e \notin LocalEntities
      BY <1>1, <2>4 DEF Collected
    <3> QED BY <1>2, <2>1, <2>4, <3>1 DEF Kept, Left
  <2> QED BY <2>2, <2>3, <2>4 DEF Collected
<1>6. DOMAIN world' = Entities /\ DOMAIN good' = Entities /\ DOMAIN writing' = Threads
  BY <1>1, <1>2 DEF EarnedInv
<1>7. Whole' \subseteq Entities /\ LocalEntities \subseteq Entities /\ born' # 0
  BY <1>2 DEF Whole, LocalEntities
<1>8. Earned'
  BY <1>2, <1>3, <1>5, <1>7 DEF Earned
<1> QED BY <1>2, <1>4, <1>5, <1>6, <1>7, <1>8 DEF EarnedInv

\* Nothing else touches an entity outside its batches.
LEMMA SameEarned ==
  ASSUME EarnedInv, UNCHANGED <<process, world, writing, torn, good>>
  PROVE  EarnedInv'
<1> USE DEF process
<1>1. Collected' = Collected /\ Whole' = Whole
  BY DEF Collected, Withdrawn, Enabled, Whole, Half
<1>2. \A e \in Entities :
        /\ Kept(e)' = Kept(e) /\ Trusted(e)' = Trusted(e)
        /\ Left(e)' = Left(e) /\ Judged(e)' = Judged(e)
  BY <1>1 DEF Kept, Trusted, Left, Judged
<1>3. \A t \in Threads : Arrived(t)' = Arrived(t)
  BY <1>1 DEF Arrived
<1>4. Whole \subseteq Entities
  BY DEF Whole
<1>5. born # 0 => Earned'
  BY <1>1, <1>2, <1>4 DEF Earned, EarnedInv
<1> QED BY <1>1, <1>2, <1>3, <1>5 DEF EarnedInv

\* Between two processes nothing is half-written.
LEMMA BetweenEarned ==
  ASSUME EarnedInv, born' = 0, UNCHANGED <<clock, world>>,
         DOMAIN good' = Entities, DOMAIN writing' = Threads, torn' \subseteq Entities,
         \A t \in Threads : writing'[t] = None
  PROVE  EarnedInv'
<1>1. \A e \in Entities : Kept(e)' = Kept(e)
  BY DEF Kept
<1>2. \A t \in Threads : Arrived(t)'
  BY DEF Arrived
<1> QED BY <1>1, <1>2 DEF EarnedInv

LEMMA ConfigureEarned ==
  ASSUME EarnedInv, NEW raw \in Raws, Configure(raw)
  PROVE  EarnedInv'
<1>1. /\ config = None /\ UNCHANGED <<clock, born, world, writing, torn, good>>
  BY DEF Configure
<1>2. born = 0
  BY <1>1 DEF EarnedInv, Earned
<1> QED BY <1>1, <1>2, BetweenEarned DEF EarnedInv

\* The values of a batch arrive: its entity is half-written.
LEMMA CollectEarned ==
  ASSUME EarnedInv, NEW e \in focus, NEW batch \in Batches[e], Collect(e, batch)
  PROVE  EarnedInv'
<1> DEFINE t == Owner[e]
           w == [entity |-> e, batch |-> batch, at |-> clock + 1]
<1>1. /\ e \in Collected /\ e \in Entities /\ t \in Threads
      /\ writing[t] = None
      /\ clock' = clock + 1 /\ clock \in Nat /\ born \in 0..clock
      /\ UNCHANGED <<config, focus, born, torn, good>>
      /\ world' = [world EXCEPT ![e] = Stored(world[e], batch)]
      /\ writing' = [writing EXCEPT ![t] = w]
  BY DEF Collect, Collected, LocalEntities, Withdrawn, Threads, EarnedInv
<1>2. Collected' = Collected
  BY <1>1 DEF Collected, Withdrawn, Enabled
<1>3. \A d \in Entities \ {e} : world'[d] = world[d]
  BY <1>1 DEF EarnedInv
<1>4. /\ DOMAIN world'[e] = DOMAIN world[e] /\ Counted(world'[e])
      /\ world'[e]["observation"] = world[e]["observation"]
  BY <1>1, StoredIs, KindsAssumption DEF EarnedInv, Kept, Entities
<1>5. 0..clock \subseteq 0..clock'
  BY <1>1
<1>6. \A d \in Entities : Kept(d)'
  BY <1>1, <1>3, <1>4, <1>5 DEF EarnedInv, Kept
<1>7. writing'[t] = w /\ \A u \in Threads \ {t} : writing'[u] = writing[u]
  BY <1>1 DEF EarnedInv
<1>8. Arrived(t)'
  <2>1. w.entity = e /\ w.batch = batch /\ w.at = clock + 1 /\ clock + 1 \in 0..clock'
    BY <1>1
  <2> HIDE DEF w
  <2> QED BY <1>1, <1>2, <1>7, <2>1 DEF Arrived
<1>9. \A u \in Threads \ {t} : Arrived(u)'
  BY <1>1, <1>2, <1>5, <1>7 DEF EarnedInv, Arrived
<1>10. Whole' \subseteq Whole
  BY <1>1, <1>7 DEF Whole, Half
<1>11. \A d \in Entities :
         Trusted(d)' = Trusted(d) /\ Left(d)' = Left(d)
  BY <1>1, <1>3, <1>4 DEF Trusted, Left
<1>12. \A d \in Entities \ {e} : Judged(d)' = Judged(d)
  BY <1>1, <1>3 DEF Judged
<1>13. e \notin Whole' \/ w = None
  BY <1>1, <1>7 DEF Whole, Half
<1>14. w # None
  BY <1>1, BoundsAssumption, RecordsAssumption DEF Collect, Entities
<1>15. born # 0 /\ Earned /\ born' # 0
  BY <1>1 DEF Collect, EarnedInv
<1>16. Earned'
  BY <1>1, <1>2, <1>10, <1>11, <1>12, <1>13, <1>14, <1>15 DEF Earned, Whole
<1>17. DOMAIN world' = Entities /\ DOMAIN good' = Entities /\ DOMAIN writing' = Threads
       /\ clock' \in Nat /\ born' \in 0..clock' /\ torn' \subseteq Entities
  BY <1>1, <1>5 DEF EarnedInv
<1> HIDE DEF w, t
<1> QED BY <1>6, <1>8, <1>9, <1>15, <1>16, <1>17 DEF EarnedInv

\* Its ObservationState arrives: this process has said it.
LEMMA QualifyEarned ==
  ASSUME EarnedInv, NEW t \in Threads, Qualify(t)
  PROVE  EarnedInv'
<1>0. PICK w, e : w = writing[t] /\ e = w.entity
  OBVIOUS
<1> DEFINE qualified == QualifiedBy(e, world[e], w.batch, w.at)
<1>1. /\ w # None /\ born # 0 /\ Earned
      /\ UNCHANGED <<config, focus, born, clock, torn>>
      /\ world' = [world EXCEPT ![e] = qualified]
      /\ good' = [good EXCEPT ![e] = Availability(w.batch)]
      /\ writing' = [writing EXCEPT ![t] = None]
  BY <1>0 DEF Qualify, process, EarnedInv
<1>2. e \in Collected /\ e \in Entities /\ w.at \in 0..clock
  BY <1>0, <1>1 DEF EarnedInv, Arrived, Collected, LocalEntities, Withdrawn
<1>3. Collected' = Collected
  BY <1>1 DEF Collected, Withdrawn, Enabled
<1>4. /\ DOMAIN qualified = DOMAIN world[e] /\ Counted(qualified)
      /\ qualified["observation"].availability = Availability(w.batch)
      /\ qualified["observation"].checked = w.at
  BY <1>2, QualifiedIs, KindsAssumption DEF EarnedInv, Kept, Entities
<1>5. e \in LocalEntities => qualified["health"] = Evaluate(qualified, config.thresholds)
  BY <1>2, QualifiedHealth, EntitiesAssumption
  DEF LocalEntities, Entities, EarnedInv, Kept
<1> HIDE DEF qualified
<1>6. /\ world'[e] = qualified /\ good'[e] = Availability(w.batch)
      /\ \A d \in Entities \ {e} : world'[d] = world[d] /\ good'[d] = good[d]
      /\ writing'[t] = None
      /\ \A u \in Threads \ {t} : writing'[u] = writing[u]
  BY <1>1, <1>2 DEF EarnedInv
<1>7. Kept(e)' /\ Trusted(e)'
  BY <1>1, <1>2, <1>4, <1>6, AvailabilityIs DEF EarnedInv, Kept, Trusted
<1>8. e \in LocalEntities => Judged(e)'
  BY <1>1, <1>5, <1>6, AvailabilityIs, NoneAssumption DEF Judged, Availabilities
<1>9. \A d \in Entities \ {e} :
        /\ Kept(d)' = Kept(d) /\ Trusted(d)' = Trusted(d)
        /\ Left(d)' = Left(d) /\ Judged(d)' = Judged(d)
  BY <1>1, <1>6 DEF Kept, Trusted, Left, Judged
<1>10. \A u \in Threads : Arrived(u)'
  BY <1>1, <1>3, <1>6 DEF EarnedInv, Arrived
<1>11. Whole' \subseteq Whole \union {e} /\ Whole' \subseteq Entities
  BY <1>0, <1>1, <1>6 DEF Whole, Half
<1>12. Earned'
  BY <1>1, <1>2, <1>3, <1>7, <1>8, <1>9, <1>11 DEF Earned
<1>13. DOMAIN world' = Entities /\ DOMAIN good' = Entities /\ DOMAIN writing' = Threads
  BY <1>1 DEF EarnedInv
<1> QED BY <1>1, <1>7, <1>9, <1>10, <1>12, <1>13 DEF EarnedInv

\* A process that is dead has no authority.
LEMMA DieEarned ==
  ASSUME EarnedInv, Die
  PROVE  EarnedInv'
<1>1. /\ born' = 0 /\ UNCHANGED <<clock, world>> /\ torn' = torn \union Half
      /\ writing' = [t \in Threads |-> None] /\ good' = [e \in Entities |-> None]
  BY DEF Die
<1>2. Half \subseteq Entities
  BY DEF Half, EarnedInv, Arrived, Collected, LocalEntities, Withdrawn
<1>3. \A t \in Threads : writing'[t] = None
  BY <1>1
<1> QED BY <1>1, <1>2, <1>3, BetweenEarned DEF EarnedInv

LEMMA StepEarned == EarnedInv /\ [ReadNext]_readVars => EarnedInv'
<1> SUFFICES ASSUME EarnedInv, [ReadNext]_readVars PROVE EarnedInv'
  OBVIOUS
<1>1. CASE UNCHANGED readVars
  BY <1>1, SameEarned DEF readVars, process
<1>2. CASE \E raw \in Raws : Configure(raw)
  BY <1>2, ConfigureEarned
<1>3. CASE Start
  BY <1>3, StartEarned
<1>4. CASE \E e \in focus : \E batch \in Batches[e] : Collect(e, batch)
  BY <1>4, CollectEarned
<1>5. CASE \E t \in Threads : Qualify(t)
  BY <1>5, QualifyEarned
<1>6. CASE \E t \in Workers : Raise(t)
  BY <1>6, SameEarned DEF Raise, process
<1>7. CASE Die
  BY <1>7, DieEarned
<1>8. CASE \E r \in Requests : Get(r)
  BY <1>8, SameEarned DEF Get, process
<1>9. CASE \E page \in Pages : HeadOf(page)
  BY <1>9, SameEarned DEF HeadOf, process
<1>10. CASE Respond
  BY <1>10, SameEarned DEF Respond, process
<1> QED
  BY <1>1, <1>2, <1>3, <1>4, <1>5, <1>6, <1>7, <1>8, <1>9, <1>10 DEF ReadNext

-----------------------------------------------------------------------------
\* What says that it is current or degraded is so by its ObservationState.
LEMMA AuthorityIs ==
  ASSUME NEW obs, obs = None \/ obs.availability \in Availabilities, NEW c, Worth(c, obs)
  PROVE  /\ c.current = "true" =>
              \/ obs # None /\ obs.availability = "current"
              \/ c.subject = <<c.entity, "current-weather-estimate">>
         /\ c.authority = "degraded_or_mixed" => obs # None /\ obs.availability = "degraded"
<1>1. AuthorityOf(obs) = "degraded_or_mixed" => obs # None /\ obs.availability = "degraded"
  BY DEF AuthorityOf, Availabilities
<1>2. CurrentOf(obs) = "true" => obs # None /\ obs.availability = "current"
  <2>1. obs = None => CurrentOf(obs) = None
    BY DEF CurrentOf
  <2>2. obs # None /\ obs.availability = "degraded" => CurrentOf(obs) = "qualified"
    BY DEF CurrentOf
  <2>3. obs # None /\ obs.availability = "unavailable" => CurrentOf(obs) = "false"
    BY DEF CurrentOf
  <2> QED BY <2>1, <2>2, <2>3, NoneAssumption, Zenon DEF Availabilities
<1> QED BY <1>1, <1>2, NoneAssumption DEF Worth

LEMMA EarnedIsCurrent == EarnedInv => CurrentIsEarned
<1> SUFFICES ASSUME EarnedInv, born # 0 PROVE CurrentIsEarned
  BY DEF CurrentIsEarned
<1>1. ASSUME NEW e \in Whole \intersect Collected, NEW c \in EntityClaims(e, world[e])
      PROVE  /\ c.current = "true" =>
                  \/ good[e] = "current"
                  \/ c.predicate = "health_status" /\ Judged(e)
                  \/ c.subject = <<e, "current-weather-estimate">>
             /\ c.authority = "degraded_or_mixed" => good[e] = "degraded"
             /\ c.kind = "evidence" =>
                  good[e] = "current" /\ world[e]["events"].events = {}
  <2>1. PICK obs : obs = IF Has(world[e], "observation") THEN world[e]["observation"]
                         ELSE None
    OBVIOUS
  <2>2. /\ c.entity = e
        /\ Worth(c, obs) \/ Judges(c, world[e])
        /\ c.kind = "evidence" =>
             /\ obs # None /\ obs.availability = "current"
             /\ Has(world[e], "events") /\ world[e]["events"].local = 0
    BY <2>1, EntityClaimsAre
  <2>3. e \in Entities /\ DOMAIN world[e] = Kinds[e] /\ Counted(world[e])
    BY DEF Whole, EarnedInv, Kept
  <2>4. /\ obs = None \/ obs.availability \in Availabilities
        /\ obs = None \/ obs.availability = "unavailable" \/ good[e] = obs.availability
    BY <2>1, <2>3 DEF EarnedInv, Earned, Kept, Trusted, Has
  <2>5. c.kind = "evidence" => world[e]["events"].events = {}
    BY <2>2, <2>3 DEF Counted, Has
  <2>6. Judges(c, world[e]) => e \in LocalEntities
    BY <2>3, EntitiesAssumption DEF Judges, Has, LocalEntities, Entities
  <2>7. Judges(c, world[e]) => /\ c.predicate = "health_status" /\ Judged(e)
                              /\ c.authority = "locally_derived"
    BY <2>6 DEF Judges, EarnedInv, Earned
  <2>8. Worth(c, obs) => /\ c.current = "true" =>
                              \/ obs # None /\ obs.availability = "current"
                              \/ c.subject = <<e, "current-weather-estimate">>
                         /\ c.authority = "degraded_or_mixed" =>
                              obs # None /\ obs.availability = "degraded"
    BY <2>2, <2>4, AuthorityIs
  <2> QED BY <2>2, <2>4, <2>5, <2>7, <2>8
<1>2. \A e \in Entities \ Collected :
        world[e]["observation"] # None => world[e]["observation"].checked < born
  BY DEF EarnedInv, Earned, Left
<1> QED BY <1>1, <1>2 DEF CurrentIsEarned

\* In every run, with any entities and batches, whatever configuration each
\* process is given, across failures of workers and crashes: of an entity that the
\* process asks for, what the semantic page says is current or degraded is so by
\* the last batch that this process has completed for it, and evidence that nothing
\* is near comes from a current and empty collection; what says that it is
\* current whatever the ObservationState says is health that this process has
\* derived itself, or the estimate; and what the process does not ask for was last
\* checked before it was there (prepare_reentry, ingest_observation_batch and the
\* whole of semantics/projection.py).
THEOREM AuthorityIsEarned == ReadSpec => []CurrentIsEarned
<1>1. ReadInit => EarnedInv
  BY InitEarned
<1>2. EarnedInv /\ [ReadNext]_readVars => EarnedInv'
  BY StepEarned
<1>3. EarnedInv => CurrentIsEarned
  BY EarnedIsCurrent
<1> QED BY <1>1, <1>2, <1>3, PTL DEF ReadSpec

-----------------------------------------------------------------------------
(***************************************************************************)
(* What an accepted configuration leaves out                               *)
(***************************************************************************)

\* The configuration of a process is one that was read and accepted.
ConfigInv == config = None \/ \E raw \in Raws : Accepts(raw) /\ config = Loaded(raw)

LEMMA StepConfig == ConfigInv /\ [ReadNext]_readVars => ConfigInv'
<1> SUFFICES ASSUME ConfigInv, [ReadNext]_readVars PROVE ConfigInv'
  OBVIOUS
<1>1. CASE \E raw \in Raws : Configure(raw)
  BY <1>1 DEF Configure, ConfigInv
<1>2. CASE config' \in {config, None}
  BY <1>2 DEF ConfigInv
<1> QED
  BY <1>1, <1>2 DEF ReadNext, readVars, process, Start, Collect, Qualify, Raise, Die, Get,
                    HeadOf, Respond

LEMMA GivenIs ==
  ASSUME NEW section, NEW defaults, NEW k \in DOMAIN defaults
  PROVE  Given(section, defaults)[k] =
           IF section # None /\ k \in DOMAIN section THEN section[k] ELSE defaults[k]
BY DEF Given

\* Numbers that are asked for and readable are numbers.
LEMMA NumbersAre ==
  ASSUME NEW raw \in Raws, Accepts(raw)
  PROVE  LET c == Loaded(raw)
         IN /\ c.drivenc.events \in Int /\ c.drivenc.events >= 60
            /\ c.drivenc.signs \in Int /\ c.drivenc.signs >= 60
            /\ c.drivenc.cameras \in Int /\ c.drivenc.cameras >= 300
            /\ c.forecast.interval \in Int /\ c.forecast.interval >= 60
            /\ c.forecast.points_refresh \in Int
            /\ c.forecast.points_refresh >= c.forecast.interval
<1> DEFINE drivenc == Given(raw.drivenc, DrivencDefaults)
           forecast == Given(raw.forecast, ForecastDefaults)
<1>1. Loaded(raw).drivenc = drivenc /\ Loaded(raw).forecast = forecast
  BY DEF Loaded
<1>2. DrivencOk(drivenc) /\ ForecastOk(forecast)
  BY <1>1 DEF Accepts
<1>3. /\ \A k \in {"events", "signs", "cameras"} :
           /\ drivenc[k] \notin {Fails, None}
           /\ k \in DOMAIN DrivencDefaults /\ DrivencDefaults[k] \in Int
      /\ \A k \in {"interval", "points_refresh"} :
           /\ forecast[k] \notin {Fails, None}
           /\ k \in DOMAIN ForecastDefaults /\ ForecastDefaults[k] \in Int
  BY <1>2 DEF DrivencOk, ForecastOk, NamedOk, Readable, DrivencDefaults, ForecastDefaults
<1>4. ASSUME NEW k \in {"events", "signs", "cameras"} PROVE drivenc[k] \in Int
  BY <1>3, GivenIs, RawsAssumption
<1>5. ASSUME NEW k \in {"interval", "points_refresh"} PROVE forecast[k] \in Int
  BY <1>3, GivenIs, RawsAssumption
<1> HIDE DEF drivenc, forecast
<1> QED BY <1>1, <1>2, <1>4, <1>5 DEF DrivencOk, ForecastOk, NamedOk

\* An interval of a minute or more is in a minute once at most, and begins once.
LEMMA CallsAre ==
  ASSUME NEW interval \in Int, interval >= 60
  PROVE  CallsInAMinute(interval) \in Int /\ CallsInAMinute(interval) <= 2
<1>1. 60 \div interval \in Int /\ 60 \div interval <= 1
  OBVIOUS
<1> QED BY <1>1 DEF CallsInAMinute

LEMMA BandsAreReachable ==
  ASSUME NEW raw \in Raws, Accepts(raw), NEW k \in Families
  PROVE  Reachable(Loaded(raw).thresholds[k])
<1> DEFINE t == raw.thresholds[k]
<1>1. Loaded(raw).thresholds[k] = t
  BY DEF Loaded
<1>2. ThresholdsOk(raw.thresholds)
  BY DEF Accepts, Loaded
<1>3. /\ t.warning \notin {Fails, None} /\ t.critical \notin {Fails, None}
      /\ t.warning < t.critical /\ 0 <= t.warning /\ t.critical <= 100
  BY <1>2 DEF ThresholdsOk, Readable, Ordered
<1>4. t.warning \in Int /\ t.critical \in Int
  BY <1>3, RawsAssumption
<1> HIDE DEF t
<1>5. /\ t.warning \in 0..100 /\ HighBand(t.warning, t.warning, t.critical) = 1
      /\ t.critical \in 0..100 /\ HighBand(t.critical, t.warning, t.critical) = 2
  BY <1>3, <1>4 DEF HighBand
<1> QED BY <1>1, <1>5 DEF Reachable

\* An anchor that is shown was accepted with all that is said of it.
LEMMA SiteIsGrounded ==
  ASSUME NEW raw \in Raws, Accepts(raw), Site(Loaded(raw).anchor) # None
  PROVE  LET anchor == Loaded(raw).anchor
         IN {anchor.lineage, anchor.record, anchor.sha} \intersect {None, ""} = {}
<1> DEFINE anchor == Loaded(raw).anchor
<1>1. AnchorOk(anchor) /\ anchor.enabled
  BY DEF Accepts, Site
<1> HIDE DEF anchor
<1>2. Text(anchor, {"address", "lineage", "record", "sha"})
  BY <1>1 DEF AnchorOk
<1> QED BY <1>2 DEF Text, anchor

\* Probes that differ in their names are as many as their names.
LEMMA ProbesAreNamed ==
  ASSUME NEW raw \in Raws, Accepts(raw)
  PROVE  LET probes == FlowProbes(Loaded(raw).tomtom)
         IN Cardinality({probes[i].id : i \in DOMAIN probes}) = Len(probes)
<1> DEFINE tomtom == Given(raw.tomtom, TomtomDefaults)
           probes == FlowProbes(tomtom)
           names  == {probes[i].id : i \in DOMAIN probes}
<1>1. Loaded(raw).tomtom = tomtom
  BY DEF Loaded
<1>2. /\ tomtom.probes # Fails
      /\ \A i, j \in DOMAIN probes : probes[i].id = probes[j].id => i = j
  BY <1>1 DEF Accepts, TomtomOk
<1>3. Len(probes) \in Nat /\ DOMAIN probes = 1..Len(probes)
  <2>1. CASE tomtom.probes = None
    BY <2>1 DEF FlowProbes, DefaultProbes
  <2>2. CASE tomtom.probes # None
    <3>1. tomtom.probes = raw.tomtom.probes /\ raw.tomtom # None
            /\ "probes" \in DOMAIN raw.tomtom
      BY <2>2, GivenIs DEF TomtomDefaults
    <3>2. Len(tomtom.probes) \in Nat /\ DOMAIN tomtom.probes = 1..Len(tomtom.probes)
      BY <1>2, <2>2, <3>1, RawsAssumption
    <3>3. probes = [i \in 1..Len(tomtom.probes) |-> Probe(tomtom.probes[i])]
      BY <2>2, <3>2 DEF FlowProbes
    <3> HIDE DEF tomtom, probes
    <3>4. Len(probes) = Len(tomtom.probes)
      BY <3>2, <3>3
    <3> QED BY <3>2, <3>3, <3>4
  <2> QED BY <2>1, <2>2
<1> HIDE DEF tomtom, probes
<1>4. [i \in 1..Len(probes) |-> probes[i].id] \in Bijection(1..Len(probes), names)
  BY <1>2, <1>3 DEF Bijection, Injection, Surjection, IsInjective
<1>5. ExistsBijection(1..Len(probes), names)
  BY <1>4 DEF ExistsBijection
<1>6. Cardinality(names) = Len(probes)
  BY <1>3, <1>5, FS_CountingElements
<1> QED BY <1>1, <1>6 DEF probes

\* Whatever file is accepted, what the workers rely on holds of it (load of
\* core/config.py and HealthThresholds.load).
THEOREM ConfigurationIsSuitable == ReadSpec => []ConfigurationSuits
<1>1. ReadInit => ConfigInv
  BY DEF ReadInit, ConfigInv
<1>2. ConfigInv => ConfigurationSuits
  <2> SUFFICES ASSUME NEW raw \in Raws, Accepts(raw), config = Loaded(raw)
               PROVE  ConfigurationSuits
    BY DEF ConfigInv, ConfigurationSuits
  <2>1. CallsInAMinute(config.drivenc.events) + CallsInAMinute(config.drivenc.signs)
          + CallsInAMinute(config.drivenc.cameras) <= 10
    <3> DEFINE c == config.drivenc
    <3>1. /\ c.events \in Int /\ c.events >= 60 /\ c.signs \in Int /\ c.signs >= 60
          /\ c.cameras \in Int /\ c.cameras >= 60
      BY NumbersAre
    <3> HIDE DEF c
    <3>2. /\ CallsInAMinute(c.events) \in Int /\ CallsInAMinute(c.events) <= 2
          /\ CallsInAMinute(c.signs) \in Int /\ CallsInAMinute(c.signs) <= 2
          /\ CallsInAMinute(c.cameras) \in Int /\ CallsInAMinute(c.cameras) <= 2
      BY <3>1, CallsAre
    <3>3. CallsInAMinute(c.events) + CallsInAMinute(c.signs) + CallsInAMinute(c.cameras) <= 10
      BY <3>2
    <3> QED BY <3>3 DEF c
  <2>2. \A k \in Families : Reachable(config.thresholds[k])
    BY BandsAreReachable
  <2>3. config.forecast.points_refresh \div config.forecast.interval >= 1
    BY NumbersAre
  <2>4. Site(config.anchor) # None =>
          {config.anchor.lineage, config.anchor.record, config.anchor.sha}
            \intersect {None, ""} = {}
    BY SiteIsGrounded
  <2>5. Cardinality({FlowProbes(config.tomtom)[i].id : i \in DOMAIN FlowProbes(config.tomtom)})
          = Len(FlowProbes(config.tomtom))
    BY ProbesAreNamed
  <2> QED BY <2>1, <2>2, <2>3, <2>4, <2>5, Zenon DEF ConfigurationSuits
<1> QED BY <1>1, <1>2, StepConfig, PTL DEF ReadSpec

-----------------------------------------------------------------------------
(***************************************************************************)
(* The shape of the state                                                  *)
(***************************************************************************)

\* The parts of TypeOK, by the actions that disturb them.
Settings ==
  /\ config = None \/ config.anchor.enabled \in BOOLEAN
  /\ focus \subseteq Entities
Process ==
  /\ failed \subseteq {"world", "traffic"}
  /\ clock \in 0..Horizon /\ born \in 0..clock
Client ==
  /\ request \in Requests \union {None}
  /\ answer # None => answer.page \in Pages /\ answer.status \in {200, 400, 503}
  /\ told \in BOOLEAN
Outcomes == \A e \in Entities : good[e] \in Availabilities \union {None}

Shaped == Settings /\ Process /\ Client /\ Outcomes

LEMMA EnabledIsTruth ==
  ASSUME NEW raw \in Raws, Accepts(raw)
  PROVE  Loaded(raw).anchor.enabled \in BOOLEAN
<1> DEFINE anchor == Given(raw.anchor, AnchorDefaults)
<1>1. Loaded(raw).anchor = anchor
  BY DEF Loaded
<1>2. anchor["enabled"] \notin {Fails, None}
  BY <1>1 DEF Accepts, AnchorOk, Readable
<1>3. "enabled" \in DOMAIN AnchorDefaults /\ AnchorDefaults["enabled"] = FALSE
  BY DEF AnchorDefaults
<1>4. anchor["enabled"] = IF raw.anchor # None /\ "enabled" \in DOMAIN raw.anchor
                          THEN raw.anchor["enabled"] ELSE AnchorDefaults["enabled"]
  <2> DEFINE defaults == AnchorDefaults
             key == "enabled"
  <2>1. key \in DOMAIN defaults
    BY <1>3
  <2> HIDE DEF defaults, key
  <2>2. Given(raw.anchor, defaults)[key] =
          IF raw.anchor # None /\ key \in DOMAIN raw.anchor THEN raw.anchor[key]
          ELSE defaults[key]
    BY <2>1, GivenIs
  <2> QED BY <2>2 DEF defaults, key
<1> HIDE DEF anchor
<1>5. raw.anchor # None /\ "enabled" \in DOMAIN raw.anchor
        => raw.anchor["enabled"] \in BOOLEAN \union {Fails, None}
  BY RawsAssumption
<1>6. anchor["enabled"] \in BOOLEAN
  <2>1. CASE raw.anchor # None /\ "enabled" \in DOMAIN raw.anchor
    <3>1. anchor["enabled"] = raw.anchor["enabled"]
      BY <1>4, <2>1
    <3> QED BY <1>2, <1>5, <2>1, <3>1
  <2>2. CASE ~(raw.anchor # None /\ "enabled" \in DOMAIN raw.anchor)
    BY <1>3, <1>4, <2>2
  <2> QED BY <2>1, <2>2
<1> QED BY <1>1, <1>6

LEMMA AnsweredIs ==
  ASSUME NEW page \in Pages, NEW status \in {200, 400, 503}, NEW body, told \in BOOLEAN,
         Answered(page, status, body)
  PROVE  /\ answer'.page \in Pages /\ answer'.status \in {200, 400, 503}
         /\ told' \in BOOLEAN
BY DEF Answered

LEMMA StepShaped ==
  ASSUME EarnedInv, ConfigInv, Shaped, [ReadNext]_readVars
  PROVE  Shaped'
<1> USE DEF Shaped
<1>1. CASE UNCHANGED readVars
  BY <1>1 DEF readVars, process, client, Settings, Process, Client, Outcomes
<1>2. ASSUME NEW raw \in Raws, Configure(raw) PROVE Shaped'
  <2>1. /\ config' = Loaded(raw) /\ Accepts(raw) /\ focus' \subseteq Entities
        /\ UNCHANGED <<clock, born, failed, client, good>>
    BY <1>2, BoundsAssumption DEF Configure, Entities, Settings
  <2>2. config'.anchor.enabled \in BOOLEAN
    BY <2>1, EnabledIsTruth
  <2> QED BY <2>1, <2>2 DEF Settings, Process, Client, Outcomes, client
<1>3. CASE Start
  <2>1. PICK batch \in [LocalEntities -> UNION {Batches[e] : e \in LocalEntities}] :
          good' = [e \in Entities |-> IF e \in LocalEntities THEN Availability(batch[e])
                                      ELSE None]
    BY <1>3 DEF Start
  <2>2. Outcomes'
    BY <2>1, AvailabilityIs DEF Outcomes
  <2>3. /\ clock < Horizon /\ clock' = clock + 1 /\ born' = clock + 1
        /\ UNCHANGED <<config, focus, failed, client>>
    BY <1>3 DEF Start
  <2>4. Process'
    BY <2>3, BoundsAssumption DEF Process
  <2> QED BY <2>2, <2>3, <2>4 DEF Settings, Client, client
<1>4. ASSUME NEW e \in focus, NEW batch \in Batches[e], Collect(e, batch) PROVE Shaped'
  <2>1. /\ clock < Horizon /\ clock' = clock + 1
        /\ UNCHANGED <<config, focus, born, failed, client, good>>
    BY <1>4 DEF Collect
  <2>2. Process'
    BY <2>1, BoundsAssumption DEF Process
  <2> QED BY <2>1, <2>2 DEF Settings, Client, client, Outcomes
<1>5. ASSUME NEW t \in Threads, Qualify(t) PROVE Shaped'
  <2>1. /\ good' = [good EXCEPT ![writing[t].entity] = Availability(writing[t].batch)]
        /\ UNCHANGED <<process, failed, client>>
    BY <1>5 DEF Qualify
  <2>2. Outcomes'
    BY <2>1, AvailabilityIs DEF Outcomes, EarnedInv
  <2> QED BY <2>1, <2>2 DEF Settings, Process, Client, client, process
<1>6. ASSUME NEW t \in Workers, Raise(t) PROVE Shaped'
  <2>1. failed' = failed \union {t} /\ UNCHANGED <<process, client, good>>
    BY <1>6 DEF Raise
  <2>2. t \in {"world", "traffic"}
    BY BoundsAssumption DEF Workers, Threads, Entities
  <2> QED BY <2>1, <2>2 DEF Settings, Process, Client, client, process, Outcomes
<1>7. CASE Die
  <2>1. /\ born' = 0 /\ failed' = {} /\ request' = None /\ told' = FALSE
        /\ good' = [e \in Entities |-> None]
        /\ config' = None /\ UNCHANGED <<focus, clock, answer>>
    BY <1>7 DEF Die
  <2>2. Process'
    BY <2>1, BoundsAssumption DEF Process
  <2> QED BY <2>1, <2>2 DEF Settings, Client, Outcomes
<1>8. ASSUME NEW r \in Requests, Get(r) PROVE Shaped'
  <2>1. UNCHANGED <<process, failed, good>>
    BY <1>8 DEF Get
  <2>2. Client'
    <3>1. CASE Refused(r.page)
      <4>1. Answered(r.page, 503, None) /\ request' = request
        BY <1>8, <3>1 DEF Get
      <4> QED BY <4>1, SystemsRequest, AnsweredIs DEF Client
    <3>2. CASE ~Refused(r.page)
      BY <1>8, <3>2 DEF Get, Client
    <3> QED BY <3>1, <3>2
  <2> QED BY <2>1, <2>2 DEF Settings, Process, process, Outcomes
<1>9. ASSUME NEW page \in Pages, HeadOf(page) PROVE Shaped'
  <2>1. /\ Answered(page, IF Refused(page) THEN 503 ELSE 200, None)
        /\ UNCHANGED <<process, request, failed, good>>
    BY <1>9 DEF HeadOf
  <2>2. Client'
    BY <2>1, AnsweredIs DEF Client
  <2> QED BY <2>1, <2>2 DEF Settings, Process, process, Outcomes
<1>10. CASE Respond
  <2>1. /\ request \in Requests /\ request.page \in Pages /\ request' = None
        /\ UNCHANGED <<process, failed, good>>
    BY <1>10, SystemsRequest DEF Respond, Client
  <2>2. \E status \in {200, 400, 503} : \E body : Answered(request.page, status, body)
    BY <1>10 DEF Respond
  <2>3. Client'
    BY <2>1, <2>2, AnsweredIs DEF Client
  <2> QED BY <2>1, <2>3 DEF Settings, Process, process, Outcomes
<1> QED
  BY <1>1, <1>2, <1>3, <1>4, <1>5, <1>6, <1>7, <1>8, <1>9, <1>10 DEF ReadNext

\* Every part of the state has its shape: the components of every entity, what
\* each thread has half-written, what the client was told.
THEOREM TypeCorrect == ReadSpec => []TypeOK
<1>1. ReadInit => EarnedInv /\ ConfigInv /\ Shaped
  <2> SUFFICES ASSUME ReadInit PROVE Shaped
    BY InitEarned DEF ReadInit, ConfigInv
  <2>1. Settings /\ Client
    BY DEF ReadInit, Settings, Client
  <2>2. Process
    BY BoundsAssumption DEF ReadInit, Process
  <2>3. Outcomes
    BY DEF ReadInit, Outcomes
  <2> QED BY <2>1, <2>2, <2>3 DEF Shaped
<1>2. EarnedInv /\ ConfigInv /\ Shaped /\ [ReadNext]_readVars
        => (EarnedInv /\ ConfigInv /\ Shaped)'
  BY StepEarned, StepConfig, StepShaped
<1>3. EarnedInv /\ Shaped => TypeOK
  BY DEF EarnedInv, Kept, Arrived, Shaped, Settings, Process, Client, Outcomes, TypeOK,
         Availabilities
<1> QED BY <1>1, <1>2, <1>3, PTL DEF ReadSpec

-----------------------------------------------------------------------------
(***************************************************************************)
(* ViewsAgree.  The pages and the claims are computed from the same        *)
(* components; what has to be known of the state is that a local entity    *)
(* that is said to be current has a health, and one that was derived from  *)
(* something.  The rest is about the functions: which of them makes claims *)
(* with a given predicate, and what authority it gives them.               *)
(***************************************************************************)
-----------------------------------------------------------------------------
(* The predicates of claims                                                *)

\* No claim has predicate p.
Spares(claims, p) == \A c \in claims : c.predicate # p

LEMMA ClaimSpares ==
  ASSUME NEW kind, NEW subject, NEW predicate, NEW identity, NEW value, NEW by, NEW p,
         predicate # p
  PROVE  Spares({Claim(kind, subject, predicate, identity, value, by)}, p)
BY DEF Claim, Spares

LEMMA AboutSpares ==
  ASSUME NEW kind, NEW subject, NEW predicate, NEW identity, NEW value, NEW by, NEW p,
         NEW proposition, predicate # p
  PROVE  Spares({About(proposition, Claim(kind, subject, predicate, identity, value, by))}, p)
BY DEF About, Claim, Spares

LEMMA ClaimsSpare ==
  ASSUME NEW kind, NEW subject, NEW table, NEW identity, NEW by, NEW p, p \notin DOMAIN table
  PROVE  Spares(Claims(kind, subject, table, identity, by), p)
BY DEF Claims, Claim, Told, Spares

LEMMA TablesSpare ==
  ASSUME NEW subject, NEW table, NEW identity, NEW by, NEW p, p \notin DOMAIN table
  PROVE  /\ Spares(Measurements(subject, table, identity, by), p)
         /\ Spares(ForeignNative(subject, table, identity, by), p)
BY ClaimsSpare DEF Measurements, ForeignNative

LEMMA WhenSpares ==
  ASSUME NEW condition, NEW claims, NEW p, Spares(claims, p)
  PROVE  Spares(When(condition, claims), p)
BY DEF Spares, When

LEMMA UnionSpares ==
  ASSUME NEW A, NEW B, NEW p, Spares(A, p), Spares(B, p)
  PROVE  Spares(A \union B, p)
BY DEF Spares

LEMMA SimpleSpare ==
  ASSUME NEW subject, NEW predicate, NEW identity, NEW value, NEW by, NEW p, predicate # p
  PROVE  /\ Spares(Spatial(subject, predicate, value, identity, by), p)
         /\ Spares(SourceReport(subject, predicate, identity, value, by), p)
         /\ Spares(Artifact(subject, predicate, identity, value, by), p)
BY ClaimSpares, WhenSpares DEF Spatial, SourceReport, Artifact

LEMMA ScopeSpares ==
  ASSUME NEW subject, NEW scope, NEW at, NEW by, NEW p, p # "collection_scope"
  PROVE  Spares(CollectionScope(subject, scope, at, by), p)
BY SimpleSpare DEF CollectionScope

IsAvailability == "observation_availability"
IsEvent        == "provider_reports_event_record"
IsAlert        == "provider_reports_alert"
IsImage        == "radar_image_artifact"
IsHealth       == "health_status"

\* An observation says what it is worth, once.
LEMMA ObservationSays ==
  ASSUME NEW e, NEW obs
  PROVE  /\ \A c \in ObservationClaims(e, obs) :
              c.predicate \in {IsAvailability, "new_observation_unavailable"}
         /\ {c.value : c \in {d \in ObservationClaims(e, obs) : d.predicate = IsAvailability}}
              = {obs.availability}
<1> DEFINE by  == Origin(e, "source_observed", None, None)
           yes == Truth(TRUE)
           is  == About(<<<<e, "observation", obs.adapter>>, "availability">>,
                    Claim("observation_state", <<e>>, IsAvailability,
                          <<obs.checked, obs.availability, obs.reasons>>,
                          obs.availability, by))
           not == About(<<<<e, "absence", obs.adapter>>, "new_observation_unavailable">>,
                    Claim("absence", <<e>>, "new_observation_unavailable",
                          <<obs.checked, obs.reasons>>, yes, by))
<1>1. ObservationClaims(e, obs) = {is} \union When(obs.availability = "unavailable", {not})
  BY DEF ObservationClaims, IsAvailability
<1> HIDE DEF by, yes
<1>2. /\ is.predicate = IsAvailability /\ is.value = obs.availability
      /\ not.predicate = "new_observation_unavailable"
  BY DEF About, Claim
<1> HIDE DEF is, not
<1> QED BY <1>1, <1>2 DEF When, IsAvailability

-----------------------------------------------------------------------------
(* The sources of the traffic page                                         *)

LEMMA ProbeSpares ==
  ASSUME NEW e, NEW probe, NEW at, NEW by, IsAvailability \notin DOMAIN probe.readings
  PROVE  Spares(ProbeClaims(e, probe, at, by), IsAvailability)
<1> DEFINE subject  == <<e, "flow-probe", probe.id>>
           native   == { About(<<subject, "provider-native-confidence">>,
                           Claim("foreign_native", subject, "tomtom_flow_confidence",
                                 <<at, probe.confidence, probe.id>>,
                                 probe.confidence, Foreign(by))) }
           place    == Spatial(subject, "flow_query_point", probe.place, <<at, probe.id>>, by)
           road     == Spatial(subject, "matched_road_geometry", probe.geometry,
                               <<at, probe.id, probe.openlr>>, by)
           readings == Measurements(subject, probe.readings, <<at, probe.id>>, by)
           closure  == SourceReport(subject, "provider_reports_road_closure",
                         <<at, probe.id, probe.closure, probe.openlr>>, probe.closure, by)
           trust    == When(probe.confidence # None, native)
<1>1. Spares(trust, IsAvailability)
  BY AboutSpares, WhenSpares DEF IsAvailability
<1>2. /\ Spares(place, IsAvailability) /\ Spares(road, IsAvailability)
      /\ Spares(closure, IsAvailability) /\ Spares(readings, IsAvailability)
  BY SimpleSpare, TablesSpare DEF IsAvailability
<1>3. ProbeClaims(e, probe, at, by)
        = place \union road \union readings \union closure \union trust
  BY DEF ProbeClaims
<1> HIDE DEF place, road, readings, closure, trust
<1> QED BY <1>1, <1>2, <1>3, UnionSpares

LEMMA FlowSpares ==
  ASSUME NEW e, NEW c, NEW obs,
         \A probe \in c.probes : IsAvailability \notin DOMAIN probe.readings
  PROVE  Spares(TrafficFlow(e, c, obs), IsAvailability)
<1> DEFINE at == CheckedAt(obs)
           by == Provider(e, obs)
           collection == <<e, "flow-collection">>
           quality == { Claim("data_quality", collection, "probe_collection_completeness",
               <<at, c.successful, c.configured>>,
               Truth(c.successful = c.configured), by) }
           scope  == CollectionScope(collection, c.scope, at, by)
           whole  == When(c.configured > 0, quality)
           probes == UNION {ProbeClaims(e, probe, at, by) : probe \in c.probes}
<1>1. Spares(whole, IsAvailability)
  BY ClaimSpares, WhenSpares DEF IsAvailability
<1>2. Spares(scope, IsAvailability)
  BY ScopeSpares DEF IsAvailability
<1>3. Spares(probes, IsAvailability)
  BY ProbeSpares DEF Spares
<1>4. TrafficFlow(e, c, obs) = scope \union whole \union probes
  BY DEF TrafficFlow
<1> HIDE DEF scope, whole, probes
<1> QED BY <1>1, <1>2, <1>3, <1>4, UnionSpares

LEMMA PlacesSpare ==
  ASSUME NEW e, NEW c, NEW obs
  PROVE  /\ Spares(TrafficCameras(e, c, obs), IsAvailability)
         /\ Spares(TrafficMessageSigns(e, c, obs), IsAvailability)
<1>1. ASSUME NEW r, NEW at, NEW by
      PROVE  Spares(CameraClaims(e, r, at, by), IsAvailability)
  <2> DEFINE subject == <<e, "camera-record", r.id>>
             place   == Spatial(subject, "reported_infrastructure_location", r.place,
                                <<at, r.id>>, by)
             camera  == Artifact(subject, "provider_reports_camera",
                                 <<at, r.id, r.status, r.video>>, r.rest, by)
  <2>1. Spares(place, IsAvailability) /\ Spares(camera, IsAvailability)
    BY SimpleSpare DEF IsAvailability
  <2>2. CameraClaims(e, r, at, by) = place \union camera
    BY DEF CameraClaims
  <2> HIDE DEF place, camera
  <2> QED BY <2>1, <2>2, UnionSpares
<1>2. \A r, at, by : Spares(SignClaims(e, r, at, by), IsAvailability)
  BY SimpleSpare, UnionSpares DEF SignClaims, IsAvailability
<1>3. \A subject, at, by : Spares(CollectionScope(subject, c.scope, at, by), IsAvailability)
  BY ScopeSpares DEF IsAvailability
<1> QED BY <1>1, <1>2, <1>3 DEF TrafficCameras, TrafficMessageSigns, Spares

\* A record of an event is told, with the authority of its source.
LEMMA EventSays ==
  ASSUME NEW e, NEW record, NEW at, NEW by, Originates(by), record.rest # None,
         IsAvailability \notin DOMAIN record.dimensions,
         IsAvailability \notin DOMAIN record.metrics
  PROVE  /\ Spares(EventClaims(e, record, at, by), IsAvailability)
         /\ \E c \in EventClaims(e, record, at, by) :
              c.predicate = IsEvent /\ c.authority = by.authority
<1> DEFINE subject == <<e, "event-record", record.id>>
           source  == IF record.updated # None THEN record.updated ELSE record.reported
           ident   == <<record.id, source, at>>
           line    == Spatial(subject, "reported_event_geometry", record.geometry, ident, by)
           native  == ForeignNative(subject, record.dimensions, ident, by)
           closure == SourceReport(subject, "provider_reports_full_closure",
                                   Append(ident, record.closure), record.closure, by)
           metrics == Measurements(subject, record.metrics, ident, by)
           report  == EventReport(subject, record, at, by)
           claim   == Claim("source_report", subject, IsEvent,
                        <<record.id, record.updated, record.reported, at>>, record.rest, by)
<1>1. EventClaims(e, record, at, by)
        = line \union native \union closure \union metrics \union report
  BY DEF EventClaims
<1>2. report = {claim}
  BY DEF EventReport, SourceReport, When, IsEvent
<1>3. claim.predicate = IsEvent /\ claim.authority = by.authority
  BY DEF Claim
<1>4. Spares(line, IsAvailability) /\ Spares(closure, IsAvailability)
  BY SimpleSpare DEF IsAvailability
<1>5. Spares(native, IsAvailability) /\ Spares(metrics, IsAvailability)
  BY TablesSpare
<1> HIDE DEF line, native, closure, metrics, report, claim
<1>6. Spares(report, IsAvailability)
  BY <1>2, <1>3 DEF Spares, IsAvailability, IsEvent
<1>7. Spares(EventClaims(e, record, at, by), IsAvailability)
  BY <1>1, <1>4, <1>5, <1>6, UnionSpares
<1>8. claim \in EventClaims(e, record, at, by)
  BY <1>1, <1>2
<1> QED BY <1>3, <1>7, <1>8

LEMMA EventsSay ==
  ASSUME NEW e, NEW c, NEW obs,
         \A r \in c.events : /\ r.rest # None /\ IsAvailability \notin DOMAIN r.dimensions
                             /\ IsAvailability \notin DOMAIN r.metrics
  PROVE  /\ Spares(TrafficEvents(e, c, obs), IsAvailability)
         /\ \A d \in TrafficEvents(e, c, obs) : d.authority = AuthorityOf(obs)
         /\ c.events # {} => \E d \in TrafficEvents(e, c, obs) : d.predicate = IsEvent
<1> DEFINE at == CheckedAt(obs)
           by == Provider(e, obs)
           scope  == CollectionScope(<<e, "event-collection">>, c.scope, at, by)
           near   == NothingNear(e, c, obs)
           events == UNION {EventClaims(e, record, at, by) : record \in c.events}
<1>1. TrafficEvents(e, c, obs) = scope \union near \union events
  BY DEF TrafficEvents
<1>2. Originates(by) /\ by.authority = AuthorityOf(obs)
  BY OriginIs
<1>3. /\ Spares(events, IsAvailability)
      /\ c.events # {} => \E d \in events : d.predicate = IsEvent
  <2>1. ASSUME NEW r \in c.events
        PROVE  /\ Spares(EventClaims(e, r, at, by), IsAvailability)
               /\ \E d \in EventClaims(e, r, at, by) : d.predicate = IsEvent
    BY <1>2, EventSays
  <2> HIDE DEF by, at
  <2> QED BY <2>1 DEF Spares
<1>4. Spares(scope, IsAvailability)
  BY ScopeSpares DEF IsAvailability
<1>5. Spares(near, IsAvailability)
  <2> DEFINE yes   == Truth(TRUE)
             found == Claim("evidence", <<e, "event-collection">>, NegativeEvidence,
                            <<at, c.total, c.scope>>, yes, by)
             empty == /\ obs # None
                      /\ obs.availability = "current"
                      /\ c.local = 0
  <2>1. near = When(empty, {found})
    BY DEF NothingNear
  <2> HIDE DEF yes
  <2>2. Spares({found}, IsAvailability)
    BY ClaimSpares DEF NegativeEvidence, IsAvailability
  <2> HIDE DEF found, empty
  <2> QED BY <2>1, <2>2, WhenSpares
<1>6. \A d \in scope \union events : d.authority = AuthorityOf(obs)
  <2>1. Of(scope, by)
    BY ScopeIs
  <2>2. \A r \in c.events : Of(EventClaims(e, r, at, by), by)
    BY <1>2, EventClaimsAre
  <2>3. Of(events, by)
    BY <2>2 DEF Of
  <2> QED BY <1>2, <2>1, <2>3 DEF Of
<1>7. \A d \in near : d.authority = AuthorityOf(obs)
  BY NothingNearIs
<1> HIDE DEF scope, near, events
<1> QED BY <1>1, <1>3, <1>4, <1>5, <1>6, <1>7, UnionSpares

-----------------------------------------------------------------------------
(* The claims of one entity                                                *)

LEMMA NoSystem ==
  ASSUME NEW e, NEW comps, NEW obs,
         {"health", "compute", "memory", "storage", "temperature", "usb", "wifi"}
           \intersect DOMAIN comps = {}
  PROVE  SystemState(e, comps, obs) = {}
<1>1. /\ ~Has(comps, "health") /\ ~Has(comps, "compute") /\ ~Has(comps, "memory")
      /\ ~Has(comps, "storage") /\ ~Has(comps, "temperature")
      /\ ~Has(comps, "usb") /\ ~Has(comps, "wifi")
  BY DEF Has
<1> DEFINE at    == CheckedAt(obs)
           by    == Provider(e, obs)
           wifi  == comps["wifi"]
           condition == { Condition(e, "health_status",
                            <<comps["health"].status, comps["health"].reasons>>,
                            comps["health"].status, Local(e)) }
           usb   == { Condition(e, "usb_device_present",
                        <<at, comps["usb"].present, comps["usb"].mode>>,
                        Truth(comps["usb"].present), by) }
           link  == { Condition(e, "wifi_connected", <<at, wifi.meaning>>,
                        Truth(wifi.connected), by) }
           signal == { Claim("measurement", <<e, "wifi-link">>, "wifi_signal",
                         <<at, wifi.meaning[1], wifi.signal>>,
                         ToString(wifi.signal), by) }
           air   == link \union When(wifi.signal # None, signal)
           A == When(Has(comps, "health"), condition)
           B == Level(comps, "compute", <<e>>, "cpu_utilization", at, by)
           C == Level(comps, "memory", <<e>>, "memory_used", at, by)
           D == Level(comps, "storage", <<e, "storage">>, "storage_used", at, by)
           E == Level(comps, "temperature", <<e>>, "temperature", at, by)
           F == When(Has(comps, "usb"), usb)
           G == When(Has(comps, "wifi"), air)
<1>2. SystemState(e, comps, obs)
        = A \union B \union C \union D \union E \union F \union G
  BY DEF SystemState
<1> HIDE DEF condition, usb, air, at, by
<1>3. A = {} /\ F = {} /\ G = {}
  BY <1>1 DEF When
<1>4. B = {} /\ C = {} /\ D = {} /\ E = {}
  BY <1>1 DEF Level, When
<1> HIDE DEF A, B, C, D, E, F, G
<1> QED BY <1>2, <1>3, <1>4

\* What makes the claims of an entity that has one component beside its
\* ObservationState.
LEMMA OneKind ==
  ASSUME NEW e, NEW comps, NEW kind,
         kind \in {"flow", "events", "alerts", "mosaic", "cameras", "signs"},
         DOMAIN comps = {"observation", kind}
  PROVE  LET obs == comps["observation"]
             own == CASE kind = "flow"    -> TrafficFlow(e, comps[kind], obs)
                      [] kind = "events"  -> TrafficEvents(e, comps[kind], obs)
                      [] kind = "alerts"  -> WeatherAlerts(e, comps[kind], obs)
                      [] kind = "mosaic"  -> RadarMosaic(e, comps[kind], obs)
                      [] kind = "cameras" -> TrafficCameras(e, comps[kind], obs)
                      [] kind = "signs"   -> TrafficMessageSigns(e, comps[kind], obs)
         IN EntityClaims(e, comps) = When(obs # None, ObservationClaims(e, obs))
                                       \union When(comps[kind] # None, own)
<1> DEFINE obs == IF Has(comps, "observation") THEN comps["observation"] ELSE None
           O == ObservationClaims(e, obs)
           N == TrafficEvents(e, comps["events"], obs)
           A == TrafficFlow(e, comps["flow"], obs)
           B == WeatherState(e, comps["weather"], obs)
           C == DailyForecast(e, comps["daily"], obs)
           D == HourlyForecast(e, comps["hourly"], obs)
           E == SurfaceNetwork(e, comps["surface"], obs)
           F == WeatherEstimate(e, comps["estimate"])
           G == WeatherAlerts(e, comps["alerts"], obs)
           H == RadarMosaic(e, comps["mosaic"], obs)
           I == RadarContext(e, comps["context"], obs)
           J == TrafficCameras(e, comps["cameras"], obs)
           K == TrafficMessageSigns(e, comps["signs"], obs)
           L == TrafficSituation(e, comps["situation"], obs)
           M == SystemState(e, comps, obs)
           Own(k, claims) == When(Has(comps, k), claims)
<1>1. EntityClaims(e, comps) = Own("observation", O) \union Own("flow", A)
        \union Own("events", N) \union Own("weather", B) \union Own("daily", C)
        \union Own("hourly", D) \union Own("surface", E) \union Own("estimate", F)
        \union Own("alerts", G) \union Own("mosaic", H) \union Own("context", I)
        \union Own("cameras", J) \union Own("signs", K) \union Own("situation", L)
        \union M
  BY DEF EntityClaims
<1>2. M = {}
  BY NoSystem
<1>3. obs = comps["observation"]
  BY DEF Has
<1> HIDE DEF obs, O, N, A, B, C, D, E, F, G, H, I, J, K, L, M
<1>4. /\ \A k, claims : k \notin {"observation", kind} => Own(k, claims) = {}
      /\ \A k \in {"observation", kind} : \A claims :
           Own(k, claims) = When(comps[k] # None, claims)
  BY DEF Has, When
<1> HIDE DEF Own
<1> DEFINE own == CASE kind = "flow" -> A [] kind = "events" -> N [] kind = "alerts" -> G
                    [] kind = "mosaic" -> H [] kind = "cameras" -> J [] kind = "signs" -> K
<1>5. EntityClaims(e, comps) = Own("observation", O) \union Own(kind, own)
  <2>1. CASE kind = "flow"
    BY <1>1, <1>2, <1>4, <2>1
  <2>2. CASE kind = "events"
    BY <1>1, <1>2, <1>4, <2>2
  <2>3. CASE kind = "alerts"
    BY <1>1, <1>2, <1>4, <2>3
  <2>4. CASE kind = "mosaic"
    BY <1>1, <1>2, <1>4, <2>4
  <2>5. CASE kind = "cameras"
    BY <1>1, <1>2, <1>4, <2>5
  <2>6. CASE kind = "signs"
    BY <1>1, <1>2, <1>4, <2>6
  <2> QED BY <2>1, <2>2, <2>3, <2>4, <2>5, <2>6
<1>6. EntityClaims(e, comps) = When(comps["observation"] # None, O)
                                 \union When(comps[kind] # None, own)
  BY <1>4, <1>5
<1> HIDE DEF own
<1>7. own = CASE kind = "flow"    -> TrafficFlow(e, comps[kind], comps["observation"])
              [] kind = "events"  -> TrafficEvents(e, comps[kind], comps["observation"])
              [] kind = "alerts"  -> WeatherAlerts(e, comps[kind], comps["observation"])
              [] kind = "mosaic"  -> RadarMosaic(e, comps[kind], comps["observation"])
              [] kind = "cameras" -> TrafficCameras(e, comps[kind], comps["observation"])
              [] kind = "signs"   -> TrafficMessageSigns(e, comps[kind], comps["observation"])
  BY <1>3 DEF own, A, N, G, H, J, K
<1>8. O = ObservationClaims(e, comps["observation"])
  BY <1>3 DEF O
<1> QED BY <1>6, <1>7, <1>8

\* What components say is told apart from what is said of them.
Apart(comps) ==
  /\ "events" \in DOMAIN comps /\ comps["events"] # None =>
       \A r \in comps["events"].events :
         /\ r.rest # None /\ IsAvailability \notin DOMAIN r.dimensions
         /\ IsAvailability \notin DOMAIN r.metrics
  /\ "flow" \in DOMAIN comps /\ comps["flow"] # None =>
       \A probe \in comps["flow"].probes : IsAvailability \notin DOMAIN probe.readings

\* A source of the traffic page says what its observation is worth and nothing
\* else under that predicate.
LEMMA SourcesSay ==
  ASSUME NEW e, NEW comps, Apart(comps),
         NEW kind, kind \in {"flow", "events", "cameras", "signs"},
         DOMAIN comps = {"observation", kind}
  PROVE  {c.value : c \in {d \in EntityClaims(e, comps) : d.predicate = IsAvailability}}
           = IF comps["observation"] = None THEN {} ELSE {comps["observation"].availability}
<1> DEFINE obs == comps["observation"]
           own == CASE kind = "flow"    -> TrafficFlow(e, comps[kind], obs)
                    [] kind = "events"  -> TrafficEvents(e, comps[kind], obs)
                    [] kind = "alerts"  -> WeatherAlerts(e, comps[kind], obs)
                    [] kind = "mosaic"  -> RadarMosaic(e, comps[kind], obs)
                    [] kind = "cameras" -> TrafficCameras(e, comps[kind], obs)
                    [] kind = "signs"   -> TrafficMessageSigns(e, comps[kind], obs)
           said == ObservationClaims(e, obs)
<1>1. EntityClaims(e, comps) = When(obs # None, said) \union When(comps[kind] # None, own)
  BY OneKind
<1>2. comps[kind] # None => Spares(own, IsAvailability)
  <2>1. CASE kind = "flow"
    BY <2>1, FlowSpares DEF Apart
  <2>2. CASE kind = "events"
    BY <2>2, EventsSay DEF Apart
  <2>3. CASE kind = "cameras" \/ kind = "signs"
    BY <2>3, PlacesSpare
  <2> QED BY <2>1, <2>2, <2>3
<1>3. {c.value : c \in {d \in said : d.predicate = IsAvailability}} = {obs.availability}
  BY ObservationSays
<1> HIDE DEF own, said, obs
<1>4. obs = None => {d \in EntityClaims(e, comps) : d.predicate = IsAvailability} = {}
  BY <1>1, <1>2 DEF When, Spares
<1>5. obs # None => {d \in EntityClaims(e, comps) : d.predicate = IsAvailability}
                      = {d \in said : d.predicate = IsAvailability}
  BY <1>1, <1>2 DEF When, Spares
<1> QED BY <1>3, <1>4, <1>5 DEF obs

\* Records of events have the authority of their source.
LEMMA RecordsSay ==
  ASSUME NEW e, NEW comps, Apart(comps), DOMAIN comps = {"observation", "events"},
         comps["events"] # None, comps["events"].events # {}, NEW authority
  PROVE  (\A c \in {d \in EntityClaims(e, comps) : d.predicate = IsEvent} :
            c.authority \in authority)
           <=> AuthorityOf(comps["observation"]) \in authority
<1> DEFINE obs  == comps["observation"]
           own  == TrafficEvents(e, comps["events"], obs)
           said == ObservationClaims(e, obs)
<1>1. EntityClaims(e, comps) = When(obs # None, said) \union own
  BY OneKind DEF When
<1>2. \A c \in said : c.predicate # IsEvent
  BY ObservationSays DEF IsEvent, IsAvailability
<1>3. /\ \A c \in own : c.authority = AuthorityOf(obs)
      /\ \E c \in own : c.predicate = IsEvent
  BY EventsSay DEF Apart
<1> HIDE DEF own, said, obs
<1> QED BY <1>1, <1>2, <1>3 DEF When, obs

\* Alerts have the authority of theirs.
LEMMA AlertsSay ==
  ASSUME NEW e, NEW comps, DOMAIN comps = {"observation", "alerts"}, NEW authority,
         {d \in EntityClaims(e, comps) : d.predicate = IsAlert} # {}
  PROVE  (\A c \in {d \in EntityClaims(e, comps) : d.predicate = IsAlert} :
            c.authority \in authority)
           <=> AuthorityOf(comps["observation"]) \in authority
<1> DEFINE obs  == comps["observation"]
           own  == WeatherAlerts(e, comps["alerts"], obs)
           said == ObservationClaims(e, obs)
           by   == Provider(e, obs)
<1>1. EntityClaims(e, comps) = When(obs # None, said) \union When(comps["alerts"] # None, own)
  BY OneKind
<1>2. \A c \in said : c.predicate # IsAlert
  BY ObservationSays DEF IsAlert, IsAvailability
<1>3. \A c \in own : c.authority = AuthorityOf(obs)
  <2>1. \A a \in comps["alerts"].alerts : Of(AlertClaims(e, a, CheckedAt(obs), by), by)
    BY AlertClaimsAre, OriginIs
  <2>2. Of(own, by)
    BY <2>1 DEF WeatherAlerts, Of
  <2> QED BY <2>2, OriginIs DEF Of
<1> HIDE DEF own, said, obs
<1> QED BY <1>1, <1>2, <1>3 DEF When, obs

\* So has the radar image.
LEMMA ImageSays ==
  ASSUME NEW e, NEW comps, DOMAIN comps = {"observation", "mosaic"}, NEW authority,
         comps["mosaic"] # None
  PROVE  (\A c \in {d \in EntityClaims(e, comps) : d.predicate = IsImage} :
            c.authority \in authority)
           <=> AuthorityOf(comps["observation"]) \in authority
<1> DEFINE obs   == comps["observation"]
           own   == RadarMosaic(e, comps["mosaic"], obs)
           said  == ObservationClaims(e, obs)
           by    == Provider(e, obs)
           c     == comps["mosaic"]
           image == Claim("information_artifact", <<e, "radar-mosaic">>, IsImage,
                          <<c.image, c.stream, c.retrieved>>, c.image, by)
<1>1. EntityClaims(e, comps) = When(obs # None, said) \union own
  BY OneKind DEF When
<1>2. \A d \in said : d.predicate # IsImage
  BY ObservationSays DEF IsImage, IsAvailability
<1>3. \A d \in own : d.authority = AuthorityOf(obs)
  <2>1. Of(own, by)
    BY ArtifactIs, SpatialIs DEF RadarMosaic, Of
  <2> QED BY <2>1, OriginIs DEF Of
<1>4. image \in own /\ image.predicate = IsImage
  <2>1. image \in own
    BY DEF RadarMosaic, Artifact, IsImage
  <2>2. image.predicate = IsImage
    BY DEF Claim
  <2> QED BY <2>1, <2>2
<1> HIDE DEF own, said, obs, image
<1> QED BY <1>1, <1>2, <1>3, <1>4 DEF When, obs

-----------------------------------------------------------------------------
(* The local entities                                                      *)

Bearing == BandedKinds \union {"usb", "wifi"}

\* What makes the claims of an entity of the machine.
LEMMA LocalParts ==
  ASSUME NEW e, NEW comps,
         DOMAIN comps \subseteq {"observation", "health", "uptime"} \union Bearing
  PROVE  LET obs == IF Has(comps, "observation") THEN comps["observation"] ELSE None
         IN EntityClaims(e, comps) = When(Has(comps, "observation"), ObservationClaims(e, obs))
                                       \union SystemState(e, comps, obs)
<1> DEFINE obs == IF Has(comps, "observation") THEN comps["observation"] ELSE None
           M   == SystemState(e, comps, obs)
           O   == When(Has(comps, "observation"), ObservationClaims(e, obs))
           Own(k, claims) == When(Has(comps, k), claims)
<1>1. \A k, claims : k \notin DOMAIN comps => Own(k, claims) = {}
  BY DEF Has, When
<1>2. /\ "flow" \notin DOMAIN comps /\ "events" \notin DOMAIN comps
      /\ "weather" \notin DOMAIN comps /\ "daily" \notin DOMAIN comps
      /\ "hourly" \notin DOMAIN comps /\ "surface" \notin DOMAIN comps
      /\ "estimate" \notin DOMAIN comps /\ "alerts" \notin DOMAIN comps
      /\ "mosaic" \notin DOMAIN comps /\ "context" \notin DOMAIN comps
      /\ "cameras" \notin DOMAIN comps /\ "signs" \notin DOMAIN comps
      /\ "situation" \notin DOMAIN comps
  BY DEF Bearing, BandedKinds
<1>3. EntityClaims(e, comps) = O
      \union Own("flow", TrafficFlow(e, comps["flow"], obs))
      \union Own("events", TrafficEvents(e, comps["events"], obs))
      \union Own("weather", WeatherState(e, comps["weather"], obs))
      \union Own("daily", DailyForecast(e, comps["daily"], obs))
      \union Own("hourly", HourlyForecast(e, comps["hourly"], obs))
      \union Own("surface", SurfaceNetwork(e, comps["surface"], obs))
      \union Own("estimate", WeatherEstimate(e, comps["estimate"]))
      \union Own("alerts", WeatherAlerts(e, comps["alerts"], obs))
      \union Own("mosaic", RadarMosaic(e, comps["mosaic"], obs))
      \union Own("context", RadarContext(e, comps["context"], obs))
      \union Own("cameras", TrafficCameras(e, comps["cameras"], obs))
      \union Own("signs", TrafficMessageSigns(e, comps["signs"], obs))
      \union Own("situation", TrafficSituation(e, comps["situation"], obs))
      \union M
  BY DEF EntityClaims
<1> HIDE DEF Own, O, M, obs
<1>4. EntityClaims(e, comps) = O \union M
  BY <1>1, <1>2, <1>3
<1> QED BY <1>4 DEF O, M, obs

\* The health of an entity is told as it is.
LEMMA HealthSays ==
  ASSUME NEW e, NEW comps,
         DOMAIN comps \subseteq {"observation", "health", "uptime"} \union Bearing,
         "health" \in DOMAIN comps, comps["health"] # None
  PROVE  {c.value : c \in {d \in EntityClaims(e, comps) : d.predicate = IsHealth}}
           = {comps["health"].status}
<1> DEFINE obs   == IF Has(comps, "observation") THEN comps["observation"] ELSE None
           at    == CheckedAt(obs)
           by    == Provider(e, obs)
           wifi  == comps["wifi"]
           is    == Condition(e, "health_status",
                      <<comps["health"].status, comps["health"].reasons>>,
                      comps["health"].status, Local(e))
           usb   == { Condition(e, "usb_device_present",
                        <<at, comps["usb"].present, comps["usb"].mode>>,
                        Truth(comps["usb"].present), by) }
           link  == { Condition(e, "wifi_connected", <<at, wifi.meaning>>,
                        Truth(wifi.connected), by) }
           signal == { Claim("measurement", <<e, "wifi-link">>, "wifi_signal",
                         <<at, wifi.meaning[1], wifi.signal>>,
                         ToString(wifi.signal), by) }
           air   == link \union When(wifi.signal # None, signal)
           A == When(Has(comps, "health"), {is})
           B == Level(comps, "compute", <<e>>, "cpu_utilization", at, by)
           C == Level(comps, "memory", <<e>>, "memory_used", at, by)
           D == Level(comps, "storage", <<e, "storage">>, "storage_used", at, by)
           E == Level(comps, "temperature", <<e>>, "temperature", at, by)
           F == When(Has(comps, "usb"), usb)
           G == When(Has(comps, "wifi"), air)
           M == SystemState(e, comps, obs)
           O == When(Has(comps, "observation"), ObservationClaims(e, obs))
<1>1. EntityClaims(e, comps) = O \union M
  BY LocalParts
<1>2. M = A \union B \union C \union D \union E \union F \union G
  BY DEF SystemState
<1>3. A = {is} /\ is.predicate = IsHealth /\ is.value = comps["health"].status
  BY DEF When, Has, Condition, Claim, IsHealth
<1>4. Spares(usb, IsHealth) /\ Spares(link, IsHealth) /\ Spares(signal, IsHealth)
  BY ClaimSpares DEF Condition, IsHealth
<1> HIDE DEF is, usb, link, signal
<1>5. Spares(F, IsHealth) /\ Spares(G, IsHealth)
  BY <1>4, WhenSpares, UnionSpares
<1>6. /\ Spares(B, IsHealth) /\ Spares(C, IsHealth) /\ Spares(D, IsHealth)
      /\ Spares(E, IsHealth)
  BY ClaimSpares, WhenSpares DEF Level, IsHealth
<1>7. Spares(O, IsHealth)
  BY ObservationSays DEF When, Spares, IsHealth, IsAvailability
<1> HIDE DEF A, B, C, D, E, F, G, M, O
<1>8. {d \in EntityClaims(e, comps) : d.predicate = IsHealth} = {is}
  BY <1>1, <1>2, <1>3, <1>5, <1>6, <1>7 DEF Spares
<1> QED BY <1>3, <1>8

\* The worst of some values is that of the order which is the last of them.
LEMMA WorstIs ==
  ASSUME NEW values
  PROVE  /\ Worst(values, HealthOrder, "unknown") = "nominal"
              => values \intersect {"warning", "critical"} = {}
         /\ Worst(values, ObservationOrder, "unavailable") = "current"
              => values \intersect {"degraded", "unavailable"} = {}
<1>1. ASSUME Worst(values, HealthOrder, "unknown") = "nominal"
      PROVE  values \intersect {"warning", "critical"} = {}
  <2> DEFINE order == HealthOrder
             known == {i \in DOMAIN order : order[i] \in values}
  <2>1. /\ DOMAIN order = 1..4 /\ order[1] = "unknown" /\ order[2] = "nominal"
        /\ order[3] = "warning" /\ order[4] = "critical"
    BY DEF HealthOrder
  <2>2. known # {} /\ order[Max(known)] = "nominal"
    BY <1>1 DEF Worst
  <2> HIDE DEF order
  <2>3. Max(known) \in known /\ \A i \in known : Max(known) >= i
    <3>1. known \subseteq 1..4
      BY <2>1
    <3> HIDE DEF known
    <3> QED BY <2>2, <3>1, MaxIs
  <2>4. Max(known) = 2
    BY <2>1, <2>2, <2>3
  <2>5. 3 \notin known /\ 4 \notin known
    BY <2>3, <2>4
  <2> QED BY <2>1, <2>5
<1>2. ASSUME Worst(values, ObservationOrder, "unavailable") = "current"
      PROVE  values \intersect {"degraded", "unavailable"} = {}
  <2> DEFINE order == ObservationOrder
             known == {i \in DOMAIN order : order[i] \in values}
  <2>1. /\ DOMAIN order = 1..3 /\ order[1] = "current" /\ order[2] = "degraded"
        /\ order[3] = "unavailable"
    BY DEF ObservationOrder
  <2>2. known # {} /\ order[Max(known)] = "current"
    BY <1>2 DEF Worst
  <2> HIDE DEF order
  <2>3. Max(known) \in known /\ \A i \in known : Max(known) >= i
    <3>1. known \subseteq 1..3
      BY <2>1
    <3> HIDE DEF known
    <3> QED BY <2>2, <3>1, MaxIs
  <2>4. Max(known) = 1
    BY <2>1, <2>2, <2>3
  <2>5. 2 \notin known /\ 3 \notin known
    BY <2>3, <2>4
  <2> QED BY <2>1, <2>5
<1> QED BY <1>1, <1>2

\* Health is one of four, and unknown where nobody answered or nothing is there.
LEMMA EvaluateIs ==
  ASSUME NEW comps, NEW t
  PROVE  LET status == Evaluate(comps, t).status
         IN /\ status \in {"unknown", "nominal", "warning", "critical"}
            /\ BearsHealth(comps) /\ ~TelemetryIs(comps, "unavailable") => status # "unknown"
BY DEF Evaluate, HealthState

-----------------------------------------------------------------------------
(* What has to be known of the state                                       *)

\* The health of a local entity, and that it goes with its ObservationState.
HealthGoes(comps) ==
  LET obs    == comps["observation"]
      health == comps["health"]
  IN /\ health # None => health.status \in {"unknown", "nominal", "warning", "critical"}
     /\ obs # None /\ obs.availability = "current"
          => health # None /\ health.status # "unknown"

\* A health state is not the absence of one: what None stands for is no record.
HealthIsSomething == \A status, reasons : HealthState(status, reasons) # None

\* A batch that is to make its entity current has brought what health is made of.
Bears(t) ==
  /\ writing[t] # None /\ writing[t].entity \in LocalEntities
  /\ Availability(writing[t].batch) = "current"
  => BearsHealth(world[writing[t].entity])

ViewInv ==
  /\ \A e \in Entities : Apart(world[e])
  /\ \A e \in LocalEntities : HealthGoes(world[e])
  /\ \A t \in Threads : Bears(t)

LEMMA LocalKinds ==
  ASSUME NEW e \in LocalEntities
  PROVE  /\ e \in Entities /\ "observation" \in Kinds[e] /\ "health" \in Kinds[e]
         /\ Kinds[e] \subseteq {"observation", "health", "uptime"} \union Bearing
         /\ e \in {"engage-one", "tenda-u11-pro"}
BY EntitiesAssumption DEF LocalEntities, Entities, Bearing

\* What is stored of a batch.
LEMMA StoredGoes ==
  ASSUME NEW e \in Entities, NEW batch \in Batches[e], NEW comps, DOMAIN comps = Kinds[e],
         Apart(comps)
  PROVE  LET s == Stored(comps, batch)
         IN /\ DOMAIN s = Kinds[e] /\ Apart(s)
            /\ e \in LocalEntities => /\ s["observation"] = comps["observation"]
                                      /\ s["health"] = comps["health"]
                                      /\ BearsHealth(comps) => BearsHealth(s)
                                      /\ Availability(batch) = "current" => BearsHealth(s)
<1> DEFINE new(k) == {i \in DOMAIN batch :
                        batch[i].value # None /\ batch[i].value.kind = k}
           s == Stored(comps, batch)
<1>1. s = [k \in DOMAIN comps |->
             IF new(k) = {} THEN comps[k] ELSE batch[Max(new(k))].value]
  BY DEF Stored
<1>2. ASSUME NEW k, new(k) # {} PROVE Max(new(k)) \in new(k)
  <2>1. Len(batch) \in Nat /\ new(k) \subseteq 1..Len(batch)
    BY BatchesAssumption DEF Entities
  <2> HIDE DEF new
  <2> QED BY <1>2, <2>1, MaxIs
<1>3. /\ \A i \in new("events") : \A r \in batch[i].value.events :
           /\ r.rest # None /\ IsAvailability \notin DOMAIN r.dimensions
           /\ IsAvailability \notin DOMAIN r.metrics
      /\ \A i \in new("flow") : \A probe \in batch[i].value.probes :
           IsAvailability \notin DOMAIN probe.readings
  BY ReportsAssumption DEF Entities, IsAvailability
<1>4. new("observation") = {} /\ new("health") = {}
  BY BatchesAssumption DEF Entities
<1>5. e \in LocalEntities /\ Availability(batch) = "current" =>
        \E k \in Kinds[e] \intersect Bearing : new(k) # {}
  BY ReportsAssumption DEF Entities, LocalEntities, Bearing
<1>6. \A k : \A i \in new(k) : batch[i].value # None
  OBVIOUS
<1> HIDE DEF new, s
<1>7. DOMAIN s = Kinds[e]
  BY <1>1
<1>8. Apart(s)
  BY <1>1, <1>2, <1>3, <1>7 DEF Apart
<1>9. ASSUME e \in LocalEntities
      PROVE  s["observation"] = comps["observation"] /\ s["health"] = comps["health"]
  BY <1>1, <1>4, <1>9, LocalKinds
<1>10. \A k \in Kinds[e] : comps[k] # None => s[k] # None
  BY <1>1, <1>2, <1>6
<1>11. BearsHealth(comps) => BearsHealth(s)
  BY <1>7, <1>10 DEF BearsHealth, Present
<1>12. \A k \in Kinds[e] : new(k) # {} => s[k] # None
  BY <1>1, <1>2, <1>6
<1>13. e \in LocalEntities /\ Availability(batch) = "current" => BearsHealth(s)
  BY <1>5, <1>7, <1>12 DEF BearsHealth, Present, Bearing
<1> QED BY <1>7, <1>8, <1>9, <1>11, <1>13 DEF s

\* What qualifies it.
LEMMA QualifiedGoes ==
  ASSUME HealthIsSomething, NEW e \in Entities, NEW batch, NEW at, NEW comps, DOMAIN comps = Kinds[e],
         Apart(comps)
  PROVE  LET q == QualifiedBy(e, comps, batch, at)
         IN /\ DOMAIN q = Kinds[e] /\ Apart(q)
            /\ BearsHealth(comps) => BearsHealth(q)
            /\ e \in LocalEntities =>
                 \/ Availability(batch) = "current" /\ ~BearsHealth(comps)
                 \/ HealthGoes(q)
<1> DEFINE obs      == ObservationOf(e, comps, batch, at)
           observed == [comps EXCEPT !["observation"] = obs]
           health   == Evaluate(observed, config.thresholds)
           checked  == [observed EXCEPT !["health"] = health]
           q        == QualifiedBy(e, comps, batch, at)
<1>1. q = IF e \in LocalEntities THEN checked ELSE observed
  BY DEF QualifiedBy
<1>2. obs.availability = Availability(batch)
  BY DEF ObservationOf
<1>3. "observation" \in Kinds[e]
  BY KindsAssumption DEF Entities
<1> HIDE DEF obs
<1>4. /\ DOMAIN observed = Kinds[e] /\ observed["observation"] = obs
      /\ \A k \in Kinds[e] \ {"observation"} : observed[k] = comps[k]
  BY <1>3
<1>5. BearsHealth(comps) => BearsHealth(observed)
  BY <1>4 DEF BearsHealth, Present, BandedKinds
<1>6. ASSUME e \in LocalEntities
      PROVE  /\ health.status \in {"unknown", "nominal", "warning", "critical"}
             /\ BearsHealth(comps) /\ obs # None /\ obs.availability = "current"
                  => health.status # "unknown"
  <2>1. obs.availability = "current" => ~TelemetryIs(observed, "unavailable")
    BY <1>4 DEF TelemetryIs
  <2> HIDE DEF observed
  <2> QED BY <1>5, <2>1, EvaluateIs
<1>7. health # None
  <2> HIDE DEF observed
  <2> DEFINE critical == CriticalReasons(observed, config.thresholds)
             warning  == WarningReasons(observed, config.thresholds)
                           \union (IF TelemetryIs(observed, "degraded")
                                   THEN {<<"degraded", observed["observation"].reasons>>}
                                   ELSE {})
             none     == {<<"unavailable", observed["observation"].reasons,
                            observed["observation"].succeeded>>}
             nothing  == {<<"no telemetry">>}
  <2>1. health = IF TelemetryIs(observed, "unavailable") THEN HealthState("unknown", none)
                 ELSE IF critical # {} THEN HealthState("critical", critical \union warning)
                 ELSE IF warning # {} THEN HealthState("warning", warning)
                 ELSE IF BearsHealth(observed) THEN HealthState("nominal", {})
                 ELSE HealthState("unknown", nothing)
    BY DEF Evaluate
  <2> HIDE DEF critical, warning, none, nothing, health
  <2> QED BY <2>1, HealthIsSomething DEF HealthIsSomething
<1> HIDE DEF observed, health
<1>8. /\ DOMAIN q = Kinds[e]
      /\ \A k \in Kinds[e] \ {"observation", "health"} : q[k] = comps[k]
      /\ e \in LocalEntities => q["observation"] = obs /\ q["health"] = health
  BY <1>1, <1>3, <1>4, LocalKinds
<1> HIDE DEF q
<1>9. Apart(q)
  BY <1>8 DEF Apart
<1>10. BearsHealth(comps) => BearsHealth(q)
  BY <1>8 DEF BearsHealth, Present, BandedKinds
<1>11. e \in LocalEntities => \/ Availability(batch) = "current" /\ ~BearsHealth(comps)
                              \/ HealthGoes(q)
  BY <1>2, <1>6, <1>7, <1>8 DEF HealthGoes
<1> QED BY <1>8, <1>9, <1>10, <1>11 DEF q

-----------------------------------------------------------------------------
(* It stays so                                                             *)

LEMMA InitView == ReadInit => ViewInv
<1> SUFFICES ASSUME ReadInit PROVE ViewInv
  OBVIOUS
<1>1. \A e \in Entities :
        /\ DOMAIN world[e] = Kinds[e]
        /\ \A k \in Kinds[e] : world[e][k] = None
  BY DEF ReadInit
<1>2. \A t \in Threads : writing[t] = None
  BY DEF ReadInit
<1>3. \A e \in Entities : Apart(world[e])
  BY <1>1 DEF Apart
<1>4. \A e \in LocalEntities : HealthGoes(world[e])
  BY <1>1, LocalKinds DEF HealthGoes
<1>5. \A t \in Threads : Bears(t)
  BY <1>2 DEF Bears
<1> QED BY <1>3, <1>4, <1>5 DEF ViewInv

\* A process that starts collects the local entities and withdraws the others.
LEMMA StartView ==
  ASSUME HealthIsSomething, EarnedInv, ViewInv, Start
  PROVE  ViewInv'
<1>1. PICK batch \in [LocalEntities -> UNION {Batches[e] : e \in LocalEntities}] :
        /\ \A e \in LocalEntities : batch[e] \in Batches[e]
        /\ world' = [e \in Entities |->
             IF e \in LocalEntities
             THEN QualifiedBy(e, Stored(world[e], batch[e]), batch[e], clock + 1)
             ELSE IF e \in Withdrawn THEN Withdraw(e, world[e], clock + 1)
             ELSE world[e]]
  BY DEF Start
<1>2. writing' = writing
  BY DEF Start
<1>3. ASSUME NEW e \in LocalEntities
      PROVE  /\ Apart(world'[e]) /\ HealthGoes(world'[e])
             /\ BearsHealth(world[e]) => BearsHealth(world'[e])
  <2> DEFINE stored    == Stored(world[e], batch[e])
             qualified == QualifiedBy(e, stored, batch[e], clock + 1)
  <2>1. e \in Entities /\ DOMAIN world[e] = Kinds[e] /\ Apart(world[e])
    BY LocalKinds DEF EarnedInv, Kept, ViewInv
  <2>2. /\ DOMAIN stored = Kinds[e] /\ Apart(stored)
        /\ BearsHealth(world[e]) => BearsHealth(stored)
        /\ Availability(batch[e]) = "current" => BearsHealth(stored)
    BY <1>1, <2>1, StoredGoes
  <2>3. world'[e] = qualified
    BY <1>1, <2>1
  <2> HIDE DEF stored
  <2>4. /\ Apart(qualified)
        /\ BearsHealth(stored) => BearsHealth(qualified)
        /\ \/ Availability(batch[e]) = "current" /\ ~BearsHealth(stored)
           \/ HealthGoes(qualified)
    BY <2>1, <2>2, QualifiedGoes
  <2> HIDE DEF qualified
  <2> QED BY <2>2, <2>3, <2>4
<1>4. ASSUME NEW e \in Entities \ LocalEntities
      PROVE  Apart(world'[e])
  <2> DEFINE nobody    == <<Unavailable(Adapter[e], "awaiting fresh observation")>>
             qualified == QualifiedBy(e, world[e], nobody, clock + 1)
  <2>1. DOMAIN world[e] = Kinds[e] /\ Apart(world[e])
    BY DEF EarnedInv, Kept, ViewInv
  <2>2. CASE e \in Withdrawn
    <3>1. Withdraw(e, world[e], clock + 1) = qualified
      BY DEF Withdraw
    <3> HIDE DEF nobody
    <3>2. world'[e] = qualified /\ Apart(qualified)
      <4>1. world'[e] = qualified
        BY <1>1, <2>2, <3>1
      <4>2. Apart(qualified)
        BY <2>1, QualifiedGoes
      <4> QED BY <4>1, <4>2
    <3> HIDE DEF qualified
    <3> QED BY <3>2
  <2>3. CASE e \notin Withdrawn
    BY <1>1, <2>1, <2>3
  <2> QED BY <2>2, <2>3
<1>5. \A t \in Threads : Bears(t)'
  BY <1>2, <1>3 DEF Bears, ViewInv
<1> QED BY <1>3, <1>4, <1>5 DEF ViewInv

\* Values arrive: health is made of more than before.
LEMMA CollectView ==
  ASSUME EarnedInv, ViewInv, NEW e \in focus, NEW batch \in Batches[e], Collect(e, batch)
  PROVE  ViewInv'
<1> DEFINE t == Owner[e]
           stored == Stored(world[e], batch)
           w == [entity |-> e, batch |-> batch, at |-> clock + 1]
<1>1. /\ e \in Entities /\ t \in Threads
      /\ world' = [world EXCEPT ![e] = stored]
      /\ writing' = [writing EXCEPT ![t] = w]
  BY DEF Collect, Collected, LocalEntities, Withdrawn, Threads
<1>2. w.entity = e /\ w.batch = batch
  OBVIOUS
<1>3. DOMAIN world[e] = Kinds[e] /\ Apart(world[e])
  BY <1>1 DEF EarnedInv, Kept, ViewInv
<1>4. /\ Apart(stored)
      /\ e \in LocalEntities => /\ stored["observation"] = world[e]["observation"]
                                /\ stored["health"] = world[e]["health"]
                                /\ BearsHealth(world[e]) => BearsHealth(stored)
                                /\ Availability(batch) = "current" => BearsHealth(stored)
  BY <1>1, <1>3, StoredGoes
<1> HIDE DEF stored, w
<1>5. /\ world'[e] = stored /\ \A d \in Entities \ {e} : world'[d] = world[d]
      /\ writing'[t] = w /\ \A u \in Threads \ {t} : writing'[u] = writing[u]
  BY <1>1 DEF EarnedInv
<1>6. \A d \in Entities : Apart(world'[d])
  BY <1>4, <1>5 DEF ViewInv
<1>7. \A d \in LocalEntities : HealthGoes(world'[d])
  BY <1>4, <1>5, LocalKinds DEF ViewInv, HealthGoes
<1>8. Bears(t)'
  BY <1>2, <1>4, <1>5 DEF Bears
<1>9. ASSUME NEW u \in Threads \ {t} PROVE Bears(u)'
  <2>1. writing[u] # None => writing[u].entity \in Entities
    BY DEF EarnedInv, Arrived, Collected, LocalEntities, Withdrawn
  <2> QED BY <1>4, <1>5, <2>1 DEF Bears, ViewInv
<1> QED BY <1>6, <1>7, <1>8, <1>9 DEF ViewInv

\* What qualifies them arrives, with the health that goes with it.
LEMMA QualifyView ==
  ASSUME HealthIsSomething, EarnedInv, ViewInv, NEW t \in Threads, Qualify(t)
  PROVE  ViewInv'
<1>0. PICK w, e : w = writing[t] /\ e = w.entity
  OBVIOUS
<1> DEFINE qualified == QualifiedBy(e, world[e], w.batch, w.at)
<1>1. /\ w # None
      /\ world' = [world EXCEPT ![e] = qualified]
      /\ writing' = [writing EXCEPT ![t] = None]
  BY <1>0 DEF Qualify
<1>2. e \in Entities
  BY <1>0, <1>1 DEF EarnedInv, Arrived, Collected, LocalEntities, Withdrawn
<1>3. DOMAIN world[e] = Kinds[e] /\ Apart(world[e])
  BY <1>2 DEF EarnedInv, Kept, ViewInv
<1>4. /\ Apart(qualified)
      /\ BearsHealth(world[e]) => BearsHealth(qualified)
      /\ e \in LocalEntities =>
           \/ Availability(w.batch) = "current" /\ ~BearsHealth(world[e])
           \/ HealthGoes(qualified)
  BY <1>2, <1>3, QualifiedGoes
<1> HIDE DEF qualified
<1>5. e \in LocalEntities /\ Availability(w.batch) = "current" => BearsHealth(world[e])
  BY <1>0, <1>1 DEF Bears, ViewInv
<1>6. /\ world'[e] = qualified /\ \A d \in Entities \ {e} : world'[d] = world[d]
      /\ writing'[t] = None /\ \A u \in Threads \ {t} : writing'[u] = writing[u]
  BY <1>1, <1>2 DEF EarnedInv
<1>7. \A d \in Entities : Apart(world'[d])
  BY <1>4, <1>6 DEF ViewInv
<1>8. \A d \in LocalEntities : HealthGoes(world'[d])
  BY <1>4, <1>5, <1>6, LocalKinds DEF ViewInv
<1>9. ASSUME NEW u \in Threads \ {t} PROVE Bears(u)'
  <2>1. writing[u] # None => writing[u].entity \in Entities
    BY DEF EarnedInv, Arrived, Collected, LocalEntities, Withdrawn
  <2> QED BY <1>4, <1>6, <2>1 DEF Bears, ViewInv
<1>10. Bears(t)'
  BY <1>6 DEF Bears
<1> QED BY <1>7, <1>8, <1>9, <1>10 DEF ViewInv

LEMMA SameView ==
  ASSUME ViewInv, world' = world, writing' = writing \/ \A t \in Threads : writing'[t] = None
  PROVE  ViewInv'
<1>1. \A t \in Threads : Bears(t)'
  BY DEF Bears, ViewInv
<1> QED BY <1>1 DEF ViewInv

LEMMA StepView ==
  ASSUME HealthIsSomething, EarnedInv, ViewInv, [ReadNext]_readVars
  PROVE  ViewInv'
<1>1. CASE UNCHANGED readVars
  BY <1>1, SameView DEF readVars
<1>2. CASE \E raw \in Raws : Configure(raw)
  BY <1>2, SameView DEF Configure
<1>3. CASE Start
  BY <1>3, StartView
<1>4. CASE \E e \in focus : \E batch \in Batches[e] : Collect(e, batch)
  BY <1>4, CollectView
<1>5. CASE \E t \in Threads : Qualify(t)
  BY <1>5, QualifyView
<1>6. CASE \E t \in Workers : Raise(t)
  BY <1>6, SameView DEF Raise
<1>7. CASE Die
  BY <1>7, SameView DEF Die
<1>8. CASE \E r \in Requests : Get(r)
  BY <1>8, SameView DEF Get
<1>9. CASE \E page \in Pages : HeadOf(page)
  BY <1>9, SameView DEF HeadOf
<1>10. CASE Respond
  BY <1>10, SameView DEF Respond
<1> QED
  BY <1>1, <1>2, <1>3, <1>4, <1>5, <1>6, <1>7, <1>8, <1>9, <1>10 DEF ReadNext

-----------------------------------------------------------------------------
(* What is shown is what is claimed                                        *)

Claiming(e, predicate) == {c \in EntityClaims(e, world[e]) : c.predicate = predicate}

LEMMA ShownIs ==
  ASSUME EarnedInv, NEW e \in Entities
  PROVE  LET obs == world[e]["observation"]
         IN /\ Component(world, e, "observation") = obs
            /\ ShownAvailability(world, e) = IF obs = None THEN "unavailable"
                                             ELSE obs.availability
            /\ obs = None \/ obs.availability \in Availabilities
<1>1. e \in DOMAIN world /\ "observation" \in DOMAIN world[e]
  BY KindsAssumption DEF EarnedInv, Kept, Entities
<1>2. Component(world, e, "observation") = world[e]["observation"]
  BY <1>1 DEF Component, Has
<1> QED BY <1>2 DEF ShownAvailability, EarnedInv, Kept

\* A source is shown as usable, or current, where its claims are worth as much.
LEMMA WorthIs ==
  ASSUME EarnedInv, NEW e \in Entities
  PROVE  LET authority == AuthorityOf(world[e]["observation"])
         IN /\ Usable(world, e) <=> authority \in UsableAuthority
            /\ ShownAvailability(world, e) = "current" <=> authority \in {"current"}
<1> DEFINE obs == world[e]["observation"]
<1>1. /\ ShownAvailability(world, e) = IF obs = None THEN "unavailable"
                                       ELSE obs.availability
      /\ obs = None \/ obs.availability \in Availabilities
  BY ShownIs
<1> HIDE DEF obs
<1>2. AuthorityOf(obs) = IF obs = None THEN "unscoped"
                         ELSE IF obs.availability = "current" THEN "current"
                         ELSE IF obs.availability = "degraded" THEN "degraded_or_mixed"
                         ELSE "last_known_noncurrent"
  BY <1>1 DEF AuthorityOf, Availabilities
<1>3. /\ Usable(world, e) <=> AuthorityOf(obs) \in UsableAuthority
      /\ ShownAvailability(world, e) = "current" <=> AuthorityOf(obs) \in {"current"}
  BY <1>1, <1>2 DEF Usable, UsableAuthority, Availabilities
<1> QED BY <1>3 DEF obs

\* The one component that an entity has beside its ObservationState.
LEMMA OneComponent ==
  ASSUME EarnedInv, NEW e \in Entities, NEW kind, Kinds[e] = {"observation", kind}
  PROVE  /\ DOMAIN world[e] = {"observation", kind}
         /\ Component(world, e, kind) = world[e][kind]
BY DEF Component, Has, EarnedInv, Kept

LEMMA TrafficKinds ==
  ASSUME NEW e \in TrafficSources
  PROVE  /\ e \in Entities
         /\ \E kind \in {"flow", "events", "cameras", "signs"} :
              Kinds[e] = {"observation", kind}
         /\ e \in EventSources => Kinds[e] = {"observation", "events"}
BY EntitiesAssumption DEF TrafficSources, Entities

\* Whatever the traffic page lists is as authoritative as the claims of its source.
LEMMA EventsAgree ==
  ASSUME EarnedInv, ViewInv, NEW r \in TrafficPage(world, None).events
  PROVE  r.authoritative <=>
           \A c \in Claiming(r.source, IsEvent) : c.authority \in UsableAuthority
<1>1. r \in Listed(world)
  BY DEF TrafficPage
<1>2. PICK e \in EventSources :
        LET c == Component(world, e, "events")
        IN r \in (IF c = None THEN {}
                  ELSE {[source |-> e, record |-> x.id, authoritative |-> Usable(world, e)] :
                          x \in c.events})
  BY <1>1 DEF Listed
<1>3. e \in Entities /\ Kinds[e] = {"observation", "events"}
  BY TrafficKinds DEF TrafficSources
<1>4. /\ DOMAIN world[e] = {"observation", "events"}
      /\ Component(world, e, "events") = world[e]["events"]
  BY <1>3, OneComponent
<1>5. /\ world[e]["events"] # None /\ world[e]["events"].events # {}
      /\ r.source = e /\ r.authoritative = Usable(world, e)
  BY <1>2, <1>4
<1>6. (\A c \in Claiming(e, IsEvent) : c.authority \in UsableAuthority)
        <=> AuthorityOf(world[e]["observation"]) \in UsableAuthority
  BY <1>3, <1>4, <1>5, RecordsSay DEF Claiming, ViewInv
<1>7. Usable(world, e) <=> AuthorityOf(world[e]["observation"]) \in UsableAuthority
  BY <1>3, WorthIs
<1> QED BY <1>5, <1>6, <1>7

\* It names the sources whose claims say that they are not current.
LEMMA SourcesAgree ==
  ASSUME EarnedInv, ViewInv, NEW e \in TrafficSources
  PROVE  e \in TrafficPage(world, None).degrading <=>
           {c.value : c \in Claiming(e, IsAvailability)} \notin {{}, {"current"}}
<1> DEFINE obs == world[e]["observation"]
<1>1. e \in Entities
  BY TrafficKinds
<1>2. {c.value : c \in Claiming(e, IsAvailability)}
        = IF obs = None THEN {} ELSE {obs.availability}
  <2>1. PICK kind \in {"flow", "events", "cameras", "signs"} :
          Kinds[e] = {"observation", kind}
    BY TrafficKinds
  <2>2. DOMAIN world[e] = {"observation", kind} /\ Apart(world[e])
    BY <1>1, <2>1, OneComponent DEF ViewInv
  <2> QED BY <2>2, SourcesSay DEF Claiming
<1>3. e \in TrafficPage(world, None).degrading <=>
        e \in DegradingSources(world)
  BY DEF TrafficPage
<1>4. e \in DegradingSources(world) <=> obs # None /\ obs.availability # "current"
  BY <1>1, ShownIs DEF DegradingSources
<1> HIDE DEF obs
<1> QED BY <1>2, <1>3, <1>4

\* Alerts are authoritative where the claims that report them are.
LEMMA AlertsAgree ==
  ASSUME EarnedInv, NEW e, e = "local-weather-alerts", Claiming(e, IsAlert) # {}
  PROVE  WorldPage(world).alerts.authoritative <=>
           \A c \in Claiming(e, IsAlert) : c.authority \in {"current"}
<1>1. e \in Entities /\ Kinds[e] = {"observation", "alerts"}
  BY EntitiesAssumption DEF Entities
<1>2. DOMAIN world[e] = {"observation", "alerts"}
  BY <1>1, OneComponent
<1>3. (\A c \in Claiming(e, IsAlert) : c.authority \in {"current"})
        <=> AuthorityOf(world[e]["observation"]) \in {"current"}
  BY <1>2, AlertsSay DEF Claiming
<1>4. WorldPage(world).alerts.authoritative = (ShownAvailability(world, e) = "current")
  BY DEF WorldPage
<1>5. ShownAvailability(world, e) = "current"
        <=> AuthorityOf(world[e]["observation"]) \in {"current"}
  BY <1>1, WorthIs
<1> QED BY <1>3, <1>4, <1>5

\* The radar image is displayable where the claim of it may be relied on.
LEMMA ImageAgrees ==
  ASSUME EarnedInv, NEW e, e = "local-weather-radar", WorldPage(world).radar.image # None
  PROVE  WorldPage(world).radar.displayable <=>
           \A c \in Claiming(e, IsImage) : c.authority \in UsableAuthority
<1> DEFINE mosaic == world[e]["mosaic"]
           image  == IF mosaic = None THEN None ELSE mosaic.image
<1>1. e \in Entities /\ Kinds[e] = {"observation", "mosaic"}
  BY EntitiesAssumption DEF Entities
<1>2. DOMAIN world[e] = {"observation", "mosaic"} /\ Component(world, e, "mosaic") = mosaic
  BY <1>1, OneComponent
<1> HIDE DEF mosaic
<1>3. /\ WorldPage(world).radar.image = image
      /\ WorldPage(world).radar.displayable = (image # None /\ Usable(world, e))
  BY <1>2 DEF WorldPage, RadarPanel
<1>4. mosaic # None
  BY <1>3
<1>5. (\A c \in Claiming(e, IsImage) : c.authority \in UsableAuthority)
        <=> AuthorityOf(world[e]["observation"]) \in UsableAuthority
  BY <1>2, <1>4, ImageSays DEF Claiming, mosaic
<1>6. Usable(world, e) <=> AuthorityOf(world[e]["observation"]) \in UsableAuthority
  BY <1>1, WorthIs
<1> QED BY <1>3, <1>5, <1>6

\* A summary that is nominal and current is so of each local entity.
LEMMA SystemsAgree ==
  ASSUME EarnedInv, ViewInv, SystemsPage(world, {}).health = "nominal",
         SystemsPage(world, {}).observation = "current", NEW e \in LocalEntities
  PROVE  {c.value : c \in Claiming(e, IsHealth)} = {"nominal"}
<1> DEFINE local  == {"engage-one", "tenda-u11-pro"}
           states == {HealthStatus(world, d) : d \in local}
           shown  == {ShownAvailability(world, d) : d \in local}
           obs    == world[e]["observation"]
           health == world[e]["health"]
<1>1. /\ e \in Entities /\ e \in local
      /\ DOMAIN world[e] \subseteq {"observation", "health", "uptime"} \union Bearing
      /\ "health" \in DOMAIN world[e]
      /\ HealthGoes(world[e])
  BY LocalKinds DEF EarnedInv, Kept, ViewInv
<1>2. /\ states \intersect {"warning", "critical"} = {}
      /\ shown \intersect {"degraded", "unavailable"} = {}
  <2>1. /\ Worst(states, HealthOrder, "unknown") = "nominal"
        /\ Worst(shown, ObservationOrder, "unavailable") = "current"
    BY DEF SystemsPage
  <2> HIDE DEF states, shown
  <2> QED BY <2>1, WorstIs
<1>3. /\ ShownAvailability(world, e) \notin {"degraded", "unavailable"}
      /\ HealthStatus(world, e) \notin {"warning", "critical"}
  BY <1>1, <1>2
<1>4. obs # None /\ obs.availability = "current"
  BY <1>1, <1>3, ShownIs DEF Availabilities
<1>5. /\ health # None /\ health.status # "unknown"
      /\ health.status \in {"unknown", "nominal", "warning", "critical"}
  BY <1>1, <1>4 DEF HealthGoes
<1>6. HealthStatus(world, e) = health.status
  BY <1>1, <1>5 DEF HealthStatus, Component, Has, EarnedInv
<1>7. health.status = "nominal"
  BY <1>3, <1>5, <1>6
<1>8. {c.value : c \in Claiming(e, IsHealth)} = {health.status}
  BY <1>1, <1>5, HealthSays DEF Claiming
<1> QED BY <1>7, <1>8

LEMMA ViewsGo == EarnedInv /\ ViewInv => ViewsAgree
<1> SUFFICES ASSUME EarnedInv, ViewInv PROVE ViewsAgree
  OBVIOUS
<1> DEFINE Rely(e, predicate, authority) ==
             \A c \in Claiming(e, predicate) : c.authority \in authority
           Values(e, predicate) == {c.value : c \in Claiming(e, predicate)}
<1>1. \A r \in TrafficPage(world, None).events :
        r.authoritative <=> Rely(r.source, IsEvent, UsableAuthority)
  BY EventsAgree
<1>2. \A e \in TrafficSources :
        e \in TrafficPage(world, None).degrading <=>
          Values(e, IsAvailability) \notin {{}, {"current"}}
  BY SourcesAgree
<1>3. Claiming("local-weather-alerts", IsAlert) # {} =>
        (WorldPage(world).alerts.authoritative <=>
           Rely("local-weather-alerts", IsAlert, {"current"}))
  BY AlertsAgree
<1>4. WorldPage(world).radar.image # None =>
        (WorldPage(world).radar.displayable <=>
           Rely("local-weather-radar", IsImage, UsableAuthority))
  BY ImageAgrees
<1>5. /\ SystemsPage(world, {}).health = "nominal"
      /\ SystemsPage(world, {}).observation = "current"
      => \A e \in LocalEntities : Values(e, IsHealth) = {"nominal"}
  BY SystemsAgree
<1> QED
  BY <1>1, <1>2, <1>3, <1>4, <1>5
  DEF ViewsAgree, Claiming, IsEvent, IsAvailability, IsAlert, IsImage, IsHealth

\* The pages and the claims agree on what may be relied on: the events, the
\* sources, the alerts and the radar image that are shown as usable are those whose
\* claims have that authority, and a nominal summary hides no claim of a local
\* entity that is not (presentation/projection.py and semantics/projection.py are
\* two projections of one world).  Of the estimate nothing is said: there they do
\* not agree.  The ObservationState and the health of a local entity are written in
\* one step, and its values in another: that the first are never current without a
\* health is what has to be carried along.
THEOREM ViewsAreOne ==
  ASSUME HealthIsSomething PROVE ReadSpec => []ViewsAgree
<1>1. ReadInit => EarnedInv /\ ViewInv
  BY InitEarned, InitView
<1>2. EarnedInv /\ ViewInv /\ [ReadNext]_readVars => (EarnedInv /\ ViewInv)'
  BY StepEarned, StepView
<1>3. EarnedInv /\ ViewInv => ViewsAgree
  BY ViewsGo
<1> QED BY <1>1, <1>2, <1>3, PTL DEF ReadSpec
-----------------------------------------------------------------------------
(***************************************************************************)
(* AnIdNamesOneClaim.  Most claims have their value among the parts of     *)
(* their identity, so that the value is a function of the predicate and of *)
(* the identity, whatever was observed and whenever.  Of the reports of    *)
(* events and alerts and of the cameras this is not so: their identity has *)
(* the time at which the entity was checked instead, and what has to be    *)
(* known of the state is that the entity has changed since then only if it *)
(* has been checked again.                                                 *)
(***************************************************************************)
-----------------------------------------------------------------------------
(* The value of a claim in its identity                                    *)

IsCamera == "provider_reports_camera"
Timed == {IsEvent, IsAlert, IsCamera}

\* What a claim about a remote entity says, from the parts of its identity.
RemoteValue(predicate, identity) ==
  CASE predicate = IsAvailability -> identity[2]
    [] predicate \in {"new_observation_unavailable", NegativeEvidence} -> "true"
    [] predicate = "provider_reports_road_closure" -> identity[3]
    [] predicate = "tomtom_flow_confidence" -> identity[2]
    [] predicate = "probe_collection_completeness" -> Truth(identity[2] = identity[3])
    [] predicate \in {IsImage, "radar_context_artifact"} -> identity[1]
    [] OTHER -> identity[Len(identity)]

\* The claim tells what its identity does.
Spelled(c) ==
  c.predicate \notin Timed /\ c.value = RemoteValue(c.predicate, c.id[2])

Tells(claims) == \A c \in claims : Spelled(c)

LEMMA NamesAreOwn ==
  OwnPredicates = { IsAvailability, "new_observation_unavailable", NegativeEvidence,
    "provider_reports_road_closure", IsEvent, IsAlert, IsCamera, IsImage,
    "radar_context_artifact", "tomtom_flow_confidence", "probe_collection_completeness" }
BY DEF OwnPredicates, IsAvailability, IsEvent, IsAlert, IsCamera, IsImage

\* A claim and its parts.
LEMMA PartsAre ==
  ASSUME NEW kind, NEW subject, NEW predicate, NEW identity, NEW value, NEW by
  PROVE  LET c == Claim(kind, subject, predicate, identity, value, by)
         IN c.predicate = predicate /\ c.id[2] = identity /\ c.value = value
BY DEF Claim

LEMMA AboutParts ==
  ASSUME NEW kind, NEW subject, NEW predicate, NEW identity, NEW value, NEW by,
         NEW proposition
  PROVE  LET c == About(proposition,
                        Claim(kind, subject, predicate, identity, value, by))
         IN c.predicate = predicate /\ c.id[2] = identity /\ c.value = value
BY DEF Claim, About

LEMMA ClaimTells ==
  ASSUME NEW kind, NEW subject, NEW predicate, NEW identity, NEW value, NEW by,
         predicate \notin Timed, value = RemoteValue(predicate, identity)
  PROVE  Tells({Claim(kind, subject, predicate, identity, value, by)})
BY PartsAre DEF Tells, Spelled

LEMMA AboutTells ==
  ASSUME NEW kind, NEW subject, NEW predicate, NEW identity, NEW value, NEW by,
         NEW proposition,
         predicate \notin Timed, value = RemoteValue(predicate, identity)
  PROVE  Tells({About(proposition, Claim(kind, subject, predicate, identity, value, by))})
BY AboutParts DEF Tells, Spelled

LEMMA WhenTells ==
  ASSUME NEW condition, NEW claims, condition => Tells(claims)
  PROVE  Tells(When(condition, claims))
BY DEF Tells, When

LEMMA UnionTells ==
  ASSUME NEW A, NEW B, Tells(A), Tells(B)
  PROVE  Tells(A \union B)
BY DEF Tells

\* The last part of an identity.

LEMMA LastIs ==
  ASSUME NEW S, NEW s \in Seq(S), NEW v
  PROVE  LET t == Append(s, v) IN t[Len(t)] = v
<1>1. s \in Seq(S \union {v})
  OBVIOUS
<1> QED BY <1>1

Ends(identity) == \A v : Append(identity, v)[Len(Append(identity, v))] = v

LEMMA TuplesEnd ==
  ASSUME NEW a, NEW b, NEW c
  PROVE  Ends(<<a>>) /\ Ends(<<a, b>>) /\ Ends(<<a, b, c>>)
<1>1. <<a>> \in Seq({a}) /\ <<a, b>> \in Seq({a, b}) /\ <<a, b, c>> \in Seq({a, b, c})
  OBVIOUS
<1>2. ASSUME NEW s, \E S : s \in Seq(S) PROVE Ends(s)
  BY <1>2, LastIs DEF Ends
<1> QED BY <1>1, <1>2

LEMMA OthersTell ==
  ASSUME NEW predicate, predicate \notin OwnPredicates, NEW identity
  PROVE  predicate \notin Timed /\ RemoteValue(predicate, identity) = identity[Len(identity)]
BY NamesAreOwn DEF RemoteValue, Timed

LEMMA TableTells ==
  ASSUME NEW kind, NEW subject, NEW table, NEW identity, NEW by, Ends(identity),
         DOMAIN table \intersect OwnPredicates = {}
  PROVE  Tells(Claims(kind, subject, table, identity, by))
<1> SUFFICES ASSUME NEW k \in Told(table)
             PROVE  Spelled(Claim(kind, subject, k, Append(identity, table[k]), table[k], by))
  BY DEF Claims, Tells
<1>1. k \notin OwnPredicates
  BY DEF Told
<1>2. table[k] = RemoteValue(k, Append(identity, table[k]))
  BY <1>1, OthersTell DEF Ends
<1> QED BY <1>1, <1>2, OthersTell, PartsAre DEF Spelled

LEMMA TablesTell ==
  ASSUME NEW subject, NEW table, NEW identity, NEW by, Ends(identity),
         DOMAIN table \intersect OwnPredicates = {}
  PROVE  /\ Tells(Measurements(subject, table, identity, by))
         /\ Tells(Predictions(subject, table, identity, by))
         /\ Tells(ForeignNative(subject, table, identity, by))
BY TableTells DEF Measurements, Predictions, ForeignNative

LEMMA SpatialTells ==
  ASSUME NEW subject, NEW predicate, NEW place, NEW identity, NEW by,
         predicate \notin OwnPredicates, Ends(identity)
  PROVE  Tells(Spatial(subject, predicate, place, identity, by))
<1>1. place = RemoteValue(predicate, Append(identity, place))
  BY OthersTell DEF Ends
<1> QED BY <1>1, OthersTell, ClaimTells, WhenTells DEF Spatial

LEMMA ScopeTells ==
  ASSUME NEW subject, NEW scope, NEW at, NEW by
  PROVE  Tells(CollectionScope(subject, scope, at, by))
<1>1. "collection_scope" \notin OwnPredicates
  BY DEF OwnPredicates, NegativeEvidence
<1> QED BY <1>1, SpatialTells, TuplesEnd DEF CollectionScope

\* Of a report or an artifact that has its value in its identity.
LEMMA ReportTells ==
  ASSUME NEW subject, NEW predicate, NEW identity, NEW value, NEW by,
         predicate \notin Timed, value = RemoteValue(predicate, identity)
  PROVE  /\ Tells(SourceReport(subject, predicate, identity, value, by))
         /\ Tells(Artifact(subject, predicate, identity, value, by))
BY ClaimTells, WhenTells DEF SourceReport, Artifact

-----------------------------------------------------------------------------
(* The traffic                                                             *)

LEMMA FixedValues ==
  /\ {"observation_availability", "new_observation_unavailable", NegativeEvidence,
      "provider_reports_road_closure", "tomtom_flow_confidence",
      "probe_collection_completeness", IsImage, "radar_context_artifact"}
       \intersect Timed = {}
  /\ \A i : /\ RemoteValue("observation_availability", i) = i[2]
            /\ RemoteValue("new_observation_unavailable", i) = Truth(TRUE)
            /\ RemoteValue(NegativeEvidence, i) = Truth(TRUE)
            /\ RemoteValue("provider_reports_road_closure", i) = i[3]
            /\ RemoteValue("tomtom_flow_confidence", i) = i[2]
            /\ RemoteValue("probe_collection_completeness", i) = Truth(i[2] = i[3])
            /\ RemoteValue(IsImage, i) = i[1]
            /\ RemoteValue("radar_context_artifact", i) = i[1]
<1>1. {"observation_availability", "new_observation_unavailable", NegativeEvidence,
       "provider_reports_road_closure", "tomtom_flow_confidence",
       "probe_collection_completeness", IsImage, "radar_context_artifact"}
        \intersect Timed = {}
  BY DEF Timed, IsEvent, IsAlert, IsCamera, IsImage, NegativeEvidence
<1>2. Truth(TRUE) = "true"
  BY DEF Truth
<1> SUFFICES ASSUME NEW i
             PROVE  /\ RemoteValue("observation_availability", i) = i[2]
                    /\ RemoteValue("new_observation_unavailable", i) = "true"
                    /\ RemoteValue(NegativeEvidence, i) = "true"
                    /\ RemoteValue("provider_reports_road_closure", i) = i[3]
                    /\ RemoteValue("tomtom_flow_confidence", i) = i[2]
                    /\ RemoteValue("probe_collection_completeness", i) = Truth(i[2] = i[3])
                    /\ RemoteValue(IsImage, i) = i[1]
                    /\ RemoteValue("radar_context_artifact", i) = i[1]
  BY <1>1, <1>2
<1> DEFINE whole == Truth(i[2] = i[3])
           last  == i[Len(i)]
<1>3. \A p : RemoteValue(p, i) =
        CASE p = IsAvailability -> i[2]
          [] p \in {"new_observation_unavailable", NegativeEvidence} -> "true"
          [] p = "provider_reports_road_closure" -> i[3]
          [] p = "tomtom_flow_confidence" -> i[2]
          [] p = "probe_collection_completeness" -> whole
          [] p \in {IsImage, "radar_context_artifact"} -> i[1]
          [] OTHER -> last
  BY DEF RemoteValue
<1> HIDE DEF whole, last
<1>4. /\ RemoteValue("observation_availability", i) = i[2]
      /\ RemoteValue("new_observation_unavailable", i) = "true"
      /\ RemoteValue(NegativeEvidence, i) = "true"
      /\ RemoteValue("provider_reports_road_closure", i) = i[3]
      /\ RemoteValue("tomtom_flow_confidence", i) = i[2]
      /\ RemoteValue("probe_collection_completeness", i) = whole
      /\ RemoteValue(IsImage, i) = i[1]
      /\ RemoteValue("radar_context_artifact", i) = i[1]
  BY <1>3 DEF IsAvailability, IsImage, NegativeEvidence
<1> QED BY <1>4 DEF whole

LEMMA ObservationTells ==
  ASSUME NEW e, NEW obs
  PROVE  Tells(ObservationClaims(e, obs))
<1> DEFINE by  == Origin(e, "source_observed", None, None)
           is  == { About(<<<<e, "observation", obs.adapter>>, "availability">>,
                      Claim("observation_state", <<e>>, "observation_availability",
                            <<obs.checked, obs.availability, obs.reasons>>,
                            obs.availability, by)) }
           not == { About(<<<<e, "absence", obs.adapter>>, "new_observation_unavailable">>,
                      Claim("absence", <<e>>, "new_observation_unavailable",
                            <<obs.checked, obs.reasons>>, Truth(TRUE), by)) }
<1>1. ObservationClaims(e, obs) = is \union When(obs.availability = "unavailable", not)
  BY DEF ObservationClaims
<1>2. /\ "observation_availability" \notin Timed
      /\ \A a, b, c : RemoteValue("observation_availability", <<a, b, c>>) = b
  BY FixedValues
<1>3. /\ "new_observation_unavailable" \notin Timed
      /\ \A a, b : RemoteValue("new_observation_unavailable", <<a, b>>) = Truth(TRUE)
  BY FixedValues
<1>4. Tells(is)
  BY <1>2, AboutTells
<1>5. Tells(not)
  BY <1>3, AboutTells
<1> HIDE DEF is, not
<1> QED BY <1>1, <1>4, <1>5, WhenTells, UnionTells

LEMMA ProbeTells ==
  ASSUME NEW e, NEW probe, NEW at, NEW by, DOMAIN probe.readings \intersect OwnPredicates = {}
  PROVE  Tells(ProbeClaims(e, probe, at, by))
<1> DEFINE subject  == <<e, "flow-probe", probe.id>>
           native   == { About(<<subject, "provider-native-confidence">>,
                           Claim("foreign_native", subject, "tomtom_flow_confidence",
                                 <<at, probe.confidence, probe.id>>,
                                 probe.confidence, Foreign(by))) }
           place    == Spatial(subject, "flow_query_point", probe.place, <<at, probe.id>>, by)
           road     == Spatial(subject, "matched_road_geometry", probe.geometry,
                               <<at, probe.id, probe.openlr>>, by)
           readings == Measurements(subject, probe.readings, <<at, probe.id>>, by)
           closure  == SourceReport(subject, "provider_reports_road_closure",
                         <<at, probe.id, probe.closure, probe.openlr>>, probe.closure, by)
           trust    == When(probe.confidence # None, native)
<1>1. /\ "tomtom_flow_confidence" \notin Timed
      /\ \A a, b, c : RemoteValue("tomtom_flow_confidence", <<a, b, c>>) = b
  BY FixedValues
<1>2. /\ "provider_reports_road_closure" \notin Timed
      /\ \A a, b, c, d : RemoteValue("provider_reports_road_closure", <<a, b, c, d>>) = c
  BY FixedValues
<1>3. "flow_query_point" \notin OwnPredicates /\ "matched_road_geometry" \notin OwnPredicates
  BY DEF OwnPredicates, NegativeEvidence
<1>4. Tells(native)
  BY <1>1, AboutTells
<1>5. Tells(trust)
  BY <1>4, WhenTells
<1>6. Tells(place) /\ Tells(road) /\ Tells(readings)
  BY <1>3, TuplesEnd, SpatialTells, TablesTell
<1>7. Tells(closure)
  BY <1>2, ReportTells
<1>8. ProbeClaims(e, probe, at, by)
        = place \union road \union readings \union closure \union trust
  BY DEF ProbeClaims
<1> HIDE DEF place, road, readings, closure, trust
<1> QED BY <1>5, <1>6, <1>7, <1>8, UnionTells

LEMMA FlowTells ==
  ASSUME NEW e, NEW c, NEW obs,
         \A probe \in c.probes : DOMAIN probe.readings \intersect OwnPredicates = {}
  PROVE  Tells(TrafficFlow(e, c, obs))
<1> DEFINE at == CheckedAt(obs)
           by == Provider(e, obs)
           collection == <<e, "flow-collection">>
           quality == { Claim("data_quality", collection, "probe_collection_completeness",
               <<at, c.successful, c.configured>>,
               Truth(c.successful = c.configured), by) }
           scope  == CollectionScope(collection, c.scope, at, by)
           whole  == When(c.configured > 0, quality)
           probes == UNION {ProbeClaims(e, probe, at, by) : probe \in c.probes}
<1>1. /\ "probe_collection_completeness" \notin Timed
      /\ \A a, b, d : RemoteValue("probe_collection_completeness", <<a, b, d>>) = Truth(b = d)
  BY FixedValues
<1>2. Tells(quality)
  BY <1>1, ClaimTells
<1>3. Tells(whole) /\ Tells(scope)
  BY <1>2, WhenTells, ScopeTells
<1>4. Tells(probes)
  BY ProbeTells DEF Tells
<1>5. TrafficFlow(e, c, obs) = scope \union whole \union probes
  BY DEF TrafficFlow
<1> HIDE DEF scope, whole, probes
<1> QED BY <1>3, <1>4, <1>5, UnionTells

LEMMA NearTells ==
  ASSUME NEW e, NEW c, NEW obs
  PROVE  Tells(NothingNear(e, c, obs))
<1> DEFINE found == { Claim("evidence", <<e, "event-collection">>, NegativeEvidence,
                            <<CheckedAt(obs), c.total, c.scope>>, Truth(TRUE),
                            Provider(e, obs)) }
           empty == /\ obs # None
                    /\ obs.availability = "current"
                    /\ c.local = 0
<1>1. /\ NegativeEvidence \notin Timed
      /\ \A i : RemoteValue(NegativeEvidence, i) = Truth(TRUE)
  BY FixedValues
<1>2. Tells(found)
  BY <1>1, ClaimTells
<1>3. NothingNear(e, c, obs) = When(empty, found)
  BY DEF NothingNear
<1> HIDE DEF found, empty
<1> QED BY <1>2, <1>3, WhenTells

LEMMA SignsTell ==
  ASSUME NEW e, NEW c, NEW obs
  PROVE  Tells(TrafficMessageSigns(e, c, obs))
<1>1. /\ "reported_infrastructure_location" \notin OwnPredicates
      /\ "provider_reports_message_sign" \notin OwnPredicates
  BY DEF OwnPredicates, NegativeEvidence
<1>2. ASSUME NEW r, NEW at, NEW by PROVE Tells(SignClaims(e, r, at, by))
  <2> DEFINE subject == <<e, "message-sign-record", r.id>>
             place == Spatial(subject, "reported_infrastructure_location", r.place,
                              <<r.updated, at, r.id>>, by)
             sign  == Artifact(subject, "provider_reports_message_sign",
                               <<r.updated, at, r.id, r.messages>>, r.messages, by)
  <2>1. Tells(place)
    BY <1>1, TuplesEnd, SpatialTells
  <2>2. RemoteValue("provider_reports_message_sign", <<r.updated, at, r.id, r.messages>>)
          = r.messages
    BY <1>1, OthersTell
  <2>3. Tells(sign)
    BY <1>1, <2>2, OthersTell, ReportTells
  <2>4. SignClaims(e, r, at, by) = place \union sign
    BY DEF SignClaims
  <2> HIDE DEF place, sign
  <2> QED BY <2>1, <2>3, <2>4, UnionTells
<1>3. \A subject, at, by : Tells(CollectionScope(subject, c.scope, at, by))
  BY ScopeTells
<1> QED BY <1>2, <1>3 DEF TrafficMessageSigns, Tells

LEMMA SituationTells ==
  ASSUME NEW e, NEW c, NEW obs
  PROVE  Tells(TrafficSituation(e, c, obs))
<1> DEFINE by      == Derived(e, obs)
           scope   == CollectionScope(<<e, "traffic-situation-scope">>, c.scope, c.derived, by)
           gaps    == { About(<<<<e, "collection-gap", i>>, "known_collection_gap">>,
                          Claim("collection_gap", <<e>>, "known_collection_gap",
                                <<c.derived, c.gaps[i]>>, c.gaps[i], by)) : i \in DOMAIN c.gaps }
           kernels == { Claim("identity_association", <<e, "kernel", kernel.id>>,
                          "same_upstream_event_representation",
                          <<c.derived, kernel.records>>, kernel.records, by) :
                            kernel \in {k \in c.kernels : k.basis = "upstream identifier"} }
<1> HIDE DEF by
<1>1. /\ "known_collection_gap" \notin OwnPredicates
      /\ "same_upstream_event_representation" \notin OwnPredicates
  BY DEF OwnPredicates, NegativeEvidence
<1>2. /\ "known_collection_gap" \notin Timed
      /\ "same_upstream_event_representation" \notin Timed
      /\ \A a, b : /\ RemoteValue("known_collection_gap", <<a, b>>) = b
                   /\ RemoteValue("same_upstream_event_representation", <<a, b>>) = b
  BY <1>1, OthersTell
<1>3. Tells(scope)
  BY ScopeTells
<1>4. Tells(gaps)
  BY <1>2, AboutTells DEF Tells
<1>5. Tells(kernels)
  BY <1>2, ClaimTells DEF Tells
<1>6. TrafficSituation(e, c, obs) = scope \union gaps \union kernels
  BY DEF TrafficSituation, by
<1> HIDE DEF scope, gaps, kernels
<1> QED BY <1>3, <1>4, <1>5, <1>6, UnionTells

-----------------------------------------------------------------------------
(* The weather                                                             *)

LEMMA WeatherTells ==
  ASSUME NEW e, NEW c, NEW obs, DOMAIN c.readings \intersect OwnPredicates = {}
  PROVE  /\ Tells(WeatherState(e, c, obs)) /\ Tells(DailyForecast(e, c, obs))
         /\ Tells(WeatherEstimate(e, c))
<1> DEFINE codes == [provider_weather_code |-> c.code]
<1>1. DOMAIN codes \intersect OwnPredicates = {}
  BY DEF OwnPredicates, NegativeEvidence
<1> HIDE DEF codes
<1>2. Tells(WeatherState(e, c, obs))
  BY <1>1, TuplesEnd, TablesTell, UnionTells DEF WeatherState, codes
<1>3. Tells(DailyForecast(e, c, obs))
  BY TuplesEnd, TablesTell DEF DailyForecast
<1>4. Tells(WeatherEstimate(e, c))
  BY TuplesEnd, TablesTell DEF WeatherEstimate
<1> QED BY <1>2, <1>3, <1>4

LEMMA HourlyTells ==
  ASSUME NEW e, NEW c, NEW obs,
         \A h \in c.hours : DOMAIN h.readings \intersect OwnPredicates = {}
  PROVE  Tells(HourlyForecast(e, c, obs))
<1>1. ASSUME NEW h \in c.hours
      PROVE  Tells(Predictions(<<e, "hourly-forecast", h.start>>, h.readings,
                               <<h.start, c.updated, CheckedAt(obs)>>, Provider(e, obs)))
  BY TuplesEnd, TablesTell
<1> QED BY <1>1 DEF HourlyForecast, Tells

LEMMA SurfaceTells ==
  ASSUME NEW e, NEW c, NEW obs,
         \A s \in c.stations : /\ DOMAIN s.categories \intersect OwnPredicates = {}
                               /\ DOMAIN s.readings \intersect OwnPredicates = {}
  PROVE  Tells(SurfaceNetwork(e, c, obs))
<1>1. ASSUME NEW s \in c.stations, NEW at, NEW by
      PROVE  Tells(StationClaims(e, s, at, by))
  <2> DEFINE subject    == <<e, "surface-station", s.id>>
             identity   == <<s.id, s.at, at>>
             categories == ForeignNative(subject, s.categories, identity, by)
             artifact   == Artifact(subject, "raw_metar_artifact",
                                    Append(identity, s.raw), s.raw, by)
             metar      == When(s.raw # None, artifact)
             readings   == Measurements(subject, s.readings, identity, by)
  <2>1. Tells(categories) /\ Tells(readings)
    BY TuplesEnd, TablesTell
  <2>2. "raw_metar_artifact" \notin OwnPredicates
    BY DEF OwnPredicates, NegativeEvidence
  <2>3. RemoteValue("raw_metar_artifact", Append(identity, s.raw)) = s.raw
    <3>1. Ends(identity)
      BY TuplesEnd
    <3> HIDE DEF identity
    <3> QED BY <2>2, <3>1, OthersTell DEF Ends
  <2>4. Tells(artifact)
    BY <2>2, <2>3, OthersTell, ReportTells
  <2> HIDE DEF artifact
  <2>5. Tells(metar)
    BY <2>4, WhenTells
  <2>6. StationClaims(e, s, at, by) = categories \union metar \union readings
    BY DEF StationClaims, artifact
  <2> HIDE DEF categories, metar, readings
  <2> QED BY <2>1, <2>5, <2>6, UnionTells
<1> QED BY <1>1 DEF SurfaceNetwork, Tells

LEMMA RadarTells ==
  ASSUME NEW e, NEW c, NEW obs
  PROVE  Tells(RadarMosaic(e, c, obs)) /\ Tells(RadarContext(e, c, obs))
<1> DEFINE by      == Provider(e, obs)
           image   == Artifact(<<e, "radar-mosaic">>, "radar_image_artifact",
                               <<c.image, c.stream, c.retrieved>>, c.image, by)
           cover   == Spatial(<<e, "radar-mosaic">>, "radar_product_coverage", c.cover,
                              <<c.image, c.stream>>, by)
           context == Artifact(<<e, "radar-context">>, "radar_context_artifact",
                               <<c.image, c.content, c.retrieved>>, c.image, by)
           area    == Spatial(<<e, "radar-context">>, "reference_context_coverage", c.cover,
                              <<c.image, c.retrieved>>, by)
<1>1. /\ "radar_product_coverage" \notin OwnPredicates
      /\ "reference_context_coverage" \notin OwnPredicates
  BY DEF OwnPredicates, NegativeEvidence
<1>2. Tells(cover) /\ Tells(area)
  BY <1>1, TuplesEnd, SpatialTells
<1>3. /\ "radar_image_artifact" \notin Timed /\ "radar_context_artifact" \notin Timed
      /\ \A a, b, d : /\ RemoteValue("radar_image_artifact", <<a, b, d>>) = a
                      /\ RemoteValue("radar_context_artifact", <<a, b, d>>) = a
  BY FixedValues DEF IsImage
<1>4. Tells(image) /\ Tells(context)
  BY <1>3, ReportTells
<1>5. RadarMosaic(e, c, obs) = image \union cover /\ RadarContext(e, c, obs) = context \union area
  BY DEF RadarMosaic, RadarContext
<1> HIDE DEF image, cover, context, area
<1> QED BY <1>2, <1>4, <1>5, UnionTells

-----------------------------------------------------------------------------
(* What is identified by the time of the check                             *)

\* A description of one of the events, alerts or cameras of a component.
EventTold(d, c, obs) ==
  /\ d.predicate = IsEvent
  /\ \E r \in c.events : /\ d.id[2] = <<r.id, r.updated, r.reported, CheckedAt(obs)>>
                         /\ d.value = r.rest
AlertTold(d, c, obs) ==
  /\ d.predicate = IsAlert
  /\ \E a \in c.alerts :
       /\ d.id[2] = <<a.id, a.sent, a.effective, a.expires, CheckedAt(obs)>>
       /\ d.value = a.rest
CameraTold(d, c, obs) ==
  /\ d.predicate = IsCamera
  /\ \E r \in c.cameras : /\ d.id[2] = <<CheckedAt(obs), r.id, r.status, r.video>>
                          /\ d.value = r.rest

LEMMA EventsTell ==
  ASSUME NEW e, NEW c, NEW obs,
         \A r \in c.events : /\ DOMAIN r.dimensions \intersect OwnPredicates = {}
                             /\ DOMAIN r.metrics \intersect OwnPredicates = {},
         NEW d \in TrafficEvents(e, c, obs)
  PROVE  Spelled(d) \/ EventTold(d, c, obs)
<1> DEFINE at == CheckedAt(obs)
           by == Provider(e, obs)
           scope  == CollectionScope(<<e, "event-collection">>, c.scope, at, by)
           near   == NothingNear(e, c, obs)
           events == UNION {EventClaims(e, record, at, by) : record \in c.events}
<1>1. TrafficEvents(e, c, obs) = scope \union near \union events
  BY DEF TrafficEvents
<1>2. Tells(scope) /\ Tells(near)
  BY ScopeTells, NearTells
<1>3. ASSUME NEW r \in c.events, d \in EventClaims(e, r, at, by)
      PROVE  Spelled(d) \/ EventTold(d, c, obs)
  <2> HIDE DEF by
  <2> DEFINE subject == <<e, "event-record", r.id>>
             source  == IF r.updated # None THEN r.updated ELSE r.reported
             ident   == <<r.id, source, at>>
             line    == Spatial(subject, "reported_event_geometry", r.geometry, ident, by)
             native  == ForeignNative(subject, r.dimensions, ident, by)
             closure == SourceReport(subject, "provider_reports_full_closure",
                                     Append(ident, r.closure), r.closure, by)
             metrics == Measurements(subject, r.metrics, ident, by)
             report  == EventReport(subject, r, at, by)
             claim   == Claim("source_report", subject, IsEvent,
                          <<r.id, r.updated, r.reported, at>>, r.rest, by)
  <2>1. EventClaims(e, r, at, by)
          = line \union native \union closure \union metrics \union report
    BY DEF EventClaims
  <2>2. report \subseteq {claim}
    BY DEF EventReport, SourceReport, When, IsEvent
  <2>3. EventTold(claim, c, obs)
    <3>1. /\ claim.predicate = IsEvent /\ claim.value = r.rest
          /\ claim.id[2] = <<r.id, r.updated, r.reported, at>>
      BY PartsAre
    <3> HIDE DEF claim
    <3> QED BY <3>1 DEF EventTold
  <2>4. /\ "reported_event_geometry" \notin OwnPredicates
        /\ "provider_reports_full_closure" \notin OwnPredicates
    BY DEF OwnPredicates, NegativeEvidence
  <2>5. Ends(ident)
    BY TuplesEnd
  <2> HIDE DEF ident
  <2>6. RemoteValue("provider_reports_full_closure", Append(ident, r.closure)) = r.closure
    BY <2>4, <2>5, OthersTell DEF Ends
  <2>7. Tells(line) /\ Tells(native) /\ Tells(metrics)
    BY <2>4, <2>5, SpatialTells, TablesTell
  <2>8. Tells(closure)
    BY <2>4, <2>6, OthersTell, ReportTells
  <2> HIDE DEF line, native, closure, metrics, report, claim
  <2> QED BY <1>3, <2>1, <2>2, <2>3, <2>7, <2>8 DEF Tells
<1> HIDE DEF scope, near
<1> QED BY <1>1, <1>2, <1>3 DEF Tells

LEMMA AlertsTell ==
  ASSUME NEW e, NEW c, NEW obs,
         \A a \in c.alerts : DOMAIN a.classes \intersect OwnPredicates = {},
         NEW d \in WeatherAlerts(e, c, obs)
  PROVE  Spelled(d) \/ AlertTold(d, c, obs)
<1> DEFINE at == CheckedAt(obs)
           by == Provider(e, obs)
<1>1. PICK a \in c.alerts : d \in AlertClaims(e, a, at, by)
  BY DEF WeatherAlerts
<1> HIDE DEF by
<1> DEFINE subject == <<e, "weather-alert-record", a.id>>
           native  == ForeignNative(subject, a.classes, <<a.id, a.sent, a.effective, at>>, by)
           report  == SourceReport(subject, "provider_reports_alert",
                        <<a.id, a.sent, a.effective, a.expires, at>>, a.rest, by)
           claim   == Claim("source_report", subject, IsAlert,
                        <<a.id, a.sent, a.effective, a.expires, at>>, a.rest, by)
<1>2. AlertClaims(e, a, at, by) = native \union report
  BY DEF AlertClaims
<1>3. report \subseteq {claim}
  BY DEF SourceReport, When, IsAlert
<1>4. AlertTold(claim, c, obs)
  <2>1. /\ claim.predicate = IsAlert /\ claim.value = a.rest
        /\ claim.id[2] = <<a.id, a.sent, a.effective, a.expires, at>>
    BY PartsAre
  <2> HIDE DEF claim
  <2> QED BY <2>1 DEF AlertTold
<1>5. Tells(native)
  <2>1. <<a.id, a.sent, a.effective, at>> \in Seq({a.id, a.sent, a.effective, at})
    OBVIOUS
  <2>2. Ends(<<a.id, a.sent, a.effective, at>>)
    BY <2>1, LastIs DEF Ends
  <2> QED BY <2>2, TablesTell
<1> HIDE DEF native, report, claim
<1> QED BY <1>1, <1>2, <1>3, <1>4, <1>5 DEF Tells

LEMMA CamerasTell ==
  ASSUME NEW e, NEW c, NEW obs, NEW d \in TrafficCameras(e, c, obs)
  PROVE  Spelled(d) \/ CameraTold(d, c, obs)
<1> DEFINE at == CheckedAt(obs)
           by == Provider(e, obs)
           scope == CollectionScope(<<e, "camera-collection">>, c.scope, at, by)
<1>1. d \in scope \/ \E r \in c.cameras : d \in CameraClaims(e, r, at, by)
  BY DEF TrafficCameras
<1>2. Tells(scope)
  BY ScopeTells
<1>3. ASSUME NEW r \in c.cameras, d \in CameraClaims(e, r, at, by)
      PROVE  Spelled(d) \/ CameraTold(d, c, obs)
  <2> HIDE DEF by
  <2> DEFINE subject == <<e, "camera-record", r.id>>
             place   == Spatial(subject, "reported_infrastructure_location", r.place,
                                <<at, r.id>>, by)
             claim   == Claim("information_artifact", subject, IsCamera,
                              <<at, r.id, r.status, r.video>>, r.rest, by)
  <2>1. CameraClaims(e, r, at, by) = place \union {claim}
    BY DEF CameraClaims, Artifact, IsCamera
  <2>2. CameraTold(claim, c, obs)
    <3>1. /\ claim.predicate = IsCamera /\ claim.value = r.rest
          /\ claim.id[2] = <<at, r.id, r.status, r.video>>
      BY PartsAre
    <3> HIDE DEF claim
    <3> QED BY <3>1 DEF CameraTold
  <2>3. "reported_infrastructure_location" \notin OwnPredicates
    BY DEF OwnPredicates, NegativeEvidence
  <2>4. Tells(place)
    BY <2>3, TuplesEnd, SpatialTells
  <2> HIDE DEF place, claim
  <2> QED BY <1>3, <2>1, <2>2, <2>4 DEF Tells
<1> HIDE DEF scope
<1> QED BY <1>1, <1>2, <1>3 DEF Tells

-----------------------------------------------------------------------------
(* Everything that is said of one entity                                   *)

\* A component is what its name says, and its claims can be told apart.
Described(comps) ==
  \A k \in DOMAIN comps \ {"observation", "health"} :
    comps[k] # None => comps[k].kind = k /\ Plain(comps[k]) /\ Single(comps[k])

\* A claim that is identified by the time at which the entity was checked.
Dated(d, comps, obs) ==
  \/ Has(comps, "events") /\ EventTold(d, comps["events"], obs)
  \/ Has(comps, "alerts") /\ AlertTold(d, comps["alerts"], obs)
  \/ Has(comps, "cameras") /\ CameraTold(d, comps["cameras"], obs)

\* What qualifies the claims of an entity.
Qualifying(comps) == IF Has(comps, "observation") THEN comps["observation"] ELSE None

LEMMA RemoteSays ==
  ASSUME NEW e, NEW comps, Described(comps),
         ({"health", "usb", "wifi"} \union BandedKinds) \intersect DOMAIN comps = {},
         NEW d \in EntityClaims(e, comps)
  PROVE  Spelled(d) \/ Dated(d, comps, Qualifying(comps))
<1> DEFINE obs == Qualifying(comps)
           O == ObservationClaims(e, obs)
           N == TrafficEvents(e, comps["events"], obs)
           A == TrafficFlow(e, comps["flow"], obs)
           B == WeatherState(e, comps["weather"], obs)
           C == DailyForecast(e, comps["daily"], obs)
           D == HourlyForecast(e, comps["hourly"], obs)
           E == SurfaceNetwork(e, comps["surface"], obs)
           F == WeatherEstimate(e, comps["estimate"])
           G == WeatherAlerts(e, comps["alerts"], obs)
           H == RadarMosaic(e, comps["mosaic"], obs)
           I == RadarContext(e, comps["context"], obs)
           J == TrafficCameras(e, comps["cameras"], obs)
           K == TrafficMessageSigns(e, comps["signs"], obs)
           L == TrafficSituation(e, comps["situation"], obs)
           M == SystemState(e, comps, obs)
           Own(k, claims) == When(Has(comps, k), claims)
<1>1. EntityClaims(e, comps) = Own("observation", O) \union Own("flow", A)
        \union Own("events", N) \union Own("weather", B) \union Own("daily", C)
        \union Own("hourly", D) \union Own("surface", E) \union Own("estimate", F)
        \union Own("alerts", G) \union Own("mosaic", H) \union Own("context", I)
        \union Own("cameras", J) \union Own("signs", K) \union Own("situation", L)
        \union M
  BY DEF EntityClaims, Qualifying
<1>2. M = {}
  BY NoSystem DEF BandedKinds
<1>3. \A k \in DOMAIN comps \ {"observation", "health"} :
        Has(comps, k) => comps[k].kind = k /\ Plain(comps[k])
  BY DEF Described, Has
<1>4. Has(comps, "flow") => Tells(A)
  BY <1>3, FlowTells DEF Plain, Has
<1>5. /\ Has(comps, "weather") => Tells(B)
      /\ Has(comps, "daily") => Tells(C)
      /\ Has(comps, "estimate") => Tells(F)
  BY <1>3, WeatherTells DEF Plain, Has
<1>6. Has(comps, "hourly") => Tells(D)
  BY <1>3, HourlyTells DEF Plain, Has
<1>7. Has(comps, "surface") => Tells(E)
  BY <1>3, SurfaceTells DEF Plain, Has
<1>8. Tells(O) /\ Tells(H) /\ Tells(I) /\ Tells(K) /\ Tells(L)
  BY ObservationTells, RadarTells, SignsTell, SituationTells
<1>9. Has(comps, "events") /\ d \in N => Spelled(d) \/ EventTold(d, comps["events"], obs)
  BY <1>3, EventsTell DEF Plain, Has
<1>10. Has(comps, "alerts") /\ d \in G => Spelled(d) \/ AlertTold(d, comps["alerts"], obs)
  BY <1>3, AlertsTell DEF Plain, Has
<1>11. d \in J => Spelled(d) \/ CameraTold(d, comps["cameras"], obs)
  BY CamerasTell
<1> HIDE DEF obs, O, N, A, B, C, D, E, F, G, H, I, J, K, L, M
<1>12. \A k, claims : d \in Own(k, claims) => Has(comps, k) /\ d \in claims
  BY DEF When
<1> HIDE DEF Own
<1>13. Spelled(d) \/ Dated(d, comps, obs)
  BY <1>1, <1>2, <1>4, <1>5, <1>6, <1>7, <1>8, <1>9, <1>10, <1>11, <1>12 DEF Tells, Dated
<1> QED BY <1>13 DEF obs

-----------------------------------------------------------------------------
(* What is said of the machine                                             *)

\* What a claim about a local entity says.
LocalValue(predicate, identity) ==
  CASE predicate = IsAvailability -> identity[2]
    [] predicate = "new_observation_unavailable" -> "true"
    [] predicate = IsHealth -> identity[1]
    [] predicate = "usb_device_present" -> Truth(identity[2])
    [] predicate = "wifi_connected" -> Truth(identity[2][2])
    [] OTHER -> ToString(identity[3])

\* The claim is of the machine, and tells what its identity does.
SpelledHere(c) ==
  c.predicate \notin Timed /\ c.value = LocalValue(c.predicate, c.id[2])

TellsHere(claims) == \A c \in claims : SpelledHere(c)

LEMMA WhenHere ==
  ASSUME NEW condition, NEW claims, condition => TellsHere(claims)
  PROVE  TellsHere(When(condition, claims))
BY DEF TellsHere, When

LEMMA LocalValues ==
  /\ {"observation_availability", "new_observation_unavailable", "health_status",
      "usb_device_present", "wifi_connected", "cpu_utilization", "memory_used",
      "storage_used", "temperature", "wifi_signal"} \intersect Timed = {}
  /\ \A i : /\ LocalValue("observation_availability", i) = i[2]
            /\ LocalValue("new_observation_unavailable", i) = "true"
            /\ LocalValue("health_status", i) = i[1]
            /\ LocalValue("usb_device_present", i) = Truth(i[2])
            /\ LocalValue("wifi_connected", i) = Truth(i[2][2])
            /\ \A p \in {"cpu_utilization", "memory_used", "storage_used", "temperature",
                         "wifi_signal"} : LocalValue(p, i) = ToString(i[3])
<1>1. {"observation_availability", "new_observation_unavailable", "health_status",
       "usb_device_present", "wifi_connected", "cpu_utilization", "memory_used",
       "storage_used", "temperature", "wifi_signal"} \intersect Timed = {}
  BY DEF Timed, IsEvent, IsAlert, IsCamera
<1>2. ASSUME NEW i
      PROVE  /\ LocalValue("observation_availability", i) = i[2]
             /\ LocalValue("new_observation_unavailable", i) = "true"
             /\ LocalValue("health_status", i) = i[1]
             /\ LocalValue("usb_device_present", i) = Truth(i[2])
             /\ LocalValue("wifi_connected", i) = Truth(i[2][2])
             /\ \A p \in {"cpu_utilization", "memory_used", "storage_used", "temperature",
                          "wifi_signal"} : LocalValue(p, i) = ToString(i[3])
  <2> DEFINE present   == Truth(i[2])
             connected == Truth(i[2][2])
             level     == ToString(i[3])
  <2>1. \A p : LocalValue(p, i) =
          CASE p = IsAvailability -> i[2]
            [] p = "new_observation_unavailable" -> "true"
            [] p = IsHealth -> i[1]
            [] p = "usb_device_present" -> present
            [] p = "wifi_connected" -> connected
            [] OTHER -> level
    BY DEF LocalValue
  <2> HIDE DEF present, connected, level
  <2>2. /\ LocalValue("observation_availability", i) = i[2]
        /\ LocalValue("new_observation_unavailable", i) = "true"
        /\ LocalValue("health_status", i) = i[1]
        /\ LocalValue("usb_device_present", i) = present
        /\ LocalValue("wifi_connected", i) = connected
        /\ \A p \in {"cpu_utilization", "memory_used", "storage_used", "temperature",
                     "wifi_signal"} : LocalValue(p, i) = level
    BY <2>1 DEF IsAvailability, IsHealth
  <2> QED BY <2>2 DEF present, connected, level
<1> QED BY <1>1, <1>2

LEMMA ClaimHere ==
  ASSUME NEW kind, NEW subject, NEW predicate, NEW identity, NEW value, NEW by,
         predicate \notin Timed, value = LocalValue(predicate, identity)
  PROVE  TellsHere({Claim(kind, subject, predicate, identity, value, by)})
BY PartsAre DEF TellsHere, SpelledHere

LEMMA LevelHere ==
  ASSUME NEW comps, NEW kind, NEW subject, NEW at, NEW by,
         NEW predicate \in {"cpu_utilization", "memory_used", "storage_used", "temperature"}
  PROVE  TellsHere(Level(comps, kind, subject, predicate, at, by))
<1> DEFINE level == ToString(comps[kind].level)
           claim == { Claim("measurement", subject, predicate,
                        <<at, comps[kind].meaning, comps[kind].level>>, level, by) }
           known == Has(comps, kind) /\ comps[kind].level # None
<1>1. predicate \notin Timed
  BY LocalValues
<1>2. level = LocalValue(predicate, <<at, comps[kind].meaning, comps[kind].level>>)
  BY LocalValues
<1> HIDE DEF level
<1>3. TellsHere(claim)
  BY <1>1, <1>2, ClaimHere
<1>4. Level(comps, kind, subject, predicate, at, by) = When(known, claim)
  BY DEF Level, level
<1> HIDE DEF known, claim
<1> QED BY <1>3, <1>4, WhenHere

LEMMA SystemHere ==
  ASSUME NEW e, NEW comps, NEW obs,
         Has(comps, "wifi") => comps["wifi"].connected = comps["wifi"].meaning[2]
  PROVE  TellsHere(SystemState(e, comps, obs))
<1> DEFINE at    == CheckedAt(obs)
           by    == Provider(e, obs)
           wifi  == comps["wifi"]
           there == Truth(comps["usb"].present)
           up    == Truth(wifi.connected)
           level == ToString(wifi.signal)
           condition == { Condition(e, "health_status",
                            <<comps["health"].status, comps["health"].reasons>>,
                            comps["health"].status, Local(e)) }
           usb   == { Condition(e, "usb_device_present",
                        <<at, comps["usb"].present, comps["usb"].mode>>, there, by) }
           link  == { Condition(e, "wifi_connected", <<at, wifi.meaning>>, up, by) }
           signal == { Claim("measurement", <<e, "wifi-link">>, "wifi_signal",
                         <<at, wifi.meaning[1], wifi.signal>>, level, by) }
           air   == link \union When(wifi.signal # None, signal)
           A == When(Has(comps, "health"), condition)
           B == Level(comps, "compute", <<e>>, "cpu_utilization", at, by)
           C == Level(comps, "memory", <<e>>, "memory_used", at, by)
           D == Level(comps, "storage", <<e, "storage">>, "storage_used", at, by)
           E == Level(comps, "temperature", <<e>>, "temperature", at, by)
           F == When(Has(comps, "usb"), usb)
           G == When(Has(comps, "wifi"), air)
<1>1. SystemState(e, comps, obs)
        = A \union B \union C \union D \union E \union F \union G
  BY DEF SystemState
<1>2. /\ "health_status" \notin Timed /\ "usb_device_present" \notin Timed
      /\ "wifi_connected" \notin Timed /\ "wifi_signal" \notin Timed
  BY LocalValues
<1>3. /\ \A a, b : LocalValue("health_status", <<a, b>>) = a
      /\ there = LocalValue("usb_device_present",
                            <<at, comps["usb"].present, comps["usb"].mode>>)
      /\ level = LocalValue("wifi_signal", <<at, wifi.meaning[1], wifi.signal>>)
  BY LocalValues
<1>4. Has(comps, "wifi") => up = LocalValue("wifi_connected", <<at, wifi.meaning>>)
  <2>1. LocalValue("wifi_connected", <<at, wifi.meaning>>) = Truth(wifi.meaning[2])
    BY LocalValues
  <2> QED BY <2>1
<1> HIDE DEF there, up, level
<1>5. TellsHere(condition) /\ TellsHere(usb) /\ TellsHere(signal)
  BY <1>2, <1>3, ClaimHere DEF Condition
<1>6. Has(comps, "wifi") => TellsHere(link)
  BY <1>2, <1>4, ClaimHere DEF Condition
<1> HIDE DEF condition, usb, link, signal
<1>7. Has(comps, "wifi") => TellsHere(air)
  BY <1>5, <1>6 DEF TellsHere, When
<1> HIDE DEF air
<1>8. TellsHere(A) /\ TellsHere(F) /\ TellsHere(G)
  BY <1>5, <1>7, WhenHere
<1>9. TellsHere(B) /\ TellsHere(C) /\ TellsHere(D) /\ TellsHere(E)
  BY LevelHere
<1> HIDE DEF A, B, C, D, E, F, G
<1> QED BY <1>1, <1>8, <1>9 DEF TellsHere

\* An entity of the machine makes claims of its ObservationState and its parts.
LEMMA LocalSays ==
  ASSUME NEW e, NEW comps, Described(comps),
         DOMAIN comps \subseteq {"observation", "health", "uptime"} \union Bearing,
         NEW d \in EntityClaims(e, comps)
  PROVE  SpelledHere(d)
<1> DEFINE obs == Qualifying(comps)
           O   == ObservationClaims(e, obs)
           M   == SystemState(e, comps, obs)
<1>1. d \in O \/ d \in M
  BY LocalParts DEF When, Qualifying
<1>2. d \in M => SpelledHere(d)
  <2>1. Has(comps, "wifi") => comps["wifi"].connected = comps["wifi"].meaning[2]
    BY DEF Described, Plain, Has
  <2> HIDE DEF obs
  <2> QED BY <2>1, SystemHere DEF TellsHere
<1>3. d \in O => SpelledHere(d)
  <2>1. d \in O => d.predicate \in {IsAvailability, "new_observation_unavailable"} /\ Spelled(d)
    BY ObservationSays, ObservationTells DEF Tells
  <2>2. \A p \in {IsAvailability, "new_observation_unavailable"} : \A i :
          LocalValue(p, i) = RemoteValue(p, i)
    BY FixedValues, LocalValues DEF IsAvailability, Truth
  <2> HIDE DEF O
  <2> QED BY <2>1, <2>2 DEF Spelled, SpelledHere
<1> QED BY <1>1, <1>2, <1>3

-----------------------------------------------------------------------------
(* What one entity says at one time and at another                         *)

SpelledOf(e, c) == IF e \in LocalEntities THEN SpelledHere(c) ELSE Spelled(c)

LEMMA SpelledOnce ==
  ASSUME NEW e, NEW c, NEW d, SpelledOf(e, c), SpelledOf(e, d),
         c.predicate = d.predicate, c.id = d.id
  PROVE  c.value = d.value
BY DEF SpelledOf, Spelled, SpelledHere

\* The time at which the entity of a timed claim was checked.
TimeIn(c) ==
  IF c.predicate = IsEvent THEN c.id[2][4]
  ELSE IF c.predicate = IsAlert THEN c.id[2][5] ELSE c.id[2][1]

LEMMA TimedApart == IsEvent # IsAlert /\ IsEvent # IsCamera /\ IsAlert # IsCamera
BY DEF IsEvent, IsAlert, IsCamera

LEMMA DatedIs ==
  ASSUME NEW c, NEW comps, NEW obs, Dated(c, comps, obs)
  PROVE  /\ c.predicate \in Timed /\ TimeIn(c) = CheckedAt(obs)
         /\ \E k \in DOMAIN comps \ {"observation", "health"} : comps[k] # None
<1>1. CASE Has(comps, "events") /\ EventTold(c, comps["events"], obs)
  BY <1>1 DEF Has, EventTold, Timed, TimeIn
<1>2. CASE Has(comps, "alerts") /\ AlertTold(c, comps["alerts"], obs)
  BY <1>2, TimedApart DEF Has, AlertTold, Timed, TimeIn
<1>3. CASE Has(comps, "cameras") /\ CameraTold(c, comps["cameras"], obs)
  BY <1>3, TimedApart DEF Has, CameraTold, Timed, TimeIn
<1> QED BY <1>1, <1>2, <1>3 DEF Dated

\* Of one check, an identity has one description.
LEMMA DatedOnce ==
  ASSUME NEW comps, Described(comps), NEW obs, NEW c, NEW d,
         Dated(c, comps, obs), Dated(d, comps, obs),
         c.predicate = d.predicate, c.id = d.id
  PROVE  c.value = d.value
<1>1. ASSUME EventTold(c, comps["events"], obs), EventTold(d, comps["events"], obs),
             Has(comps, "events")
      PROVE  c.value = d.value
  <2>1. Single(comps["events"]) /\ comps["events"].kind = "events"
    BY <1>1 DEF Described, Has
  <2>2. PICK r \in comps["events"].events :
          c.id[2] = <<r.id, r.updated, r.reported, CheckedAt(obs)>> /\ c.value = r.rest
    BY <1>1 DEF EventTold
  <2>3. PICK s \in comps["events"].events :
          d.id[2] = <<s.id, s.updated, s.reported, CheckedAt(obs)>> /\ d.value = s.rest
    BY <1>1 DEF EventTold
  <2>4. r.id = s.id /\ r.updated = s.updated /\ r.reported = s.reported
    BY <2>2, <2>3
  <2> QED BY <2>1, <2>2, <2>3, <2>4 DEF Single
<1>2. ASSUME AlertTold(c, comps["alerts"], obs), AlertTold(d, comps["alerts"], obs),
             Has(comps, "alerts")
      PROVE  c.value = d.value
  <2>1. Single(comps["alerts"]) /\ comps["alerts"].kind = "alerts"
    BY <1>2 DEF Described, Has
  <2>2. PICK a \in comps["alerts"].alerts :
          /\ c.id[2] = <<a.id, a.sent, a.effective, a.expires, CheckedAt(obs)>>
          /\ c.value = a.rest
    BY <1>2 DEF AlertTold
  <2>3. PICK b \in comps["alerts"].alerts :
          /\ d.id[2] = <<b.id, b.sent, b.effective, b.expires, CheckedAt(obs)>>
          /\ d.value = b.rest
    BY <1>2 DEF AlertTold
  <2>4. a.id = b.id /\ a.sent = b.sent /\ a.effective = b.effective /\ a.expires = b.expires
    BY <2>2, <2>3
  <2> QED BY <2>1, <2>2, <2>3, <2>4 DEF Single
<1>3. ASSUME CameraTold(c, comps["cameras"], obs), CameraTold(d, comps["cameras"], obs),
             Has(comps, "cameras")
      PROVE  c.value = d.value
  <2>1. Single(comps["cameras"]) /\ comps["cameras"].kind = "cameras"
    BY <1>3 DEF Described, Has
  <2>2. PICK r \in comps["cameras"].cameras :
          c.id[2] = <<CheckedAt(obs), r.id, r.status, r.video>> /\ c.value = r.rest
    BY <1>3 DEF CameraTold
  <2>3. PICK s \in comps["cameras"].cameras :
          d.id[2] = <<CheckedAt(obs), s.id, s.status, s.video>> /\ d.value = s.rest
    BY <1>3 DEF CameraTold
  <2>4. r.id = s.id /\ r.status = s.status /\ r.video = s.video
    BY <2>2, <2>3
  <2> QED BY <2>1, <2>2, <2>3, <2>4 DEF Single
<1>4. \A f : /\ EventTold(f, comps["events"], obs) => f.predicate = IsEvent
             /\ AlertTold(f, comps["alerts"], obs) => f.predicate = IsAlert
             /\ CameraTold(f, comps["cameras"], obs) => f.predicate = IsCamera
  BY DEF EventTold, AlertTold, CameraTold
<1> QED BY <1>1, <1>2, <1>3, <1>4, TimedApart DEF Dated

\* A claim is either spelled by its identity or one of the last check.
LEMMA EntitySays ==
  ASSUME NEW e \in Entities, NEW comps, DOMAIN comps = Kinds[e], Described(comps),
         NEW d \in EntityClaims(e, comps)
  PROVE  SpelledOf(e, d) \/ Dated(d, comps, comps["observation"])
<1>1. Qualifying(comps) = comps["observation"]
  BY KindsAssumption DEF Qualifying, Has, Entities
<1>2. CASE e \in LocalEntities
  BY <1>2, LocalKinds, LocalSays DEF SpelledOf
<1>3. CASE e \notin LocalEntities
  <2>1. ({"health", "usb", "wifi"} \union BandedKinds) \intersect DOMAIN comps = {}
    BY <1>3, EntitiesAssumption DEF LocalEntities, Entities
  <2> QED BY <1>1, <1>3, <2>1, RemoteSays DEF SpelledOf
<1> QED BY <1>2, <1>3

-----------------------------------------------------------------------------
(* What has to be known of the state                                       *)

\* An ObservationState is not the absence of one: what None stands for is no record.
RecordsAreSomething ==
  \A e, comps, batch, at : ObservationOf(e, comps, batch, at) # None

\* Nothing is known of an entity that was never checked; no check is of the future.
Checked(e) ==
  LET obs == world[e]["observation"]
  IN /\ obs = None => \A k \in Kinds[e] \ {"observation", "health"} : world[e][k] = None
     /\ obs # None => obs.checked \in Nat /\ obs.checked <= clock
     /\ born # 0 /\ e \in Collected => obs # None

\* A batch that is half-written is younger than what qualifies its entity now.
Later(t) ==
  LET w == writing[t]
  IN w # None =>
       /\ born # 0
       /\ w.at \in Nat /\ w.at <= clock
       /\ world[w.entity]["observation"].checked < w.at

\* A claim that was heard holds whatever has happened since, or it is of a check
\* that has not been repeated, and then it is still made, by this process or the
\* next, unless its entity is half-written.
Holds(e, c) ==
  LET obs == world[e]["observation"]
  IN \/ SpelledOf(e, c)
     \/ /\ c.predicate \in Timed
        /\ obs # None /\ TimeIn(c) \in Nat /\ TimeIn(c) <= obs.checked
        /\ e \in Whole /\ TimeIn(c) = obs.checked => c \in EntityClaims(e, world[e])

IdInv ==
  /\ clock \in Nat
  /\ \A e \in Entities : Described(world[e]) /\ Checked(e)
  /\ \A t \in Threads : Later(t)
  /\ \A e \in Entities : \A c \in Heard(e) : Holds(e, c)

LEMMA StoredDescribed ==
  ASSUME NEW e \in Entities, NEW batch \in Batches[e], NEW comps, DOMAIN comps = Kinds[e],
         Described(comps)
  PROVE  LET s == Stored(comps, batch)
         IN /\ DOMAIN s = Kinds[e] /\ Described(s)
            /\ s["observation"] = comps["observation"]
<1> DEFINE new(k) == {i \in DOMAIN batch :
                        batch[i].value # None /\ batch[i].value.kind = k}
           s == Stored(comps, batch)
<1>1. s = [k \in DOMAIN comps |->
             IF new(k) = {} THEN comps[k] ELSE batch[Max(new(k))].value]
  BY DEF Stored
<1>2. ASSUME NEW k, new(k) # {} PROVE Max(new(k)) \in new(k)
  <2>1. Len(batch) \in Nat /\ new(k) \subseteq 1..Len(batch)
    BY BatchesAssumption DEF Entities
  <2> HIDE DEF new
  <2> QED BY <1>2, <2>1, MaxIs
<1>3. new("observation") = {}
  BY BatchesAssumption DEF Entities
<1>4. ASSUME NEW k, NEW i \in new(k)
      PROVE  batch[i].value.kind = k /\ Plain(batch[i].value) /\ Single(batch[i].value)
  BY ClaimsAssumption, FeedsAssumption DEF Entities
<1>5. "observation" \in Kinds[e]
  BY KindsAssumption DEF Entities
<1> HIDE DEF new, s
<1>6. DOMAIN s = Kinds[e] /\ s["observation"] = comps["observation"]
  BY <1>1, <1>3, <1>5
<1>7. ASSUME NEW k \in DOMAIN s \ {"observation", "health"}, s[k] # None
      PROVE  s[k].kind = k /\ Plain(s[k]) /\ Single(s[k])
  <2>1. CASE new(k) = {}
    BY <1>1, <1>7, <2>1 DEF Described
  <2>2. CASE new(k) # {}
    <3>1. s[k] = batch[Max(new(k))].value
      BY <1>1, <1>7, <2>2
    <3> QED BY <1>2, <1>4, <2>2, <3>1
  <2> QED BY <2>1, <2>2
<1>8. Described(s)
  BY <1>7 DEF Described
<1> QED BY <1>6, <1>8 DEF s

LEMMA QualifiedDescribed ==
  ASSUME RecordsAreSomething, NEW e \in Entities, NEW comps, DOMAIN comps = Kinds[e],
         Described(comps), NEW batch, NEW at
  PROVE  LET q == QualifiedBy(e, comps, batch, at)
         IN /\ DOMAIN q = Kinds[e] /\ Described(q)
            /\ q["observation"] # None /\ q["observation"].checked = at
<1> DEFINE obs      == ObservationOf(e, comps, batch, at)
           observed == [comps EXCEPT !["observation"] = obs]
           health   == Evaluate(observed, config.thresholds)
           checked  == [observed EXCEPT !["health"] = health]
           q        == QualifiedBy(e, comps, batch, at)
<1>1. q = IF e \in LocalEntities THEN checked ELSE observed
  BY DEF QualifiedBy
<1>2. obs # None /\ obs.checked = at
  <2>1. obs.checked = at
    BY DEF ObservationOf
  <2>2. obs # None
    BY DEF RecordsAreSomething
  <2> QED BY <2>1, <2>2
<1>3. "observation" \in Kinds[e]
  BY KindsAssumption DEF Entities
<1> HIDE DEF obs
<1>4. /\ DOMAIN observed = Kinds[e] /\ observed["observation"] = obs
      /\ \A k \in Kinds[e] \ {"observation"} : observed[k] = comps[k]
  BY <1>3
<1> HIDE DEF observed, health
<1>5. /\ DOMAIN q = Kinds[e] /\ q["observation"] = obs
      /\ \A k \in Kinds[e] \ {"observation", "health"} : q[k] = comps[k]
  BY <1>1, <1>3, <1>4
<1> HIDE DEF q
<1>6. Described(q)
  BY <1>5 DEF Described
<1> QED BY <1>2, <1>5, <1>6 DEF q

-----------------------------------------------------------------------------
(* It stays so                                                             *)

LEMMA InitIds == ReadInit => IdInv
<1> SUFFICES ASSUME ReadInit PROVE IdInv
  OBVIOUS
<1>1. \A e \in Entities :
        /\ DOMAIN world[e] = Kinds[e] /\ "observation" \in Kinds[e]
        /\ \A k \in Kinds[e] : world[e][k] = None
  BY KindsAssumption DEF ReadInit, Entities
<1>2. (\A t \in Threads : writing[t] = None) /\ answer = None /\ clock = 0 /\ born = 0
  BY DEF ReadInit
<1>3. \A e \in Entities : Described(world[e]) /\ Checked(e)
  BY <1>1, <1>2 DEF Described, Checked
<1>4. \A t \in Threads : Later(t)
  BY <1>2 DEF Later
<1>5. \A e \in Entities : Heard(e) = {}
  BY <1>2 DEF Heard
<1> QED BY <1>2, <1>3, <1>4, <1>5 DEF IdInv

\* Every entity that is asked for is checked again when a process starts; the
\* others are as they were, and whole if they were.
LEMMA StartIds ==
  ASSUME RecordsAreSomething, EarnedInv, IdInv, Start
  PROVE  IdInv'
<1>1. PICK batch \in [LocalEntities -> UNION {Batches[e] : e \in LocalEntities}] :
        /\ \A e \in LocalEntities : batch[e] \in Batches[e]
        /\ world' = [e \in Entities |->
             IF e \in LocalEntities
             THEN QualifiedBy(e, Stored(world[e], batch[e]), batch[e], clock + 1)
             ELSE IF e \in Withdrawn THEN Withdraw(e, world[e], clock + 1)
             ELSE world[e]]
  BY DEF Start
<1>2. /\ UNCHANGED <<config, writing, answer>> /\ born = 0
      /\ clock' = clock + 1 /\ born' = clock + 1 /\ clock \in Nat
      /\ torn' = torn \ Collected
  BY DEF Start, IdInv, client
<1>3. Collected' = Collected
  BY <1>2 DEF Collected, Withdrawn, Enabled
<1>4. ASSUME NEW e \in Collected \intersect Entities
      PROVE  /\ Described(world'[e]) /\ world'[e]["observation"] # None
             /\ world'[e]["observation"].checked = clock + 1
  <2>1. DOMAIN world[e] = Kinds[e] /\ Described(world[e])
    BY DEF EarnedInv, Kept, IdInv
  <2>2. CASE e \in LocalEntities
    <3> DEFINE stored    == Stored(world[e], batch[e])
               qualified == QualifiedBy(e, stored, batch[e], clock + 1)
    <3>1. DOMAIN stored = Kinds[e] /\ Described(stored)
      BY <1>1, <2>1, <2>2, StoredDescribed
    <3>2. world'[e] = qualified
      BY <1>1, <2>2
    <3> HIDE DEF stored
    <3>3. /\ Described(qualified) /\ qualified["observation"] # None
          /\ qualified["observation"].checked = clock + 1
      BY <3>1, QualifiedDescribed
    <3> QED BY <3>2, <3>3
  <2>3. CASE e \notin LocalEntities
    <3> DEFINE nobody    == <<Unavailable(Adapter[e], "awaiting fresh observation")>>
               qualified == QualifiedBy(e, world[e], nobody, clock + 1)
    <3>1. Withdraw(e, world[e], clock + 1) = qualified
      BY DEF Withdraw
    <3> HIDE DEF nobody
    <3>2. world'[e] = qualified
      BY <1>1, <2>3, <3>1 DEF Collected
    <3>3. /\ Described(qualified) /\ qualified["observation"] # None
          /\ qualified["observation"].checked = clock + 1
      BY <2>1, QualifiedDescribed
    <3> QED BY <3>2, <3>3
  <2> QED BY <2>2, <2>3
<1>5. ASSUME NEW e \in Entities \ Collected
      PROVE  world'[e] = world[e] /\ (e \in Whole' => e \in Whole)
  BY <1>1, <1>2 DEF Collected, Whole, Half
<1>6. ASSUME NEW e \in Entities PROVE Described(world'[e]) /\ Checked(e)'
  <2>1. CASE e \in Collected
    BY <1>2, <1>4, <2>1 DEF Checked
  <2>2. CASE e \notin Collected
    BY <1>2, <1>3, <1>5, <2>2 DEF Checked, IdInv
  <2> QED BY <2>1, <2>2
<1>7. \A t \in Threads : writing[t] = None
  BY <1>2 DEF IdInv, Later
<1>8. \A t \in Threads : Later(t)'
  BY <1>2, <1>7 DEF Later
<1>9. ASSUME NEW e \in Entities, NEW c \in Heard(e) PROVE Holds(e, c)'
  <2>1. Holds(e, c)
    BY DEF IdInv
  <2>2. CASE SpelledOf(e, c)
    BY <2>2 DEF Holds
  <2>3. CASE ~SpelledOf(e, c) /\ e \in Collected
    <3>1. /\ c.predicate \in Timed /\ world[e]["observation"] # None
          /\ TimeIn(c) \in Nat /\ TimeIn(c) <= world[e]["observation"].checked
      BY <2>1, <2>3 DEF Holds
    <3>2. /\ world[e]["observation"].checked \in Nat
          /\ world[e]["observation"].checked <= clock
      BY <3>1 DEF IdInv, Checked
    <3>3. /\ world'[e]["observation"] # None
          /\ world'[e]["observation"].checked = clock + 1
      BY <1>4, <2>3
    <3>4. TimeIn(c) < clock + 1
      BY <1>2, <3>1, <3>2
    <3>5. /\ TimeIn(c) <= world'[e]["observation"].checked
          /\ TimeIn(c) # world'[e]["observation"].checked
      BY <1>2, <3>1, <3>3, <3>4
    <3> QED BY <3>1, <3>3, <3>5 DEF Holds
  <2>4. CASE e \notin Collected
    BY <1>5, <2>1, <2>4 DEF Holds
  <2> QED BY <2>2, <2>3, <2>4
<1>10. \A e \in Entities : Heard(e)' = Heard(e)
  BY <1>2 DEF Heard
<1> QED BY <1>2, <1>6, <1>8, <1>9, <1>10 DEF IdInv

\* The values of a batch arrive: their entity is not whole until it is checked.
LEMMA CollectIds ==
  ASSUME RecordsAreSomething, EarnedInv, IdInv, NEW e \in focus, NEW batch \in Batches[e],
         Collect(e, batch)
  PROVE  IdInv'
<1> DEFINE t      == Owner[e]
           stored == Stored(world[e], batch)
           w      == [entity |-> e, batch |-> batch, at |-> clock + 1]
           obs    == world[e]["observation"]
<1>1. /\ e \in Collected /\ e \in Entities /\ t \in Threads /\ born # 0
      /\ clock' = clock + 1 /\ clock \in Nat
      /\ UNCHANGED <<config, born, torn, answer>>
      /\ world' = [world EXCEPT ![e] = stored]
      /\ writing' = [writing EXCEPT ![t] = w]
  BY DEF Collect, Collected, LocalEntities, Withdrawn, Threads, IdInv, client
<1>2. w.entity = e /\ w.at = clock + 1 /\ w # None
  <2>1. w.entity = e /\ w.at = clock + 1
    OBVIOUS
  <2>2. w # None
    BY <1>1, BoundsAssumption, RecordsAssumption DEF Collect, Entities
  <2> QED BY <2>1, <2>2
<1> HIDE DEF w
<1>3. /\ DOMAIN world[e] = Kinds[e] /\ Described(world[e])
      /\ obs # None /\ obs.checked \in Nat /\ obs.checked <= clock
  BY <1>1 DEF EarnedInv, Kept, IdInv, Checked
<1>4. DOMAIN stored = Kinds[e] /\ Described(stored) /\ stored["observation"] = obs
  BY <1>1, <1>3, StoredDescribed
<1> HIDE DEF stored
<1>5. /\ world'[e] = stored /\ \A d \in Entities \ {e} : world'[d] = world[d]
      /\ writing'[t] = w /\ \A u \in Threads \ {t} : writing'[u] = writing[u]
  BY <1>1 DEF EarnedInv
<1>6. Collected' = Collected
  BY <1>1 DEF Collected, Withdrawn, Enabled
<1>7. \A d \in Entities : world'[d]["observation"] = world[d]["observation"]
  BY <1>4, <1>5
<1>8. ASSUME NEW d \in Entities PROVE Described(world'[d]) /\ Checked(d)'
  <2>1. Described(world[d]) /\ Checked(d)
    BY DEF IdInv
  <2>2. Described(world'[d])
    BY <1>4, <1>5, <2>1
  <2>3. CASE d = e
    <3>1. world'[e]["observation"] = obs
      BY <1>1, <1>7
    <3>2. obs.checked <= clock'
      BY <1>1, <1>3
    <3> HIDE DEF obs
    <3> QED BY <1>3, <2>2, <2>3, <3>1, <3>2 DEF Checked
  <2>4. CASE d # e
    BY <1>1, <1>5, <1>6, <2>1, <2>4 DEF Checked
  <2> QED BY <2>2, <2>3, <2>4
<1>9. Later(t)'
  BY <1>1, <1>2, <1>3, <1>5, <1>7 DEF Later
<1>10. ASSUME NEW u \in Threads \ {t} PROVE Later(u)'
  <2>1. writing[u] # None => writing[u].entity \in Entities
    BY DEF EarnedInv, Arrived, Collected, LocalEntities, Withdrawn
  <2>2. Later(u) /\ writing'[u] = writing[u]
    BY <1>5 DEF IdInv
  <2> QED BY <1>1, <1>7, <2>1, <2>2 DEF Later
<1>11. Whole' \subseteq Whole \ {e}
  <2>1. writing[t] = None
    BY DEF Collect
  <2> QED BY <1>1, <1>2, <1>5, <2>1 DEF Whole, Half
<1>12. ASSUME NEW d \in Entities, NEW c \in Heard(d) PROVE Holds(d, c)'
  <2>1. Holds(d, c)
    BY DEF IdInv
  <2>2. d \in Whole' => d \in Whole /\ world'[d] = world[d]
    BY <1>5, <1>11
  <2>3. world'[d]["observation"] = world[d]["observation"]
    BY <1>7
  <2> QED BY <1>1, <2>1, <2>2, <2>3 DEF Holds
<1>13. \A d \in Entities : Heard(d)' = Heard(d)
  BY <1>1 DEF Heard
<1> QED BY <1>1, <1>8, <1>9, <1>10, <1>12, <1>13 DEF IdInv

\* What qualifies them arrives: the entity is checked again, later than before.
LEMMA QualifyIds ==
  ASSUME RecordsAreSomething, EarnedInv, IdInv, NEW t \in Threads, Qualify(t)
  PROVE  IdInv'
<1>0. PICK w, e : w = writing[t] /\ e = w.entity
  OBVIOUS
<1> DEFINE qualified == QualifiedBy(e, world[e], w.batch, w.at)
           obs       == world[e]["observation"]
<1>1. /\ w # None /\ born # 0 /\ clock \in Nat
      /\ UNCHANGED <<config, born, clock, torn, answer>>
      /\ world' = [world EXCEPT ![e] = qualified]
      /\ writing' = [writing EXCEPT ![t] = None]
  BY <1>0 DEF Qualify, process, client, IdInv
<1>2. e \in Collected /\ e \in Entities /\ Owner[e] = t
  BY <1>0, <1>1 DEF EarnedInv, Arrived, Collected, LocalEntities, Withdrawn
<1>3. /\ DOMAIN world[e] = Kinds[e] /\ Described(world[e])
      /\ obs # None /\ obs.checked \in Nat
      /\ w.at \in Nat /\ w.at <= clock /\ obs.checked < w.at
  BY <1>0, <1>1, <1>2 DEF EarnedInv, Kept, IdInv, Checked, Later
<1>4. /\ Described(qualified) /\ qualified["observation"] # None
      /\ qualified["observation"].checked = w.at
  BY <1>2, <1>3, QualifiedDescribed
<1> HIDE DEF qualified
<1>5. /\ world'[e] = qualified /\ \A d \in Entities \ {e} : world'[d] = world[d]
      /\ writing'[t] = None /\ \A u \in Threads \ {t} : writing'[u] = writing[u]
  BY <1>1, <1>2 DEF EarnedInv
<1>6. Collected' = Collected
  BY <1>1 DEF Collected, Withdrawn, Enabled
<1>7. ASSUME NEW d \in Entities PROVE Described(world'[d]) /\ Checked(d)'
  <2>1. CASE d = e
    BY <1>1, <1>3, <1>4, <1>5, <2>1 DEF Checked
  <2>2. CASE d # e
    BY <1>1, <1>5, <1>6, <2>2 DEF Checked, IdInv
  <2> QED BY <2>1, <2>2
<1>8. ASSUME NEW u \in Threads \ {t} PROVE Later(u)'
  <2>1. writing[u] # None => writing[u].entity \in Entities \ {e}
    BY <1>2 DEF EarnedInv, Arrived, Collected, LocalEntities, Withdrawn
  <2>2. Later(u) /\ writing'[u] = writing[u]
    BY <1>5 DEF IdInv
  <2> QED BY <1>1, <1>5, <2>1, <2>2 DEF Later
<1>9. Later(t)'
  BY <1>5 DEF Later
<1>10. Whole' \subseteq Whole \union {e}
  BY <1>0, <1>1, <1>5 DEF Whole, Half
<1>11. ASSUME NEW d \in Entities, NEW c \in Heard(d) PROVE Holds(d, c)'
  <2>1. Holds(d, c)
    BY DEF IdInv
  <2>2. CASE d = e
    <3>1. CASE SpelledOf(e, c)
      BY <2>2, <3>1 DEF Holds
    <3>2. CASE ~SpelledOf(e, c)
      <4>1. c.predicate \in Timed /\ TimeIn(c) \in Nat /\ TimeIn(c) <= obs.checked
        BY <2>1, <2>2, <3>2 DEF Holds
      <4>2. TimeIn(c) <= w.at /\ TimeIn(c) # w.at
        BY <1>3, <4>1
      <4> QED BY <1>4, <1>5, <2>2, <4>1, <4>2 DEF Holds
    <3> QED BY <3>1, <3>2
  <2>3. CASE d # e
    <3>1. world'[d] = world[d] /\ (d \in Whole' => d \in Whole)
      BY <1>5, <1>10, <2>3
    <3> QED BY <1>1, <2>1, <3>1 DEF Holds
  <2> QED BY <2>2, <2>3
<1>12. \A d \in Entities : Heard(d)' = Heard(d)
  BY <1>1 DEF Heard
<1> QED BY <1>1, <1>7, <1>8, <1>9, <1>11, <1>12 DEF IdInv

\* What is told is what is claimed at that moment.
LEMMA RespondIds ==
  ASSUME EarnedInv, IdInv, Respond
  PROVE  IdInv'
<1>1. /\ born # 0 /\ UNCHANGED <<config, born, clock, world, writing, torn>>
      /\ answer'.claims \subseteq WorldClaims(world)
      /\ answer'.half = Half \union torn
  <2>1. born # 0 /\ UNCHANGED <<config, born, clock, world, writing, torn>>
    BY DEF Respond, process
  <2>2. \A page, status, body : Answered(page, status, body) =>
          /\ answer'.claims = IF body # None /\ page = "semantics" THEN body.claims ELSE {}
          /\ answer'.half = Half \union torn
    BY DEF Answered
  <2>3. \/ Answered(request.page, 400, None)
        \/ \E body \in Bodies(request) : Answered(request.page, 200, body)
    BY DEF Respond
  <2>4. ASSUME NEW body \in Bodies(request), request.page = "semantics"
        PROVE  body.claims \subseteq WorldClaims(world)
    <3>1. body \in SemanticPages(world, request.query)
      BY <2>4 DEF Bodies
    <3> DEFINE selected == Selected(WorldClaims(world), request.query)
    <3>2. selected \subseteq WorldClaims(world)
      BY DEF Selected
    <3>3. PICK shown : body.claims = shown /\ shown \subseteq selected
      BY <3>1 DEF SemanticPages, kSubset
    <3> QED BY <3>2, <3>3
  <2> QED BY <2>1, <2>2, <2>3, <2>4
<1>2. Collected' = Collected /\ Whole' = Whole
  BY <1>1 DEF Collected, Withdrawn, Enabled, Whole, Half
<1>3. \A e \in Entities : Described(world'[e]) /\ Checked(e)'
  BY <1>1, <1>2 DEF IdInv, Checked
<1>4. \A t \in Threads : Later(t)'
  BY <1>1 DEF IdInv, Later
<1>5. ASSUME NEW e \in Entities, NEW c \in Heard(e)' PROVE Holds(e, c)'
  <2>1. c \in WorldClaims(world) /\ c.entity = e /\ e \in Whole
    BY <1>1, <1>5 DEF Heard, Whole
  <2>2. PICK d \in Entities : c \in EntityClaims(d, world[d])
    BY <2>1 DEF WorldClaims, EarnedInv
  <2>3. c \in EntityClaims(e, world[e])
    BY <2>1, <2>2, EntityClaimsAre
  <2> DEFINE obs == world[e]["observation"]
  <2>4. /\ DOMAIN world[e] = Kinds[e] /\ Described(world[e]) /\ Checked(e)
    BY DEF EarnedInv, Kept, IdInv
  <2>5. SpelledOf(e, c) \/ Dated(c, world[e], obs)
    BY <2>3, <2>4, EntitySays
  <2>6. ASSUME Dated(c, world[e], obs)
        PROVE  /\ c.predicate \in Timed /\ obs # None
               /\ TimeIn(c) = obs.checked /\ obs.checked \in Nat
    <3>1. /\ c.predicate \in Timed /\ TimeIn(c) = CheckedAt(obs)
          /\ \E k \in Kinds[e] \ {"observation", "health"} : world[e][k] # None
      BY <2>4, <2>6, DatedIs
    <3>2. obs # None /\ obs.checked \in Nat
      BY <2>4, <3>1 DEF Checked
    <3> QED BY <3>1, <3>2 DEF CheckedAt
  <2>7. Holds(e, c)
    BY <2>3, <2>5, <2>6 DEF Holds
  <2> QED BY <1>1, <1>2, <2>7 DEF Holds
<1> QED BY <1>1, <1>3, <1>4, <1>5 DEF IdInv

\* Nothing that was heard is changed: the process goes on, or it has died.
LEMMA SameIds ==
  ASSUME EarnedInv, IdInv, UNCHANGED <<clock, world>>,
         \A e \in Entities : Heard(e)' \subseteq Heard(e),
         \/ UNCHANGED <<config, born, writing, torn>>
         \/ born' = 0 /\ Whole' = Whole /\ \A t \in Threads : writing'[t] = None
  PROVE  IdInv'
<1>1. Whole' = Whole /\ (born' # 0 => Collected' = Collected /\ born # 0)
  BY DEF Collected, Withdrawn, Enabled, Whole, Half
<1>2. \A e \in Entities : Described(world'[e]) /\ Checked(e)'
  BY <1>1 DEF IdInv, Checked
<1>3. \A t \in Threads : Later(t)'
  BY DEF IdInv, Later
<1>4. \A e \in Entities : \A c \in Heard(e)' : Holds(e, c)'
  BY <1>1 DEF IdInv, Holds
<1> QED BY <1>2, <1>3, <1>4 DEF IdInv

LEMMA StepIds ==
  ASSUME RecordsAreSomething, EarnedInv, IdInv, [ReadNext]_readVars
  PROVE  IdInv'
<1>1. CASE UNCHANGED readVars
  BY <1>1, SameIds DEF readVars, process, client, Heard
<1>2. CASE \E raw \in Raws : Configure(raw)
  <2>1. born = 0 /\ UNCHANGED <<clock, born, world, writing, torn, answer>>
    BY <1>2 DEF Configure, EarnedInv, Earned, client
  <2>2. \A t \in Threads : writing[t] = None
    BY <2>1 DEF EarnedInv
  <2>3. \A e \in Entities : Heard(e)' = Heard(e)
    BY <2>1 DEF Heard
  <2>4. Whole' = Whole
    BY <2>1 DEF Whole, Half
  <2> QED BY <2>1, <2>2, <2>3, <2>4, SameIds
<1>3. CASE Start
  BY <1>3, StartIds
<1>4. CASE \E e \in focus : \E batch \in Batches[e] : Collect(e, batch)
  BY <1>4, CollectIds
<1>5. CASE \E t \in Threads : Qualify(t)
  BY <1>5, QualifyIds
<1>6. CASE \E t \in Workers : Raise(t)
  BY <1>6, SameIds DEF Raise, process, client, Heard
<1>7. CASE Die
  <2>1. /\ UNCHANGED <<clock, world, answer>> /\ born' = 0
        /\ torn' = torn \union Half /\ \A t \in Threads : writing'[t] = None
    BY <1>7 DEF Die
  <2>2. \A e \in Entities : Heard(e)' = Heard(e)
    BY <2>1 DEF Heard
  <2>3. Whole' = Whole
    <3>1. Half' = {}
      BY <2>1 DEF Half
    <3> QED BY <2>1, <3>1 DEF Whole
  <2> QED BY <2>1, <2>2, <2>3, SameIds
<1>8. ASSUME answer' = answer \/ answer' = None \/ answer'.claims = {}
      PROVE  \A e \in Entities : Heard(e)' \subseteq Heard(e)
  BY <1>8 DEF Heard
<1>9. CASE \E r \in Requests : Get(r)
  <2>1. answer' = answer \/ answer' = None \/ answer'.claims = {}
    <3>1. \A page, status : Answered(page, status, None) => answer'.claims = {}
      BY DEF Answered
    <3> QED BY <1>9, <3>1 DEF Get
  <2> QED BY <1>8, <1>9, <2>1, SameIds DEF Get, process
<1>10. CASE \E page \in Pages : HeadOf(page)
  <2>1. answer'.claims = {}
    BY <1>10 DEF HeadOf, Answered
  <2> QED BY <1>8, <1>10, <2>1, SameIds DEF HeadOf, process
<1>11. CASE Respond
  BY <1>11, RespondIds
<1> QED
  BY <1>1, <1>2, <1>3, <1>4, <1>5, <1>6, <1>7, <1>9, <1>10, <1>11 DEF ReadNext

LEMMA IdsAreKept == EarnedInv /\ IdInv => AnIdNamesOneClaim
<1> SUFFICES ASSUME EarnedInv, IdInv, born # 0, NEW e \in Whole,
                    NEW c \in EntityClaims(e, world[e]),
                    NEW d \in EntityClaims(e, world[e]) \union Heard(e),
                    c.predicate = d.predicate, c.subject = d.subject, c.id = d.id
             PROVE  c.value = d.value
  BY DEF AnIdNamesOneClaim
<1> DEFINE obs == world[e]["observation"]
<1>1. /\ e \in Entities /\ DOMAIN world[e] = Kinds[e] /\ Described(world[e])
      /\ \A f \in Heard(e) : Holds(e, f)
  BY DEF Whole, EarnedInv, Kept, IdInv
<1>2. \A f \in EntityClaims(e, world[e]) : SpelledOf(e, f) \/ Dated(f, world[e], obs)
  BY <1>1, EntitySays
<1>3. \A f : /\ SpelledOf(e, f) => f.predicate \notin Timed
             /\ Dated(f, world[e], obs) => f.predicate \in Timed /\ TimeIn(f) = CheckedAt(obs)
  BY DatedIs DEF SpelledOf, Spelled, SpelledHere
<1>4. d \in EntityClaims(e, world[e]) \/ SpelledOf(e, d)
  <2>1. ASSUME d \in Heard(e), ~SpelledOf(e, d) PROVE d \in EntityClaims(e, world[e])
    <3>1. /\ d.predicate \in Timed /\ obs # None
          /\ TimeIn(d) = obs.checked => d \in EntityClaims(e, world[e])
      BY <1>1, <2>1 DEF Holds
    <3>2. TimeIn(c) = CheckedAt(obs)
      BY <1>2, <1>3, <3>1
    <3>3. TimeIn(d) = TimeIn(c)
      BY DEF TimeIn
    <3> QED BY <3>1, <3>2, <3>3 DEF CheckedAt
  <2> QED BY <2>1
<1>5. CASE SpelledOf(e, d)
  BY <1>2, <1>3, <1>5, SpelledOnce
<1>6. CASE Dated(d, world[e], obs)
  BY <1>1, <1>2, <1>3, <1>6, DatedOnce
<1> QED BY <1>2, <1>4, <1>5, <1>6

\* A claim keeps its meaning: in every run, with any entities, batches, queries
\* and configurations, across failures of workers and crashes of the process, two
\* claims with one id about an entity that is not half-written have the same value,
\* be they of one reading of the world or one of an earlier answer and the other of
\* the world as it has become (the ids of semantics/projection.py, whose digests
\* leave the description of an event, of an alert and of a camera out).
THEOREM AnIdIsOneClaim ==
  ASSUME RecordsAreSomething PROVE ReadSpec => []AnIdNamesOneClaim
<1>1. ReadInit => EarnedInv /\ IdInv
  BY InitEarned, InitIds
<1>2. EarnedInv /\ IdInv /\ [ReadNext]_readVars => (EarnedInv /\ IdInv)'
  BY StepEarned, StepIds
<1>3. EarnedInv /\ IdInv => AnIdNamesOneClaim
  BY IdsAreKept
<1> QED BY <1>1, <1>2, <1>3, PTL DEF ReadSpec
=============================================================================
