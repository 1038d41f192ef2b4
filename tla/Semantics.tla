------------------------------ MODULE Semantics ------------------------------
(***************************************************************************)
(* What the program says of its world (semantics/projection.py): a set of  *)
(* claims, computed from the components of each entity and from the        *)
(* ObservationState that qualifies them.  A claim is made of a subject, a  *)
(* predicate and a value; its id is a digest of its proposition and of the *)
(* parts that set it apart from other claims of the same proposition, and  *)
(* is here the pair of the two.                                            *)
(*                                                                         *)
(* What a provider reports is a small record: readings is a function from  *)
(* the names of measured quantities to what was read, None where nothing   *)
(* was, and rest stands for the fields that only a description shows.      *)
(* Units and the qualifiers that say what a claim is not are left out; of  *)
(* those that say what it is worth there are the authority state and       *)
(* current_authority, which is "true", "qualified", "policy_qualified",    *)
(* "false" or None where the claim says nothing of it.                     *)
(***************************************************************************)
EXTENDS Observation, Integers, Sequences, TLC

When(condition, claims) == IF condition THEN claims ELSE {}
Truth(b)    == IF b THEN "true" ELSE "false"
Told(table) == {k \in DOMAIN table : table[k] # None}

CheckedAt(obs) == IF obs = None THEN None ELSE obs.checked

\* _authority_qualifiers: the authority that the ObservationState of an entity
\* gives its claims, and whether they are current.
AuthorityOf(obs) ==
  IF obs = None THEN "unscoped"
  ELSE [ current |-> "current", degraded |-> "degraded_or_mixed",
         retained |-> "retained_by_policy",
         unavailable |-> "last_known_noncurrent" ][obs.availability]

CurrentOf(obs) ==
  IF obs = None THEN None
  ELSE [ current |-> "true", degraded |-> "qualified",
         retained |-> "policy_qualified", unavailable |-> "false" ][obs.availability]

\* Of which entity something is said, how it came about, what it is worth.
Origin(e, origin, authority, current) ==
  [entity |-> e, origin |-> origin, authority |-> authority, current |-> current]
Provider(e, obs) == Origin(e, "source_observed", AuthorityOf(obs), CurrentOf(obs))
Derived(e, obs)  == Origin(e, "cic_derived", AuthorityOf(obs), CurrentOf(obs))

\* Health and the estimate are current whatever the ObservationState says.
Local(e)         == Origin(e, "cic_derived", "locally_derived", "true")
Foreign(by)      == [by EXCEPT !.origin = "foreign_native_preserved"]

Claim(kind, subject, predicate, identity, value, by) ==
  [ id |-> <<<<subject, predicate>>, identity>>, kind |-> kind,
    subject |-> subject, predicate |-> predicate, value |-> value,
    entity |-> by.entity, origin |-> by.origin, authority |-> by.authority,
    current |-> by.current ]

\* A claim whose proposition is not its subject with its predicate.
About(proposition, claim) == [claim EXCEPT !.id[1] = proposition]

\* One claim for each entry of a table; the entry is the last part of the id.
Claims(kind, subject, table, identity, by) ==
  { Claim(kind, subject, k, Append(identity, table[k]), table[k], by) :
      k \in Told(table) }

Measurements(subject, readings, identity, by) ==
  Claims("measurement", subject, readings, identity, by)

Predictions(subject, table, identity, by) ==
  Claims("prediction", subject, table, identity, by)

\* A provider's classifications are passed on as the provider's.
ForeignNative(subject, table, identity, by) ==
  Claims("foreign_native", subject, table, identity, Foreign(by))

Spatial(subject, predicate, place, identity, by) ==
  When(place # None,
       {Claim("spatial", subject, predicate, Append(identity, place), place, by)})

CollectionScope(subject, scope, at, by) ==
  Spatial(subject, "collection_scope", scope, <<at>>, by)

SourceReport(subject, predicate, identity, value, by) ==
  When(value # None,
       {Claim("source_report", subject, predicate, identity, value, by)})

Artifact(subject, predicate, identity, value, by) ==
  {Claim("information_artifact", subject, predicate, identity, value, by)}

-----------------------------------------------------------------------------
(* What was observed at all, and the traffic                               *)

ObservationClaims(e, obs) ==
  LET by == Origin(e, "source_observed", None, None)
  IN { About(<<<<e, "observation", obs.adapter>>, "availability">>,
         Claim("observation_state", <<e>>, "observation_availability",
               <<obs.checked, obs.availability, obs.reasons>>,
               obs.availability, by)) }
     \union When(obs.availability = "unavailable",
       { About(<<<<e, "absence", obs.adapter>>, "new_observation_unavailable">>,
           Claim("absence", <<e>>, "new_observation_unavailable",
                 <<obs.checked, obs.reasons>>, Truth(TRUE), by)) })

ProbeClaims(e, probe, at, by) ==
  LET subject == <<e, "flow-probe", probe.id>>
  IN Spatial(subject, "flow_query_point", probe.place, <<at, probe.id>>, by)
     \union Spatial(subject, "matched_road_geometry", probe.geometry,
                    <<at, probe.id, probe.openlr>>, by)
     \union Measurements(subject, probe.readings, <<at, probe.id>>, by)
     \union SourceReport(subject, "provider_reports_road_closure",
              <<at, probe.id, probe.closure, probe.openlr>>, probe.closure, by)
     \union When(probe.confidence # None,
              { About(<<subject, "provider-native-confidence">>,
                  Claim("foreign_native", subject, "tomtom_flow_confidence",
                        <<at, probe.confidence, probe.id>>,
                        probe.confidence, Foreign(by))) })

TrafficFlow(e, c, obs) ==
  LET at         == CheckedAt(obs)
      by         == Provider(e, obs)
      collection == <<e, "flow-collection">>
  IN CollectionScope(collection, c.scope, at, by)
     \union When(c.configured > 0,
       { Claim("data_quality", collection, "probe_collection_completeness",
               <<at, c.successful, c.configured>>,
               Truth(c.successful = c.configured), by) })
     \union UNION {ProbeClaims(e, probe, at, by) : probe \in c.probes}

\* A collection that is current and empty is evidence that nothing was near.
NegativeEvidence == "current_collection_supports_no_local_records"

\* Slip: whatever is empty is evidence, whoever could be asked.
NothingNearOfAny(e, c, obs) ==
  When(/\ obs # None
       /\ c.local = 0,
       { Claim("evidence", <<e, "event-collection">>, NegativeEvidence,
               <<CheckedAt(obs), c.total, c.scope>>, Truth(TRUE), Provider(e, obs)) })

NothingNear(e, c, obs) ==
  When(/\ obs # None
       /\ obs.availability = "current"
       /\ c.local = 0,
       { Claim("evidence", <<e, "event-collection">>, NegativeEvidence,
               <<CheckedAt(obs), c.total, c.scope>>, Truth(TRUE), Provider(e, obs)) })

\* Slip: a record is told apart by the times its provider gives it.
EventReportAsUpdated(subject, record, at, by) ==
  SourceReport(subject, "provider_reports_event_record",
               <<record.id, record.updated, record.reported>>, record.rest, by)

\* The description is not a part of the id, the time of the check is.
EventReport(subject, record, at, by) ==
  SourceReport(subject, "provider_reports_event_record",
               <<record.id, record.updated, record.reported, at>>, record.rest, by)

EventClaims(e, record, at, by) ==
  LET subject == <<e, "event-record", record.id>>
      source  == IF record.updated # None THEN record.updated ELSE record.reported
      told    == <<record.id, source, at>>
  IN Spatial(subject, "reported_event_geometry", record.geometry, told, by)
     \union ForeignNative(subject, record.dimensions, told, by)
     \union SourceReport(subject, "provider_reports_full_closure",
                         Append(told, record.closure), record.closure, by)
     \union Measurements(subject, record.metrics, told, by)
     \union EventReport(subject, record, at, by)

TrafficEvents(e, c, obs) ==
  LET at == CheckedAt(obs)
      by == Provider(e, obs)
  IN CollectionScope(<<e, "event-collection">>, c.scope, at, by)
     \union NothingNear(e, c, obs)
     \union UNION {EventClaims(e, record, at, by) : record \in c.events}

CameraClaims(e, r, at, by) ==
  LET subject == <<e, "camera-record", r.id>>
  IN Spatial(subject, "reported_infrastructure_location", r.place, <<at, r.id>>, by)
     \union Artifact(subject, "provider_reports_camera",
                     <<at, r.id, r.status, r.video>>, r.rest, by)

TrafficCameras(e, c, obs) ==
  LET at == CheckedAt(obs)
      by == Provider(e, obs)
  IN CollectionScope(<<e, "camera-collection">>, c.scope, at, by)
     \union UNION {CameraClaims(e, r, at, by) : r \in c.cameras}

SignClaims(e, r, at, by) ==
  LET subject == <<e, "message-sign-record", r.id>>
  IN Spatial(subject, "reported_infrastructure_location", r.place,
             <<r.updated, at, r.id>>, by)
     \union Artifact(subject, "provider_reports_message_sign",
                     <<r.updated, at, r.id, r.messages>>, r.messages, by)

TrafficMessageSigns(e, c, obs) ==
  LET at == CheckedAt(obs)
      by == Provider(e, obs)
  IN CollectionScope(<<e, "message-sign-collection">>, c.scope, at, by)
     \union UNION {SignClaims(e, r, at, by) : r \in c.signs}

\* Only records of one lineage with one upstream identifier are associated.
TrafficSituation(e, c, obs) ==
  LET by == Derived(e, obs)
  IN CollectionScope(<<e, "traffic-situation-scope">>, c.scope, c.derived, by)
     \union
     { About(<<<<e, "collection-gap", i>>, "known_collection_gap">>,
         Claim("collection_gap", <<e>>, "known_collection_gap",
               <<c.derived, c.gaps[i]>>, c.gaps[i], by)) : i \in DOMAIN c.gaps }
     \union
     { Claim("identity_association", <<e, "kernel", kernel.id>>,
             "same_upstream_event_representation",
             <<c.derived, kernel.records>>, kernel.records, by) :
         kernel \in {k \in c.kernels : k.basis = "upstream identifier"} }

-----------------------------------------------------------------------------
(* The weather                                                             *)

WeatherState(e, c, obs) ==
  LET subject  == <<e, "weather-current">>
      identity == <<c.at, CheckedAt(obs)>>
  IN ForeignNative(subject, [provider_weather_code |-> c.code], identity,
                   Provider(e, obs))
     \union Measurements(subject, c.readings, identity, Provider(e, obs))

DailyForecast(e, c, obs) ==
  Predictions(<<e, "daily-forecast", c.date>>, c.readings,
              <<c.date, CheckedAt(obs)>>, Provider(e, obs))

HourlyForecast(e, c, obs) ==
  UNION {Predictions(<<e, "hourly-forecast", h.start>>, h.readings,
                     <<h.start, c.updated, CheckedAt(obs)>>, Provider(e, obs)) :
           h \in c.hours}

StationClaims(e, s, at, by) ==
  LET subject  == <<e, "surface-station", s.id>>
      identity == <<s.id, s.at, at>>
  IN ForeignNative(subject, s.categories, identity, by)
     \union When(s.raw # None,
              Artifact(subject, "raw_metar_artifact",
                       Append(identity, s.raw), s.raw, by))
     \union Measurements(subject, s.readings, identity, by)

SurfaceNetwork(e, c, obs) ==
  UNION {StationClaims(e, s, CheckedAt(obs), Provider(e, obs)) : s \in c.stations}

\* An estimate claims authority of its own, whatever is said of its sources.
WeatherEstimate(e, c) ==
  Measurements(<<e, "current-weather-estimate">>, c.readings,
               <<c.derived, c.method>>, Local(e))

AlertClaims(e, a, at, by) ==
  LET subject == <<e, "weather-alert-record", a.id>>
  IN ForeignNative(subject, a.classes, <<a.id, a.sent, a.effective, at>>, by)
     \union SourceReport(subject, "provider_reports_alert",
              <<a.id, a.sent, a.effective, a.expires, at>>, a.rest, by)

WeatherAlerts(e, c, obs) ==
  UNION {AlertClaims(e, a, CheckedAt(obs), Provider(e, obs)) : a \in c.alerts}

RadarMosaic(e, c, obs) ==
  LET subject == <<e, "radar-mosaic">>
      by      == Provider(e, obs)
  IN Artifact(subject, "radar_image_artifact",
              <<c.image, c.stream, c.retrieved>>, c.image, by)
     \union Spatial(subject, "radar_product_coverage", c.cover,
                    <<c.image, c.stream>>, by)

RadarContext(e, c, obs) ==
  LET subject == <<e, "radar-context">>
      by      == Provider(e, obs)
  IN Artifact(subject, "radar_context_artifact",
              <<c.image, c.content, c.retrieved>>, c.image, by)
     \union Spatial(subject, "reference_context_coverage", c.cover,
                    <<c.image, c.retrieved>>, by)

-----------------------------------------------------------------------------
(* The machine itself, with the components of its adapters                 *)

Has(comps, kind) == kind \in DOMAIN comps /\ comps[kind] # None

Condition(e, predicate, identity, value, by) ==
  Claim("state_condition", <<e>>, predicate, identity, value, by)

\* The level of one component as a measurement, if it has one.
Level(comps, kind, subject, predicate, at, by) ==
  When(Has(comps, kind) /\ comps[kind].level # None,
       { Claim("measurement", subject, predicate,
               <<at, comps[kind].meaning, comps[kind].level>>,
               ToString(comps[kind].level), by) })

SystemState(e, comps, obs) ==
  LET at   == CheckedAt(obs)
      by   == Provider(e, obs)
      wifi == comps["wifi"]
  IN When(Has(comps, "health"),
       { Condition(e, "health_status", <<comps["health"].status, comps["health"].reasons>>,
                   comps["health"].status, Local(e)) })
     \union Level(comps, "compute", <<e>>, "cpu_utilization", at, by)
     \union Level(comps, "memory", <<e>>, "memory_used", at, by)
     \union Level(comps, "storage", <<e, "storage">>, "storage_used", at, by)
     \union Level(comps, "temperature", <<e>>, "temperature", at, by)
     \union When(Has(comps, "usb"),
       { Condition(e, "usb_device_present",
                   <<at, comps["usb"].present, comps["usb"].mode>>,
                   Truth(comps["usb"].present), by) })
     \union When(Has(comps, "wifi"),
       { Condition(e, "wifi_connected", <<at, wifi.meaning>>,
                   Truth(wifi.connected), by) }
       \union When(wifi.signal # None,
         { Claim("measurement", <<e, "wifi-link">>, "wifi_signal",
                 <<at, wifi.meaning[1], wifi.signal>>, ToString(wifi.signal), by) }))

-----------------------------------------------------------------------------
\* project_entity_semantics: everything that one entity's components give.
EntityClaims(e, comps) ==
  LET obs == IF Has(comps, "observation") THEN comps["observation"] ELSE None
      c(kind) == comps[kind]
      Of(kind, claims) == When(Has(comps, kind), claims)
  IN Of("observation", ObservationClaims(e, obs))
     \union Of("flow",      TrafficFlow(e, c("flow"), obs))
     \union Of("events",    TrafficEvents(e, c("events"), obs))
     \union Of("weather",   WeatherState(e, c("weather"), obs))
     \union Of("daily",     DailyForecast(e, c("daily"), obs))
     \union Of("hourly",    HourlyForecast(e, c("hourly"), obs))
     \union Of("surface",   SurfaceNetwork(e, c("surface"), obs))
     \union Of("estimate",  WeatherEstimate(e, c("estimate")))
     \union Of("alerts",    WeatherAlerts(e, c("alerts"), obs))
     \union Of("mosaic",    RadarMosaic(e, c("mosaic"), obs))
     \union Of("context",   RadarContext(e, c("context"), obs))
     \union Of("cameras",   TrafficCameras(e, c("cameras"), obs))
     \union Of("signs",     TrafficMessageSigns(e, c("signs"), obs))
     \union Of("situation", TrafficSituation(e, c("situation"), obs))
     \union SystemState(e, comps, obs)

\* project_world_semantics, over one detached reading of the world.
WorldClaims(world) ==
  UNION {EntityClaims(e, world[e]) : e \in DOMAIN world}
=============================================================================
