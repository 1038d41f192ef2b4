---------------------------- MODULE Presentation ----------------------------
(***************************************************************************)
(* The pages that an operator is shown, each computed from one detached    *)
(* reading of the world (presentation/projection.py).  world is a function *)
(* from entities to their components by kind.  Times, ages, labels and the *)
(* fields of a component that are passed on as they are are left out.      *)
(***************************************************************************)
EXTENDS Semantics, FiniteSetsExt

EventSources ==
  { "local-traffic-drivenc-events", "local-traffic-wzdx", "local-traffic-cmpd-cad",
    "local-traffic-charlotte-closures", "local-traffic-tomtom-incidents" }
TrafficSources ==
  EventSources \union
  { "local-traffic-tomtom-flow", "local-traffic-drivenc-cameras",
    "local-traffic-drivenc-signs" }

\* _component: the component, or what stands for one that is not there.
Component(world, e, kind) ==
  IF e \in DOMAIN world /\ Has(world[e], kind) THEN world[e][kind] ELSE None

\* What a page says of an entity that nobody has qualified: unavailable.
ShownAvailability(world, e) ==
  LET obs == Component(world, e, "observation")
  IN IF obs = None THEN "unavailable" ELSE obs.availability

Usable(world, e)  == ShownAvailability(world, e) \in {"current", "degraded"}

\* _worst: values that have no place in the order are passed over.
HealthOrder      == <<"unknown", "nominal", "warning", "critical">>
ObservationOrder == <<"current", "degraded", "unavailable">>

Worst(values, order, default) ==
  LET known == {i \in DOMAIN order : order[i] \in values}
  IN IF known = {} THEN default ELSE order[Max(known)]

HealthStatus(world, e) ==
  LET health == Component(world, e, "health")
  IN IF health = None THEN "unknown" ELSE health.status

\* build_systems_projection
SystemsPage(world, failed) ==
  LET local == {"engage-one", "tenda-u11-pro"}
      wifi  == Component(world, "tenda-u11-pro", "wifi")
  IN [ workers     |-> failed,
       health      |-> Worst({HealthStatus(world, e) : e \in local}, HealthOrder, "unknown"),
       observation |-> Worst({ShownAvailability(world, e) : e \in local},
                             ObservationOrder, "unavailable"),
       connected   |-> wifi # None /\ wifi.connected ]

-----------------------------------------------------------------------------
(* build_world_projection                                                  *)

\* How an artifact is shown: as its source is, or as the last one known.
ArtifactState(world, e, image) ==
  IF image = None THEN "UNAVAILABLE"
  ELSE IF ShownAvailability(world, e) = "current"  THEN "CURRENT"
  ELSE IF ShownAvailability(world, e) = "degraded" THEN "DEGRADED"
  ELSE "LAST KNOWN"

\* The overlay is offered with a usable mosaic only, its last state is named;
\* warnings is the overlay's image, None where there is no overlay.
Overlay(world, e, mosaic) ==
  LET available == mosaic # None /\ mosaic.warnings # None
  IN [ state |-> IF available /\ Usable(world, e) THEN "CURRENT"
                 ELSE IF available THEN "LAST KNOWN" ELSE "UNAVAILABLE",
       image |-> IF available /\ Usable(world, e) THEN mosaic.warnings ELSE None ]

RadarPanel(world) ==
  LET e      == "local-weather-radar"
      mosaic == Component(world, e, "mosaic")
      image  == IF mosaic = None THEN None ELSE mosaic.image
  IN [ current     |-> ShownAvailability(world, e) = "current",
       displayable |-> image # None /\ Usable(world, e),
       state       |-> ArtifactState(world, e, image),
       image       |-> image,
       overlay     |-> Overlay(world, e, mosaic) ]

\* The context is displayable whatever is said of its source.
ContextPanel(world) ==
  LET e       == "local-weather-radar-context"
      context == Component(world, e, "context")
      image   == IF context = None THEN None ELSE context.image
  IN [ displayable |-> image # None,
       state       |-> ArtifactState(world, e, image),
       image       |-> image ]

\* Slip: an alert that was retrieved in part is authoritative as well.
WorldPageTrusting(world) ==
  [ estimate |-> [current |-> ShownAvailability(world, "local-weather-estimate") = "current"],
    alerts   |-> [authoritative |-> Usable(world, "local-weather-alerts")],
    radar    |-> RadarPanel(world),
    context  |-> ContextPanel(world) ]

WorldPage(world) ==
  [ estimate |-> [current |-> ShownAvailability(world, "local-weather-estimate") = "current"],
    alerts   |-> [authoritative |-> ShownAvailability(world, "local-weather-alerts") = "current"],
    radar    |-> RadarPanel(world),
    context  |-> ContextPanel(world) ]

-----------------------------------------------------------------------------
(* build_traffic_projection                                                *)

\* Records of every source are listed, each with what its source is worth.
Listed(world) ==
  UNION { LET c == Component(world, e, "events")
          IN IF c = None THEN {}
             ELSE {[source |-> e, record |-> r.id, authoritative |-> Usable(world, e)] :
                     r \in c.events} : e \in EventSources }

\* Sources that somebody has asked and that are not current.
DegradingSources(world) ==
  {e \in TrafficSources : /\ Component(world, e, "observation") # None
                          /\ ShownAvailability(world, e) # "current"}

\* The configured anchor, with where it comes from; never a live position.
Site(anchor) ==
  IF /\ anchor # None
     /\ anchor.enabled
     /\ None \notin {anchor.latitude, anchor.longitude}
  THEN [ place |-> <<anchor.latitude, anchor.longitude>>, lineage |-> anchor.lineage,
         record |-> anchor.record, verified |-> anchor.verified, sha |-> anchor.sha ]
  ELSE None

TrafficPage(world, anchor) ==
  LET situation == Component(world, "local-traffic-situation", "situation")
  IN [ summary     |-> ShownAvailability(world, "local-traffic-situation"),
       gaps        |-> IF situation = None THEN <<>> ELSE situation.gaps,
       degrading   |-> DegradingSources(world),
       authoritative |-> {e \in TrafficSources : Usable(world, e)},
       events      |-> Listed(world),
       context     |-> ContextPanel(world),
       site        |-> Site(anchor) ]

-----------------------------------------------------------------------------
(* build_semantic_projection                                               *)

CONSTANT MaxLimit  \* the most claims that one answer may hold

SemanticKinds ==
  { "observation_state", "absence", "collection_gap", "measurement", "data_quality",
    "source_report", "prediction", "information_artifact", "spatial", "temporal",
    "evidence", "state_condition", "identity_association", "foreign_native" }

\* A filter is None or the value that is asked for.
Query(entity, kind, predicate, limit) ==
  [entity |-> entity, kind |-> kind, predicate |-> predicate, limit |-> limit]

WellFormed(q) ==
  /\ q.limit # Fails
  /\ q.limit \in 1..MaxLimit
  /\ q.kind \in SemanticKinds \union {None}

Selected(claims, q) ==
  {c \in claims : /\ q.entity \in {None, c.entity}
                  /\ q.kind \in {None, c.kind}
                  /\ q.predicate \in {None, c.predicate}}

\* The answer holds the first of the selected claims in an order of its own,
\* and says whether that is all of them.
SemanticPages(world, q) ==
  LET selected == Selected(WorldClaims(world), q)
      total    == Cardinality(selected)
  IN {[claims |-> shown, truncated |-> total > q.limit] :
        shown \in IF total <= q.limit THEN {selected} ELSE kSubset(q.limit, selected)}
=============================================================================
