------------------------------ MODULE MCReading ------------------------------
(***************************************************************************)
(* A small instance of Reading, with every entity of the program and one   *)
(* or two batches for each, and of Requalification.  The two have nothing  *)
(* to do with each other: a behaviour is of one or of the other.           *)
(***************************************************************************)
EXTENDS Reading, Requalification, LocalAdapters

MCOwner ==
  [e \in TrafficSources \union {"local-traffic-situation"} |-> "traffic"] @@
  [e \in {"engage-one", "tenda-u11-pro"} |-> "main"] @@
  [e \in {"local-weather", "local-weather-alerts", "local-weather-surface",
          "local-weather-nws-forecast", "local-weather-estimate",
          "local-weather-radar", "local-weather-radar-context"} |-> "world"]

MCAdapter == [e \in DOMAIN MCOwner |-> "adapter of " \o e]

MCKinds ==
  [e \in DOMAIN MCOwner |-> {"observation"} \union
     CASE e = "engage-one"    -> {"compute", "memory", "storage", "temperature",
                                  "uptime", "health"}
       [] e = "tenda-u11-pro" -> {"usb", "wifi", "health"}
       [] e = "local-weather" -> {"weather", "daily"}
       [] e = "local-weather-alerts"        -> {"alerts"}
       [] e = "local-weather-surface"       -> {"surface"}
       [] e = "local-weather-nws-forecast"  -> {"hourly"}
       [] e = "local-weather-estimate"      -> {"estimate"}
       [] e = "local-weather-radar"         -> {"mosaic"}
       [] e = "local-weather-radar-context" -> {"context"}
       [] e \in EventSources                -> {"events"}
       [] e = "local-traffic-tomtom-flow"     -> {"flow"}
       [] e = "local-traffic-drivenc-cameras" -> {"cameras"}
       [] e = "local-traffic-drivenc-signs"   -> {"signs"}
       [] e = "local-traffic-situation"       -> {"situation"}]

Flag(section) == {<<section, "enabled">>}

MCEnabledBy ==
  ("local-weather" :> Flag("weather")) @@ ("local-weather-alerts" :> Flag("alerts")) @@
  ("local-weather-surface" :> Flag("surface")) @@
  ("local-weather-nws-forecast" :> Flag("forecast")) @@
  ("local-weather-radar" :> Flag("radar")) @@
  ("local-weather-radar-context" :>
     Flag("radar") \union {<<"radar", "context_enabled">>}) @@
  ("local-traffic-wzdx" :> Flag("wzdx")) @@ ("local-traffic-cmpd-cad" :> Flag("cmpd")) @@
  ("local-traffic-charlotte-closures" :> Flag("charlotte")) @@
  ("local-traffic-tomtom-incidents" :> Flag("tomtom")) @@
  ("local-traffic-tomtom-flow" :> Flag("tomtom")) @@
  [e \in {"local-traffic-drivenc-events", "local-traffic-drivenc-cameras",
          "local-traffic-drivenc-signs"} |-> Flag("drivenc")] @@
  [e \in {"local-weather-estimate", "local-traffic-situation"} |-> {}]

-----------------------------------------------------------------------------
(* One or two batches for each entity                                      *)

Event(rest) ==
  [ id |-> "event", updated |-> "then", reported |-> None, geometry |-> "line",
    dimensions |-> [road |-> "US-74", lanes |-> None], closure |-> "true",
    metrics |-> [delay |-> "300"], rest |-> rest ]

Collection(events) ==
  [ kind |-> "events", scope |-> "circle", local |-> Cardinality(events), total |-> 9,
    events |-> events ]

HostReading(level, sensors) ==
  [compute |-> level, memory |-> 10, storage |-> 10, uptime |-> 1000, sensors |-> sensors]

Radio(links) == [lsusb |-> <<"wifi">>, links |-> links, ip |-> "address"]
GoodLink == [connected |-> TRUE, ssid |-> "ssid", frequency |-> 5180, signal |-> -60]

One(e, value) == {<<Observed(e, value)>>}

MCBatches ==
  ("engage-one" :> {HostCollect(HostReading(10, {40})), HostCollect(HostReading(99, Fails))}) @@
  ("tenda-u11-pro" :> {TendaCollect(Radio(<<GoodLink>>))}) @@
  ("local-weather" :>
     {<<Observed("current", [kind |-> "weather", at |-> "t", code |-> "3",
                             readings |-> [temperature |-> "70"]]),
        Observed("daily", [kind |-> "daily", date |-> "d", readings |-> [high |-> "80"]])>>}) @@
  ("local-weather-alerts" :>
     LET value(rest) ==
           [ kind |-> "alerts",
             alerts |-> {[id |-> "alert", sent |-> "s", effective |-> "e", expires |-> "x",
                          classes |-> [severity |-> "Severe"], rest |-> rest]} ]
     IN {<<Observed("alerts", value("text"))>>, <<Partial("alerts", value("text"), "rows")>>}) @@
  ("local-weather-surface" :> One("surface",
     [kind |-> "surface",
      stations |-> {[id |-> "KEQY", at |-> "t", categories |-> [flight |-> "VFR"],
                     raw |-> "METAR", readings |-> [wind |-> "5", gust |-> None]]}])) @@
  ("local-weather-nws-forecast" :> One("hourly",
     [kind |-> "hourly", updated |-> "u",
      hours |-> {[start |-> "h", readings |-> [temperature |-> "70"]]}])) @@
  ("local-weather-estimate" :> One("estimate",
     [kind |-> "estimate", derived |-> "now", method |-> "median",
      readings |-> [temperature |-> "70"]])) @@
  ("local-weather-radar" :>
     One("mosaic", [kind |-> "mosaic", image |-> "image", stream |-> "s", retrieved |-> "r",
                    cover |-> "box", warnings |-> "warnings"])
       \union {<<Unavailable("mosaic", "gone")>>}) @@
  ("local-weather-radar-context" :> One("context",
     [kind |-> "context", image |-> "context", content |-> "c", retrieved |-> "r",
      cover |-> "box"])) @@
  ("local-traffic-drivenc-events" :>
     One("events", Collection({Event("one")})) \union One("events", Collection({Event("two")}))
       \union {<<Partial("events", Collection({}), "rows")>>}) @@
  ("local-traffic-wzdx" :> One("events", Collection({}))) @@
  ("local-traffic-cmpd-cad" :> {<<Unavailable("events", "timeout")>>}) @@
  ("local-traffic-charlotte-closures" :> One("events", Collection({Event("closed")}))) @@
  ("local-traffic-tomtom-incidents" :> One("events", Collection({Event("jam")}))) @@
  ("local-traffic-tomtom-flow" :> {<<Partial("flow",
     [ kind |-> "flow", scope |-> "circle", configured |-> 2, successful |-> 1,
       probes |-> {[id |-> "p", place |-> "point", geometry |-> "line", openlr |-> "lr",
                    readings |-> [speed |-> "50"], closure |-> "false",
                    confidence |-> "0.9"]} ], "one of two")>>}) @@
  ("local-traffic-drivenc-cameras" :> One("cameras",
     [kind |-> "cameras", scope |-> "circle",
      cameras |-> {[id |-> "c", place |-> "point", status |-> "up", video |-> "url",
                    rest |-> "camera"]}])) @@
  ("local-traffic-drivenc-signs" :> One("signs",
     [kind |-> "signs", scope |-> "circle",
      signs |-> {[id |-> "s", place |-> "point", updated |-> "u", messages |-> "text"]}])) @@
  ("local-traffic-situation" :> {<<Partial("situation",
     [ kind |-> "situation", scope |-> "circle", derived |-> "now", gaps |-> <<"gap">>,
       kernels |-> {[id |-> "k", basis |-> "upstream identifier", records |-> "two"],
                    [id |-> "l", basis |-> "nearby", records |-> "two"]} ], "gap")>>})

MCQueries ==
  { Query(None, "source_report", None, 2), Query("engage-one", None, "health_status", 1),
    Query(None, None, None, 0) }

-----------------------------------------------------------------------------
(* The shipped configuration with everything enabled, and what differs     *)
(* from it in one value                                                    *)

Sections ==
  {"runtime", "presentation", "anchor", "world", "location", "weather", "alerts", "surface",
   "forecast", "radar", "traffic", "drivenc", "wzdx", "cmpd", "charlotte", "tomtom"}

Levels(warning, critical) == [warning |-> warning, critical |-> critical]

MCThresholds ==
  [ compute |-> Levels(80, 95), memory |-> Levels(85, 95), storage |-> Levels(90, 97),
    temperature |-> Levels(80, 90), wifi |-> -75 ]

\* A file that gives nothing: the runtime section has no defaults.
Bare == [s \in Sections |-> None] @@ [thresholds |-> MCThresholds]

Full ==
  [Bare EXCEPT
     !.runtime = [collection |-> 5, snapshot |-> 5, state_path |-> "state/world.json",
                  journal_path |-> "logs/events.jsonl"],
     !.world   = [enabled |-> TRUE],
     !.anchor  = [enabled |-> TRUE, latitude |-> 35, longitude |-> -80, address |-> "street",
                  lineage |-> "survey", record |-> "record",
                  verified |-> "2026-07-01T00:00:00Z", sha |-> "digest"]]

With(raw, section, key, value) ==
  [raw EXCEPT ![section] = (key :> value) @@ (IF @ = None THEN <<>> ELSE @)]

\* Values about the boundary of what is accepted, by section and key.
Boundary ==
  [ runtime |-> [collection |-> <<0, 1, Fails, None>>, snapshot |-> <<0>>,
                 state_path |-> <<"">>, journal_path |-> <<Fails>>],
    presentation |-> [port |-> <<0, 1, 65535, 65536>>, bind_host |-> <<"0.0.0.0">>],
    anchor |-> [enabled |-> <<FALSE, Fails>>, latitude |-> <<None, 91>>,
                longitude |-> <<None, -181>>, address |-> <<None, "">>,
                lineage |-> <<None, "">>, record |-> <<None>>, verified |-> <<None, "naive">>,
                sha |-> <<None, "text">>, position_kind |-> <<"live">>],
    world |-> [enabled |-> <<FALSE, Fails>>],
    location |-> [label |-> <<"">>, latitude |-> <<-90, 91>>, longitude |-> <<180, -181>>],
    weather |-> [enabled |-> <<FALSE>>, interval |-> <<0, 1>>, timeout |-> <<0>>],
    alerts |-> [interval |-> <<29, 30>>, timeout |-> <<0>>, user_agent |-> <<"">>],
    surface |-> [interval |-> <<59, 60>>, stations |-> <<{}, {""}, Fails>>, max_age |-> <<0>>],
    forecast |-> [interval |-> <<59, 21600, 21601>>, points_refresh |-> <<299, 300>>],
    radar |-> [interval |-> <<59>>, range |-> <<9, 300>>, width |-> <<255, 1600>>,
               height |-> <<256, 1201>>, max_age |-> <<0>>, capacity |-> <<2, 3, 30, 31>>,
               cache_dir |-> <<"">>, context_enabled |-> <<Fails>>,
               context_interval |-> <<3599>>, context_max_age |-> <<0>>],
    traffic |-> [enabled |-> <<FALSE>>, radius |-> <<4, 300>>, counties |-> <<{}, {""}>>,
                 zoom |-> <<2, 17>>],
    drivenc |-> [events |-> <<5, 59, 61>>, cameras |-> <<299, 300>>, signs |-> <<5, 59>>,
                 api_key_env |-> <<Fails>>],
    wzdx |-> [interval |-> <<299, 300>>], cmpd |-> [interval |-> <<59, 60>>],
    charlotte |-> [interval |-> <<299>>, timeout |-> <<0>>],
    tomtom |-> [incidents |-> <<899, 900>>, flow |-> <<59>>,
                probes |-> << <<>>, Fails, <<Fails>>,
                  <<[id |-> "p", latitude |-> 35, longitude |-> -80]>>,
                  <<[id |-> "p", latitude |-> 35]>>,
                  <<[id |-> "p", latitude |-> 35, longitude |-> -80],
                    [id |-> "p", latitude |-> 36, longitude |-> -80]>> >>] ]

MCThresholdFiles ==
  { [MCThresholds EXCEPT !.compute = Levels(100, 100)],
    [MCThresholds EXCEPT !.compute = Levels(0, 100)],
    [MCThresholds EXCEPT !.memory = Levels(-1, 95)],
    [MCThresholds EXCEPT !.storage = Levels(99, 101)],
    [MCThresholds EXCEPT !.temperature = Levels(90, 90)],
    [MCThresholds EXCEPT !.wifi = 1], [MCThresholds EXCEPT !.wifi = -127],
    [MCThresholds EXCEPT !.wifi = None] }

\* A weather worker without the alerts and the context of the radar, a traffic
\* worker without DriveNC, and the health of the host judged by other levels.
Mixed ==
  [Full EXCEPT !.alerts = [enabled |-> FALSE], !.drivenc = [enabled |-> FALSE],
               !.radar = [context_enabled |-> FALSE],
               !.thresholds.compute = Levels(85, 100)]

MCRaws ==
  {Full, Bare, Mixed} \union {[Full EXCEPT !.thresholds = t] : t \in MCThresholdFiles}
    \union UNION { UNION { {With(Full, s, k, Boundary[s][k][i]) : i \in DOMAIN Boundary[s][k]} :
                             k \in DOMAIN Boundary[s]} : s \in DOMAIN Boundary }

\* Processes with everything enabled, with some sources of each worker, and with
\* the local collectors alone.
MCStarted == {Full, Mixed, With(Full, "world", "enabled", FALSE)}

MCFocuses ==
  { {"engage-one", "local-traffic-drivenc-events"},
    {"local-weather-radar", "local-weather-radar-context", "local-traffic-situation"},
    {"local-weather-alerts", "local-traffic-wzdx", "local-traffic-cmpd-cad"},
    {"local-weather", "local-weather-estimate", "local-traffic-charlotte-closures",
     "local-traffic-tomtom-incidents"},
    {"local-weather-surface", "local-weather-nws-forecast", "local-traffic-tomtom-flow"},
    {"tenda-u11-pro", "local-traffic-drivenc-cameras", "local-traffic-drivenc-signs"} }

\* The focus of a run that is about the weather, and of nothing else.
MCWeather     == {{"local-weather", "local-weather-estimate"}}
MCNoQuestions == {}

-----------------------------------------------------------------------------
(* Indexes over four references                                            *)

Relation(evidence, proposition, kind) ==
  [evidence |-> evidence, proposition |-> proposition, kind |-> kind]

\* Chains, a shortcut, a cycle, two kinds between the same two references.
MCRelations ==
  { Relation("a", "b", "supports"), Relation("a", "b", "contradicts"),
    Relation("b", "c", "supports"), Relation("a", "c", "supports"),
    Relation("c", "d", "contradicts"), Relation("d", "b", "supports"),
    Relation("c", "c", "supports"), Relation("d", "a", "supports") }

MCQuestions ==
  { Question(relations, kinds, changed, unavailable) :
      relations \in SUBSET MCRelations, kinds \in {None, {"supports"}},
      changed \in {<<>>, <<"a">>, <<"b">>, <<"d", "a">>}, unavailable \in {{}, {"a"}} }

-----------------------------------------------------------------------------
MCInit == ReadInit /\ PlanInit

MCNext ==
  \/ question = None /\ ReadNext /\ UNCHANGED planVars
  \/ clock = 0 /\ config = None /\ PlanNext /\ UNCHANGED readVars

MCSpec == MCInit /\ [][MCNext]_<<readVars, planVars>>
=============================================================================
