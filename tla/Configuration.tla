---------------------------- MODULE Configuration ----------------------------
(***************************************************************************)
(* What a configuration file may say (core/config.py).  A file is a record *)
(* of sections by name, without their nesting; a section is None where it  *)
(* is left out, or a function from the keys it gives to their values.  The *)
(* value of a key is Fails where it has not the type that is asked for,    *)
(* None where it is null, and a text is "" where it is blank.  Numbers are *)
(* whole.  Every section is judged, those of disabled providers as well.   *)
(***************************************************************************)
EXTENDS Observation, Integers, Sequences, FiniteSets

\* A section with its defaults filled in.
Given(section, defaults) ==
  IF section = None THEN defaults
  ELSE [k \in DOMAIN defaults |->
          IF k \in DOMAIN section THEN section[k] ELSE defaults[k]]

Readable(c, keys)   == \A k \in keys : c[k] \notin {Fails, None}
Text(c, keys)       == \A k \in keys : c[k] \notin {Fails, None, ""}
OptionalText(value) == IF value = None THEN "" ELSE value

Latitude(x)  == x \in -90..90
Longitude(x) == x \in -180..180

-----------------------------------------------------------------------------
(* The process, its surface and where it is                                *)

RuntimeDefaults ==
  [collection |-> None, snapshot |-> None, state_path |-> None, journal_path |-> None]

RuntimeOk(c) ==
  /\ Readable(c, {"collection", "snapshot"})
  /\ c.collection > 0 /\ c.snapshot > 0
  /\ Text(c, {"state_path", "journal_path"})

PresentationDefaults == [enabled |-> FALSE, bind_host |-> "127.0.0.1", port |-> 8765]

PresentationOk(c) ==
  /\ Readable(c, {"enabled", "port"})
  /\ c.bind_host = "127.0.0.1"
  /\ c.port \in 1..65535

LocationDefaults ==
  [label |-> "Indian Trail / 28079", latitude |-> 35, longitude |-> -80]

LocationOk(c) ==
  /\ Text(c, {"label"})
  /\ Readable(c, {"latitude", "longitude"})
  /\ Latitude(c.latitude) /\ Longitude(c.longitude)

AnchorDefaults ==
  [ enabled |-> FALSE, label |-> "CIC SITE", position_kind |-> "fixed_site_anchor",
    latitude |-> None, longitude |-> None, address |-> None, lineage |-> None,
    record |-> None, verified |-> None, sha |-> None ]

\* Times with an offset, and digests: the texts that are well formed.
AwareTimes == {"2026-07-01T00:00:00Z"}
Digests    == {"digest"}

\* An anchor that is shown says where it is and where that comes from.
AnchorOk(c) ==
  /\ Readable(c, {"enabled"})
  /\ Text(c, {"label"})
  /\ c.position_kind = "fixed_site_anchor"
  /\ Fails \notin {c.latitude, c.longitude, c.address, c.lineage, c.record, c.verified}
  /\ c.latitude  # None => Latitude(c.latitude)
  /\ c.longitude # None => Longitude(c.longitude)
  /\ OptionalText(c.sha) \in Digests \union {""}
  /\ c.enabled =>
       /\ Readable(c, {"latitude", "longitude"})
       /\ Text(c, {"address", "lineage", "record", "sha"})
       /\ c.verified \in AwareTimes

-----------------------------------------------------------------------------
(* The providers of the weather worker                                     *)

WorldDefaults   == [enabled |-> FALSE]
WeatherDefaults == [enabled |-> TRUE, interval |-> 300, timeout |-> 8]

WeatherOk(c) ==
  /\ Readable(c, {"enabled", "interval", "timeout"})
  /\ c.interval > 0 /\ c.timeout > 0

\* A provider that names the program and may not be asked too often.
NamedOk(c, least) ==
  /\ Readable(c, {"enabled", "interval", "timeout"})
  /\ Text(c, {"user_agent"})
  /\ c.interval >= least /\ c.timeout > 0

AlertsDefaults ==
  [enabled |-> TRUE, interval |-> 60, timeout |-> 8, user_agent |-> "Personal-CIC"]
AlertsOk(c) == NamedOk(c, 30)

SurfaceDefaults ==
  [ enabled |-> TRUE, interval |-> 60, timeout |-> 8, user_agent |-> "Personal-CIC",
    stations |-> {"KEQY", "KCLT", "KJQF"}, max_age |-> 90 ]

SurfaceOk(c) ==
  /\ NamedOk(c, 60)
  /\ Readable(c, {"stations", "max_age"})
  /\ c.stations \ {""} # {}
  /\ c.max_age > 0

ForecastDefaults ==
  [ enabled |-> TRUE, interval |-> 300, timeout |-> 8, user_agent |-> "Personal-CIC",
    points_refresh |-> 21600 ]

\* Slip: the points of the grid may be older than a forecast.
ForecastOkForPositive(c) ==
  /\ NamedOk(c, 60)
  /\ Readable(c, {"points_refresh"})
  /\ c.points_refresh > 0

ForecastOk(c) ==
  /\ NamedOk(c, 60)
  /\ Readable(c, {"points_refresh"})
  /\ c.points_refresh >= c.interval

RadarDefaults ==
  [ enabled |-> TRUE, interval |-> 120, timeout |-> 8, user_agent |-> "Personal-CIC",
    range |-> 75, width |-> 900, height |-> 600, max_age |-> 15,
    cache_dir |-> "state/radar", capacity |-> 15, context_enabled |-> TRUE,
    context_interval |-> 21600, context_timeout |-> 8, context_max_age |-> 30 ]

RadarOk(c) ==
  /\ NamedOk(c, 60)
  /\ Readable(c, DOMAIN RadarDefaults)
  /\ Text(c, {"cache_dir"})
  /\ c.range \in 10..300
  /\ c.width \in 256..1600 /\ c.height \in 256..1200
  /\ c.max_age > 0
  /\ c.capacity \in 3..30
  /\ c.context_interval >= 3600
  /\ c.context_timeout > 0 /\ c.context_max_age > 0

-----------------------------------------------------------------------------
(* The providers of the traffic worker                                     *)

ProviderOk(c, least) ==
  /\ Readable(c, {"enabled", "interval", "timeout"})
  /\ c.interval >= least /\ c.timeout > 0

WzdxDefaults      == [enabled |-> TRUE, interval |-> 900, timeout |-> 30]
CmpdDefaults      == [enabled |-> TRUE, interval |-> 180, timeout |-> 8]
CharlotteDefaults == [enabled |-> TRUE, interval |-> 900, timeout |-> 8]

DrivencDefaults ==
  [ enabled |-> TRUE, events |-> 60, cameras |-> 1800, signs |-> 60, timeout |-> 8,
    api_key_env |-> "DRIVENC_API_KEY" ]

\* An api_key_env that is not the name of a variable is Fails.
DrivencOk(c) ==
  /\ Readable(c, DOMAIN DrivencDefaults)
  /\ c.events >= 60 /\ c.signs >= 60 /\ c.cameras >= 300
  /\ c.timeout > 0
  /\ Text(c, {"api_key_env"})

\* The flow probes are a sequence of their own sections, or None.
ProbeDefaults == [id |-> None, label |-> None, latitude |-> None, longitude |-> None]

\* A probe without a label is called by its id.
Probe(raw) ==
  LET p == Given(raw, ProbeDefaults)
  IN IF "label" \in DOMAIN raw THEN p ELSE [p EXCEPT !.label = p.id]

ProbeOk(raw) ==
  /\ raw \notin {None, Fails}
  /\ Text(Probe(raw), {"id", "label"})
  /\ Readable(Probe(raw), {"latitude", "longitude"})
  /\ Latitude(raw.latitude) /\ Longitude(raw.longitude)

TomtomDefaults ==
  [ enabled |-> TRUE, incidents |-> 14400, flow |-> 1200, timeout |-> 8,
    api_key_env |-> "TOMTOM_API_KEY", probes |-> None ]

DefaultProbes ==
  LET At(id, latitude, longitude) ==
        [id |-> id, label |-> id, latitude |-> latitude, longitude |-> longitude]
  IN << At("cic-center", 35, -80), At("us74-union-west-ref", 35, -80),
        At("us74-bypass-ref", 35, -80), At("i485-southwest-ref", 35, -80),
        At("i485-west-ref", 35, -80), At("i85-charlotte-ref", 35, -80),
        At("i277-uptown-ref", 35, -80) >>

\* The probes of the section, or those that stand for none given.
FlowProbes(c) ==
  IF c.probes = None THEN DefaultProbes
  ELSE [i \in DOMAIN c.probes |-> Probe(c.probes[i])]

TomtomOk(c) ==
  /\ Readable(c, DOMAIN TomtomDefaults \ {"probes"})
  /\ c.probes # Fails
  /\ c.probes # None => \A i \in DOMAIN c.probes : ProbeOk(c.probes[i])
  /\ c.incidents >= 900 /\ c.flow >= 60 /\ c.timeout > 0
  /\ Text(c, {"api_key_env"})
  /\ FlowProbes(c) # <<>>
  /\ \A i, j \in DOMAIN FlowProbes(c) :
       FlowProbes(c)[i].id = FlowProbes(c)[j].id => i = j

TrafficDefaults ==
  [ enabled |-> TRUE, radius |-> 75, counties |-> {"Union", "Mecklenburg"},
    waze |-> TRUE, zoom |-> 11 ]

TrafficOk(c) ==
  /\ Readable(c, DOMAIN TrafficDefaults)
  /\ c.radius \in 5..300
  /\ c.counties \ {""} # {}
  /\ c.zoom \in 3..17

-----------------------------------------------------------------------------
(* The thresholds of health, in a file of their own                        *)

Families == {"compute", "memory", "storage"}

Ordered(family) == family.warning < family.critical

\* The file gives every threshold: there are no defaults.
ThresholdsOk(t) ==
  /\ \A k \in Families \union {"temperature"} : Readable(t[k], {"warning", "critical"})
  /\ \A k \in Families : Ordered(t[k]) /\ 0 <= t[k].warning /\ t[k].critical <= 100
  /\ Ordered(t.temperature)
  /\ t.wifi \notin {None, Fails} /\ t.wifi \in -127..0

-----------------------------------------------------------------------------
Loaded(raw) ==
  [ runtime      |-> Given(raw.runtime, RuntimeDefaults),
    presentation |-> Given(raw.presentation, PresentationDefaults),
    anchor       |-> Given(raw.anchor, AnchorDefaults),
    world        |-> Given(raw.world, WorldDefaults),
    location     |-> Given(raw.location, LocationDefaults),
    weather      |-> Given(raw.weather, WeatherDefaults),
    alerts       |-> Given(raw.alerts, AlertsDefaults),
    surface      |-> Given(raw.surface, SurfaceDefaults),
    forecast     |-> Given(raw.forecast, ForecastDefaults),
    radar        |-> Given(raw.radar, RadarDefaults),
    traffic      |-> Given(raw.traffic, TrafficDefaults),
    drivenc      |-> Given(raw.drivenc, DrivencDefaults),
    wzdx         |-> Given(raw.wzdx, WzdxDefaults),
    cmpd         |-> Given(raw.cmpd, CmpdDefaults),
    charlotte    |-> Given(raw.charlotte, CharlotteDefaults),
    tomtom       |-> Given(raw.tomtom, TomtomDefaults),
    thresholds   |-> raw.thresholds ]

\* RuntimeConfig.load and HealthThresholds.load raise on anything else.
Accepts(raw) ==
  LET c == Loaded(raw)
  IN /\ RuntimeOk(c.runtime) /\ PresentationOk(c.presentation)
     /\ AnchorOk(c.anchor) /\ Readable(c.world, {"enabled"}) /\ LocationOk(c.location)
     /\ WeatherOk(c.weather) /\ AlertsOk(c.alerts) /\ SurfaceOk(c.surface)
     /\ ForecastOk(c.forecast) /\ RadarOk(c.radar)
     /\ TrafficOk(c.traffic) /\ DrivencOk(c.drivenc) /\ TomtomOk(c.tomtom)
     /\ ProviderOk(c.wzdx, 300) /\ ProviderOk(c.cmpd, 60)
     /\ ProviderOk(c.charlotte, 300)
     /\ ThresholdsOk(c.thresholds)
=============================================================================
