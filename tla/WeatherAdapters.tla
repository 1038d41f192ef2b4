--------------------------- MODULE WeatherAdapters ---------------------------
(***************************************************************************)
(* The adapters of the weather providers, what they report of an answer    *)
(* (adapters/world/aviation_surface.py, open_meteo.py, nws_alerts.py,      *)
(* nws_forecast.py), and the estimate that is derived from what they       *)
(* reported (weather_fusion.py).                                           *)
(*                                                                         *)
(* An answer is Fails or the part of the payload that a decision reads:    *)
(* rows of stations, alerts, forecast periods, in the order of the         *)
(* payload.  Times are units of the clock, temperatures are integers, and  *)
(* a median is kept as its double.                                         *)
(***************************************************************************)
EXTENDS Observation, Integers, SequencesExt

CONSTANTS
  MaxAge,    \* max_age_minutes of a surface report
  Ahead      \* how far in the future a report may be (5 minutes in the code)

Failed(source) == <<Unavailable(source, {<<"failed", source>>})>>

Least(S, Before(_, _)) == CHOOSE x \in S : \A y \in S : x = y \/ Before(x, y)

-----------------------------------------------------------------------------
(* AviationSurfaceAdapter.  A row is None, if it is not an object, or has a *)
(* station, a time, a distance and a temperature, each of which may be     *)
(* None.                                                                   *)

\* The age of a report that may still be called current.
InWindow(at, now) == now - at <= MaxAge /\ now - at >= -Ahead

\* The rows that _parse does not skip.
UsableRows(rows, now) ==
  {i \in DOMAIN rows :
     /\ rows[i] # None /\ rows[i].station # None /\ rows[i].at # None
     /\ InWindow(rows[i].at, now)}

\* The first of the latest reports of each station.
LatestRows(rows, now) ==
  {i \in UsableRows(rows, now) :
     \A j \in UsableRows(rows, now) :
       rows[j].station = rows[i].station =>
         \/ rows[j].at < rows[i].at
         \/ rows[j].at = rows[i].at /\ i <= j}

\* By distance, a station whose distance is not known last, then by name.
Nearer(a, b) ==
  IF a.distance = b.distance THEN a.station < b.station
  ELSE b.distance = None \/ (a.distance # None /\ a.distance < b.distance)

MedianTwice(numbers) ==
  LET s == SortSeq(numbers, <)
  IN IF s = <<>> THEN None
     ELSE s[(Len(s) + 1) \div 2] + s[Len(s) \div 2 + 1]

SurfaceState(rows, now) ==
  LET latest == LatestRows(rows, now)
      temps  == SelectSeq([i \in DOMAIN rows |->
                             IF i \in latest THEN rows[i].temp ELSE None],
                          LAMBDA t : t # None)
  IN [kind     |-> "surface",
      freshest |-> Max({rows[i].at : i \in latest}),
      selected |-> Least({rows[i] : i \in latest}, Nearer).station,
      stations |-> {rows[i].station : i \in latest},
      median   |-> MedianTwice(temps),
      spread   |-> IF Len(temps) < 2 THEN None
                   ELSE Max(ToSet(temps)) - Min(ToSet(temps))]

SurfaceCollect(rows, now) ==
  IF rows = Fails \/ UsableRows(rows, now) = {} THEN Failed("aviationweather.metar")
  ELSE <<Observed("aviationweather.metar", SurfaceState(rows, now))>>

-----------------------------------------------------------------------------
(* OpenMeteoWeatherAdapter.  An answer has the current weather and the day,*)
(* each of which may fail to parse.                                        *)

OpenMeteoCollect(answer) ==
  LET Part(source, part) ==
        IF answer = Fails \/ part = Fails
        THEN Unavailable(source, {<<"failed", source>>})
        ELSE Observed(source, part)
  IN << Part("openmeteo.current", IF answer = Fails THEN Fails ELSE answer.current),
        Part("openmeteo.daily",   IF answer = Fails THEN Fails ELSE answer.daily) >>

-----------------------------------------------------------------------------
(* NWSAlertsAdapter.  Alerts are <<severity, identity>>; a severity that   *)
(* the table does not have counts as 0.                                    *)

ShownAlerts == 8

Worse(a, b) == a[1] > b[1] \/ (a[1] = b[1] /\ a[2] < b[2])

AlertState(features) ==
  LET sorted == SortSeq(features, Worse)
  IN [kind |-> "alerts", count |-> Len(features),
      highest |-> IF features = <<>> THEN None ELSE sorted[1][1],
      alerts |-> SubSeq(sorted, 1, Min({ShownAlerts, Len(features)}))]

AlertsCollect(features) ==
  IF features = Fails THEN Failed("nws.alerts")
  ELSE <<Observed("nws.alerts", AlertState(features))>>

-----------------------------------------------------------------------------
(* NWSHourlyForecastAdapter.  A period is None, if it is not an object,    *)
(* Fails, if it has no start, or an hour, whose start may not be a time    *)
(* (None).                                                                 *)

ForecastHours == 6

ForecastState(periods) ==
  [kind |-> "hourly",
   hours |-> SelectSeq(SubSeq(periods, 1, Min({ForecastHours, Len(periods)})),
                       LAMBDA p : p # None)]

ForecastParses(periods) ==
  periods # Fails /\ ForecastState(periods).hours # <<>>
    /\ \A i \in DOMAIN ForecastState(periods).hours :
         ForecastState(periods).hours[i] # Fails

ForecastCollect(periods) ==
  IF ForecastParses(periods)
  THEN <<Observed("nws.forecast.hourly", ForecastState(periods))>>
  ELSE Failed("nws.forecast.hourly")

-----------------------------------------------------------------------------
(* derive_current_weather_estimate                                         *)

\* The forecast hour of now: the last one that has begun, or else the first.
ReferenceHour(forecast, now) ==
  LET hours == forecast.hours
      Timed == {i \in DOMAIN hours : hours[i].start # None}
      Begun == {i \in Timed : hours[i].start <= now}
      Later(i, j)   == \/ hours[i].start > hours[j].start
                       \/ hours[i].start = hours[j].start /\ i > j
      Earlier(i, j) == \/ hours[i].start < hours[j].start
                       \/ hours[i].start = hours[j].start /\ i < j
  IN IF hours = <<>>     THEN None
     ELSE IF Timed = {}  THEN hours[1]
     ELSE IF Begun # {}  THEN hours[Least(Begun, Later)]
     ELSE hours[Least(Timed, Earlier)]

\* What the estimate takes from a source, and what it compares it with.
\* surface, weather and forecast are the components or None.
Estimate(surface, surfaceUsable, weather, weatherCurrent, forecast, forecastCurrent, now) ==
  LET bySurface == surfaceUsable /\ surface # None /\ surface.median # None
      byModel   == weatherCurrent /\ weather # None /\ weather.temp # None
      model == IF weatherCurrent /\ weather # None THEN weather.temp ELSE None
      hour  == IF forecastCurrent /\ forecast # None
               THEN ReferenceHour(forecast, now) ELSE None
      temp  == IF bySurface THEN surface.median ELSE 2 * weather.temp
      Delta(other) == IF other = None THEN None ELSE 2 * other - temp
  IN IF ~bySurface /\ ~byModel THEN None
     ELSE [kind    |-> "estimate",
           primary |-> IF bySurface THEN "surface" ELSE "weather",
           temp    |-> temp,
           station |-> IF bySurface THEN surface.selected ELSE None,
           modelDelta    |-> Delta(model),
           forecastDelta |-> Delta(IF hour = None THEN None ELSE hour.temp),
           reference     |-> IF hour = None THEN None ELSE hour.start]
=============================================================================
