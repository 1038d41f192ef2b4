----------------------------- MODULE Materiality -----------------------------
(***************************************************************************)
(* Which change of a component is durable history and which is a sample    *)
(* (holons/systems/materiality.py).                                        *)
(*                                                                         *)
(* A component is a record with a field "kind".  The fields that its rule  *)
(* compares one by one are one field "meaning" here, what the rule ignores *)
(* is one field "rest"; what the rule places in bands is a number.  t are   *)
(* the levels of config/health.json, as the process has loaded them.       *)
(***************************************************************************)
EXTENDS Observation, Integers, Sequences

\* Kinds whose rule compares a fixed tuple of fields and nothing else:
\* places, products, stations, alerts, event and camera and sign signatures,
\* kernels; and usb, which is compared whole (its rest is empty).
StructuralKinds ==
  {"usb", "weather", "day", "alerts", "surface", "estimate", "radar",
   "radarcontext", "events", "cameras", "signs", "situation"}

BandedKinds == {"compute", "memory", "storage", "temperature"}

HighBand(value, warning, critical) ==
  IF value >= critical THEN 2 ELSE IF value >= warning THEN 1 ELSE 0

LowBand(value, warning) == IF value <= warning THEN 1 ELSE 0

\* The level of a banded component; a temperature may have none.
Band(c, t) ==
  IF c.level = None THEN None
  ELSE HighBand(c.level, t[c.kind].warning, t[c.kind].critical)

\* The probability of precipitation of the first forecast hour, in bands.
PopBand(pop) ==
  IF pop = None THEN None
  ELSE HighBand(pop, 50, 80) + (IF pop >= 20 THEN 1 ELSE 0)

\* A road segment's speed against its free-flow speed.
RelativeBand(probe) ==
  CASE probe.closure -> "closed"
    [] ~probe.closure /\ (None \in {probe.speed, probe.free}) -> "unknown"
    [] OTHER ->
         IF probe.free <= 0 THEN "unknown"
         ELSE IF 100 * probe.speed >= 85 * probe.free THEN "free"
         ELSE IF 100 * probe.speed >= 65 * probe.free THEN "slowed"
         ELSE IF 100 * probe.speed >= 40 * probe.free THEN "congested"
         ELSE "severe"

HourMeaning(hours) ==
  IF hours = <<>> THEN <<None, None>>
  ELSE <<hours[1].short, PopBand(hours[1].pop)>>

\* What the rule of a component's kind compares.
Signature(c, t) ==
  CASE c.kind \in StructuralKinds -> c.meaning
    [] c.kind \in BandedKinds     -> <<c.meaning, Band(c, t)>>
    [] c.kind = "observation"     -> <<c.availability, c.reasons>>
    [] c.kind = "hourly"          -> HourMeaning(c.hours)
    [] c.kind = "flow"            ->
         <<c.meaning, [i \in DOMAIN c.probes |->
                         <<c.probes[i].meaning, RelativeBand(c.probes[i])>>]>>
    [] OTHER                      -> c

\* A missing signal on a link that is otherwise the same says nothing.
SameLink(previous, current, t) ==
  /\ previous.meaning = current.meaning
  /\ \/ None \in {previous.signal, current.signal}
     \/ LowBand(previous.signal, t.wifi) = LowBand(current.signal, t.wifi)

\* telemetry_significance
Significance(previous, current, t) ==
  IF \/ previous = None
     \/ current.kind \in {"health", "node"}
  THEN "material"
  ELSE IF CASE current.kind = "uptime" -> TRUE
            [] current.kind = "wifi"   -> SameLink(previous, current, t)
            [] OTHER -> Signature(previous, t) = Signature(current, t)
       THEN "sample" ELSE "material"
=============================================================================
