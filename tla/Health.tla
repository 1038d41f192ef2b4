------------------------------- MODULE Health -------------------------------
(***************************************************************************)
(* The health of an entity, derived from its components                    *)
(* (holons/systems/health.py, HealthSystem.evaluate).  comps is a function *)
(* from kinds to components, None where there is none.  A reason is what   *)
(* is wrong, with the number the text would show: two health states with   *)
(* different numbers are different.                                        *)
(***************************************************************************)
EXTENDS Materiality

Present(comps, kind) == kind \in DOMAIN comps /\ comps[kind] # None

Reason(condition, reason) == IF condition THEN {reason} ELSE {}

AtBand(comps, band, t) ==
  {<<k, comps[k].level>> :
     k \in {j \in BandedKinds : Present(comps, j) /\ Band(comps[j], t) = band}}

CriticalReasons(comps, t) ==
  AtBand(comps, 2, t)
    \union Reason(Present(comps, "usb") /\ ~comps["usb"].present, <<"usb", "absent">>)
    \union Reason(Present(comps, "wifi") /\ ~comps["wifi"].connected,
                  <<"wifi", "disconnected">>)

WarningReasons(comps, t) ==
  AtBand(comps, 1, t)
    \union Reason(Present(comps, "usb") /\ comps["usb"].present
                    /\ comps["usb"].mode # "wifi", <<"usb", "mode">>)
    \union (IF /\ Present(comps, "wifi")
               /\ comps["wifi"].connected
               /\ comps["wifi"].signal # None
               /\ LowBand(comps["wifi"].signal, t.wifi) = 1
            THEN {<<"wifi", "signal", comps["wifi"].signal>>} ELSE {})

\* What the ObservationState says of the telemetry itself.
TelemetryIs(comps, availability) ==
  Present(comps, "observation")
    /\ comps["observation"].availability = availability

BearsHealth(comps) ==
  \E k \in BandedKinds \union {"usb", "wifi"} : Present(comps, k)

HealthState(status, reasons) ==
  [kind |-> "health", status |-> status, reasons |-> reasons]

Evaluate(comps, t) ==
  LET critical == CriticalReasons(comps, t)
      warning  == WarningReasons(comps, t)
                    \union (IF TelemetryIs(comps, "degraded")
                            THEN {<<"degraded", comps["observation"].reasons>>} ELSE {})
  IN IF TelemetryIs(comps, "unavailable")
     THEN HealthState("unknown", {<<"unavailable", comps["observation"].reasons,
                                    comps["observation"].succeeded>>})
     ELSE IF critical # {}       THEN HealthState("critical", critical \union warning)
     ELSE IF warning # {}        THEN HealthState("warning", warning)
     ELSE IF BearsHealth(comps)  THEN HealthState("nominal", {})
     ELSE HealthState("unknown", {<<"no telemetry">>})

=============================================================================
