----------------------------- MODULE Observation -----------------------------
(***************************************************************************)
(* What an adapter reports (core/observations/model.py) and what a batch   *)
(* of reports says of its source (bootstrap.py).                           *)
(***************************************************************************)
CONSTANTS
  None,   \* Python's None
  Fails   \* a call that raised, timed out or answered with what cannot be read

Observed(source, value) ==
  [source |-> source, status |-> "observed", value |-> value, detail |-> None]
Partial(source, value, detail) ==
  [source |-> source, status |-> "partial", value |-> value, detail |-> detail]
Unavailable(source, detail) ==
  [source |-> source, status |-> "unavailable", value |-> None, detail |-> detail]
\* Nothing new, but the last value may still be used.
Retained(source, detail) ==
  [source |-> source, status |-> "retained", value |-> None, detail |-> detail]

\* Nobody could be asked; or someone could not, or not fully; or all is new.
Availability(batch) ==
  LET Of(statuses) == {i \in DOMAIN batch : batch[i].status \in statuses}
  IN IF batch # <<>> /\ Of({"unavailable"}) = DOMAIN batch THEN "unavailable"
     ELSE IF Of({"unavailable", "partial", "retained"}) # {} THEN "degraded"
     ELSE "current"

Successful(batch) ==
  \E i \in DOMAIN batch : batch[i].status \in {"observed", "partial"}

Reasons(batch) ==
  {<<batch[i].source, batch[i].detail>> :
     i \in {j \in DOMAIN batch : batch[j].detail # None}}
=============================================================================
