--------------------------- MODULE WorkerLiveness ---------------------------
(***************************************************************************)
(* The closed lifecycle of one enabled collection worker                   *)
(* (runtime_authority.py, WorkerLifecycle and WorkerLiveness).  Every      *)
(* mark_* method runs under the tracker's lock, so each is one step; its   *)
(* effect on the lifecycle is an operator from the old value to the new.   *)
(* Timestamps and the bounded failure text are left out: no decision of    *)
(* the runtime reads them.                                                 *)
(***************************************************************************)

WorkerLifecycle ==
  {"initialized", "starting", "running", "stopping", "stopped", "failed"}

\* mark_starting and mark_running overwrite whatever was there, also
\* "stopping": a thread that is scheduled late reports "running" again.
MarkStarting(lc) == "starting"
MarkRunning(lc)  == "running"

\* Slip: the join of a failed worker reports it as stopped.
MarkStoppedAlways(lc) == "stopped"

\* A failure survives every later stop request and join.
MarkStopping(lc) == IF lc = "failed" THEN lc ELSE "stopping"
MarkStopped(lc)  == IF lc = "failed" THEN lc ELSE "stopped"

MarkFailed(lc) == "failed"
=============================================================================
