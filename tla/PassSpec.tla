------------------------------ MODULE PassSpec ------------------------------
(***************************************************************************)
(* What one overwrite pass promises to wipe_execute, whichever engine runs *)
(* it (run_workers or wipe_ranges_sequential): it overwrites bytes of its  *)
(* target only, it returns success only when it has overwritten all of     *)
(* them, and once it has returned nothing writes to the device any more.   *)
(***************************************************************************)
VARIABLES target,   \* the bytes a successful pass has overwritten
          wiped,    \* the bytes overwritten so far
          ret       \* "running", then "ok", "fail" or "crashed"

passVars == <<target, wiped, ret>>

PassInit == wiped = {} /\ ret = "running"

\* Until the first byte is written, the target may still be worked out.
Settle ==
  /\ ret = "running" /\ wiped = {}
  /\ UNCHANGED <<wiped, ret>>

Overwrite ==
  /\ ret = "running"
  /\ wiped \subseteq wiped' /\ wiped' \subseteq target
  /\ UNCHANGED <<target, ret>>

Return ==
  /\ ret = "running"
  /\ ret' \in {"ok", "fail", "crashed"}
  /\ ret' = "ok" => wiped = target
  /\ UNCHANGED <<target, wiped>>

PassNext == Settle \/ Overwrite \/ Return

PassPromise == PassInit /\ [][PassNext]_passVars
=============================================================================
