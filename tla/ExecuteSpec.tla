----------------------------- MODULE ExecuteSpec -----------------------------
(***************************************************************************)
(* What wipe_execute promises main: how it may return, by what it is       *)
(* called with.  WipeExecute keeps the promise (ReturnsAsPromised); the    *)
(* run of the command line (CliRun) takes the call as one step that        *)
(* returns one of these results.                                           *)
(*                                                                         *)
(* The target t is a record of which these fields count: windows, whose    *)
(* build this is; raw, whether it is a device; physical, whether its path  *)
(* is \\.\PhysicalDriveN; opened, its handle, "rw" or "ro"; and dryRun.    *)
(***************************************************************************)

\* How much of the target has been wiped: nothing, something, or all that was
\* asked for; or "lost", if a pass is missing whose failure raised no flag.
Extents == {"no", "partly", "all", "lost"}

\* A device is written only behind a detach, which on Windows needs the path
\* of a physical drive.
CanWrite(t) == t.opened = "rw" /\ (t.windows /\ t.raw => t.physical)

\* The return value, how far the wipe came, and the handle it leaves.  After a
\* success the handle is still the one for writing, unless the disk had been
\* taken offline; after a failure it may be anything.
Outcomes(t) ==
  IF t.dryRun
  THEN {[ret |-> "ok", extent |-> "no", device |-> t.opened]}
  ELSE { o \in [ret : {"ok", "err"}, extent : Extents, device : {"rw", "ro", "none"}] :
           /\ o.ret = "ok" <=> o.extent \in {"all", "lost"}
           /\ ~CanWrite(t) => o.extent = "no"
           /\ o.ret = "ok" =>
                o.device = "rw" \/ (t.windows /\ t.raw /\ o.device = "none") }
=============================================================================
