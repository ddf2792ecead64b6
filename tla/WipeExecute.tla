----------------------------- MODULE WipeExecute -----------------------------
(***************************************************************************)
(* wipe_execute of wipe.c, with its helpers that prepare, reopen and       *)
(* restore a physical disk, the progress monitor thread it starts for      *)
(* every pass, and what main.c does around the call (progress_create,      *)
(* progress_destroy, exit).                                                *)
(*                                                                         *)
(* A pass itself is one step here, with the results a caller can tell      *)
(* apart: ThreadedPass and SequentialPass show that both engines keep the  *)
(* promise of PassSpec, so "ok" stands for a pass that overwrote its whole *)
(* target.  A pass fails with the shared flag set ("failed"), or returns   *)
(* -1 without having touched the flag ("silent": run_workers before its    *)
(* slots exist, wipe_ranges_sequential before its loop), or takes the      *)
(* process down ("crash").                                                 *)
(*                                                                         *)
(* The monitor is a process of its own.  It reads wipe_execute's stack     *)
(* frame and, through the callback, the progress bar.                      *)
(***************************************************************************)
EXTENDS Integers, ExecuteSpec

CONSTANTS
  MaxPasses,  \* bound on cfg.passes
  Geometries  \* the disks there are, as get_geometry describes them

ASSUME ExecuteAssumption ==
  /\ MaxPasses \in Nat
  /\ Geometries \subseteq [removable : BOOLEAN, rotational : BOOLEAN, ssd : BOOLEAN,
                           capacity : Nat]   \* in GiB

Profiles == {"ghost", "spectrum", "flash-realist"}

\* What wipe_execute is called with.  physical: the path is \\.\PhysicalDriveN,
\* the only form the Windows dismount code accepts; ranges: one range from
\* offset 0, or anything else; windows: whose build this is.  A path that is
\* not raw has the geometry of a file.
FileGeometry == [removable |-> FALSE, rotational |-> FALSE, ssd |-> FALSE, capacity |-> 1]
Configs ==
  { c \in [windows : BOOLEAN, dryRun : BOOLEAN, raw : BOOLEAN, physical : BOOLEAN,
           passes : 0 .. MaxPasses, profile : Profiles, secureErase : BOOLEAN, allowTrim : BOOLEAN,
           ranges : {"whole", "parts"}, geo : Geometries \cup {FileGeometry},
           opened : {"rw", "ro"}] :
      /\ c.geo = FileGeometry <=> ~c.raw
      /\ c.physical => c.raw }

VARIABLES
  cfg,        \* the configuration and the target; never changes
  pc,         \* where the main thread is
  device,     \* target->device: "rw", "ro" or "none" (NULL)
  offlined,   \* disk_detach.disk_offlined
  disk,       \* "online" or "offline": what the system says of the disk
  detached,   \* history: platform_detach_disk_for_wipe has succeeded
  refused,    \* history: the system refused to bring the disk back online
  pass,       \* shared.pass_current
  failed,     \* shared.failed
  running,    \* shared.monitor_running
  mon,        \* the monitor: "none", "check", "report", "sleep", "exited"
  bar,        \* the progress bar: "live" or "freed"
  engine,     \* history: result of the last pass, "none" before the first
  written,    \* history: passes that have overwritten the whole target
  flushed,    \* history: passes flushed to the device
  trimmed,    \* history: passes whose ranges have been discarded
  erased,     \* history: the SSD secure erase succeeded
  reported,   \* st.pass_current of the final status
  ret         \* return value: "none", "ok" (0) or "err" (-1)

envVars  == <<disk, detached, refused, offlined>>
passVars == <<engine, written, flushed, trimmed, erased>>
monVars  == <<running, mon>>
vars == <<cfg, pc, device, envVars, pass, failed, monVars, bar, passVars, reported, ret>>

Init ==
  /\ cfg \in Configs
  /\ pc = "enter" /\ device = cfg.opened
  /\ offlined = FALSE /\ disk = "online" /\ detached = FALSE /\ refused = FALSE
  /\ pass = 0 /\ failed = FALSE /\ running = FALSE /\ mon = "none" /\ bar = "live"
  /\ engine = "none" /\ written = 0 /\ flushed = 0 /\ trimmed = 0 /\ erased = FALSE
  /\ reported = 0 /\ ret = "none"

Windows == cfg.windows

\* profile_pass_count, and its override by --passes.
ProfilePassCount(profile) == IF profile = "spectrum" THEN 2 ELSE 1
PassTotal == IF cfg.passes > 0 THEN cfg.passes ELSE ProfilePassCount(cfg.profile)

\* wipe_use_sequential.
SequentialLimit == 64   \* GiB
UseSequential ==
  /\ cfg.raw
  /\ \/ cfg.geo.removable
     \/ cfg.geo.rotational /\ cfg.geo.capacity <= SequentialLimit

\* The engine the pass loop picks.
UsesWorkers == cfg.ranges = "whole" /\ ~UseSequential

Goto(from, to) == pc = from /\ pc' = to

(***************************************************************************)
(* The main thread.                                                        *)
(***************************************************************************)

\* Mutant of Enter: the handle is not looked at.
EnterAnyHandle ==
  /\ IF cfg.dryRun THEN Goto("enter", "returned") /\ ret' = "ok"
     ELSE Goto("enter", IF cfg.raw THEN "prepare" ELSE "erase") /\ UNCHANGED ret
  /\ UNCHANGED <<cfg, device, envVars, pass, failed, monVars, bar, passVars, reported>>

\* The early returns: a dry run, a device that cannot be written.
Enter ==
  /\ IF cfg.dryRun THEN Goto("enter", "returned") /\ ret' = "ok"
     ELSE IF device = "ro" THEN Goto("enter", "returned") /\ ret' = "err"
     ELSE Goto("enter", IF cfg.raw THEN "prepare" ELSE "erase") /\ UNCHANGED ret
  /\ UNCHANGED <<cfg, device, envVars, pass, failed, monVars, bar, passVars, reported>>

\* wipe_prepare_physical_disk up to the detach: the handle is closed, then the
\* volumes are dismounted and, on Windows, the disk is taken offline.  The
\* detach fails if the path is no physical drive, if a volume stays mounted,
\* or if the system refuses to take the disk offline for any reason but that
\* it cannot do so with this disk.
Prepare ==
  /\ device' = "none"
  /\ \/ Goto("prepare", "unprepared") /\ UNCHANGED <<detached, offlined, disk>>
     \/ /\ Windows => cfg.physical
        /\ Goto("prepare", "reopen") /\ detached' = TRUE
        /\ \/ Windows /\ offlined' = TRUE /\ disk' = "offline"
           \/ UNCHANGED <<offlined, disk>>
  /\ UNCHANGED <<cfg, refused, pass, failed, monVars, bar, passVars, reported, ret>>

\* Mutant of Reopen: a read-only handle is as good as any.
ReopenAny ==
  /\ device' \in {"rw", "ro", "none"}
  /\ Goto("reopen", IF device' # "none" THEN "erase" ELSE "unprepared")
  /\ UNCHANGED <<cfg, envVars, pass, failed, monVars, bar, passVars, reported, ret>>

\* wipe_reopen_target, and the refusal of a handle that came back read-only.
Reopen ==
  /\ device' \in {"rw", "ro", "none"}
  /\ Goto("reopen", IF device' = "rw" THEN "erase" ELSE "unprepared")
  /\ UNCHANGED <<cfg, envVars, pass, failed, monVars, bar, passVars, reported, ret>>

\* Mutant of RestoreDisk: the disk is only brought back after a success.
RestoreDiskOnSuccess(how) ==
  IF ~offlined \/ how = "err" THEN UNCHANGED <<device, disk, refused>>
  ELSE device' = "none" /\ disk' = "online" /\ UNCHANGED refused

\* wipe_restore_physical_disk: only a disk that was taken offline is touched;
\* its handle is closed and the system is asked to bring it back.
RestoreDisk(how) ==
  IF ~offlined THEN UNCHANGED <<device, disk, refused>>
  ELSE /\ device' = "none"
       /\ \/ disk' = "online" /\ UNCHANGED refused
          \/ refused' = TRUE /\ UNCHANGED disk

\* A failed preparation still restores the disk, and wipe_execute gives up.
Unprepared ==
  /\ Goto("unprepared", "returned") /\ ret' = "err"
  /\ RestoreDisk("err")
  /\ UNCHANGED <<cfg, offlined, detached, pass, failed, monVars, bar, passVars, reported>>

WantsErase ==
  cfg.profile = "flash-realist" /\ cfg.secureErase /\ cfg.geo.ssd

\* The SSD secure erase replaces the passes if the device accepts it.
SecureErase ==
  /\ \/ /\ Goto("erase", "pass")
        /\ UNCHANGED <<device, disk, refused, erased, ret>>
     \/ /\ WantsErase
        /\ Goto("erase", "returned") /\ erased' = TRUE /\ ret' = "ok"
        /\ RestoreDisk("ok")
  /\ UNCHANGED <<cfg, offlined, detached, pass, failed, monVars, bar, engine, written,
                 flushed, trimmed, reported>>

\* The head of the pass loop: the next pass starts its monitor, whose creation
\* may fail, or the loop is over.
StartPass ==
  /\ \/ /\ pass < PassTotal
        /\ Goto("pass", "engine") /\ pass' = pass + 1
        /\ running' = TRUE
        /\ mon' \in {"none", "check"}
     \/ /\ pass = PassTotal
        /\ Goto("pass", "finish")
        /\ UNCHANGED <<pass, monVars>>
  /\ UNCHANGED <<cfg, device, envVars, failed, bar, passVars, reported, ret>>

\* Only run_workers can take the process down with it.
EngineResults ==
  {"ok", "failed", "silent"} \cup (IF UsesWorkers THEN {"crash"} ELSE {})

\* Mutant of RunEngine: monitor_running is not cleared after a good pass.
RunEngineMonitorLeft ==
  /\ engine' = "ok" /\ written' = written + 1 /\ Goto("engine", "join")
  /\ UNCHANGED <<cfg, device, envVars, pass, failed, monVars, bar, flushed, trimmed,
                 erased, reported, ret>>

\* The pass and the break after a failed one, with monitor_running cleared in
\* either case.
RunEngine ==
  /\ \E r \in EngineResults :
       /\ engine' = r
       /\ failed' = (failed \/ r = "failed")
       /\ written' = IF r = "ok" THEN written + 1 ELSE written
       /\ IF r = "crash" THEN Goto("engine", "dead") /\ UNCHANGED running
          ELSE Goto("engine", IF r = "ok" THEN "join" ELSE "finish") /\ running' = FALSE
  /\ UNCHANGED <<cfg, device, envVars, pass, mon, bar, flushed, trimmed, erased, reported, ret>>

\* Mutant of JoinMonitor: the handle is closed without waiting.
JoinMonitorDetached ==
  /\ Goto("join", "flush")
  /\ UNCHANGED <<cfg, device, envVars, pass, failed, monVars, bar, passVars, reported, ret>>

\* After a successful pass the main thread waits for the monitor.  Windows
\* skips the wait if there is no handle; POSIX joins a pthread_t that may never
\* have been set, which either fails or kills the process.
JoinMonitor ==
  /\ \/ mon \in {"none", "exited"} /\ Goto("join", "flush")
     \/ ~Windows /\ mon = "none" /\ Goto("join", "dead")
  /\ UNCHANGED <<cfg, device, envVars, pass, failed, monVars, bar, passVars, reported, ret>>

\* Mutant of Flush: a failed flush ends the loop but not the wipe.
FlushIgnored ==
  /\ \/ Goto("flush", "trim") /\ flushed' = pass
     \/ Goto("flush", "finish") /\ UNCHANGED flushed
  /\ UNCHANGED <<cfg, device, envVars, pass, failed, monVars, bar, engine, written,
                 trimmed, erased, reported, ret>>

\* platform_flush: its failure fails the wipe and leaves the loop.
Flush ==
  /\ \/ Goto("flush", "trim") /\ flushed' = pass /\ UNCHANGED failed
     \/ Goto("flush", "finish") /\ failed' = TRUE /\ UNCHANGED flushed
  /\ UNCHANGED <<cfg, device, envVars, pass, monVars, bar, engine, written,
                 trimmed, erased, reported, ret>>

\* Mutant of Trim: discards whatever --allow-trim says.
TrimAlways ==
  /\ Goto("trim", "pass")
  /\ trimmed' = IF cfg.raw THEN pass ELSE trimmed
  /\ UNCHANGED <<cfg, device, envVars, pass, failed, monVars, bar, engine, written,
                 flushed, erased, reported, ret>>

\* Discarding is opt-in, for raw devices, and its failure only a warning.
Trim ==
  /\ Goto("trim", "pass")
  /\ trimmed' = IF cfg.allowTrim /\ cfg.raw THEN pass ELSE trimmed
  /\ UNCHANGED <<cfg, device, envVars, pass, failed, monVars, bar, engine, written,
                 flushed, erased, reported, ret>>

\* The final status.  The loop counter is one past the last pass if the loop
\* ran out, and at the pass that broke it otherwise.
Finish ==
  /\ Goto("finish", "restore")
  /\ reported' = IF engine = "ok" /\ ~failed THEN pass ELSE pass - 1
  /\ UNCHANGED <<cfg, device, envVars, pass, failed, monVars, bar, passVars, ret>>

Restore ==
  /\ Goto("restore", "returned") /\ ret' = IF failed THEN "err" ELSE "ok"
  /\ RestoreDisk(ret')
  /\ UNCHANGED <<cfg, offlined, detached, pass, failed, monVars, bar, passVars, reported>>

\* main destroys the progress bar whatever wipe_execute returned, and exits,
\* which ends every thread.
DestroyBar ==
  /\ Goto("returned", "destroyed") /\ bar' = "freed"
  /\ UNCHANGED <<cfg, device, envVars, pass, failed, monVars, passVars, reported, ret>>

Exit ==
  /\ Goto("destroyed", "exited")
  /\ UNCHANGED <<cfg, device, envVars, pass, failed, monVars, bar, passVars, reported, ret>>

\* Ctrl-C, a kill or a crash: no handler runs.
Killed ==
  /\ pc \notin {"exited", "dead"} /\ pc' = "dead"
  /\ UNCHANGED <<cfg, device, envVars, pass, failed, monVars, bar, passVars, reported, ret>>

Main == Enter \/ Prepare \/ Reopen \/ Unprepared \/ SecureErase \/ StartPass \/ RunEngine
          \/ JoinMonitor \/ Flush \/ Trim \/ Finish \/ Restore \/ DestroyBar \/ Exit

(***************************************************************************)
(* The monitor.                                                            *)
(***************************************************************************)

ProcessAlive == pc \notin {"exited", "dead"}
FrameAlive == pc \notin {"returned", "destroyed", "exited", "dead"}

MonGoto(from, to) ==
  /\ ProcessAlive /\ mon = from /\ mon' = to
  /\ UNCHANGED <<cfg, pc, device, envVars, pass, failed, running, bar, passVars, reported, ret>>

\* The loop test.  Once wipe_execute has returned, the two flags are whatever
\* its stack frame has become.
MonCheck ==
  \/ FrameAlive /\ MonGoto("check", IF running /\ ~failed THEN "report" ELSE "exited")
  \/ ~FrameAlive /\ \E to \in {"report", "exited"} : MonGoto("check", to)

\* The callback with the progress bar, then the sleep.
MonReport == MonGoto("report", "sleep")
MonWake == MonGoto("sleep", "check")

Monitor == MonCheck \/ MonReport \/ MonWake

Ended == ~ProcessAlive /\ UNCHANGED vars

Next == Main \/ Monitor \/ Killed \/ Ended

Spec == Init /\ [][Next]_vars

\* The system schedules both threads and every system call returns.
FairSpec == Spec /\ WF_vars(Main) /\ WF_vars(Monitor)

-----------------------------------------------------------------------------
(***************************************************************************)
(* Properties.                                                             *)
(***************************************************************************)

TypeOK ==
  /\ cfg \in Configs
  /\ device \in {"rw", "ro", "none"} /\ disk \in {"online", "offline"}
  /\ offlined \in BOOLEAN /\ detached \in BOOLEAN /\ refused \in BOOLEAN
  /\ failed \in BOOLEAN /\ running \in BOOLEAN /\ erased \in BOOLEAN
  /\ pass \in 0 .. PassTotal /\ written \in 0 .. PassTotal
  /\ flushed \in 0 .. PassTotal /\ trimmed \in 0 .. PassTotal
  /\ reported \in 0 .. PassTotal
  /\ mon \in {"none", "check", "report", "sleep", "exited"}
  /\ bar \in {"live", "freed"}
  /\ engine \in {"none", "ok", "failed", "silent", "crash"}
  /\ ret \in {"none", "ok", "err"}

Done == pc \in {"returned", "destroyed", "exited"}

\* Whichever way wipe_execute returns, the disk it took offline is online
\* again, unless the system itself refused.
DiskBackOnline == Done /\ disk = "offline" => refused

\* Nothing is erased, overwritten or discarded on a physical disk that has not
\* been detached from its volumes, nor through a handle not open for writing.
WritesOnlyWhenPrepared ==
  pc \in {"erase", "engine", "trim"} => (cfg.raw => detached) /\ device = "rw"

\* A wipe that returns 0 has written and flushed every pass, was replaced by
\* a secure erase, or lost a pass that failed without raising the flag.
SuccessUnlessSilent ==
  ret = "ok" /\ ~cfg.dryRun /\ ~erased =>
    flushed = PassTotal \/ engine = "silent"

\* Nothing is discarded before it is overwritten and flushed, and nothing at
\* all without --allow-trim.
TrimAfterFlush ==
  /\ trimmed <= flushed /\ flushed <= written
  /\ trimmed > 0 => cfg.allowTrim /\ cfg.raw

\* How far the wipe has come, in the words of ExecuteSpec.
Extent ==
  IF erased \/ flushed = PassTotal THEN "all"
  ELSE IF engine = "silent" THEN "lost"
  ELSE IF pass = 0 THEN "no" ELSE "partly"

\* wipe_execute returns as main expects of it: return value, extent of the wipe
\* and handle fit together, and what cannot be written is not touched.
ReturnsAsPromised ==
  Done => [ret |-> ret, extent |-> Extent, device |-> device] \in Outcomes(cfg)

\* Once a successful pass has been joined no monitor is left that could read
\* the stack frame or the progress bar; only a broken pass leaves one.
MonitorGone ==
  pc \notin {"engine", "join", "dead"} /\ engine = "ok" => mon \in {"none", "exited"}

\* wipe_execute returns and the program exits: in particular the join of the
\* monitor never waits for ever.
Finishes == <>(pc \in {"exited", "dead"})

(***************************************************************************)
(* What the documentation says and the code does not do.                   *)
(***************************************************************************)

\* A wipe that is reported as a success has carried out every pass of its
\* profile, or the secure erase instead.
SuccessMeansAllPasses ==
  ret = "ok" /\ ~cfg.dryRun => erased \/ written = PassTotal

\* A secure erase, which takes the whole drive, is for a wipe of the whole
\* drive.  The code does not look at the ranges.
EraseOnlyWholeDisk == erased => cfg.ranges = "whole"
=============================================================================
