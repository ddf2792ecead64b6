------------------------- MODULE DetachedWipeProofs -------------------------
(***************************************************************************)
(* Proofs about DetachedWipe, for any number of volumes and passes, and    *)
(* first about WipeExecute, which it extends.                              *)
(*                                                                         *)
(* ExecuteInv says what is true at each place of the main thread: how far  *)
(* the passes have been counted, that the handle is the one for writing,   *)
(* and whether a monitor may still be there.  The safety properties follow *)
(* from it; none of them is inductive alone, because what Finish reports   *)
(* depends on how the loop was left.                                       *)
(* ReturnInv adds that what is returned is what ExecuteSpec promises.      *)
(*                                                                         *)
(* DetachInv is about the detach: as long as no attempt has failed, what   *)
(* was tried is gone; every pass finds all the letters.  WipeInv ties the  *)
(* wipe to it: behind Prepare the detach has returned, and it succeeded    *)
(* wherever the wipe goes on.  From both follows that the composition      *)
(* implements WipeExecute, whose Prepare is a single step.                 *)
(*                                                                         *)
(* That both end is a matter of counting: StepsLeft and AllStepsLeft are   *)
(* natural numbers that go down with every step of the tool.               *)
(***************************************************************************)
EXTENDS DetachedWipe, FiniteSetTheorems, TLAPS

Places ==
  {"enter", "prepare", "reopen", "unprepared", "erase", "pass", "engine", "join", "flush",
   "trim", "finish", "restore", "returned", "destroyed", "exited", "dead"}

\* The arithmetic part of the type invariant.
Counts ==
  /\ pass \in 0 .. PassTotal /\ written \in 0 .. PassTotal
  /\ flushed \in 0 .. PassTotal /\ trimmed \in 0 .. PassTotal
  /\ reported \in 0 .. PassTotal

\* The rest of it, but for the two variables that say how the disk is left.
Flags ==
  /\ cfg \in Configs
  /\ offlined \in BOOLEAN /\ detached \in BOOLEAN
  /\ failed \in BOOLEAN /\ running \in BOOLEAN /\ erased \in BOOLEAN
  /\ mon \in {"none", "check", "report", "sleep", "exited"}
  /\ bar \in {"live", "freed"}
  /\ engine \in {"none", "ok", "failed", "silent", "crash"}
  /\ ret \in {"none", "ok", "err"}

Gone == mon \in {"none", "exited"}

\* Before the loop nothing has happened.
BeforeLoop ==
  pc \in {"enter", "prepare", "reopen", "unprepared", "erase"} =>
    /\ pass = 0 /\ written = 0 /\ flushed = 0 /\ trimmed = 0
    /\ engine = "none" /\ ~failed /\ ~erased /\ mon = "none"

\* In it, the counts go in step, and no flag is up.
InLoop ==
  /\ pc = "pass" => written = pass /\ flushed = pass /\ ~failed /\ Gone
  /\ pc = "engine" =>
       pass > 0 /\ written = pass - 1 /\ flushed = pass - 1 /\ ~failed
  /\ pc \in {"join", "flush"} =>
       pass > 0 /\ written = pass /\ flushed = pass - 1 /\ ~failed /\ engine = "ok"
  /\ pc = "flush" => Gone
  /\ pc = "trim" => pass > 0 /\ written = pass /\ flushed = pass /\ ~failed /\ Gone

\* Behind it, either all passes are flushed, or the one that broke the loop
\* has left a trace in failed or in engine.
BehindLoop ==
  pc \in {"finish", "restore"} =>
    /\ pass > 0
    /\ failed => flushed < PassTotal /\ engine # "silent"
    /\ ~failed => flushed = PassTotal \/ engine = "silent"

\* The handle: what it is when the wipe is called, and while it may write.
Prepared ==
  /\ pc = "enter" => device = cfg.opened
  /\ pc = "reopen" => detached
  /\ pc \in {"erase", "pass", "engine", "join", "flush", "trim", "finish", "restore"} =>
       device = "rw" /\ (cfg.raw => detached)

Offline ==
  /\ disk = "offline" => offlined
  /\ Done /\ disk = "offline" => refused
  /\ pc = "enter" => disk = "online"

\* What has been called for: a target that may be written, and that is
\* detached only if it can be.
Allowed ==
  /\ pc \notin {"enter", "returned", "destroyed", "exited", "dead"} =>
       ~cfg.dryRun /\ cfg.opened = "rw"
  /\ pc \in {"prepare", "reopen", "unprepared"} => cfg.raw
  /\ detached /\ cfg.windows /\ cfg.raw => cfg.physical
  /\ offlined => cfg.windows /\ cfg.raw

Returns ==
  /\ ret # "none" => pc \in {"returned", "destroyed", "exited", "dead"}
  /\ erased => pc \in {"returned", "destroyed", "exited", "dead"}

ExecuteInv ==
  /\ TypeOK /\ pc \in Places
  /\ BeforeLoop /\ InLoop /\ BehindLoop /\ Prepared /\ Offline /\ Returns
  /\ Allowed /\ SuccessUnlessSilent /\ TrimAfterFlush /\ MonitorGone

-----------------------------------------------------------------------------
LEMMA PassTotalType ==
  ASSUME cfg \in Configs
  PROVE  PassTotal \in Nat \ {0}
<1>1. cfg.passes \in 0 .. MaxPasses
  BY DEF Configs
<1>2. MaxPasses \in Nat
  BY ExecuteAssumption
<1>. QED  BY <1>1, <1>2 DEF PassTotal, ProfilePassCount

LEMMA OpenedType ==
  ASSUME cfg \in Configs
  PROVE  cfg.opened \in {"rw", "ro"}
BY DEF Configs

LEMMA PassTotalStays ==
  ASSUME cfg' = cfg
  PROVE  PassTotal' = PassTotal
BY DEF PassTotal, ProfilePassCount

LEMMA ExecuteInit == Init => ExecuteInv
<1>. SUFFICES ASSUME Init PROVE ExecuteInv
  OBVIOUS
<1>1. PassTotal \in Nat \ {0}
  BY PassTotalType DEF Init
<1>2. Counts
  BY <1>1 DEF Init, Counts
<1>6. TypeOK /\ pc \in Places
  BY <1>2, OpenedType DEF Init, TypeOK, Counts, Places
<1>3. BeforeLoop /\ InLoop /\ BehindLoop
  BY DEF Init, BeforeLoop, InLoop, BehindLoop
<1>4. Prepared /\ Offline /\ Returns /\ Allowed
  BY DEF Init, Prepared, Offline, Returns, Allowed, Done
<1>5. SuccessUnlessSilent /\ TrimAfterFlush /\ MonitorGone
  BY DEF Init, SuccessUnlessSilent, TrimAfterFlush, MonitorGone
<1>. QED
  BY <1>6, <1>3, <1>4, <1>5 DEF ExecuteInv

\* The actions of the main thread.
LEMMA ExecuteMain ==
  ASSUME ExecuteInv, Main
  PROVE  ExecuteInv'
<1>1. cfg' = cfg
  BY DEF Main, Enter, Prepare, Reopen, Unprepared,
         SecureErase, StartPass, RunEngine,
         JoinMonitor, Flush, Trim, Finish, Restore,
         DestroyBar, Exit
<1>2. PassTotal \in Nat \ {0} /\ PassTotal' = PassTotal
  BY <1>1, PassTotalType, PassTotalStays DEF ExecuteInv, TypeOK
<1>17. cfg.opened \in {"rw", "ro"}
  BY OpenedType DEF ExecuteInv, TypeOK
<1>. USE <1>2, <1>17 DEF Goto, envVars, passVars, monVars,
                  ExecuteInv, TypeOK, Places, BeforeLoop, InLoop, BehindLoop,
                  Prepared, Offline, Allowed,
                  Returns, SuccessUnlessSilent, TrimAfterFlush,
                  MonitorGone, Done, Gone
<1>3. CASE Enter
  <2>1. TypeOK' /\ (pc \in Places)'
    BY <1>3 DEF Enter
  <2>2. BeforeLoop' /\ InLoop' /\ BehindLoop'
    BY <1>3 DEF Enter
  <2>3. Prepared' /\ Offline' /\ Returns' /\ Allowed'
    BY <1>3 DEF Enter
  <2>4. SuccessUnlessSilent' /\ TrimAfterFlush' /\ MonitorGone'
    BY <1>3 DEF Enter
  <2>. QED  BY <2>1, <2>2, <2>3, <2>4
<1>4. CASE Prepare
  <2>1. TypeOK' /\ (pc \in Places)'
    BY <1>4 DEF Prepare
  <2>2. BeforeLoop' /\ InLoop' /\ BehindLoop'
    BY <1>4 DEF Prepare
  <2>3. Prepared' /\ Offline' /\ Returns' /\ Allowed'
    BY <1>4, <1>1 DEF Prepare, Windows
  <2>4. SuccessUnlessSilent' /\ TrimAfterFlush' /\ MonitorGone'
    BY <1>4 DEF Prepare
  <2>. QED  BY <2>1, <2>2, <2>3, <2>4
<1>5. CASE Reopen
  <2>1. TypeOK' /\ (pc \in Places)'
    BY <1>5 DEF Reopen
  <2>2. BeforeLoop' /\ InLoop' /\ BehindLoop'
    BY <1>5 DEF Reopen
  <2>3. Prepared' /\ Offline' /\ Returns' /\ Allowed'
    BY <1>5 DEF Reopen
  <2>4. SuccessUnlessSilent' /\ TrimAfterFlush' /\ MonitorGone'
    BY <1>5 DEF Reopen
  <2>. QED  BY <2>1, <2>2, <2>3, <2>4
<1>6. CASE Unprepared
  BY <1>6 DEF Unprepared, RestoreDisk
<1>7. CASE SecureErase
  <2>1. TypeOK' /\ (pc \in Places)'
    BY <1>7 DEF SecureErase, RestoreDisk
  <2>2. BeforeLoop' /\ InLoop' /\ BehindLoop'
    BY <1>7 DEF SecureErase, RestoreDisk
  <2>3. Prepared' /\ Offline' /\ Returns' /\ Allowed'
    BY <1>7 DEF SecureErase, RestoreDisk
  <2>4. SuccessUnlessSilent' /\ TrimAfterFlush' /\ MonitorGone'
    BY <1>7 DEF SecureErase, RestoreDisk
  <2>. QED  BY <2>1, <2>2, <2>3, <2>4
<1>8. CASE StartPass
  <2>6. Counts'
    BY <1>8 DEF StartPass, Counts
  <2>7. Flags'
    BY <1>8, <1>1 DEF StartPass, Flags
  <2>8. (pc \in Places)' /\ UNCHANGED <<device, disk, refused>>
    BY <1>8 DEF StartPass
  <2>1. TypeOK' /\ (pc \in Places)'
    BY <2>6, <2>7, <2>8 DEF Flags, Counts
  <2>2. BeforeLoop' /\ BehindLoop'
    BY <1>8 DEF StartPass
  <2>5. InLoop'
    BY <1>8 DEF StartPass
  <2>3. Prepared' /\ Offline' /\ Returns' /\ Allowed'
    BY <1>8 DEF StartPass
  <2>4. SuccessUnlessSilent' /\ TrimAfterFlush' /\ MonitorGone'
    BY <1>8 DEF StartPass
  <2>. QED  BY <2>1, <2>2, <2>3, <2>4, <2>5
<1>9. CASE RunEngine
  <2>1. PICK r \in {"ok", "failed", "silent", "crash"} :
          /\ engine' = r
          /\ failed' = (failed \/ r = "failed")
          /\ written' = IF r = "ok" THEN written + 1 ELSE written
          /\ IF r = "crash" THEN Goto("engine", "dead") /\ UNCHANGED running
             ELSE Goto("engine", IF r = "ok" THEN "join" ELSE "finish") /\ running' = FALSE
    BY <1>9 DEF RunEngine, EngineResults
  <2>2. UNCHANGED <<cfg, device, envVars, pass, mon, bar, flushed, trimmed, erased,
                    reported, ret>>
    BY <1>9 DEF RunEngine
  <2>3. CASE r = "ok"
    <3>1. Counts'
      BY <2>1, <2>2, <2>3 DEF Counts
    <3>2. TypeOK' /\ (pc \in Places)'
      BY <2>1, <2>2, <2>3, <3>1 DEF Counts
    <3>3. BeforeLoop' /\ InLoop' /\ BehindLoop'
      BY <2>1, <2>2, <2>3
    <3>4. Prepared' /\ Offline' /\ Returns' /\ Allowed'
      BY <2>1, <2>2, <2>3
    <3>5. SuccessUnlessSilent' /\ TrimAfterFlush' /\ MonitorGone'
      BY <2>1, <2>2, <2>3
    <3>. QED  BY <3>2, <3>3, <3>4, <3>5
  <2>4. CASE r = "failed"
    <3>1. flushed = pass - 1 /\ pass \in 1 .. PassTotal /\ flushed < PassTotal
      BY <2>1
    <3>2. TypeOK' /\ (pc \in Places)'
      BY <2>1, <2>2, <2>4
    <3>3. BeforeLoop' /\ InLoop' /\ BehindLoop'
      BY <2>1, <2>2, <2>4, <3>1
    <3>4. Prepared' /\ Offline' /\ Returns' /\ Allowed'
      BY <2>1, <2>2, <2>4
    <3>5. SuccessUnlessSilent' /\ TrimAfterFlush' /\ MonitorGone'
      BY <2>1, <2>2, <2>4
    <3>. QED  BY <3>2, <3>3, <3>4, <3>5
  <2>5. CASE r = "silent"
    BY <2>1, <2>2, <2>5
  <2>6. CASE r = "crash"
    BY <2>1, <2>2, <2>6
  <2>. QED  BY <2>1, <2>3, <2>4, <2>5, <2>6
<1>10. CASE JoinMonitor
  BY <1>10 DEF JoinMonitor
<1>11. CASE Flush
  <2>1. TypeOK' /\ (pc \in Places)'
    BY <1>11 DEF Flush
  <2>2. BeforeLoop' /\ InLoop' /\ BehindLoop'
    BY <1>11 DEF Flush
  <2>3. Prepared' /\ Offline' /\ Returns' /\ Allowed'
    BY <1>11 DEF Flush
  <2>4. SuccessUnlessSilent' /\ TrimAfterFlush' /\ MonitorGone'
    BY <1>11 DEF Flush
  <2>. QED  BY <2>1, <2>2, <2>3, <2>4
<1>12. CASE Trim
  BY <1>12 DEF Trim
<1>13. CASE Finish
  BY <1>13 DEF Finish
<1>14. CASE Restore
  <2>1. TypeOK' /\ (pc \in Places)'
    <3>2. Counts'
      BY <1>14 DEF Restore, Counts
    <3>1. device' \in {device, "none"} /\ disk' \in {disk, "online"} /\ refused' \in {refused, TRUE}
      BY <1>14 DEF Restore, RestoreDisk
    <3>3. Flags' /\ (pc \in Places)'
      BY <1>14, <1>1 DEF Restore, Flags
    <3>. QED  BY <3>1, <3>2, <3>3 DEF Flags, Counts
  <2>2. BeforeLoop' /\ InLoop' /\ BehindLoop'
    BY <1>14 DEF Restore, RestoreDisk
  <2>3. Prepared' /\ Offline' /\ Returns' /\ Allowed'
    BY <1>14 DEF Restore, RestoreDisk
  <2>4. SuccessUnlessSilent' /\ TrimAfterFlush' /\ MonitorGone'
    BY <1>14 DEF Restore, RestoreDisk
  <2>. QED  BY <2>1, <2>2, <2>3, <2>4
<1>15. CASE DestroyBar
  BY <1>15 DEF DestroyBar
<1>16. CASE Exit
  BY <1>16 DEF Exit
<1>. QED
  BY <1>3, <1>4, <1>5, <1>6, <1>7, <1>8, <1>9, <1>10, <1>11, <1>12, <1>13, <1>14, <1>15,
     <1>16 DEF Main

\* The monitor moves only itself, and never again once it has ended.
LEMMA ExecuteMonitor ==
  ASSUME ExecuteInv, Monitor
  PROVE  ExecuteInv'
<1>1. /\ mon \in {"check", "report", "sleep"}
      /\ mon' \in {"check", "report", "sleep", "exited"}
      /\ UNCHANGED <<cfg, pc, device, envVars, pass, failed, running, bar,
                      passVars, reported, ret>>
  BY DEF Monitor, MonCheck, MonReport, MonWake,
         MonGoto
<1>2. PassTotal' = PassTotal
  BY <1>1, PassTotalStays
<1>. QED
  BY <1>1, <1>2
     DEF envVars, passVars, ExecuteInv, TypeOK, BeforeLoop, InLoop,
         BehindLoop, Prepared, Offline,
         Returns, Allowed, SuccessUnlessSilent, TrimAfterFlush, MonitorGone,
         Done, Gone

LEMMA ExecuteKilled ==
  ASSUME ExecuteInv, Killed
  PROVE  ExecuteInv'
<1>1. PassTotal' = PassTotal
  BY PassTotalStays DEF Killed
<1>. QED
  BY <1>1
     DEF Killed, envVars, passVars, monVars, ExecuteInv,
         TypeOK, Places, BeforeLoop, InLoop,
         BehindLoop, Prepared, Offline, Returns, Allowed, SuccessUnlessSilent,
         TrimAfterFlush,
         MonitorGone, Done, Gone

LEMMA ExecuteStutter ==
  ASSUME ExecuteInv, UNCHANGED vars
  PROVE  ExecuteInv'
<1>1. PassTotal' = PassTotal
  BY PassTotalStays DEF vars
<1>. QED
  BY <1>1
     DEF vars, envVars, passVars, monVars, ExecuteInv,
         TypeOK, BeforeLoop, InLoop, BehindLoop,
         Prepared, Offline, Returns, Allowed, SuccessUnlessSilent, TrimAfterFlush,
         MonitorGone, Done, Gone

\* How each way out of wipe_execute fits what main expects.
LEMMA ReturnMain ==
  ASSUME ExecuteInv, ReturnsAsPromised, Main
  PROVE  ReturnsAsPromised'
<1>1. cfg' = cfg /\ PassTotal' = PassTotal /\ PassTotal \in Nat \ {0}
  BY PassTotalType, PassTotalStays
     DEF Main, Enter, Prepare, Reopen, Unprepared, SecureErase, StartPass, RunEngine,
         JoinMonitor, Flush, Trim, Finish, Restore, DestroyBar, Exit, ExecuteInv, TypeOK
<1>2. cfg.opened \in {"rw", "ro"} /\ device \in {"rw", "ro", "none"}
  BY OpenedType DEF ExecuteInv, TypeOK
<1>. DEFINE promised == [ret |-> ret, extent |-> Extent, device |-> device]
<1>3. ASSUME pc \in {"enter", "unprepared", "erase", "restore"}, pc' = "returned"
      PROVE  promised' \in Outcomes(cfg)
  <2>1. ASSUME NEW r \in {"ok", "err"}, NEW e \in Extents, NEW d \in {"rw", "ro", "none"},
               ~cfg.dryRun,
               r = "ok" <=> e \in {"all", "lost"},
               ~CanWrite(cfg) => e = "no",
               r = "ok" => d = "rw" \/ (cfg.windows /\ cfg.raw /\ d = "none")
        PROVE  [ret |-> r, extent |-> e, device |-> d] \in Outcomes(cfg)
    BY <2>1 DEF Outcomes
  <2>2. CASE Enter
    <3>1. /\ device' = device /\ device = cfg.opened
          /\ IF cfg.dryRun THEN ret' = "ok" ELSE ret' = "err" /\ cfg.opened = "ro"
      BY <1>3, <2>2 DEF Enter, Goto, ExecuteInv, Prepared
    <3>2. Extent' = "no"
      BY <2>2, <1>1 DEF Enter, passVars, Goto, Extent, ExecuteInv, BeforeLoop
    <3>. QED  BY <3>1, <3>2, <2>1, <1>2 DEF Outcomes, Extents, CanWrite
  <2>3. CASE Unprepared
    <3>1. ~cfg.dryRun /\ ret' = "err" /\ device' \in {device, "none"}
      BY <2>3 DEF Unprepared, Goto, RestoreDisk, ExecuteInv, Allowed
    <3>2. Extent' = "no"
      BY <2>3, <1>1 DEF Unprepared, passVars, Goto, Extent, ExecuteInv, BeforeLoop
    <3>. QED  BY <3>1, <3>2, <2>1, <1>2 DEF Extents
  <2>4. CASE SecureErase
    <3>1. /\ ~cfg.dryRun /\ ret' = "ok" /\ CanWrite(cfg)
          /\ device' = "rw" \/ (cfg.windows /\ cfg.raw /\ device' = "none")
      BY <1>3, <2>4
         DEF SecureErase, Goto, RestoreDisk, ExecuteInv, Allowed, Prepared, CanWrite
    <3>2. Extent' = "all"
      BY <1>3, <2>4 DEF SecureErase, Goto, Extent
    <3>. QED  BY <3>1, <3>2, <2>1 DEF Extents
  <2>5. CASE Restore
    <3>1. /\ ~cfg.dryRun /\ CanWrite(cfg)
          /\ device' = "rw" \/ (cfg.windows /\ cfg.raw /\ device' = "none")
      BY <2>5 DEF Restore, Goto, RestoreDisk, ExecuteInv, Allowed, Prepared, CanWrite
    <3>2. Extent' = Extent /\ ret' = (IF failed THEN "err" ELSE "ok")
      BY <2>5, <1>1 DEF Restore, passVars, Extent
    <3>3. Extent \in Extents /\ (failed <=> Extent \notin {"all", "lost"})
      BY <2>5, <1>1
         DEF Restore, Goto, Extent, Extents, ExecuteInv, BehindLoop, Returns, TypeOK
    <3>. QED  BY <3>1, <3>2, <3>3, <2>1
  <2>. QED
    BY <1>3, <2>2, <2>3, <2>4, <2>5
       DEF Main, Goto, Prepare, Reopen, StartPass, RunEngine, JoinMonitor, Flush, Trim,
           Finish, DestroyBar, Exit
<1>4. ASSUME pc \in {"returned", "destroyed"}, UNCHANGED <<ret, device, passVars, pass>>
      PROVE  promised' \in Outcomes(cfg)
  BY <1>1, <1>4 DEF ReturnsAsPromised, Done, Extent, passVars
<1>5. CASE DestroyBar \/ Exit
  BY <1>1, <1>4, <1>5 DEF DestroyBar, Exit, Goto, ReturnsAsPromised
<1>6. CASE ~Done'
  BY <1>6 DEF ReturnsAsPromised
<1>7. Done' => \/ DestroyBar \/ Exit
               \/ pc \in {"enter", "unprepared", "erase", "restore"} /\ pc' = "returned"
  BY DEF Main, Goto, Done, Enter, Prepare, Reopen, Unprepared, SecureErase, StartPass,
         RunEngine, JoinMonitor, Flush, Trim, Finish, Restore, DestroyBar, Exit
<1>. QED  BY <1>1, <1>3, <1>5, <1>6, <1>7 DEF ReturnsAsPromised

\* The monitor, and death, leave what has been returned as it is.
LEMMA ReturnStays ==
  ASSUME ReturnsAsPromised,
         Done' => Done, UNCHANGED <<cfg, ret, device, passVars, pass>>
  PROVE  ReturnsAsPromised'
<1>1. PassTotal' = PassTotal
  BY PassTotalStays
<1>. QED  BY <1>1 DEF ReturnsAsPromised, Extent, passVars

ReturnInv == ExecuteInv /\ ReturnsAsPromised

LEMMA ExecuteStep == ReturnInv /\ [Next]_vars => ReturnInv'
<1>. SUFFICES ASSUME ReturnInv, [Next]_vars PROVE ReturnInv'
  OBVIOUS
<1>1. ExecuteInv'
  BY ExecuteMain, ExecuteMonitor, ExecuteKilled, ExecuteStutter DEF ReturnInv, Next, Ended
<1>2. CASE Main
  BY <1>1, <1>2, ReturnMain DEF ReturnInv
<1>3. CASE Monitor
  BY <1>1, <1>3, ReturnStays DEF passVars, ReturnInv, Monitor, MonCheck, MonReport, MonWake, MonGoto, Done
<1>4. CASE Killed
  BY <1>1, <1>4, ReturnStays DEF passVars, ReturnInv, Killed, Done
<1>5. CASE UNCHANGED vars
  BY <1>1, <1>5, ReturnStays DEF passVars, ReturnInv, vars, Done
<1>. QED  BY <1>2, <1>3, <1>4, <1>5 DEF Next, Ended

\* ReturnInv is an invariant of every wipe.
LEMMA ExecuteInvariance == Spec => []ReturnInv
<1>1. Init => ReturnInv
  BY ExecuteInit DEF ReturnInv, Init, ReturnsAsPromised, Done
<1>. QED  BY <1>1, ExecuteStep, PTL DEF Spec

-----------------------------------------------------------------------------
\* The variables of a wipe keep their types, and no count exceeds the passes.
THEOREM ExecuteTypes == Spec => []TypeOK
<1>1. ReturnInv => TypeOK
  BY DEF ReturnInv, ExecuteInv
<1>. QED  BY <1>1, ExecuteInvariance, PTL

\* However wipe_execute returns, and whatever failed on the way, the disk it
\* took offline is online again, unless the system refused.
THEOREM OnlineAgain == Spec => []DiskBackOnline
<1>1. ReturnInv => DiskBackOnline
  BY DEF ReturnInv, ExecuteInv, Offline, DiskBackOnline
<1>. QED  BY <1>1, ExecuteInvariance, PTL

\* Nothing is written on a raw target that is not detached, or through a
\* handle that is not open for writing.
THEOREM Preparation == Spec => []WritesOnlyWhenPrepared
<1>1. ReturnInv => WritesOnlyWhenPrepared
  BY DEF ReturnInv, ExecuteInv, Prepared, WritesOnlyWhenPrepared
<1>. QED  BY <1>1, ExecuteInvariance, PTL

\* A wipe returns 0 only if all its passes are flushed, the secure erase took
\* their place, or the pass that broke the loop has not raised the flag.
THEOREM Success == Spec => []SuccessUnlessSilent
<1>1. ReturnInv => SuccessUnlessSilent
  BY DEF ReturnInv, ExecuteInv
<1>. QED  BY <1>1, ExecuteInvariance, PTL

\* The counts of passes discarded, flushed and written are in this order, and
\* nothing is discarded that was not allowed.
THEOREM DiscardLast == Spec => []TrimAfterFlush
<1>1. ReturnInv => TrimAfterFlush
  BY DEF ReturnInv, ExecuteInv
<1>. QED  BY <1>1, ExecuteInvariance, PTL

\* After a good pass no monitor is left.
THEOREM NoMonitorLeft == Spec => []MonitorGone
<1>1. ReturnInv => MonitorGone
  BY DEF ReturnInv, ExecuteInv
<1>. QED  BY <1>1, ExecuteInvariance, PTL

\* wipe_execute returns as main expects of it: the return value, how far the
\* wipe came and the handle it leaves are among the results of ExecuteSpec.
THEOREM PromiseKept == Spec => []ReturnsAsPromised
<1>1. ReturnInv => ReturnsAsPromised
  BY DEF ReturnInv
<1>. QED  BY <1>1, ExecuteInvariance, PTL

-----------------------------------------------------------------------------
(***************************************************************************)
(* Why a wipe ends.  No proof here is about fairness; but that the main    *)
(* thread cannot go on for ever, and that the monitor cannot hold it up at *)
(* the join, are facts about steps: each lowers a number.                  *)
(***************************************************************************)

\* The steps the main thread has still to do, at most.  A pass takes five,
\* from one head of the loop to the next.
Ahead ==
  [enter |-> 11, prepare |-> 9, reopen |-> 8, unprepared |-> 7, erase |-> 6, pass |-> 5,
   engine |-> 9, join |-> 8, flush |-> 7, trim |-> 6, finish |-> 4, restore |-> 3,
   returned |-> 2, destroyed |-> 1, exited |-> 0, dead |-> 0]
StepsLeft == 5 * (PassTotal - pass) + Ahead[pc]

\* Those of a monitor that finds monitor_running cleared.
MonitorLeft ==
  CASE mon = "report" -> 3 [] mon = "sleep" -> 2 [] mon = "check" -> 1 [] OTHER -> 0

\* At the join monitor_running has been cleared, whatever the pass did.
JoinInv == pc = "join" => ~running

LEMMA StepsLeftType == ExecuteInv => StepsLeft \in Nat
<1>. SUFFICES ASSUME ExecuteInv PROVE StepsLeft \in Nat
  OBVIOUS
<1>1. pass \in 0 .. PassTotal /\ PassTotal \in Nat /\ pc \in Places
  BY PassTotalType DEF ExecuteInv, TypeOK
<1>2. Ahead[pc] \in 0 .. 11
  BY <1>1 DEF Ahead, Places
<1>. QED  BY <1>1, <1>2 DEF StepsLeft

LEMMA StepsLeftNext == ExecuteInv' => StepsLeft' \in Nat
<1>. SUFFICES ASSUME ExecuteInv' PROVE StepsLeft' \in Nat
  OBVIOUS
<1>1. (cfg \in Configs)' /\ (pass \in 0 .. PassTotal)' /\ (pc \in Places)'
  BY DEF ExecuteInv, TypeOK
<1>2. PassTotal' \in Nat
  BY <1>1, ExecuteAssumption DEF PassTotal, ProfilePassCount, Configs
<1>3. Ahead[pc'] \in 0 .. 11
  BY <1>1 DEF Ahead, Places
<1>. QED  BY <1>1, <1>2, <1>3 DEF StepsLeft

LEMMA MainCountsDown ==
  ASSUME ExecuteInv, Main
  PROVE  StepsLeft' < StepsLeft
<1>1. PassTotal' = PassTotal /\ PassTotal \in Nat /\ pass \in 0 .. PassTotal
  BY PassTotalType, PassTotalStays
     DEF Main, Enter, Prepare, Reopen, Unprepared, SecureErase, StartPass, RunEngine,
         JoinMonitor, Flush, Trim, Finish, Restore, DestroyBar, Exit, ExecuteInv, TypeOK
<1>2. CASE StartPass
  BY <1>1, <1>2 DEF StartPass, Goto, StepsLeft, Ahead
<1>3. CASE Enter \/ Prepare \/ Reopen \/ Unprepared \/ SecureErase
  <2>1. pass' = pass /\ Ahead[pc'] < Ahead[pc] /\ Ahead[pc'] \in Nat /\ Ahead[pc] \in Nat
    BY <1>3 DEF Enter, Prepare, Reopen, Unprepared, SecureErase, Goto, Ahead
  <2>. QED  BY <2>1, <1>1 DEF StepsLeft
<1>4. CASE RunEngine \/ JoinMonitor \/ Flush \/ Trim
  <2>1. pass' = pass /\ Ahead[pc'] < Ahead[pc] /\ Ahead[pc'] \in Nat /\ Ahead[pc] \in Nat
    BY <1>4 DEF RunEngine, JoinMonitor, Flush, Trim, Goto, Ahead
  <2>. QED  BY <2>1, <1>1 DEF StepsLeft
<1>5. CASE Finish \/ Restore \/ DestroyBar \/ Exit
  <2>1. pass' = pass /\ Ahead[pc'] < Ahead[pc] /\ Ahead[pc'] \in Nat /\ Ahead[pc] \in Nat
    BY <1>5 DEF Finish, Restore, DestroyBar, Exit, Goto, Ahead
  <2>. QED  BY <2>1, <1>1 DEF StepsLeft
<1>. QED  BY <1>2, <1>3, <1>4, <1>5 DEF Main

LEMMA JoinStep == JoinInv /\ [Next]_vars => JoinInv'
<1>1. ASSUME Next PROVE pc' = "join" => (pc = "join" /\ running' = running) \/ ~running'
  BY <1>1
     DEF Next, Main, Enter, Prepare, Reopen, Unprepared, SecureErase, StartPass, RunEngine,
         JoinMonitor, Flush, Trim, Finish, Restore, DestroyBar, Exit, Monitor, MonCheck,
         MonReport, MonWake, MonGoto, Killed, Ended, vars, monVars, Goto
<1>. QED  BY <1>1 DEF JoinInv, vars, monVars

LEMMA MonitorCountsDown ==
  ASSUME JoinInv, Monitor
  PROVE  StepsLeft' = StepsLeft /\ (pc = "join" => MonitorLeft' < MonitorLeft)
<1>1. PassTotal' = PassTotal /\ UNCHANGED <<pass, pc>>
  BY PassTotalStays DEF Monitor, MonCheck, MonReport, MonWake, MonGoto
<1>2. pc = "join" => \/ mon = "check" /\ mon' = "exited"
                     \/ mon = "report" /\ mon' = "sleep"
                     \/ mon = "sleep" /\ mon' = "check"
  BY DEF Monitor, MonCheck, MonReport, MonWake, MonGoto, FrameAlive, JoinInv
<1>3. pc = "join" => MonitorLeft' < MonitorLeft
  BY <1>2 DEF MonitorLeft
<1>. QED  BY <1>1, <1>3 DEF StepsLeft

\* Every step of the main thread brings it nearer to its end, no step of the
\* monitor takes it back; and while the main thread waits for the monitor,
\* every step of the monitor brings that nearer to its end.
THEOREM WipeIsBounded ==
  Spec => /\ [](StepsLeft \in Nat)
          /\ [][ /\ Main => StepsLeft' < StepsLeft
                 /\ Monitor => /\ StepsLeft' = StepsLeft
                               /\ pc = "join" => MonitorLeft' < MonitorLeft ]_vars
<1>. DEFINE counts == /\ Main => StepsLeft' < StepsLeft
                      /\ Monitor => /\ StepsLeft' = StepsLeft
                                    /\ pc = "join" => MonitorLeft' < MonitorLeft
<1>1. ReturnInv => StepsLeft \in Nat
  BY StepsLeftType DEF ReturnInv
<1>2. ReturnInv /\ JoinInv /\ [Next]_vars => [counts]_vars
  BY MainCountsDown, MonitorCountsDown DEF ReturnInv
<1>3. Init => JoinInv
  BY DEF Init, JoinInv
<1>. HIDE DEF counts
<1>4. Spec => [](StepsLeft \in Nat) /\ [][counts]_vars
  BY <1>1, <1>2, <1>3, JoinStep, ExecuteInvariance, PTL DEF Spec
<1>. QED  BY <1>4 DEF counts

-----------------------------------------------------------------------------
Trying == {"letters", "volumes", "gpt", "passend", "remove"}

DetachInv ==
  /\ doing \in Trying \cup {"offline", "returned"}
  /\ attempted \in Nat /\ dismounted \in Nat /\ dismounted <= attempted
  /\ dismounted = attempted => stuck = {} /\ tried \subseteq gone
  /\ dismounted = attempted => attempted = 0 \/ gone # {}
  /\ doing \in Trying => letters = Lettered /\ verdict = "none"
  /\ doing = "letters" => tried \cup skipped = Lettered \ left
  /\ doing \in Trying \ {"letters"} => tried \cup skipped = Lettered
  /\ doing = "offline" => verdict = "ok"
  /\ verdict = "ok" => gone # {} /\ stuck = {} /\ Lettered \ skipped \subseteq gone
  /\ doing # "returned" => ~offlined /\ outcome = "none"
  /\ outcome = "ok" => verdict = "ok" /\ (offlined \/ offError = "unsupported")

\* The disk, which the wipe brings back.
DiskInv ==
  /\ disk = "offline" => mounted = {}
  /\ doing # "returned" => disk = "online"

GoesOn == {"reopen", "erase", "pass", "engine", "join", "flush", "trim", "finish", "restore"}

WipeInv ==
  /\ cfg.raw /\ cfg.windows /\ cfg.physical
  /\ pc = "enter" => device \in {"rw", "ro"} /\ doing # "returned"
  /\ pc = "prepare" /\ device # "none" => device = "rw" /\ doing # "returned"
  /\ device = "none" => doing = "returned" \/ pc \in {"prepare", "dead"}
  /\ pc \in GoesOn \cup {"unprepared"} => doing = "returned"
  /\ pc \in GoesOn => outcome = "ok"
  /\ pc \in GoesOn \cup {"prepare", "unprepared"} /\ offlined => disk = "offline"

Inv == DetachInv /\ DiskInv /\ WipeInv

-----------------------------------------------------------------------------
LEMMA InitInv == WipeInit => Inv
<1>. SUFFICES ASSUME WipeInit PROVE Inv
  OBVIOUS
<1>1. DetachInv
  BY DetachAssumption DEF WipeInit, Drive!Init, DetachInv, Trying
<1>2. DiskInv
  BY DEF WipeInit, Drive!Init, DiskInv
<1>3. cfg.raw
  BY DEF WipeInit, Init, Configs
<1>4. WipeInv
  BY <1>3, OpenedType DEF WipeInit, Drive!Init, Init, WipeInv, GoesOn
<1>. QED  BY <1>1, <1>2, <1>4 DEF Inv

\* An attempt: if it fails, the counts tell for good.
LEMMA AttemptKeeps ==
  ASSUME NEW v, DetachInv, Drive!Attempt(v) \/ Drive!Skip
  PROVE  /\ attempted' \in Nat /\ dismounted' \in Nat /\ dismounted' <= attempted'
         /\ gone \subseteq gone' /\ mounted' \subseteq mounted
         /\ dismounted' = attempted' => stuck' = {} /\ tried \subseteq gone'
         /\ dismounted' = attempted' => attempted' = 0 \/ gone' # {}
         /\ Drive!Attempt(v) /\ dismounted' = attempted' => v \in gone'
<1>1. CASE Drive!Skip
  <2>1. UNCHANGED <<attempted, dismounted, mounted, gone, stuck>>
    BY <1>1 DEF Drive!Skip, Drive!countVars
  <2>2. attempted + 1 # attempted
    BY DEF DetachInv
  <2>. QED  BY <2>1, <2>2 DEF DetachInv, Drive!Attempt
<1>2. CASE Drive!Attempt(v)
  BY <1>2 DEF Drive!Attempt, DetachInv
<1>. QED  BY <1>1, <1>2

LEMMA TryInv ==
  ASSUME NEW v \in Volumes, DetachInv, DiskInv, Drive!TryLetter(v) \/ Drive!TryVolume(v) \/ Drive!TryGpt(v)
  PROVE  DetachInv' /\ DiskInv'
<1>1. /\ attempted' \in Nat /\ dismounted' \in Nat /\ dismounted' <= attempted'
      /\ mounted' \subseteq mounted
      /\ dismounted' = attempted' => attempted' = 0 \/ gone' # {}
      /\ UNCHANGED <<doing, letters, disk, offlined, offError, verdict, outcome>>
      /\ doing \in {"letters", "volumes", "gpt"}
  BY AttemptKeeps DEF Drive!TryLetter, Drive!TryVolume, Drive!TryGpt
<1>2. dismounted' = attempted' => stuck' = {} /\ tried' \subseteq gone'
  <2>1. CASE Drive!TryLetter(v)
    <3>1. CASE Drive!Attempt(v) /\ tried' = tried \cup {v}
      BY <3>1, AttemptKeeps
    <3>2. CASE Drive!Skip /\ tried' = tried
      BY <3>2, AttemptKeeps
    <3>. QED  BY <2>1, <3>1, <3>2 DEF Drive!TryLetter
  <2>2. CASE Drive!TryVolume(v) \/ Drive!TryGpt(v)
    BY <2>2, AttemptKeeps DEF Drive!TryVolume, Drive!TryGpt
  <2>. QED  BY <2>1, <2>2
<1>3. doing = "letters" => tried' \cup skipped' = Lettered \ left'
  <2>1. CASE doing = "letters"
    <3>1. /\ letters = Lettered /\ tried \cup skipped = Lettered \ left
          /\ v \in left /\ left' = left \ {v}
      BY <2>1 DEF Drive!TryLetter, Drive!TryVolume, Drive!TryGpt, DetachInv, Trying, Drive!Current
    <3>2. \/ v \in Lettered /\ tried' \cup skipped' = (tried \cup skipped) \cup {v}
          \/ v \notin Lettered /\ tried' \cup skipped' = tried \cup skipped
      BY <2>1, <3>1 DEF Drive!TryLetter, Drive!TryVolume, Drive!TryGpt
    <3>. QED  BY <3>1, <3>2
  <2>. QED  BY <2>1
<1>4. doing # "letters" => tried' = tried /\ skipped' = skipped
  BY DEF Drive!TryLetter, Drive!TryVolume, Drive!TryGpt
<1>5. DetachInv'
  BY <1>1, <1>2, <1>3, <1>4 DEF DetachInv, Trying
<1>6. DiskInv'
  BY <1>1 DEF DiskInv
<1>. QED  BY <1>5, <1>6

\* The other steps of the detach.
LEMMA DetachKeeps ==
  ASSUME DetachInv, DiskInv, Drive!Detach
  PROVE  DetachInv' /\ DiskInv'
<1>. USE DEF DetachInv, DiskInv, Trying, Drive!countVars, Drive!diskVars, Drive!volumeVars,
             Drive!histVars
<1>1. CASE \E v \in Volumes : Drive!TryLetter(v) \/ Drive!TryVolume(v) \/ Drive!TryGpt(v)
  BY <1>1, TryInv
<1>2. CASE Drive!NextStage
  BY <1>2 DEF Drive!NextStage
<1>3. CASE Drive!EndPass
  BY <1>3, DetachAssumption DEF Drive!EndPass
<1>4. CASE Drive!RemoveLetters
  BY <1>4 DEF Drive!RemoveLetters, Drive!AllDismounted
<1>5. CASE Drive!TakeOffline
  BY <1>5 DEF Drive!TakeOffline
<1>6. CASE Drive!CannotList
  BY <1>6 DEF Drive!CannotList
<1>. QED  BY <1>1, <1>2, <1>3, <1>4, <1>5, <1>6 DEF Drive!Detach

LEMMA AppsKeep ==
  ASSUME DetachInv, DiskInv, Drive!Apps
  PROVE  DetachInv' /\ DiskInv' /\ UNCHANGED <<doing, disk, offlined, outcome>>
<1>1. /\ UNCHANGED <<doing, Drive!countVars, letters, disk, offlined, offError,
                      Drive!histVars, verdict, outcome, left>>
      /\ mounted' = mounted \/ disk = "online"
  BY DEF Drive!Apps, Drive!AppOpens, Drive!AppCloses
<1>2. DetachInv'
  BY <1>1 DEF DetachInv, Trying, Drive!countVars, Drive!histVars
<1>. QED  BY <1>1, <1>2 DEF DiskInv

-----------------------------------------------------------------------------
\* What the wipe does to the handle and the disk, from place to place.
LEMMA MainMoves ==
  ASSUME Inv, WipeMain
  PROVE  WipeInv' /\ pc # "prepare" /\ disk' \in {disk, "online"} /\ offlined' = offlined
<1>. USE DEF Inv, WipeInv, GoesOn, Goto, envVars, RestoreDisk,
             detachVars
<1>0. UNCHANGED <<doing, outcome>>
  BY DEF WipeMain
<1>1. CASE Enter
  BY <1>0, <1>1 DEF Enter, DetachInv
<1>2. CASE Reopen
  BY <1>0, <1>2 DEF Reopen
<1>3. CASE Unprepared
  BY <1>0, <1>3 DEF Unprepared
<1>4. CASE SecureErase
  BY <1>0, <1>4 DEF SecureErase
<1>5. CASE StartPass
  BY <1>0, <1>5 DEF StartPass
<1>6. CASE RunEngine
  BY <1>0, <1>6 DEF RunEngine
<1>7. CASE JoinMonitor
  BY <1>0, <1>7 DEF JoinMonitor
<1>8. CASE Flush
  BY <1>0, <1>8 DEF Flush
<1>9. CASE Trim
  BY <1>0, <1>9 DEF Trim
<1>10. CASE Finish
  BY <1>0, <1>10 DEF Finish
<1>11. CASE Restore
  BY <1>0, <1>11 DEF Restore
<1>12. CASE DestroyBar
  BY <1>0, <1>12 DEF DestroyBar
<1>13. CASE Exit
  BY <1>0, <1>13 DEF Exit
<1>. QED
  BY <1>1, <1>2, <1>3, <1>4, <1>5, <1>6, <1>7, <1>8, <1>9, <1>10, <1>11, <1>12,
  <1>13 DEF WipeMain

LEMMA PrepareKeeps ==
  ASSUME Inv, PrepareDrive
  PROVE  Inv'
<1>1. CASE CloseDevice
  BY <1>1 DEF CloseDevice, driveVars, detachVars, Drive!countVars, Drive!diskVars, Drive!volumeVars,
              Drive!histVars, Inv, DetachInv,
              DiskInv, WipeInv, GoesOn
<1>2. CASE DetachStep
  <2>1. DetachInv' /\ DiskInv'
    BY <1>2, DetachKeeps DEF DetachStep, Inv
  <2>2. pc = "prepare" /\ device = "none" /\ doing # "returned" /\ UNCHANGED <<cfg, pc, device>>
    BY <1>2
       DEF DetachStep, Detaching, wipeVars, Drive!Detach, Drive!TryLetter, Drive!TryVolume,
           Drive!TryGpt, Drive!CannotList, Drive!NextStage,
           Drive!EndPass, Drive!RemoveLetters, Drive!TakeOffline
  <2>3. offlined' => disk' = "offline"
    BY <1>2, <2>2
       DEF DetachStep, Drive!Detach, Drive!TryLetter, Drive!TryVolume, Drive!TryGpt,
           Drive!CannotList, Drive!NextStage, Drive!EndPass,
           Drive!RemoveLetters,
           Drive!TakeOffline, Drive!diskVars, Drive!volumeVars, Inv, DetachInv
  <2>4. WipeInv'
    BY <2>2, <2>3 DEF Inv, WipeInv, GoesOn
  <2>. QED  BY <2>1, <2>4 DEF Inv
<1>3. CASE DetachReturns
  BY <1>3 DEF DetachReturns, Detaching, driveVars, detachVars, Drive!countVars, Drive!diskVars,
              Drive!volumeVars, Drive!histVars,
              Inv,
              DetachInv, DiskInv, WipeInv, GoesOn
<1>. QED  BY <1>1, <1>2, <1>3 DEF PrepareDrive

\* The disk may come back while the rest of the detach stays what it is.
LEMMA DiskComesBack ==
  ASSUME DetachInv, DiskInv, UNCHANGED detachVars,
         disk' \in {disk, "online"}, offlined' = offlined
  PROVE  DetachInv' /\ DiskInv'
BY DEF DetachInv, DiskInv, detachVars, Drive!countVars, Drive!volumeVars, Drive!histVars, Trying

LEMMA MonitorMoves ==
  ASSUME WipeMonitor
  PROVE  UNCHANGED <<cfg, pc, device, disk, offlined, detachVars>>
BY DEF WipeMonitor, Monitor, MonCheck, MonReport, MonWake,
       MonGoto, envVars

LEMMA StepInv == Inv /\ [WipeNext]_allVars => Inv'
<1>. SUFFICES ASSUME Inv, [WipeNext]_allVars PROVE Inv'
  OBVIOUS
<1>1. CASE PrepareDrive
  BY <1>1, PrepareKeeps
<1>2. CASE WipeMain
  <2>1. UNCHANGED detachVars
    BY <1>2 DEF WipeMain
  <2>. QED  BY <1>2, <2>1, MainMoves, DiskComesBack DEF Inv
<1>3. CASE WipeMonitor
  <2>1. DetachInv' /\ DiskInv'
    BY <1>3, MonitorMoves, DiskComesBack DEF Inv
  <2>2. WipeInv'
    BY <1>3, MonitorMoves DEF Inv, WipeInv, GoesOn, detachVars
  <2>. QED  BY <2>1, <2>2 DEF Inv
<1>4. CASE WipeKilled
  <2>1. pc' = "dead" /\ UNCHANGED <<cfg, device, disk, offlined, detachVars>>
    BY <1>4 DEF WipeKilled, Killed, envVars
  <2>2. DetachInv' /\ DiskInv'
    BY <2>1, DiskComesBack DEF Inv
  <2>3. WipeInv'
    BY <2>1 DEF Inv, WipeInv, GoesOn, detachVars
  <2>. QED  BY <2>2, <2>3 DEF Inv
<1>5. CASE OtherPrograms
  <2>1. DetachInv' /\ DiskInv' /\ UNCHANGED <<doing, disk, offlined, outcome, cfg, pc, device>>
    BY <1>5, AppsKeep DEF OtherPrograms, wipeVars, Inv
  <2>2. WipeInv'
    BY <2>1 DEF Inv, WipeInv, GoesOn
  <2>. QED  BY <2>1, <2>2 DEF Inv
<1>6. CASE UNCHANGED allVars
  BY <1>6 DEF allVars, driveVars, detachVars, wipeVars, Drive!countVars, Drive!diskVars, Drive!volumeVars,
              Drive!histVars, Inv,
              DetachInv,
              DiskInv, WipeInv, GoesOn
<1>. QED  BY <1>1, <1>2, <1>3, <1>4, <1>5, <1>6 DEF WipeNext, WipeEnded

LEMMA Invariance == WipeSpec => []Inv
BY InitInv, StepInv, PTL DEF WipeSpec

-----------------------------------------------------------------------------
\* The verdict on the dismount, whoever opened and closed volumes meanwhile:
\* after "ok" a volume was dismounted, no attempt of the last pass failed, and
\* of the volumes with a drive letter only those are left out whose disk could
\* not be read in that pass.
THEOREM VerdictIsRight == WipeSpec => []OkMeansDismounted
<1>1. Inv => OkMeansDismounted
  BY DEF Inv, DetachInv, OkMeansDismounted, Drive!OkMeansDismounted
<1>. QED  BY <1>1, Invariance, PTL

\* No pass finds a drive letter already removed: each is attempted, or passed
\* over because its disk could not be read.
THEOREM LettersStay == WipeSpec => []LettersOutliveRetries
<1>1. Inv => LettersOutliveRetries
  BY DEF Inv, DetachInv, Trying, LettersOutliveRetries, Drive!LettersOutliveRetries
<1>. QED  BY <1>1, Invariance, PTL

\* Wherever the wipe writes, the drive is offline with nothing mounted, or the
\* system cannot take it offline and the dismount did what VerdictIsRight says.
THEOREM MountedSpared == WipeSpec => []WritesSpareMounted
<1>1. Inv => WritesSpareMounted
  BY DEF Inv, DetachInv, DiskInv, WipeInv, GoesOn, WritesSpareMounted
<1>. QED  BY <1>1, Invariance, PTL

-----------------------------------------------------------------------------
\* The steps of wipe_execute that the detach does not take part in, and those
\* of other programs, are steps of WipeExecute.
LEMMA SharedSteps ==
  ASSUME WipeMain \/ WipeMonitor \/ WipeKilled \/ OtherPrograms \/ UNCHANGED allVars, Inv
  PROVE  [Next]_vars
<1>1. CASE OtherPrograms \/ UNCHANGED allVars
  <2>1. UNCHANGED <<disk, offlined>>
    BY <1>1, AppsKeep DEF OtherPrograms, allVars, driveVars, Inv
  <2>. QED
    BY <1>1, <2>1 DEF OtherPrograms, allVars, wipeVars, vars, envVars, passVars, monVars
<1>. QED
  BY <1>1 DEF WipeMain, WipeMonitor, WipeKilled, Next, Main

\* The detach as it is run keeps what is said of wipe_execute.
LEMMA PrepareKeepsReturn ==
  ASSUME ReturnInv, Inv, PrepareDrive
  PROVE  ReturnInv'
<1>1. /\ pc = "prepare" /\ pc' \in {"prepare", "reopen", "unprepared"}
      /\ pc' = "reopen" => detached'
      /\ detached' \in BOOLEAN /\ device' \in {device, "none"}
      /\ UNCHANGED <<cfg, refused, pass, failed, running, mon, bar, engine, written, flushed,
                     trimmed, erased, reported, ret>>
  BY DEF PrepareDrive, CloseDevice, DetachStep, DetachReturns, Detaching, wipeVars, ReturnInv,
         ExecuteInv, TypeOK
<1>2. /\ disk' \in {"online", "offline"} /\ offlined' \in BOOLEAN
      /\ disk' = "offline" => offlined'
  <2>1. CASE UNCHANGED <<disk, offlined>>
    BY <2>1 DEF ReturnInv, ExecuteInv, TypeOK, Offline
  <2>2. CASE Drive!TakeOffline
    BY <2>2 DEF Drive!TakeOffline, ReturnInv, ExecuteInv, TypeOK, Offline
  <2>3. DetachStep => UNCHANGED <<disk, offlined>> \/ Drive!TakeOffline
    BY DEF DetachStep, Drive!Detach, Drive!TryLetter, Drive!TryVolume, Drive!TryGpt,
           Drive!CannotList, Drive!NextStage, Drive!EndPass, Drive!RemoveLetters, Drive!diskVars
  <2>. QED
    BY <2>1, <2>2, <2>3 DEF PrepareDrive, CloseDevice, DetachReturns, driveVars
<1>3. PassTotal' = PassTotal
  BY <1>1, PassTotalStays
<1>4. cfg.raw /\ cfg.windows /\ cfg.physical
  BY DEF Inv, WipeInv
<1>5. TypeOK' /\ (pc \in Places)'
  BY <1>1, <1>2, <1>3 DEF ReturnInv, ExecuteInv, TypeOK, Places
<1>6. BeforeLoop' /\ InLoop' /\ BehindLoop'
  BY <1>1, <1>3 DEF ReturnInv, ExecuteInv, BeforeLoop, InLoop, BehindLoop
<1>7. Prepared' /\ Offline' /\ Returns' /\ Allowed'
  BY <1>1, <1>2, <1>4 DEF ReturnInv, ExecuteInv, Prepared, Offline, Returns, Allowed, Done
<1>8. SuccessUnlessSilent' /\ TrimAfterFlush' /\ MonitorGone' /\ ReturnsAsPromised'
  BY <1>1, <1>3
     DEF ReturnInv, ExecuteInv, SuccessUnlessSilent, TrimAfterFlush, MonitorGone, Done,
         ReturnsAsPromised
<1>. QED  BY <1>5, <1>6, <1>7, <1>8 DEF ReturnInv, ExecuteInv

LEMMA DetailedReturns == WipeSpec => []ReturnInv
<1>1. WipeInit => ReturnInv
  BY ExecuteInit DEF WipeInit, ReturnInv, Init, ReturnsAsPromised, Done
<1>2. ReturnInv /\ Inv /\ [WipeNext]_allVars => ReturnInv'
  BY PrepareKeepsReturn, SharedSteps, ExecuteStep DEF WipeNext, WipeEnded
<1>. QED  BY <1>1, <1>2, Invariance, PTL DEF WipeSpec

\* What WipeExecute guarantees with a detach in one step also holds when the
\* detach is run in full, next to other programs.
THEOREM GuaranteesCarryOver ==
  WipeSpec => [](/\ TypeOK /\ DiskBackOnline /\ WritesOnlyWhenPrepared /\ SuccessUnlessSilent
                 /\ TrimAfterFlush /\ MonitorGone /\ ReturnsAsPromised)
<1>. DEFINE guarantees ==
       /\ TypeOK /\ DiskBackOnline /\ WritesOnlyWhenPrepared /\ SuccessUnlessSilent
       /\ TrimAfterFlush /\ MonitorGone /\ ReturnsAsPromised
<1>1. ReturnInv => guarantees
  BY DEF ReturnInv, ExecuteInv, Offline, DiskBackOnline, Prepared, WritesOnlyWhenPrepared
<1>. HIDE DEF guarantees
<1>2. WipeSpec => []guarantees
  BY <1>1, DetailedReturns, PTL
<1>. QED  BY <1>2 DEF guarantees

-----------------------------------------------------------------------------
(***************************************************************************)
(* The detach ends as well, whatever the other programs do: they can make  *)
(* attempts fail, but not add to them.                                     *)
(***************************************************************************)

\* The steps that a detach has still to do: in this pass, and in those to come.
Many(S) == Cardinality(S)
OfThisPass ==
  CASE doing = "letters"  -> 2 * Many(Volumes) + Many(left) + 6
    [] doing = "volumes"  -> Many(Volumes) + Many(left) + 5
    [] doing = "gpt"      -> Many(left) + 4
    [] doing = "passend"  -> 3
    [] doing = "remove"   -> 2
    [] doing = "offline"  -> 1
    [] doing = "returned" -> 0
WholePass == 3 * Many(Volumes) + 4
OfLaterPasses == CASE round = 0 -> 2 * WholePass [] round = 1 -> WholePass [] round = 2 -> 0

\* The handle is closed first.
ToClose == IF pc = "prepare" /\ device # "none" THEN 1 ELSE 0
AllStepsLeft == StepsLeft + ToClose + OfThisPass + OfLaterPasses

BoundInv ==
  /\ round \in 0 .. 2 /\ left \subseteq Volumes
  /\ doing \in Trying \cup {"offline", "returned"}

\* The sums, as facts about numbers.
LEMMA LessSum ==
  \A a, b, c, d \in Nat : a < b /\ c = d => a + c < b + d
OBVIOUS

LEMMA LessTotal ==
  \A s, t, u, v, s1, t1, u1, v1 \in Nat :
    /\ \/ s1 < s /\ t1 = t /\ u1 = u /\ v1 = v
       \/ s1 = s /\ t1 < t /\ u1 = u /\ v1 = v
       \/ s1 = s /\ t1 = t /\ u1 + v1 < u + v
       \/ s1 + t1 < s + t /\ u1 = u /\ v1 = v
    => s1 + t1 + u1 + v1 < s + t + u + v
OBVIOUS

LEMMA ManyType == ASSUME NEW S, S \subseteq Volumes PROVE Many(S) \in Nat
BY DetachAssumption, FS_Subset, FS_CardinalityType DEF Many

LEMMA ManyLess ==
  ASSUME NEW S, S \subseteq Volumes, NEW v \in S
  PROVE  Many(S \ {v}) < Many(S)
<1>1. IsFiniteSet(S)
  BY DetachAssumption, FS_Subset
<1>2. Cardinality(S) \in Nat
  BY <1>1, FS_CardinalityType
<1>3. Cardinality(S \ {v}) = Cardinality(S) - 1
  BY <1>1, FS_RemoveElement
<1>. QED  BY <1>2, <1>3 DEF Many

LEMMA BoundStep == BoundInv /\ [WipeNext]_allVars => BoundInv'
<1>. SUFFICES ASSUME BoundInv, [WipeNext]_allVars PROVE BoundInv'
  OBVIOUS
<1>. USE DEF BoundInv
<1>1. CASE DetachStep
  BY <1>1
     DEF DetachStep, Drive!Detach, Drive!TryLetter, Drive!TryVolume, Drive!TryGpt,
         Drive!CannotList, Drive!NextStage, Drive!EndPass, Drive!RemoveLetters, Drive!TakeOffline,
         Drive!LastPass, Trying
<1>2. CASE OtherPrograms
  BY <1>2 DEF OtherPrograms, Drive!Apps, Drive!AppOpens, Drive!AppCloses
<1>3. CASE ~DetachStep /\ ~OtherPrograms
  <2>1. UNCHANGED <<round, left, doing>>
    BY <1>3
       DEF WipeNext, PrepareDrive, CloseDevice, DetachReturns, WipeMain, WipeMonitor,
           WipeKilled, WipeEnded, allVars, driveVars, detachVars
  <2>. QED  BY <2>1
<1>. QED  BY <1>1, <1>2, <1>3

DetachCounts == OfThisPass \in Nat /\ OfLaterPasses \in Nat /\ ToClose \in 0 .. 1

LEMMA DetachTypes == ASSUME BoundInv PROVE DetachCounts
<1>1. Many(Volumes) \in Nat /\ Many(left) \in Nat
  BY ManyType DEF BoundInv
<1>. QED
  BY <1>1 DEF BoundInv, Trying, DetachCounts, OfThisPass, OfLaterPasses, WholePass, ToClose

LEMMA DetachTypesNext == ASSUME BoundInv' PROVE DetachCounts'
<1>1. Many(Volumes) \in Nat /\ Many(left') \in Nat
  BY ManyType DEF BoundInv
<1>. QED
  BY <1>1 DEF BoundInv, Trying, DetachCounts, OfThisPass, OfLaterPasses, WholePass, ToClose

\* Each step of a detach counts.
LEMMA DetachCountsDown ==
  ASSUME BoundInv, Drive!Detach
  PROVE  OfThisPass' + OfLaterPasses' < OfThisPass + OfLaterPasses
<1>1. Many(Volumes) \in Nat /\ Many(left) \in Nat
  BY ManyType DEF BoundInv
<1>2. OfLaterPasses \in Nat
  BY DetachTypes DEF DetachCounts
<1>3. CASE \E v \in Volumes : Drive!TryLetter(v) \/ Drive!TryVolume(v) \/ Drive!TryGpt(v)
  <2>1. PICK v \in Volumes : Drive!TryLetter(v) \/ Drive!TryVolume(v) \/ Drive!TryGpt(v)
    BY <1>3
  <2>2. /\ v \in left /\ left' = left \ {v} /\ UNCHANGED <<doing, round>>
        /\ doing \in {"letters", "volumes", "gpt"}
    BY <2>1 DEF Drive!TryLetter, Drive!TryVolume, Drive!TryGpt, Drive!Current
  <2>3. Many(left') < Many(left) /\ Many(left') \in Nat
    BY <2>2, ManyLess, ManyType DEF BoundInv
  <2>4. OfThisPass' < OfThisPass /\ OfThisPass \in Nat /\ OfThisPass' \in Nat
    BY <2>2, <2>3, <1>1 DEF OfThisPass
  <2>5. OfLaterPasses' = OfLaterPasses
    BY <2>2 DEF OfLaterPasses, WholePass
  <2>6. OfLaterPasses' \in Nat
    BY <2>5, <1>2
  <2>. QED  BY <2>4, <2>5, <2>6, <1>2, LessSum, Zenon
<1>4. CASE Drive!NextStage
  <2>1. /\ round' = round /\ left' \in {left, Volumes}
        /\ \/ doing = "letters" /\ doing' = "volumes" /\ left' = Volumes
           \/ doing = "volumes" /\ doing' = "gpt" /\ left' = Volumes
           \/ doing = "gpt" /\ doing' = "passend"
    BY <1>4 DEF Drive!NextStage
  <2>2. OfThisPass' < OfThisPass /\ OfThisPass \in Nat /\ OfThisPass' \in Nat
    BY <2>1, <1>1 DEF OfThisPass
  <2>3. OfLaterPasses' = OfLaterPasses
    BY <2>1 DEF OfLaterPasses, WholePass
  <2>4. OfLaterPasses' \in Nat
    BY <2>3, <1>2
  <2>. QED  BY <2>2, <2>3, <2>4, <1>2, LessSum, Zenon
<1>5. CASE Drive!EndPass
  <2>1. CASE doing' = "letters"
    <3>1. /\ doing = "passend" /\ round \in {0, 1} /\ round' = round + 1 /\ left' = Volumes
      BY <1>5, <2>1 DEF Drive!EndPass, BoundInv, Drive!LastPass
    <3>2. OfThisPass = 3 /\ OfThisPass' = 3 * Many(Volumes) + 6
      BY <3>1, <2>1, <1>1 DEF OfThisPass
    <3>3. OfLaterPasses = OfLaterPasses' + WholePass /\ OfLaterPasses' \in Nat
      BY <3>1, <1>1 DEF OfLaterPasses, WholePass
    <3>. QED  BY <3>2, <3>3, <1>1 DEF WholePass
  <2>2. CASE doing' = "remove" /\ doing = "passend" /\ round' = round
    <3>1. OfLaterPasses' = OfLaterPasses
      BY <2>2 DEF OfLaterPasses, WholePass
    <3>. QED  BY <2>2, <3>1, <1>2 DEF OfThisPass
  <2>. QED  BY <1>5, <2>1, <2>2 DEF Drive!EndPass
<1>6. CASE Drive!RemoveLetters \/ Drive!TakeOffline
  <2>1. /\ round' = round
        /\ \/ doing = "remove" /\ doing' \in {"offline", "returned"}
           \/ doing = "offline" /\ doing' = "returned"
    BY <1>6 DEF Drive!RemoveLetters, Drive!TakeOffline
  <2>2. OfLaterPasses' = OfLaterPasses
    BY <2>1 DEF OfLaterPasses, WholePass
  <2>. QED  BY <2>1, <2>2, <1>2 DEF OfThisPass
<1>7. CASE Drive!CannotList
  <2>1. doing = "letters" /\ doing' = "returned" /\ round' = round
    BY <1>7 DEF Drive!CannotList
  <2>2. OfLaterPasses' = OfLaterPasses
    BY <2>1 DEF OfLaterPasses, WholePass
  <2>3. OfThisPass = 2 * Many(Volumes) + Many(left) + 6 /\ OfThisPass' = 0
    BY <2>1 DEF OfThisPass
  <2>. QED  BY <2>2, <2>3, <1>1, <1>2
<1>. QED  BY <1>3, <1>4, <1>5, <1>6, <1>7 DEF Drive!Detach

LEMMA WipeCountsDown ==
  ASSUME ReturnInv, Inv, BoundInv, BoundInv', PrepareDrive \/ WipeMain, ExecuteInv'
  PROVE  AllStepsLeft' < AllStepsLeft
<1>1. StepsLeft \in Nat /\ StepsLeft' \in Nat
  BY StepsLeftType, StepsLeftNext DEF ReturnInv
<1>2. /\ OfThisPass \in Nat /\ OfLaterPasses \in Nat /\ ToClose \in Nat
      /\ OfThisPass' \in Nat /\ OfLaterPasses' \in Nat /\ ToClose' \in Nat
  BY DetachTypes, DetachTypesNext DEF DetachCounts
<1>3. UNCHANGED <<cfg, pass, pc>> => StepsLeft' = StepsLeft
  BY PassTotalStays DEF StepsLeft
<1>4. UNCHANGED <<doing, round, left>> =>
        OfThisPass' = OfThisPass /\ OfLaterPasses' = OfLaterPasses
  BY DEF OfThisPass, OfLaterPasses, WholePass
<1>5. ASSUME \/ /\ StepsLeft' < StepsLeft /\ ToClose' = ToClose
                /\ OfThisPass' = OfThisPass /\ OfLaterPasses' = OfLaterPasses
             \/ /\ StepsLeft' = StepsLeft /\ ToClose' < ToClose
                /\ OfThisPass' = OfThisPass /\ OfLaterPasses' = OfLaterPasses
             \/ /\ StepsLeft' = StepsLeft /\ ToClose' = ToClose
                /\ OfThisPass' + OfLaterPasses' < OfThisPass + OfLaterPasses
             \/ /\ StepsLeft' + ToClose' < StepsLeft + ToClose
                /\ OfThisPass' = OfThisPass /\ OfLaterPasses' = OfLaterPasses
      PROVE  AllStepsLeft' < AllStepsLeft
  BY <1>1, <1>2, <1>5, LessTotal, ZenonT(30) DEF AllStepsLeft
<1>6. CASE CloseDevice
  <2>1. UNCHANGED <<cfg, pass, pc, doing, round, left>> /\ ToClose = 1 /\ ToClose' = 0
    BY <1>6 DEF CloseDevice, driveVars, detachVars, ToClose
  <2>2. ToClose' < ToClose
    BY <2>1
  <2>. QED  BY <2>1, <2>2, <1>3, <1>4, <1>5
<1>7. CASE DetachStep
  <2>1. UNCHANGED <<cfg, pass, pc>> /\ ToClose' = ToClose
    BY <1>7 DEF DetachStep, wipeVars, ToClose
  <2>2. OfThisPass' + OfLaterPasses' < OfThisPass + OfLaterPasses
    BY <1>7, DetachCountsDown DEF DetachStep
  <2>. QED  BY <2>1, <2>2, <1>3, <1>5
<1>8. CASE DetachReturns
  <2>1. /\ pc = "prepare" /\ pc' \in {"reopen", "unprepared"} /\ UNCHANGED <<cfg, pass>>
        /\ UNCHANGED <<doing, round, left>> /\ ToClose = 0 /\ ToClose' = 0
    BY <1>8 DEF DetachReturns, Detaching, driveVars, detachVars, ToClose
  <2>2. pass \in Nat /\ PassTotal \in Nat /\ PassTotal' = PassTotal
    BY <2>1, PassTotalType, PassTotalStays DEF ReturnInv, ExecuteInv, TypeOK
  <2>3. StepsLeft' < StepsLeft
    BY <2>1, <2>2 DEF StepsLeft, Ahead
  <2>. QED  BY <2>1, <2>3, <1>4, <1>5
<1>9. CASE WipeMain
  <2>1. UNCHANGED <<doing, round, left>>
    BY <1>9 DEF WipeMain, detachVars
  <2>2. Main
    BY <1>9 DEF WipeMain, Main
  <2>3. StepsLeft' < StepsLeft
    BY <2>2, MainCountsDown DEF ReturnInv
  <2>4. pc # "prepare"
    BY <1>9 DEF WipeMain, Enter, Reopen, Unprepared, SecureErase, StartPass, RunEngine,
           JoinMonitor, Flush, Trim, Finish, Restore, DestroyBar, Exit, Goto
  <2>5. CASE pc' # "prepare"
    <3>1. ToClose' = ToClose
      BY <2>4, <2>5 DEF ToClose
    <3>. QED  BY <2>1, <2>3, <3>1, <1>4, <1>5
  <2>6. CASE pc' = "prepare"
    <3>1. pc = "enter" /\ UNCHANGED <<cfg, pass>>
      BY <1>9, <2>6
         DEF WipeMain, Enter, Reopen, Unprepared, SecureErase, StartPass, RunEngine,
             JoinMonitor, Flush, Trim, Finish, Restore, DestroyBar, Exit, Goto
    <3>2. pass \in Nat /\ PassTotal \in Nat /\ PassTotal' = PassTotal
      BY <3>1, PassTotalType, PassTotalStays DEF ReturnInv, ExecuteInv, TypeOK
    <3>3. StepsLeft = 5 * (PassTotal - pass) + 11 /\ StepsLeft' = 5 * (PassTotal - pass) + 9
      BY <2>6, <3>1, <3>2 DEF StepsLeft, Ahead
    <3>4. StepsLeft' + ToClose' < StepsLeft + ToClose
      BY <3>2, <3>3 DEF ToClose
    <3>. QED  BY <2>1, <3>4, <1>4, <1>5
  <2>. QED  BY <2>5, <2>6
<1>. QED  BY <1>6, <1>7, <1>8, <1>9 DEF PrepareDrive

LEMMA OthersLeaveCount ==
  ASSUME Inv, WipeMonitor \/ OtherPrograms
  PROVE  AllStepsLeft' = AllStepsLeft
<1>1. UNCHANGED <<cfg, pass, pc, device, doing, round, left>>
  BY DEF WipeMonitor, Monitor, MonCheck, MonReport, MonWake, MonGoto, detachVars,
         OtherPrograms, wipeVars, Drive!Apps, Drive!AppOpens, Drive!AppCloses
<1>. QED
  BY <1>1, PassTotalStays
     DEF AllStepsLeft, StepsLeft, ToClose, OfThisPass, OfLaterPasses, WholePass

\* Every step of the wipe's own thread, in the detach or outside, brings it
\* nearer to its end, for any number of volumes; the monitor and the other
\* programs, whatever they open and close, never set it back.
THEOREM DetachIsBounded ==
  WipeSpec => /\ [](AllStepsLeft \in Nat)
              /\ [][ /\ PrepareDrive \/ WipeMain => AllStepsLeft' < AllStepsLeft
                     /\ WipeMonitor \/ OtherPrograms =>
                          AllStepsLeft' = AllStepsLeft ]_allVars
<1>. DEFINE counts == /\ PrepareDrive \/ WipeMain => AllStepsLeft' < AllStepsLeft
                      /\ WipeMonitor \/ OtherPrograms => AllStepsLeft' = AllStepsLeft
<1>1. WipeInit => BoundInv
  BY DEF WipeInit, Drive!Init, BoundInv, Trying
<1>2. ReturnInv /\ BoundInv => AllStepsLeft \in Nat
  BY StepsLeftType, DetachTypes DEF ReturnInv, AllStepsLeft, DetachCounts
<1>3. ReturnInv /\ ReturnInv' /\ Inv /\ BoundInv /\ BoundInv' /\ [WipeNext]_allVars
        => [counts]_allVars
  BY WipeCountsDown, OthersLeaveCount DEF ReturnInv
<1>. HIDE DEF counts
<1>4. WipeSpec => [](AllStepsLeft \in Nat) /\ [][counts]_allVars
  BY <1>1, <1>2, <1>3, BoundStep, Invariance, DetailedReturns, PTL DEF WipeSpec
<1>. QED  BY <1>4 DEF counts

-----------------------------------------------------------------------------
(***************************************************************************)
(* The types of the detach, among them that its counts cannot run away:    *)
(* each volume is attempted at most three times in each of three passes.   *)
(***************************************************************************)

\* What may still be attempted, in this pass and in those to come.
TriesOfThisPass ==
  CASE doing = "letters" -> 2 * Many(Volumes) + Many(left)
    [] doing = "volumes" -> Many(Volumes) + Many(left)
    [] doing = "gpt"     -> Many(left)
    [] OTHER             -> 0
TriesOfLaterPasses ==
  CASE round = 0 -> 6 * Many(Volumes) [] round = 1 -> 3 * Many(Volumes) [] OTHER -> 0

Budget == attempted + TriesOfThisPass + TriesOfLaterPasses <= 9 * Many(Volumes)

DriveTyped ==
  /\ dismounted \in 0 .. attempted /\ attempted \in Nat
  /\ letters \subseteq Lettered /\ busy \subseteq mounted /\ mounted \subseteq Volumes
  /\ offError \in {"none", "unsupported", "error"}
  /\ gone \subseteq Volumes /\ stuck \subseteq Volumes /\ tried \subseteq Lettered
  /\ skipped \subseteq Lettered
  /\ verdict \in {"none", "ok", "fail", "unlisted"} /\ outcome \in {"none", "ok", "fail"}

LEMMA DriveStart == WipeInit => DriveTyped /\ Budget
<1>. SUFFICES ASSUME WipeInit PROVE DriveTyped /\ Budget
  OBVIOUS
<1>1. DriveTyped
  BY DEF WipeInit, Drive!Init, DriveTyped
<1>2. Many(Volumes) \in Nat /\ Many(left) = Many(Volumes)
  BY ManyType DEF WipeInit, Drive!Init
<1>3. attempted = 0 /\ doing = "letters" /\ round = 0
  BY DEF WipeInit, Drive!Init
<1>4. Budget
  BY <1>2, <1>3 DEF Budget, TriesOfThisPass, TriesOfLaterPasses
<1>. QED  BY <1>1, <1>4

LEMMA DriveSteps ==
  ASSUME DriveTyped, BoundInv, Drive!Detach
  PROVE  DriveTyped'
<1>. USE DEF DriveTyped
<1>1. CASE \E v \in Volumes : Drive!TryLetter(v) \/ Drive!TryVolume(v) \/ Drive!TryGpt(v)
  <2>1. PICK v \in Volumes : Drive!TryLetter(v) \/ Drive!TryVolume(v) \/ Drive!TryGpt(v)
    BY <1>1
  <2>2. /\ Drive!Attempt(v) \/ Drive!Skip
        /\ tried' = tried \/ (v \in letters /\ tried' = tried \cup {v})
        /\ skipped' = skipped \/ (v \in letters /\ skipped' = skipped \cup {v})
        /\ UNCHANGED <<letters, busy, offError, verdict, outcome>>
    BY <2>1 DEF Drive!TryLetter, Drive!TryVolume, Drive!TryGpt
  <2>3. /\ dismounted' \in 0 .. attempted' /\ attempted' \in Nat
        /\ busy \subseteq mounted' /\ mounted' \subseteq Volumes
        /\ gone' \subseteq Volumes /\ stuck' \subseteq Volumes
    BY <2>2 DEF Drive!Attempt, Drive!Skip, Drive!countVars
  <2>. QED  BY <2>2, <2>3
<1>2. CASE Drive!NextStage \/ Drive!EndPass
  BY <1>2
     DEF Drive!NextStage, Drive!EndPass, Drive!countVars, Drive!diskVars, Drive!volumeVars,
         Drive!histVars
<1>3. CASE Drive!CannotList \/ Drive!RemoveLetters \/ Drive!TakeOffline
  BY <1>3
     DEF Drive!CannotList, Drive!RemoveLetters, Drive!TakeOffline, Drive!countVars,
         Drive!diskVars, Drive!volumeVars, Drive!histVars
<1>. QED  BY <1>1, <1>2, <1>3 DEF Drive!Detach

\* Each attempt is taken from what the stage has still to look at.
LEMMA BudgetStep ==
  ASSUME DriveTyped, Budget, BoundInv, Drive!Detach
  PROVE  Budget'
<1>1. Many(Volumes) \in Nat /\ Many(left) \in Nat
  BY ManyType DEF BoundInv
<1>2. attempted \in Nat /\ round \in 0 .. 2
  BY DEF DriveTyped, BoundInv
<1>3. CASE \E v \in Volumes : Drive!TryLetter(v) \/ Drive!TryVolume(v) \/ Drive!TryGpt(v)
  <2>1. PICK v \in Volumes : Drive!TryLetter(v) \/ Drive!TryVolume(v) \/ Drive!TryGpt(v)
    BY <1>3
  <2>2. /\ v \in left /\ left' = left \ {v} /\ UNCHANGED <<doing, round>>
        /\ doing \in {"letters", "volumes", "gpt"}
        /\ attempted' \in {attempted, attempted + 1}
    BY <2>1
       DEF Drive!TryLetter, Drive!TryVolume, Drive!TryGpt, Drive!Current, Drive!Attempt,
           Drive!Skip, Drive!countVars
  <2>3. Many(left') < Many(left) /\ Many(left') \in Nat
    BY <2>2, ManyLess, ManyType DEF BoundInv
  <2>. QED
    BY <2>2, <2>3, <1>1, <1>2 DEF Budget, TriesOfThisPass, TriesOfLaterPasses
<1>4. CASE Drive!NextStage
  <2>1. /\ attempted' = attempted /\ round' = round
        /\ \/ doing = "letters" /\ doing' = "volumes" /\ left' = Volumes
           \/ doing = "volumes" /\ doing' = "gpt" /\ left' = Volumes
           \/ doing = "gpt" /\ doing' = "passend"
    BY <1>4 DEF Drive!NextStage, Drive!countVars
  <2>. QED  BY <2>1, <1>1, <1>2 DEF Budget, TriesOfThisPass, TriesOfLaterPasses
<1>5. CASE Drive!CannotList \/ Drive!EndPass \/ Drive!RemoveLetters \/ Drive!TakeOffline
  <2>1. /\ attempted' = attempted
        /\ \/ doing = "passend" /\ round \in {0, 1} /\ round' = round + 1 /\ doing' = "letters"
              /\ left' = Volumes
           \/ doing' \in {"remove", "offline", "returned"} /\ round' = round
    BY <1>5, <1>2
       DEF Drive!CannotList, Drive!EndPass, Drive!RemoveLetters, Drive!TakeOffline,
           Drive!countVars, Drive!LastPass
  <2>2. TriesOfThisPass \in Nat
    BY <1>1 DEF TriesOfThisPass
  <2>. QED  BY <2>1, <2>2, <1>1, <1>2 DEF Budget, TriesOfThisPass, TriesOfLaterPasses
<1>. QED  BY <1>3, <1>4, <1>5 DEF Drive!Detach

\* Nobody else touches the detach, but for what other programs open and close.
LEMMA DriveOthers ==
  ASSUME DriveTyped, Budget, [WipeNext]_allVars, ~DetachStep
  PROVE  DriveTyped' /\ Budget'
<1>1. CASE OtherPrograms
  <2>1. UNCHANGED <<doing, round, outcome, left, attempted, dismounted, letters, offError, gone,
                    stuck, tried, skipped, verdict>>
    BY <1>1
       DEF OtherPrograms, Drive!Apps, Drive!AppOpens, Drive!AppCloses, Drive!countVars,
           Drive!histVars
  <2>2. busy' \subseteq mounted' /\ mounted' \subseteq Volumes
    BY <1>1 DEF OtherPrograms, Drive!Apps, Drive!AppOpens, Drive!AppCloses, DriveTyped
  <2>. QED
    BY <2>1, <2>2 DEF DriveTyped, Budget, TriesOfThisPass, TriesOfLaterPasses
<1>2. CASE ~OtherPrograms
  <2>1. UNCHANGED detachVars
    BY <1>2
       DEF WipeNext, PrepareDrive, CloseDevice, DetachReturns, WipeMain, WipeMonitor,
           WipeKilled, WipeEnded, allVars, driveVars
  <2>. QED
    BY <2>1 DEF detachVars, DriveTyped, Budget, TriesOfThisPass, TriesOfLaterPasses
<1>. QED  BY <1>1, <1>2

\* The instance counts as the modules do.
LEMMA SameCount == \A S : Drive!Cardinality(S) = Cardinality(S)
BY DEF Cardinality, Drive!Cardinality

\* The detach has the declared types; a volume is attempted nine times at
\* most, by letter, by name and as a partition in each of three passes
\* (platform_dismount_volumes_on_device), whatever other programs do.
THEOREM DetachTypesHold == WipeSpec => []Drive!TypeOK
<1>1. WipeInit => BoundInv
  BY DEF WipeInit, Drive!Init, BoundInv, Trying
<1>2. DriveTyped /\ Budget /\ BoundInv /\ [WipeNext]_allVars => DriveTyped' /\ Budget'
  BY DriveSteps, BudgetStep, DriveOthers DEF DetachStep
<1>3. ReturnInv /\ DriveTyped /\ Budget /\ BoundInv => Drive!TypeOK
  <2>. SUFFICES ASSUME ReturnInv, DriveTyped, Budget, BoundInv PROVE Drive!TypeOK
    OBVIOUS
  <2>1. disk \in {"online", "offline"} /\ offlined \in BOOLEAN
    BY DEF ReturnInv, ExecuteInv, TypeOK
  <2>2. attempted \in 0 .. 3 * (Drive!LastPass + 1) * Drive!Cardinality(Volumes)
    <3>1. Many(Volumes) \in Nat /\ Many(left) \in Nat
      BY ManyType DEF BoundInv
    <3>2. TriesOfThisPass \in Nat /\ TriesOfLaterPasses \in Nat
      BY <3>1 DEF TriesOfThisPass, TriesOfLaterPasses
    <3>3. attempted \in Nat /\ attempted <= 9 * Many(Volumes)
      BY <3>1, <3>2 DEF Budget, DriveTyped
    <3>4. 3 * (Drive!LastPass + 1) = 9
      BY DEF Drive!LastPass
    <3>. QED  BY <3>1, <3>3, <3>4, SameCount DEF Many
  <2>3. round \in 0 .. Drive!LastPass
    BY DEF BoundInv, Drive!LastPass
  <2>4. /\ doing \in {"letters", "volumes", "gpt", "passend", "remove", "offline", "returned"}
        /\ left \subseteq Volumes
    BY DEF BoundInv, Trying
  <2>. QED  BY <2>1, <2>2, <2>3, <2>4 DEF DriveTyped, Drive!TypeOK
<1>. QED
  BY <1>1, <1>2, <1>3, DriveStart, BoundStep, DetailedReturns, PTL DEF WipeSpec

-----------------------------------------------------------------------------
(***************************************************************************)
(* The refinement.                                                         *)
(***************************************************************************)

LEMMA AbstractInit == WipeInit => Abstract!Init
BY DEF WipeInit, Drive!Init, Init, Abstract!Init, AbstractAt, AbstractDevice, Detaching,
       Configs, Abstract!Configs, FileGeometry, Abstract!FileGeometry,
       Profiles, Abstract!Profiles

\* The steps of wipe_execute outside of Prepare are the same in both.
LEMMA MainIsAbstract ==
  ASSUME Inv, WipeMain
  PROVE  Abstract!Main
<1>1. /\ pc # "prepare" /\ UNCHANGED <<doing, outcome>>
      /\ WipeInv /\ WipeInv'
  BY MainMoves DEF WipeMain, detachVars, Inv
<1>2. pc' = "prepare" => device' # "none"
  BY <1>1
     DEF WipeMain, WipeInv, Goto, Enter, Reopen, Unprepared,
         SecureErase, StartPass, RunEngine, JoinMonitor,
         Flush, Trim, Finish, Restore, DestroyBar,
         Exit
<1>3. AbstractAt = pc /\ AbstractAt' = pc'
  BY <1>1, <1>2 DEF AbstractAt, Detaching
<1>4. pc # "dead"
  BY DEF WipeMain, Goto, Enter, Reopen, Unprepared,
         SecureErase, StartPass, RunEngine, JoinMonitor,
         Flush, Trim, Finish, Restore, DestroyBar,
         Exit
<1>5. AbstractDevice = device
  BY <1>1, <1>4 DEF AbstractDevice, WipeInv
<1>6. AbstractDevice' = device'
  <2>1. CASE doing = "returned"
    BY <2>1, <1>1 DEF AbstractDevice
  <2>2. CASE doing # "returned"
    BY <2>2, <1>1, <1>4, <1>5
       DEF AbstractDevice, WipeInv, GoesOn, WipeMain, Goto, Enter,
           Reopen, Unprepared, SecureErase, StartPass,
           RunEngine, JoinMonitor, Flush, Trim,
           Finish, Restore, DestroyBar, Exit
  <2>. QED  BY <2>1, <2>2
<1>. USE <1>1, <1>3, <1>5, <1>6
     DEF Goto, Abstract!Goto, envVars, Abstract!envVars, passVars,
         Abstract!passVars, monVars, Abstract!monVars
<1>7. Enter => Abstract!Enter
  BY DEF Enter, Abstract!Enter
<1>8. Reopen => Abstract!Reopen
  BY DEF Reopen, Abstract!Reopen
<1>9. Unprepared => Abstract!Unprepared
  BY DEF Unprepared, Abstract!Unprepared, RestoreDisk, Abstract!RestoreDisk
<1>10. SecureErase => Abstract!SecureErase
  BY DEF SecureErase, Abstract!SecureErase, RestoreDisk,
         Abstract!RestoreDisk,
         WantsErase, Abstract!WantsErase
<1>11. StartPass => Abstract!StartPass
  BY DEF StartPass, Abstract!StartPass, PassTotal, Abstract!PassTotal,
         ProfilePassCount, Abstract!ProfilePassCount
<1>12. RunEngine => Abstract!RunEngine
  BY DEF RunEngine, Abstract!RunEngine, EngineResults,
         Abstract!EngineResults,
         UsesWorkers, Abstract!UsesWorkers, UseSequential,
         Abstract!UseSequential,
         SequentialLimit, Abstract!SequentialLimit
<1>13. JoinMonitor => Abstract!JoinMonitor
  BY DEF JoinMonitor, Abstract!JoinMonitor, Windows, Abstract!Windows
<1>14. Flush => Abstract!Flush
  BY DEF Flush, Abstract!Flush
<1>15. Trim => Abstract!Trim
  BY DEF Trim, Abstract!Trim
<1>16. Finish => Abstract!Finish
  BY DEF Finish, Abstract!Finish
<1>17. Restore => Abstract!Restore
  BY DEF Restore, Abstract!Restore, RestoreDisk, Abstract!RestoreDisk
<1>18. DestroyBar => Abstract!DestroyBar
  BY DEF DestroyBar, Abstract!DestroyBar
<1>19. Exit => Abstract!Exit
  BY DEF Exit, Abstract!Exit
<1>. QED
  BY <1>7, <1>8, <1>9, <1>10, <1>11, <1>12, <1>13, <1>14, <1>15, <1>16, <1>17, <1>18, <1>19
     DEF WipeMain, Abstract!Main

\* Everything the abstract wipe shares with the detailed one as it is.
SharedVars == <<cfg, disk, refused, offlined, pass, failed, running, mon, bar, engine,
                written, flushed, trimmed, erased, reported, ret>>

LEMMA Stutter ==
  ASSUME UNCHANGED <<SharedVars, AbstractAt, AbstractDevice, outcome>>
  PROVE  UNCHANGED Abstract!vars
BY DEF SharedVars, Abstract!vars, Abstract!envVars, Abstract!passVars, Abstract!monVars

\* The step of the detach that decides its result is Prepare.
LEMMA DetachIsAbstract ==
  ASSUME Inv, DetachStep
  PROVE  Abstract!Prepare \/ UNCHANGED Abstract!vars
<1>1. /\ pc = "prepare" /\ device = "none" /\ doing # "returned" /\ Drive!Detach
      /\ UNCHANGED wipeVars
  BY DEF DetachStep, Detaching, Drive!Detach, Drive!TryLetter, Drive!TryVolume, Drive!TryGpt,
         Drive!CannotList, Drive!NextStage, Drive!EndPass,
         Drive!RemoveLetters, Drive!TakeOffline
<1>2. AbstractAt = "prepare" /\ AbstractDevice = "rw"
  BY <1>1 DEF AbstractAt, AbstractDevice, Detaching
<1>3. CASE doing' # "returned"
  <2>1. UNCHANGED <<disk, offlined, outcome>>
    BY <1>1, <1>3
       DEF Drive!Detach, Drive!TryLetter, Drive!TryVolume, Drive!TryGpt, Drive!CannotList,
           Drive!NextStage, Drive!EndPass, Drive!RemoveLetters, Drive!TakeOffline,
           Drive!diskVars
  <2>2. AbstractAt' = "prepare" /\ AbstractDevice' = "rw"
    BY <1>1, <1>3 DEF AbstractAt, AbstractDevice, Detaching, wipeVars
  <2>. QED  BY <1>1, <1>2, <2>1, <2>2, Stutter DEF SharedVars, wipeVars
<1>4. CASE doing' = "returned"
  <2>1. /\ outcome = "none" /\ ~offlined /\ disk = "online" /\ cfg.windows /\ cfg.physical
    BY <1>1 DEF Inv, DetachInv, DiskInv, WipeInv
  <2>2. \/ outcome' = "fail" /\ UNCHANGED <<disk, offlined>>
        \/ outcome' = "ok" /\ disk' = "offline" /\ offlined' = TRUE
        \/ outcome' = "ok" /\ UNCHANGED <<disk, offlined>>
    BY <1>1, <1>4
       DEF Drive!Detach, Drive!TryLetter, Drive!TryVolume, Drive!TryGpt, Drive!CannotList,
           Drive!NextStage, Drive!EndPass, Drive!RemoveLetters, Drive!TakeOffline,
           Drive!diskVars
  <2>3. /\ AbstractAt' = (IF outcome' = "ok" THEN "reopen" ELSE "unprepared")
        /\ AbstractDevice' = "none"
    BY <1>1, <1>4 DEF AbstractAt, AbstractDevice, Detaching, wipeVars
  <2>4. UNCHANGED <<cfg, refused, pass, failed, running, mon, bar, engine, written,
                    flushed, trimmed, erased, reported, ret>>
    BY <1>1 DEF wipeVars
  <2>5. CASE outcome' = "fail"
    <3>1. (outcome = "ok")' = (outcome = "ok")
      BY <2>1, <2>5
    <3>. QED
      BY <1>2, <2>2, <2>3, <2>4, <2>5, <3>1
         DEF Abstract!Prepare, Abstract!Goto, Abstract!monVars, Abstract!passVars
  <2>6. CASE outcome' = "ok"
    <3>1. (outcome = "ok")' = TRUE
      BY <2>6
    <3>. QED
      BY <1>2, <2>1, <2>2, <2>3, <2>4, <2>6, <3>1
         DEF Abstract!Prepare, Abstract!Goto, Abstract!Windows, Abstract!monVars,
             Abstract!passVars
  <2>. QED  BY <2>2, <2>5, <2>6
<1>. QED  BY <1>3, <1>4

LEMMA PrepareIsAbstract ==
  ASSUME Inv, PrepareDrive
  PROVE  Abstract!Prepare \/ UNCHANGED Abstract!vars
<1>1. CASE CloseDevice
  <2>1. UNCHANGED <<SharedVars, outcome>>
    BY <1>1 DEF CloseDevice, SharedVars, driveVars, detachVars, Drive!diskVars
  <2>2. AbstractAt' = AbstractAt /\ AbstractDevice' = AbstractDevice
    BY <1>1 DEF CloseDevice, AbstractAt, AbstractDevice, Detaching, driveVars, detachVars, Inv, WipeInv
  <2>. QED  BY <2>1, <2>2, Stutter
<1>2. CASE DetachReturns
  <2>1. UNCHANGED <<SharedVars, outcome>>
    BY <1>2 DEF DetachReturns, SharedVars, driveVars, detachVars, Drive!diskVars
  <2>2. AbstractAt' = AbstractAt /\ AbstractDevice' = AbstractDevice
    BY <1>2 DEF DetachReturns, AbstractAt, AbstractDevice, Detaching, driveVars, detachVars
  <2>. QED  BY <2>1, <2>2, Stutter
<1>. QED  BY <1>1, <1>2, DetachIsAbstract DEF PrepareDrive

LEMMA MonitorIsAbstract ==
  ASSUME Inv, WipeMonitor
  PROVE  Abstract!Monitor
<1>1. UNCHANGED <<cfg, pc, device, disk, offlined, doing, outcome>>
  BY MonitorMoves DEF detachVars
<1>2. AbstractAt' = AbstractAt /\ AbstractDevice' = AbstractDevice
  BY <1>1 DEF AbstractAt, AbstractDevice, Detaching
<1>3. /\ ProcessAlive <=> Abstract!ProcessAlive
      /\ FrameAlive <=> Abstract!FrameAlive
  BY DEF ProcessAlive, Abstract!ProcessAlive, FrameAlive,
         Abstract!FrameAlive,
         AbstractAt, Detaching
<1>4. ASSUME NEW from, NEW to
      PROVE  MonGoto(from, to) => Abstract!MonGoto(from, to)
  BY <1>1, <1>2, <1>3
     DEF MonGoto, Abstract!MonGoto, envVars, Abstract!envVars,
         passVars, Abstract!passVars
<1>5. MonCheck => Abstract!MonCheck
  BY <1>3, <1>4 DEF MonCheck, Abstract!MonCheck
<1>6. MonReport => Abstract!MonReport
  BY <1>4 DEF MonReport, Abstract!MonReport
<1>7. MonWake => Abstract!MonWake
  BY <1>4 DEF MonWake, Abstract!MonWake
<1>. QED  BY <1>5, <1>6, <1>7 DEF WipeMonitor, Monitor, Abstract!Monitor

LEMMA KilledIsAbstract ==
  ASSUME WipeKilled
  PROVE  Abstract!Killed
<1>1. /\ pc \notin {"exited", "dead"} /\ pc' = "dead"
      /\ UNCHANGED <<device, doing, outcome, disk, refused, offlined>>
  BY DEF WipeKilled, Killed, envVars, detachVars
<1>2. /\ AbstractAt \notin {"exited", "dead"} /\ AbstractAt' = "dead"
      /\ AbstractDevice' = AbstractDevice
  BY <1>1 DEF AbstractAt, AbstractDevice, Detaching
<1>. QED
  BY <1>1, <1>2
     DEF WipeKilled, Killed, Abstract!Killed, envVars, Abstract!envVars,
         monVars, Abstract!monVars, passVars, Abstract!passVars

LEMMA StepIsAbstract == Inv /\ [WipeNext]_allVars => [Abstract!Next]_Abstract!vars
<1>. SUFFICES ASSUME Inv, [WipeNext]_allVars
              PROVE  Abstract!Next \/ UNCHANGED Abstract!vars
  OBVIOUS
<1>1. CASE PrepareDrive
  BY <1>1, PrepareIsAbstract DEF Abstract!Next, Abstract!Main
<1>2. CASE WipeMain
  BY <1>2, MainIsAbstract DEF Abstract!Next
<1>3. CASE WipeMonitor
  BY <1>3, MonitorIsAbstract DEF Abstract!Next
<1>4. CASE WipeKilled
  BY <1>4, KilledIsAbstract DEF Abstract!Next
<1>5. CASE OtherPrograms
  <2>1. UNCHANGED <<wipeVars, doing, disk, offlined, outcome>>
    BY <1>5, AppsKeep DEF OtherPrograms, Inv
  <2>2. UNCHANGED <<SharedVars, AbstractAt, AbstractDevice, outcome>>
    BY <2>1 DEF wipeVars, SharedVars, AbstractAt, AbstractDevice, Detaching
  <2>. QED  BY <2>2, Stutter
<1>6. CASE UNCHANGED allVars
  <2>1. UNCHANGED <<SharedVars, AbstractAt, AbstractDevice, outcome>>
    BY <1>6 DEF allVars, driveVars, detachVars, wipeVars, Drive!diskVars, SharedVars, AbstractAt,
                AbstractDevice,
                Detaching
  <2>. QED  BY <2>1, Stutter
<1>. QED  BY <1>1, <1>2, <1>3, <1>4, <1>5, <1>6 DEF WipeNext, WipeEnded

\* The wipe with the detach in full implements WipeExecute, in which the
\* detach is one step: the step that decides its result.
THEOREM Refinement == WipeSpec => ImplementsExecute
BY AbstractInit, StepIsAbstract, Invariance, PTL DEF WipeSpec, ImplementsExecute,
Abstract!Spec
=============================================================================
