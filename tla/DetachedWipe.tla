---------------------------- MODULE DetachedWipe ----------------------------
(***************************************************************************)
(* wipe_execute on a physical drive in the Windows build, with the detach  *)
(* of the drive in full: WipeExecute, whose action Prepare takes the       *)
(* detach as one step, composed with DiskDetach.  Other programs open and  *)
(* close volumes all the time, also while the passes write.                *)
(*                                                                         *)
(* The composition implements WipeExecute: the step of the detach that     *)
(* decides its result is Prepare, all its others stutter.                  *)
(***************************************************************************)
EXTENDS WipeExecute, FiniteSets

CONSTANTS
  Volumes, Lettered, GptIds,   \* as in DiskDetach
  Requests                     \* what wipe_execute is called with

ASSUME DetachAssumption ==
  /\ Volumes \subseteq Nat /\ IsFiniteSet(Volumes)
  /\ Lettered \subseteq Volumes /\ GptIds \subseteq Volumes

VARIABLES
  doing, round, outcome,   \* pc, pass and ret of the detach
  left, attempted, dismounted, letters, busy, mounted, offError, gone, stuck, tried,
  skipped, verdict

\* The detach; disk and offlined are shared with the rest of wipe_execute.
Drive == INSTANCE DiskDetach WITH pc <- doing, pass <- round, ret <- outcome

\* Nobody but the detach touches its variables, except for the disk, which
\* wipe_restore_physical_disk brings back online.
detachVars == <<doing, round, outcome, left, attempted, dismounted, letters, busy, mounted,
                offError, gone, stuck, tried, skipped, verdict>>
driveVars == <<detachVars, disk, offlined>>

\* The variables of the wipe alone.
wipeVars == <<cfg, pc, device, detached, refused, pass, failed, running, mon, bar,
              engine, written, flushed, trimmed, erased, reported, ret>>
allVars == <<driveVars, wipeVars>>

WipeInit ==
  /\ Drive!Init /\ Init
  /\ cfg \in Requests
  /\ cfg.windows /\ cfg.physical

Detaching == pc = "prepare" /\ device = "none"

\* wipe_prepare_physical_disk closes the handle before it detaches.
CloseDevice ==
  /\ pc = "prepare" /\ device # "none" /\ device' = "none"
  /\ UNCHANGED <<driveVars, cfg, pc, detached, refused, pass, failed, running, mon, bar,
                 engine, written, flushed, trimmed, erased, reported, ret>>

DetachStep == Detaching /\ Drive!Detach /\ UNCHANGED wipeVars

\* Mutant of DetachReturns: the wipe goes on with a disk that is not detached.
DetachReturnsAnyway ==
  /\ Detaching /\ doing = "returned"
  /\ pc' = "reopen" /\ detached' = (outcome = "ok")
  /\ UNCHANGED <<driveVars, cfg, device, refused, pass, failed, running, mon, bar,
                 engine, written, flushed, trimmed, erased, reported, ret>>

\* The result of the detach decides whether the target is opened again.
DetachReturns ==
  /\ Detaching /\ doing = "returned"
  /\ pc' = (IF outcome = "ok" THEN "reopen" ELSE "unprepared")
  /\ detached' = (outcome = "ok")
  /\ UNCHANGED <<driveVars, cfg, device, refused, pass, failed, running, mon, bar,
                 engine, written, flushed, trimmed, erased, reported, ret>>

\* Prepare of WipeExecute, in steps.
PrepareDrive == CloseDevice \/ DetachStep \/ DetachReturns

WipeMain ==
  /\ \/ Enter \/ Reopen \/ Unprepared \/ SecureErase \/ StartPass \/ RunEngine \/ JoinMonitor
     \/ Flush \/ Trim \/ Finish \/ Restore \/ DestroyBar \/ Exit
  /\ UNCHANGED detachVars

WipeMonitor == Monitor /\ UNCHANGED detachVars

WipeKilled == Killed /\ UNCHANGED detachVars

OtherPrograms == Drive!Apps /\ UNCHANGED wipeVars

WipeEnded == ~ProcessAlive /\ UNCHANGED allVars

WipeNext == PrepareDrive \/ WipeMain \/ WipeMonitor \/ WipeKilled \/ OtherPrograms \/ WipeEnded

WipeSpec == WipeInit /\ [][WipeNext]_allVars

\* As in the two parts: each thread runs and its system calls return; the
\* other programs owe nothing.
FairWipe == WipeSpec /\ WF_allVars(PrepareDrive \/ WipeMain) /\ WF_allVars(WipeMonitor)
-----------------------------------------------------------------------------
\* While the detach is under way, the abstract wipe still has its handle; once
\* it is decided, the abstract wipe has left Prepare.
AbstractAt ==
  IF Detaching /\ doing = "returned"
  THEN IF outcome = "ok" THEN "reopen" ELSE "unprepared"
  ELSE pc
AbstractDevice == IF device = "none" /\ doing # "returned" THEN "rw" ELSE device

Abstract ==
  INSTANCE WipeExecute WITH
    pc <- AbstractAt, device <- AbstractDevice, detached <- (outcome = "ok")

\* The detailed wipe implements the one whose detach is a single step.
ImplementsExecute == Abstract!Spec

\* As in DiskDetach: what a dismount that succeeds has done.
OkMeansDismounted == Drive!OkMeansDismounted

\* As in DiskDetach: every dismount pass finds all the letters.
LettersOutliveRetries == Drive!LettersOutliveRetries

\* While a drive is erased, overwritten or discarded, either it is offline and
\* none of its volumes is mounted, or the system has said that it cannot take
\* this drive offline, and the dismount that succeeded before did what
\* OkMeansDismounted says.  A volume it passed over may then be mounted.
WritesSpareMounted ==
  pc \in {"erase", "engine", "flush", "trim"} =>
    \/ disk = "offline" /\ mounted = {}
    \/ /\ offError = "unsupported" /\ stuck = {}
       /\ gone # {} /\ Lettered \ skipped \subseteq gone

\* The detach comes to an end, however the other programs behave.
DetachEnds == (pc = "prepare") ~> (pc # "prepare")
=============================================================================
