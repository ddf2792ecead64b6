------------------------------- MODULE CliRun -------------------------------
(***************************************************************************)
(* One wipe by the command line tool, from the parsed arguments to the     *)
(* exit code: main.c after its argument loop, target_resolve and           *)
(* target_cleanup of target.c, safety_check and safety_confirm of          *)
(* safety.c, format_can_apply and format_after_wipe of format.c, the       *)
(* filler file and fs_shadow_secure_delete of free_space.c.                *)
(*                                                                         *)
(* wipe_execute is one step, with the results that ExecuteSpec promises    *)
(* (module WipeExecute has its inside).  A path is represented by its      *)
(* form, which is all the code looks at:                                   *)
(*   Windows: "disk" \\.\PhysicalDriveN, "volume" \\.\X:, "drive" X:,      *)
(*            "root" X:\, "file" X:\dir\f, "rel" anything else             *)
(*   POSIX:   "disk" /dev/sdb, "part" /dev/sdb1, "dir" and "file"          *)
(***************************************************************************)
EXTENDS Integers, ExecuteSpec

\* The forms a path may have in the Windows build (w) and in the POSIX one.
BlockForms(w) == IF w THEN {"disk", "volume"} ELSE {"disk", "part"}
FileForms(w)  == IF w THEN {"file", "rel"} ELSE {"file"}
DirForms(w)   == IF w THEN {"drive", "root", "file", "rel"} ELSE {"dir"}
Kinds == {"FILE", "FREE_SPACE", "UNALLOCATED", "WHOLE_DISK", "PARTITION"}

FormsIn(w) == BlockForms(w) \cup FileForms(w) \cup DirForms(w)
Forms == FormsIn(TRUE) \cup FormsIn(FALSE)

\* The forms of what path_is_probably_system may take for a system disk.
SystemForms(w) == BlockForms(w) \cup (IF w THEN {} ELSE {"dir"})

\* What the argument loop leaves behind.  windows: whose build this is;
\* profile: "ghost" stands for those that matter to the engine only; chunk:
\* whether cfg.chunk_size holds a sector; system: path_is_probably_system.
Configs ==
  { c \in [windows : BOOLEAN, mode : {"whole", "free", "gaps"}, form : Forms,
           profile : {"ghost", "shadow", "slack"}, chunk : {"fits", "tiny"},
           dryRun : BOOLEAN, yes : BOOLEAN, force : BOOLEAN, format : BOOLEAN,
           system : BOOLEAN] :
      /\ c.form \in FormsIn(c.windows)
      /\ c.system => c.form \in SystemForms(c.windows) }

VARIABLES
  cfg,        \* never changes
  pc,
  kind,       \* cfg.kind and target.kind
  format,     \* cfg.format_after, which main clears when it cannot apply
  empty,      \* target.total_bytes = 0
  dev,        \* target.device: "closed" (NULL), "ro" or "rw"
  fillerPath, \* target.filler_path is set
  filler,     \* the filler file: "none", "present", "removed"
  file,       \* the target file: "intact", "extended", "wiped", "deleted"
  consent,    \* history: the user typed the path, or --yes was given
  refused,    \* history: the system refused to remove a file nobody has open
  wiped,      \* history: how far wipe_execute came, one of Extents
  formatted,  \* what has been formatted: "nothing", "disk", "volume", "part"
  exit        \* exit code: "none", "0" or "1"

fsVars == <<fillerPath, filler, file, refused>>
vars == <<cfg, pc, kind, format, empty, dev, fsVars, consent, wiped, formatted, exit>>

Init ==
  /\ cfg \in Configs
  /\ pc = "infer" /\ kind = "WHOLE_DISK" /\ format = cfg.format /\ empty = FALSE
  /\ dev = "closed" /\ fillerPath = FALSE /\ filler = "none" /\ file = "intact"
  /\ consent = FALSE /\ refused = FALSE /\ wiped = "no" /\ formatted = "nothing"
  /\ exit = "none"

(***************************************************************************)
(* The pure helpers.                                                       *)
(***************************************************************************)

Windows == cfg.windows

IsRaw(form) == form \in BlockForms(Windows)

\* Mutant of InferKind: the form of the path is looked at first.
InferKindFormFirst(mode, form) ==
  CASE IsRaw(form) -> "WHOLE_DISK"
    [] ~IsRaw(form) /\ mode = "free" -> "FREE_SPACE"
    [] ~IsRaw(form) /\ mode = "gaps" -> "UNALLOCATED"
    [] OTHER -> "FILE"

\* infer_kind.  On Windows whatever starts with a drive letter and a colon is
\* a partition, an absolute file name too.
InferKind(mode, form) ==
  CASE mode = "free" -> "FREE_SPACE"
    [] mode = "gaps" -> "UNALLOCATED"
    [] mode = "whole" /\ IsRaw(form) -> "WHOLE_DISK"
    [] mode = "whole" /\ ~IsRaw(form) /\ Windows /\ form \in {"drive", "root", "file"}
         -> "PARTITION"
    [] OTHER -> "FILE"

\* detect_dev_kind
DevIsRaw == kind \notin {"FILE", "FREE_SPACE"} /\ IsRaw(cfg.form)

\* The form of the filler's path, "<mount>/.overwrite_filler_<time>.tmp": it
\* still starts with "X:\" if the mount point did.
ResolvedForm ==
  IF cfg.mode # "free" THEN cfg.form
  ELSE IF ~Windows \/ cfg.form \in {"root", "file"} THEN "file" ELSE "rel"

\* format_can_apply
CanFormat(k, form) ==
  \/ k \in {"WHOLE_DISK", "PARTITION"}
  \/ IsRaw(form)
  \/ Windows /\ form \in {"drive", "root", "file"}

\* What format_after_wipe makes of a path: diskpart for a physical drive,
\* format.com for a letter, mkfs for whatever the path names.
FormatObject(form) ==
  CASE form = "disk" -> "disk"
    [] form = "part" -> "part"
    [] form \in {"volume", "drive", "root", "file"} /\ Windows -> "volume"
    [] OTHER -> "nothing"

\* On Windows a file cannot be renamed or deleted through its name while the
\* tool itself has it open: platform_open does not share deletion.
HeldOpen == Windows /\ dev # "closed"

\* Regular files, which slack_hunter_analyze accepts.
IsRegular(form) == form \in {"file", "rel"}

Goto(from, to) == pc = from /\ pc' = to
Fail(from) == Goto(from, "exited") /\ exit' = "1"

\* fs_shadow_secure_delete of the filler, at a moment when it is or is not
\* held open: rename, then delete; a failure leaves the file.
DeleteFiller(held) ==
  \/ ~held /\ filler' = "removed" /\ UNCHANGED refused
  \/ held /\ UNCHANGED <<filler, refused>>
  \/ ~held /\ refused' = TRUE /\ UNCHANGED filler

\* Mutant of TargetCleanup: the handle is forgotten.
TargetCleanupLeak ==
  /\ UNCHANGED dev
  /\ IF fillerPath THEN DeleteFiller(HeldOpen) ELSE UNCHANGED <<filler, refused>>
  /\ fillerPath' = FALSE

\* target_cleanup: closes the handle first, then removes the filler.
TargetCleanup ==
  /\ dev' = "closed"
  /\ IF fillerPath THEN DeleteFiller(FALSE) ELSE UNCHANGED <<filler, refused>>
  /\ fillerPath' = FALSE

(***************************************************************************)
(* Resolving the target.                                                   *)
(***************************************************************************)

\* main up to target_resolve: the kind, and the first test of --format-after.
Infer ==
  /\ Goto("infer", IF cfg.mode = "free" THEN "filler" ELSE "open")
  /\ kind' = InferKind(cfg.mode, cfg.form)
  /\ format' = (format /\ CanFormat(kind', cfg.form))
  /\ UNCHANGED <<cfg, empty, dev, fsVars, consent, wiped, formatted, exit>>

\* free_space_create_filler: fills the volume of a directory, or fails and
\* leaves nothing.
CreateFiller ==
  /\ \/ /\ cfg.form \in DirForms(Windows)
        /\ Goto("filler", "open") /\ filler' = "present" /\ fillerPath' = TRUE /\ UNCHANGED exit
     \/ Fail("filler") /\ UNCHANGED <<filler, fillerPath>>
  /\ UNCHANGED <<cfg, kind, format, empty, dev, file, consent, refused, wiped, formatted>>

\* Mutant of OpenTarget: the filler is forgotten when it cannot be opened.
OpenTargetLeak ==
  /\ \/ Goto("open", "ranges") /\ dev' = (IF cfg.dryRun THEN "ro" ELSE "rw")
        /\ UNCHANGED <<fillerPath, filler, refused, exit>>
     \/ Fail("open") /\ UNCHANGED <<dev, filler, fillerPath, refused>>
  /\ UNCHANGED <<cfg, kind, format, empty, file, consent, wiped, formatted>>

\* platform_open: read-only for a dry run, or when writing is not allowed, as
\* POSIX says of a directory; Windows opens no drive or root directory at all.
OpenTarget ==
  /\ \/ /\ Goto("open", "ranges")
        /\ ResolvedForm \notin {"drive", "root"}
        /\ dev' \in (IF cfg.dryRun \/ ResolvedForm = "dir" THEN {"ro"} ELSE {"ro", "rw"})
        /\ UNCHANGED <<fillerPath, filler, refused, exit>>
     \/ Fail("open") /\ TargetCleanup
  /\ UNCHANGED <<cfg, kind, format, empty, file, consent, wiped, formatted>>

\* Geometry and ranges.  Any failure cleans up; there may be nothing to wipe.
\* No partition table can be read from a directory.
Ranges ==
  /\ \/ /\ ~(cfg.mode = "gaps" /\ ResolvedForm = "dir")
        /\ Goto("ranges", IF cfg.profile = "slack" THEN "slack" ELSE "check")
        /\ empty' \in BOOLEAN
        /\ UNCHANGED <<dev, fillerPath, filler, refused, exit>>
     \/ Fail("ranges") /\ TargetCleanup /\ UNCHANGED empty
  /\ UNCHANGED <<cfg, kind, format, file, consent, wiped, formatted>>

\* apply_slack_hunter: a regular file is extended to its cluster boundary if
\* it does not end there.  On Windows the second handle it opens conflicts
\* with the first one if that may write.
ExtendSlack ==
  /\ Goto("slack", "check")
  /\ \/ /\ IsRegular(ResolvedForm) /\ ~(Windows /\ dev = "rw") /\ cfg.mode # "free"
        /\ file' = "extended"
     \/ UNCHANGED file
  /\ UNCHANGED <<cfg, kind, format, empty, dev, fillerPath, filler, consent, refused,
                 wiped, formatted, exit>>

\* The second test of --format-after, on the path that will be opened, and
\* safety_check, which never fails.
Check ==
  /\ Goto("check", "confirm")
  /\ format' = (format /\ CanFormat(kind, ResolvedForm))
  /\ UNCHANGED <<cfg, kind, empty, dev, fsVars, consent, wiped, formatted, exit>>

Blocked == (cfg.system /\ ~cfg.force) \/ empty

\* Mutant of Confirm: whatever is typed will do.
ConfirmAnything ==
  /\ IF cfg.dryRun
     THEN Goto("confirm", "plan")
          /\ UNCHANGED <<consent, exit, dev, fillerPath, filler, refused>>
     ELSE \/ Goto("confirm", "wipe") /\ consent' \in BOOLEAN
             /\ UNCHANGED <<exit, dev, fillerPath, filler, refused>>
          \/ Blocked /\ Fail("confirm") /\ TargetCleanup /\ UNCHANGED consent
  /\ UNCHANGED <<cfg, kind, format, empty, file, wiped, formatted>>

\* safety_confirm: --dry-run and --yes pass whatever safety_check found; else
\* a blocked target is refused, and the path must be typed.
Confirm ==
  /\ \/ /\ cfg.dryRun /\ Goto("confirm", "plan")
        /\ UNCHANGED <<consent, exit, dev, fillerPath, filler, refused>>
     \/ /\ ~cfg.dryRun /\ (cfg.yes \/ ~Blocked)
        /\ Goto("confirm", "wipe") /\ consent' = TRUE
        /\ UNCHANGED <<exit, dev, fillerPath, filler, refused>>
     \/ /\ ~cfg.dryRun /\ ~cfg.yes
        /\ Fail("confirm") /\ TargetCleanup /\ UNCHANGED consent
  /\ UNCHANGED <<cfg, kind, format, empty, file, wiped, formatted>>

DryRunEnd ==
  /\ Goto("plan", "exited") /\ exit' = "0" /\ TargetCleanup
  /\ UNCHANGED <<cfg, kind, format, empty, file, consent, wiped, formatted>>

(***************************************************************************)
(* Wiping, and what follows.                                               *)
(***************************************************************************)

\* A chunk of less than a sector: the engines write nothing and return 0.
Tiny == cfg.chunk = "tiny"
Overwritten == IF kind \in {"FILE", "PARTITION"} /\ ~DevIsRaw /\ ~Tiny THEN "wiped" ELSE file

\* Mutant of Wipe: the result of wipe_execute is only reported.
WipeReported ==
  /\ Goto("wipe", "format")
  /\ \/ wiped' = (IF Tiny THEN "no" ELSE "all") /\ file' = Overwritten
     \/ wiped' \in {"no", "partly"} /\ UNCHANGED file
  /\ UNCHANGED <<cfg, kind, format, empty, dev, fillerPath, filler, consent, refused,
                 formatted, exit>>

\* wipe_execute, with the results it promises.  On Windows \\.\X: is opened as
\* a raw device, and cannot be detached, because it is no \\.\PhysicalDriveN.
Called ==
  [windows |-> Windows, raw |-> DevIsRaw, physical |-> cfg.form = "disk",
   dryRun |-> cfg.dryRun, opened |-> dev]
Wipe ==
  /\ dev # "closed"
  /\ \E o \in Outcomes(Called) :
       \/ /\ o.ret = "ok" /\ Goto("wipe", "format")
          /\ wiped' \in {o.extent} \cup (IF Tiny THEN {"no"} ELSE {})
          /\ file' = (IF o.extent = "all" THEN Overwritten ELSE file)
          /\ dev' = (IF o.device = "none" THEN "closed" ELSE o.device)
          /\ UNCHANGED <<fillerPath, filler, refused, exit>>
       \/ /\ o.ret = "err" /\ Fail("wipe")
          /\ wiped' = o.extent /\ UNCHANGED file
          /\ TargetCleanup
  /\ UNCHANGED <<cfg, kind, format, empty, consent, formatted>>

\* The third test of --format-after; the handle is closed and the formatting
\* program run.  Its failure is only a warning.
Format ==
  /\ Goto("format", "remove")
  /\ IF format /\ CanFormat(kind, ResolvedForm)
     THEN dev' = "closed" /\ formatted' \in {"nothing", FormatObject(ResolvedForm)}
     ELSE UNCHANGED <<dev, formatted>>
  /\ UNCHANGED <<cfg, kind, format, empty, fsVars, consent, wiped, exit>>

\* The filler goes, whatever the profile; filesystem-shadow deletes a target
\* of kind FILE too.  The filler's path is forgotten even if that fails.
HasFiller == kind = "FREE_SPACE" /\ fillerPath
ShadowsFile == kind = "FILE" /\ cfg.profile = "shadow"
Remove ==
  /\ Goto("remove", "cleanup")
  /\ \/ /\ HasFiller /\ DeleteFiller(HeldOpen) /\ fillerPath' = FALSE
        /\ UNCHANGED file
     \/ /\ ShadowsFile
        /\ \/ ~HeldOpen /\ file' = "deleted" /\ UNCHANGED refused
           \/ HeldOpen /\ UNCHANGED <<file, refused>>
           \/ ~HeldOpen /\ refused' = TRUE /\ UNCHANGED file
        /\ UNCHANGED <<fillerPath, filler>>
     \/ ~HasFiller /\ ~ShadowsFile /\ UNCHANGED fsVars
  /\ UNCHANGED <<cfg, kind, format, empty, dev, consent, wiped, formatted, exit>>

Cleanup ==
  /\ Goto("cleanup", "exited") /\ exit' = "0" /\ TargetCleanup
  /\ UNCHANGED <<cfg, kind, format, empty, file, consent, wiped, formatted>>

\* Ctrl-C, at any moment: there is no handler.  The system closes the handle.
Interrupted ==
  /\ pc \notin {"exited", "killed"} /\ pc' = "killed" /\ dev' = "closed"
  /\ UNCHANGED <<cfg, kind, format, empty, fsVars, consent, wiped, formatted, exit>>

Ended == pc \in {"exited", "killed"} /\ UNCHANGED vars

Main == Infer \/ CreateFiller \/ OpenTarget \/ Ranges \/ ExtendSlack \/ Check \/ Confirm
          \/ DryRunEnd \/ Wipe \/ Format \/ Remove \/ Cleanup

Next == Main \/ Interrupted \/ Ended

Spec == Init /\ [][Next]_vars
-----------------------------------------------------------------------------
TypeOK ==
  /\ cfg \in Configs /\ kind \in Kinds
  /\ pc \in {"infer", "filler", "open", "ranges", "slack", "check", "confirm", "plan", "wipe",
             "format", "remove", "cleanup", "exited", "killed"}
  /\ format \in BOOLEAN /\ empty \in BOOLEAN /\ dev \in {"closed", "ro", "rw"}
  /\ fillerPath \in BOOLEAN
  /\ filler \in (IF cfg.mode = "free" THEN {"none", "present", "removed"} ELSE {"none"})
  /\ file \in {"intact", "extended", "wiped", "deleted"}
  /\ consent \in BOOLEAN /\ refused \in BOOLEAN
  /\ wiped \in Extents
  /\ formatted \in {"nothing", "disk", "volume", "part"}
  /\ exit \in {"none", "0", "1"}

\* Nothing is overwritten, deleted or formatted without the user's consent, nor
\* in a dry run; and a target that safety_check blocked, a system disk without
\* --force or one with nothing to wipe, only with --yes: typing its path is not
\* enough.
ConsentFirst ==
  wiped # "no" \/ formatted # "nothing" \/ file \in {"wiped", "deleted"} =>
    consent /\ ~cfg.dryRun /\ (cfg.yes \/ ~Blocked)

\* Every way out of main closes the target's handle.
NoHandleLeft == pc = "exited" => dev = "closed" /\ ~fillerPath

\* The wipe is complete, or lost a pass that wipe_execute took for a success.
Complete == wiped \in {"all", "lost"}

\* A run that ends with exit code 0 was wiped as far as wipe_execute knows, or
\* was a dry run; formatting and deleting follow a complete wipe only.  (With
\* chunks of at least a sector: ExitZeroWipes is about the others.)
ExitZeroMeansWiped ==
  ~Tiny =>
    /\ exit = "0" => cfg.dryRun \/ Complete
    /\ formatted # "nothing" \/ file = "deleted" => Complete

\* A run that fails, at whatever point, and a dry run remove the filler they
\* created; a successful one also deletes the file that filesystem-shadow was
\* given.  Excepted is a success on Windows, where the tool's own handle is in
\* the way of both.
FilesRemoved ==
  pc = "exited" /\ ~refused /\ (Windows => exit = "1" \/ cfg.dryRun) =>
    /\ filler # "present"
    /\ exit = "0" /\ ~cfg.dryRun /\ ShadowsFile => file = "deleted"

(***************************************************************************)
(* What the documentation says and the code does not do.                   *)
(***************************************************************************)

\* Free space on volume: the temp file is wiped, then deleted.  On Windows
\* the code removes it before it closes it, and then forgets it.
FillerRemoved == pc = "exited" => filler # "present" \/ refused

\* filesystem-shadow wipes, renames and deletes the file it is given.  On
\* Windows the code tries to while it holds the file open.
ShadowDeletes ==
  exit = "0" /\ ~cfg.dryRun /\ ShadowsFile => file = "deleted" \/ refused

\* A dry run writes nothing: no filler file, no extended target.
DryRunWritesNothing == cfg.dryRun => filler = "none" /\ file = "intact"

\* "OverWrite completed successfully" is only said of a target that has been
\* wiped.
ExitZeroWipes == exit = "0" /\ ~cfg.dryRun => wiped = "all"

\* A blocked system disk is not wiped without --force.
BlockedNeedsForce == wiped # "no" /\ cfg.system => cfg.force

\* Only a whole disk or a partition that has been wiped as a whole is
\* formatted, never what a file, a filler or the gaps lie on.
FormatsWhatWasWiped ==
  formatted # "nothing" => cfg.mode = "whole" /\ IsRaw(cfg.form)
=============================================================================
