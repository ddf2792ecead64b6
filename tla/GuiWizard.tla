------------------------------ MODULE GuiWizard ------------------------------
(***************************************************************************)
(* The wizard of gui/overwrite_gui.py: six pages, the settings the user    *)
(* makes on them, the buttons that start the command line tool, and the    *)
(* progress strip, which a timer updates from the messages of the threads  *)
(* that read the tool's output.                                            *)
(*                                                                         *)
(* A dialog box is modal, so a button's handler is one step.  Of the       *)
(* operations free_space is left out, which goes the way of unallocated,   *)
(* and android_list, which goes the way of list_only.  Of the settings     *)
(* only dry run is kept, the one that decides what a button may do.  Every *)
(* handler begins with _collect_cfg, so settings stands for widgets too.   *)
(*                                                                         *)
(* A target stands for its text without the white space around it, which   *)
(* is how the code compares it with what was typed.  build_argv strips it  *)
(* as well, but not behind --free-space and --unallocated: what is said    *)
(* here of the target of such a command holds up to that white space.      *)
(***************************************************************************)
EXTENDS Integers, Sequences, FiniteSets

CONSTANTS
  Ops,       \* the operations on offer
  Targets,   \* what the user may enter as the path, or as the serial number
  Slots      \* bound: processes and unread messages, together, at a time

DiskOps == {"whole", "unallocated"}
WipeOps == DiskOps \cup {"android"}

ASSUME GuiAssumption ==
  /\ "" \notin Targets /\ Slots \in Nat \ {0}
  /\ "whole" \in Ops /\ Ops \subseteq WipeOps \cup {"android_reboot", "list_only"}

Settings == [op : Ops, target : Targets \cup {""}, dryRun : BOOLEAN]

VARIABLES
  step,     \* the page shown, 0 .. 5
  settings, \* cfg: what the pages have set
  typed,    \* confirm_var, "" before the page has been shown
  shown,    \* history: the confirmation page was shown since they changed
  preview,  \* the command in the review page
  procs,    \* procs[i]: the process and its reader thread in slot i, and for one
            \* that Run started, whether what had been typed names its target,
            \* its settings were confirmed, and the preview is of its command
  queue,    \* output_queue: the buttons whose process has ended
  running   \* _running: the strip shows progress

pageVars == <<step, settings, typed, shown, preview>>
wizardVars == <<pageVars, procs, queue, running>>

Default == [op |-> "whole", target |-> "", dryRun |-> FALSE]
Idle == [button |-> "none"]

(***************************************************************************)
(* Commands.                                                               *)
(***************************************************************************)

\* build_argv, but for white space.  A listing and a reboot take no flags,
\* --dry-run included.
BuildArgv(c, yes) ==
  [op     |-> c.op,
   target |-> IF c.op = "list_only" THEN "" ELSE c.target,
   dryRun |-> c.dryRun /\ c.op \in WipeOps,
   yes    |-> yes /\ ~c.dryRun /\ c.op \in WipeOps]

\* What _run_wipe and _confirm_hint ask the user to type.
Expected(c) == <<IF c.op = "android" THEN "WIPE ANDROID" ELSE "", c.target>>

WizardInit ==
  /\ step = 0 /\ settings = Default /\ typed = <<"", "">> /\ shown = FALSE
  /\ preview = BuildArgv(Default, FALSE)
  /\ procs = [i \in 1 .. Slots |-> Idle] /\ queue = <<>> /\ running = FALSE

Alive == { i \in 1 .. Slots : procs[i] # Idle }

\* _start_progress and the thread of run_interactive or of _refresh_devices.
\* The process takes the first free slot, if the bound leaves it one.
Start(button, argv) ==
  /\ Cardinality(Alive) + Len(queue) < Slots
  /\ \E i \in (1 .. Slots) \ Alive :
       /\ \A j \in (1 .. Slots) \ Alive : i <= j
       /\ procs' = [procs EXCEPT ![i] =
            [button |-> button, argv |-> argv,
             typed |-> button = "run" /\ typed = Expected(argv),
             shown |-> button = "run" /\ shown,
             previewed |-> button = "run" /\ [argv EXCEPT !.yes = FALSE] = preview]]
  /\ running' = TRUE /\ UNCHANGED queue

StartNothing == UNCHANGED <<procs, queue, running>>

\* _refresh_devices; without a binary there is only a message.
Refresh == Start("refresh", BuildArgv([Default EXCEPT !.op = "list_only"], FALSE)) \/ StartNothing

(***************************************************************************)
(* Pages.                                                                  *)
(***************************************************************************)

\* Mutant of Show: a preview once shown is kept.
ShowKeepsPreview(n) ==
  /\ step' = n /\ UNCHANGED settings
  /\ preview' = IF n = 3 /\ preview.target = "" THEN BuildArgv(settings, FALSE) ELSE preview
  /\ IF n = 4 THEN typed' = <<"", "">> /\ shown' = TRUE ELSE UNCHANGED <<typed, shown>>
  /\ IF n = 1 THEN Refresh ELSE StartNothing

\* _show_step(n): the widgets are made anew from settings; the target page
\* refreshes the list, the review page builds the command, the confirmation
\* page starts with an empty entry.
Show(n) ==
  /\ step' = n /\ UNCHANGED settings
  /\ preview' = IF n = 3 THEN BuildArgv(settings, FALSE) ELSE preview
  /\ IF n = 4 THEN typed' = <<"", "">> /\ shown' = TRUE ELSE UNCHANGED <<typed, shown>>
  /\ IF n = 1 THEN Refresh ELSE StartNothing

\* The user changes what the page shown lets them change.
Edit ==
  /\ \/ /\ step = 1
        /\ \E op \in Ops, t \in Targets \cup {""} :
             settings' = [settings EXCEPT !.op = op, !.target = t]
     \/ step = 2 /\ \E d \in BOOLEAN : settings' = [settings EXCEPT !.dryRun = d]
  /\ shown' = (shown /\ settings' = settings)
  /\ UNCHANGED <<step, typed, preview, procs, queue, running>>

Type ==
  /\ step = 4
  /\ \E c \in Settings : typed' \in {Expected(c), <<"", "">>}
  /\ UNCHANGED <<step, settings, shown, preview, procs, queue, running>>

PressRefresh == step = 1 /\ Refresh /\ UNCHANGED pageVars

\* _next.  The question about a missing target may be answered with yes.
PressNext == step < 5 /\ Show(step + 1)

PressBack == step > 0 /\ Show(step - 1)

\* _dry_run, on the review page
PressDryRun ==
  /\ step = 3 /\ UNCHANGED pageVars
  /\ Start("dryrun", BuildArgv([settings EXCEPT !.dryRun = TRUE], FALSE))

\* Mutant of MayRun: only disks are confirmed.
MayRunDisks(c) ==
  c.op \in DiskOps => c.target # "" /\ (~c.dryRun => typed = Expected(c))

\* The checks of _run_wipe; the last question is answered with yes.
MayRun(c) ==
  /\ c.op \in DiskOps => c.target # ""
  /\ c.op \in WipeOps /\ ~c.dryRun => typed = Expected(c)

\* _run_wipe
PressRun ==
  /\ step >= 3 /\ MayRun(settings) /\ UNCHANGED pageVars
  /\ Start("run", BuildArgv(settings, TRUE))

(***************************************************************************)
(* Threads and timer.                                                      *)
(***************************************************************************)

\* A process ends, or could not be started, and its reader says so.
End(i) ==
  /\ procs[i] # Idle
  /\ procs' = [procs EXCEPT ![i] = Idle]
  /\ queue' = Append(queue, procs[i].button)
  /\ UNCHANGED <<pageVars, running>>

\* Mutant of Drain: only a run stops the strip.
DrainRuns ==
  /\ queue # <<>> /\ queue' = <<>>
  /\ running' = IF \E k \in DOMAIN queue : queue[k] = "run" THEN FALSE ELSE running
  /\ UNCHANGED <<pageVars, procs>>

\* _drain_output takes every message; each "done" stops the strip.
Drain ==
  /\ queue # <<>> /\ queue' = <<>>
  /\ running' = FALSE
  /\ UNCHANGED <<pageVars, procs>>

User == Edit \/ Type \/ PressRefresh \/ PressNext \/ PressBack \/ PressDryRun \/ PressRun

WizardNext == User \/ (\E i \in 1 .. Slots : End(i)) \/ Drain

WizardSpec == WizardInit /\ [][WizardNext]_wizardVars

\* The timer fires.  The user may do nothing; and a process may go on for ever,
\* for nothing limits its time: fastboot waits for a phone as long as it takes.
FairWizard == WizardSpec /\ WF_wizardVars(Drain)
-----------------------------------------------------------------------------
Destroys(p) == p.argv.op \in WipeOps /\ ~p.argv.dryRun

WizardTypeOK ==
  /\ step \in 0 .. 5 /\ settings \in Settings /\ shown \in BOOLEAN
  /\ typed \in { Expected(c) : c \in Settings } \cup {<<"", "">>}
  /\ \A i \in Alive : procs[i].button \in {"refresh", "dryrun", "run"}
  /\ queue \in Seq({"refresh", "dryrun", "run"}) /\ Len(queue) <= Slots
  /\ running \in BOOLEAN

\* Whatever the way through the pages, a process that may destroy something
\* was started by Run, and what the user had typed then names the very target
\* in its arguments (up to white space).  (--yes keeps the tool from asking again.)
ConfirmedTarget ==
  \A i \in Alive : Destroys(procs[i]) =>
    procs[i].button = "run" /\ procs[i].argv.yes /\ procs[i].typed

\* Run starts the command that the review page last showed, plus --yes: no
\* setting changes behind the preview.
PreviewIsRun ==
  \A i \in Alive :
    procs[i].button = "run" => procs[i].previewed

\* The strip does not go on when nothing is: once no process is left, it comes
\* to rest, or another process has been started.
StripSettles == (running /\ Alive = {}) ~> (~running \/ Alive # {})

\* While a wipe runs the strip shows it.  The code stops the strip at the
\* first message of any process.
ProgressAppears ==
  running \/ \A i \in Alive : procs[i].button = "run" => ~Destroys(procs[i])

\* What is destroyed was confirmed on the confirmation page as it is, and not
\* changed since.  The code compares the text alone, and the text does not name the operation.
ConfirmedAsRun ==
  \A i \in Alive : Destroys(procs[i]) => procs[i].shown

\* The dry-run button starts nothing but dry runs and listings.  For a reboot
\* the code adds no --dry-run.
DryRunOnlyValidates ==
  \A i \in Alive :
    procs[i].button = "dryrun" => procs[i].argv.dryRun \/ procs[i].argv.op = "list_only"
=============================================================================
