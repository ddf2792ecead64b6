---------------------------- MODULE CommandLine ----------------------------
(***************************************************************************)
(* The argument loop of main.c, followed by the run it configures          *)
(* (CliRun).  The words of a command line come one by one; what each of    *)
(* them says is nondeterministic, and so is when they end.  A word that    *)
(* takes a value takes whatever comes next, an option too, so that "value" *)
(* and "path" below may be any word at all.                                *)
(***************************************************************************)
EXTENDS CliRun

VARIABLES
  asked,     \* the size of the last -c: "enough", "little" (less than a sector)
             \* or "huge" (2^32 or more)
  named,     \* history: what has named a target: a plain "word", --free-space
             \* ("free"), --unallocated ("gaps")
  diverted   \* the program is to do something else, or nothing

lineVars == <<vars, asked, named, diverted>>

LineInit ==
  /\ pc = "args"
  /\ cfg \in [windows : BOOLEAN, mode : {"whole"}, form : {"none"}, profile : {"ghost"},
              chunk : {"fits"}, dryRun : {FALSE}, yes : {FALSE}, force : {FALSE},
              format : {FALSE}, system : {FALSE}]
  /\ kind = "WHOLE_DISK" /\ format = FALSE /\ empty = FALSE
  /\ dev = "closed" /\ fillerPath = FALSE /\ filler = "none" /\ file = "intact"
  /\ consent = FALSE /\ refused = FALSE /\ wiped = "no" /\ formatted = "nothing"
  /\ exit = "none"
  /\ asked = "enough" /\ named = {} /\ diverted = FALSE

\* What a round of the loop leaves alone.
Unread ==
  /\ pc = "args"
  /\ UNCHANGED <<pc, kind, format, empty, dev, fsVars, consent, wiped, formatted, exit>>

\* Words that set one field: --dry-run, --yes, --force, --profile, and
\* --format-after, whose file system is not looked at here.
Option ==
  /\ Unread
  /\ \/ \E f \in {"dryRun", "yes", "force", "format"} : cfg' = [cfg EXCEPT ![f] = TRUE]
     \/ \E p \in {"ghost", "shadow", "slack"} : cfg' = [cfg EXCEPT !.profile = p]
  /\ UNCHANGED <<asked, named, diverted>>

\* -c: 0 is refused; what 32 bits leave of a size of 2^32 or more may be less
\* than a sector, and 0 too.
ChunkOption ==
  /\ Unread
  /\ asked' \in {"enough", "little", "huge"}
  /\ \E c \in {"fits", "tiny"} :
       /\ asked' = "enough" => c = "fits"
       /\ asked' = "little" => c = "tiny"
       /\ cfg' = [cfg EXCEPT !.chunk = c]
  /\ UNCHANGED <<named, diverted>>

\* A path of some form, of a system disk perhaps.
Path(f, s) ==
  /\ f \in FormsIn(Windows)
  /\ s => f \in SystemForms(Windows)

\* --free-space and --unallocated name a path, which replaces any other.
\* Neither flag is ever cleared, and infer_kind looks at free_space first.
ModeOption ==
  /\ Unread
  /\ \E m \in {"free", "gaps"}, f \in Forms, s \in BOOLEAN :
       /\ Path(f, s)
       /\ cfg' = [cfg EXCEPT !.mode = IF cfg.mode = "free" THEN "free" ELSE m,
                             !.form = f, !.system = s]
       /\ named' = named \cup {m}
  /\ UNCHANGED <<asked, diverted>>

\* Any other word is the target, if there is none yet.
Positional ==
  /\ Unread
  /\ cfg.form = "none"
  /\ \E f \in Forms, s \in BOOLEAN :
       Path(f, s) /\ cfg' = [cfg EXCEPT !.form = f, !.system = s]
  /\ named' = named \cup {"word"}
  /\ UNCHANGED <<asked, diverted>>

\* --list and the Android commands, with or without a value.
Divert ==
  /\ Unread /\ diverted' = TRUE
  /\ UNCHANGED <<cfg, asked, named>>

\* Unknown options, bad or missing values, a second target: the program ends
\* at once, and so it does on --help.
Stop ==
  /\ Goto("args", "exited") /\ exit' \in {"0", "1"} /\ diverted' = TRUE
  /\ UNCHANGED <<cfg, kind, format, empty, dev, fsVars, consent, wiped, formatted, asked, named>>

\* The end of the words.  Without a target only the usage is printed.
LastWord ==
  /\ IF diverted THEN Goto("args", "exited") /\ exit' \in {"0", "1"}
     ELSE IF cfg.form = "none" THEN Fail("args")
     ELSE Goto("args", "infer") /\ UNCHANGED exit
  /\ format' = cfg.format
  /\ UNCHANGED <<cfg, kind, empty, dev, fsVars, consent, wiped, formatted, asked, named, diverted>>

Words ==
  \/ Option \/ ChunkOption \/ ModeOption \/ Positional \/ Divert \/ Stop \/ LastWord

LineNext == Words \/ (Next /\ UNCHANGED <<asked, named, diverted>>)

LineSpec == LineInit /\ [][LineNext]_lineVars
-----------------------------------------------------------------------------
\* Wherever --free-space and --unallocated stand among the words, and whatever
\* else is named, they decide what the wipe is of: with --free-space of a
\* filler that was created, with --unallocated alone of the gaps of a partition
\* table; a disk, a partition or a file is the target, and a file is deleted
\* afterwards, only if nothing but a plain word named it.  (What a pass or an
\* erase over the gaps reaches besides them is not said here: TargetWipe and
\* WipeExecute have that.)
TargetAsNamed ==
  /\ wiped # "no" =>
       /\ "free" \in named => kind = "FREE_SPACE" /\ filler # "none"
       /\ "gaps" \in named /\ "free" \notin named => kind = "UNALLOCATED"
       /\ named = {"word"} => kind \in {"WHOLE_DISK", "PARTITION", "FILE"}
  /\ file = "deleted" => named = {"word"}

\* Success means wiped, and formatting and deleting follow a wipe, whatever the
\* words were and in whatever order, as long as the chunk size that counts was
\* neither less than a sector nor more than 32 bits hold, and but for a pass
\* whose failure raised no flag.
WipedAsAsked ==
  asked = "enough" =>
    /\ exit = "0" /\ ~diverted => cfg.dryRun \/ Complete
    /\ formatted # "nothing" \/ file = "deleted" => Complete
=============================================================================
