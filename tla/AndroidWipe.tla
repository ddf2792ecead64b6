----------------------------- MODULE AndroidWipe -----------------------------
(***************************************************************************)
(* --android-wipe and --android-reboot-bootloader: the Android part of     *)
(* main.c and android.c.  A wipe is a sequence of fastboot commands, each  *)
(* a process of its own.  With a serial number they all go to that phone;  *)
(* without one, and with the serial "*", each goes to a phone that is in   *)
(* the bootloader at that moment.  fastboot waits until there is one.      *)
(*                                                                         *)
(* The phone is external: a command that succeeds has done its work, one   *)
(* that fails may have done it or not.                                     *)
(***************************************************************************)
EXTENDS Integers, FiniteSets

CONSTANTS
  Phones,
  NoSerial,  \* no serial number given
  AnySerial  \* "*" given as the serial number

ASSUME AndroidAssumption == NoSerial \notin Phones /\ AnySerial \notin Phones

Parts == {"userdata", "cache", "metadata"}
Partitions == Phones \X Parts

\* What the argument loop leaves behind.
Configs == [op : {"wipe", "reboot"}, mode : {"factory", "userdata", "full"},
            dryRun : BOOLEAN, yes : BOOLEAN, serial : Phones \cup {NoSerial, AnySerial}]

None == <<"", "">>

VARIABLES
  cfg,        \* never changes
  ready,      \* the phones plugged in and in the bootloader
  pc,         \* the next command, or "plan", "confirm", "tool", "exited"
  mode,       \* android_wipe's mode, which a failed -w turns into "full"
  part,       \* the partition in try_fastboot_erase_format
  erased,     \* partitions erased
  formatted,  \* partitions formatted
  agreed,     \* history: the user confirmed, or --yes was given
  sent,       \* history: the last command sent, as <<verb, partition>>
  exit        \* exit code: "none", "0" or "1"

phoneVars == <<erased, formatted>>
vars == <<cfg, ready, pc, mode, part, phoneVars, agreed, sent, exit>>

Init ==
  /\ cfg \in Configs
  /\ ready \in SUBSET Phones
  /\ pc = IF cfg.op = "reboot" THEN "reboot" ELSE "plan"
  /\ mode = cfg.mode /\ part = "userdata"
  /\ erased = {} /\ formatted = {}
  /\ agreed = FALSE /\ sent = None /\ exit = "none"

Goto(from, to) == pc = from /\ pc' = to /\ UNCHANGED exit
Exit(from, code) == pc = from /\ pc' = "exited" /\ exit' = code

(***************************************************************************)
(* Running a command: run_command, append_serial_arg, fastboot_cmd.        *)
(***************************************************************************)

\* Mutant of Answers: the serial number is not passed on.
AnswersAny == ready

\* Whether a command may reach p: only a serial other than "*" becomes -s.
Reaches(p) == cfg.serial \in {p, NoSerial, AnySerial}

\* The phones a fastboot command may reach now.
Answers == { p \in ready : Reaches(p) }

\* One fastboot command that erases E and formats F of the phone it reaches.
\* Without a phone it waits; when it cannot be started, it has failed.
Fastboot(verb, p, ok, E, F) ==
  /\ sent' = <<verb, part>>
  /\ \/ /\ p \in Answers
        /\ \E e \in SUBSET E, f \in SUBSET F :
             /\ ok => e = E /\ f = F
             /\ erased' = erased \cup ({p} \X e)
             /\ formatted' = formatted \cup ({p} \X f)
     \/ ~ok /\ UNCHANGED phoneVars

(***************************************************************************)
(* main and the parts of android.c around the wipe.                        *)
(***************************************************************************)

\* android_reboot_bootloader.  adb does not wait for a phone; when it
\* succeeds, one that runs Android is on its way into the bootloader.
Reboot ==
  /\ \/ /\ Exit("reboot", "0")
        /\ \E p \in Phones \ ready :
             Reaches(p) /\ ready' = ready \cup {p}
     \/ Exit("reboot", "1") /\ UNCHANGED ready
  /\ UNCHANGED <<cfg, mode, part, phoneVars, agreed, sent>>

\* android_print_wipe_plan ends with android_print_device_info, which asks
\* the phone six questions if fastboot is there; nobody looks at the result.
Plan ==
  /\ \/ Answers # {} /\ sent' = <<"getvar", part>>
     \/ UNCHANGED sent
  /\ IF cfg.dryRun THEN Exit("plan", "0") ELSE Goto("plan", "confirm")
  /\ UNCHANGED <<cfg, ready, mode, part, phoneVars, agreed>>

\* Mutant of Confirm: the answer is not compared.
ConfirmAnything ==
  /\ Goto("confirm", "tool") /\ agreed' = cfg.yes
  /\ UNCHANGED <<cfg, ready, mode, part, phoneVars, sent>>

\* android_confirm_wipe
Confirm ==
  /\ \/ Goto("confirm", "tool") /\ agreed' = TRUE
     \/ ~cfg.yes /\ Exit("confirm", "1") /\ UNCHANGED agreed
  /\ UNCHANGED <<cfg, ready, mode, part, phoneVars, sent>>

Tool ==
  /\ \/ Goto("tool", IF mode = "factory" THEN "-w" ELSE "erase")
     \/ Exit("tool", "1")
  /\ UNCHANGED <<cfg, ready, mode, part, phoneVars, agreed, sent>>

\* fastboot -w; when it fails, the wipe goes on as a full one.
FactoryWipe ==
  /\ \E p \in Phones, ok \in BOOLEAN :
       /\ Fastboot("-w", p, ok, {"userdata", "cache"}, {"userdata", "cache"})
       /\ IF ok THEN Exit("-w", "0") /\ UNCHANGED mode
          ELSE Goto("-w", "erase") /\ mode' = "full"
  /\ UNCHANGED <<cfg, ready, part, agreed>>

\* try_fastboot_erase_format: both spellings of erase, whose result counts
\* for nothing ...
Erase ==
  /\ \E p \in Phones, ok \in BOOLEAN :
       /\ Fastboot("erase", p, ok, {part}, {})
       /\ Goto("erase", IF ok THEN "format" ELSE "erase:")
  /\ UNCHANGED <<cfg, ready, mode, part, agreed>>

EraseAgain ==
  /\ \E p \in Phones, ok \in BOOLEAN : Fastboot("erase:", p, ok, {part}, {})
  /\ Goto("erase:", "format")
  /\ UNCHANGED <<cfg, ready, mode, part, agreed>>

\* Mutants of Formatted: a failed userdata is passed over; a failed partition
\* is tried for ever.
FormattedGoOn(from, ok) ==
  CASE part = "userdata" /\ mode = "userdata" ->
         Exit(from, "0") /\ UNCHANGED part
    [] part = "userdata" /\ mode # "userdata" ->
         Goto(from, "erase") /\ part' = "cache"
    [] part = "cache" -> Goto(from, "erase") /\ part' = "metadata"
    [] part = "metadata" -> Exit(from, "0") /\ UNCHANGED part
FormattedAgain(from, ok) ==
  IF ok THEN Exit(from, "0") /\ UNCHANGED part
  ELSE Goto(from, "erase") /\ UNCHANGED part

\* What android_wipe does with the result for a partition: userdata decides,
\* the other two are tried and forgotten.
Formatted(from, ok) ==
  CASE part = "userdata" /\ (~ok \/ mode = "userdata") ->
         Exit(from, IF ok THEN "0" ELSE "1") /\ UNCHANGED part
    [] part = "userdata" /\ ok /\ mode # "userdata" ->
         Goto(from, "erase") /\ part' = "cache"
    [] part = "cache" -> Goto(from, "erase") /\ part' = "metadata"
    [] part = "metadata" -> Exit(from, "0") /\ UNCHANGED part

\* ... and both spellings of format, whose result is the partition's.
Format ==
  /\ \E p \in Phones, ok \in BOOLEAN :
       /\ Fastboot("format", p, ok, {}, {part})
       /\ IF ok THEN Formatted("format", TRUE)
          ELSE Goto("format", "format:") /\ UNCHANGED part
  /\ UNCHANGED <<cfg, ready, mode, agreed>>

FormatAgain ==
  /\ \E p \in Phones, ok \in BOOLEAN :
       /\ Fastboot("format:", p, ok, {}, {part})
       /\ Formatted("format:", ok)
  /\ UNCHANGED <<cfg, ready, mode, agreed>>

Tick == Reboot \/ Plan \/ Confirm \/ Tool \/ FactoryWipe
          \/ Erase \/ EraseAgain \/ Format \/ FormatAgain

\* The user plugs phones in and out and restarts them.
Move ==
  /\ \E p \in Phones : ready' \in {ready \cup {p}, ready \ {p}}
  /\ UNCHANGED <<cfg, pc, mode, part, phoneVars, agreed, sent, exit>>

Next == Tick \/ Move

Spec == Init /\ [][Next]_vars

\* The tool runs, and fastboot returns once it has a phone.
Waits == pc \in {"plan", "-w", "erase", "erase:", "format", "format:"}
FairSpec == Spec /\ WF_vars(Tick /\ (Waits => Answers # {}))
-----------------------------------------------------------------------------
\* The verbs of the commands.
Commands == {"getvar", "-w", "erase", "erase:", "format", "format:"}
\* What a run has changed.
Touched == erased \cup formatted
Real == cfg.op = "wipe" /\ ~cfg.dryRun

TypeOK ==
  /\ cfg \in Configs /\ ready \subseteq Phones
  /\ pc \in {"plan", "confirm", "tool", "-w", "erase", "erase:", "format", "format:",
             "reboot", "exited"}
  /\ mode \in {"factory", "userdata", "full"} /\ part \in Parts
  /\ erased \subseteq Partitions /\ formatted \subseteq Partitions
  /\ agreed \in BOOLEAN /\ sent \in (Commands \X Parts) \cup {None}
  /\ exit \in {"none", "0", "1"} /\ (exit = "none" <=> pc # "exited")

\* Exit code 0 of a real wipe means that the userdata of the named phone, or
\* of some phone if none was named, has been formatted.
SuccessMeansUserdata ==
  (exit = "0" /\ Real) =>
    \E p \in Phones : (cfg.serial \in Phones => p = cfg.serial) /\ <<p, "userdata">> \in formatted

\* Whatever changes on a phone the user has agreed to: not in a dry run, not by
\* a reboot, and with the serial number of a phone on no other one, whichever
\* phones come and go during the wipe.
OnlyAgreed ==
  Touched # {} =>
    /\ agreed /\ Real
    /\ cfg.serial \in Phones => Touched \subseteq {cfg.serial} \X Parts

\* If every phone stays in the bootloader from some time on, the tool ends.
AndroidEnds ==
  <>[](ready = Phones) => <>(exit # "none")

\* android.c's plan: the commands it prints for a mode.
Planned ==
  CASE cfg.mode = "factory" -> {"-w"} \X Parts
    [] cfg.mode = "userdata" -> {"erase", "format", "format:"} \X {"userdata"}
    [] cfg.mode = "full" -> ({"erase", "format"} \X {"userdata", "cache"})
                              \cup {<<"erase", "metadata">>}

\* Every command that is sent to the phone was announced in the plan.  The
\* code falls back on others.
OnlyPlanned == sent = None \/ sent[1] = "getvar" \/ sent \in Planned

\* A full wipe that succeeds has formatted all three partitions of a phone.
\* The code forgets the results for cache and metadata.
FullWipesAll ==
  (exit = "0" /\ Real /\ cfg.mode = "full") =>
    \E p \in Phones : {p} \X Parts \subseteq formatted

\* Userdata is formatted only when it has been erased.  The code forgets the
\* result of the erase.
EraseThenFormat ==
  cfg.mode = "full" => \A p \in Phones :
    <<p, "userdata">> \in formatted => <<p, "userdata">> \in erased

\* A dry run sends no fastboot command.  The code asks for six variables.
DryRunSendsNothing == cfg.dryRun => sent = None
=============================================================================
