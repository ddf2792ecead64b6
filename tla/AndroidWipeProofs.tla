------------------------- MODULE AndroidWipeProofs -------------------------
(***************************************************************************)
(* The Android wipe for every set of phones: nothing changes on a phone    *)
(* without the user's word, with a serial number nothing on another phone, *)
(* and a wipe that reports success has formatted userdata.                 *)
(***************************************************************************)
EXTENDS AndroidWipe, TLAPS

\* The phones that a command may go to.
Named == { p \in Phones : Reaches(p) }

\* The places behind the user's answer, where commands change the phone.
Changing == {"tool", "-w", "erase", "erase:", "format", "format:"}

UserdataFormatted == \E p \in Named : <<p, "userdata">> \in formatted

\* Where the tool is says what has been settled on the way there.
PathInv ==
  /\ pc = "reboot" => cfg.op = "reboot"
  /\ pc = "plan" => cfg.op = "wipe"
  /\ pc = "confirm" => Real
  /\ pc \in Changing => Real /\ agreed

\* Nothing is touched ahead of the answer, and then only what a command that
\* obeys the serial number reaches.
TouchInv ==
  /\ pc \in {"reboot", "plan", "confirm"} => Touched = {}
  /\ Touched # {} => Real /\ agreed
  /\ Touched \subseteq Named \X Parts

\* The wipe gets past userdata, and out with exit code 0, only once userdata
\* is formatted.
UserdataInv ==
  /\ part # "userdata" => UserdataFormatted
  /\ exit = "0" /\ Real => UserdataFormatted

AndroidInv == TypeOK /\ PathInv /\ TouchInv /\ UserdataInv

-----------------------------------------------------------------------------
\* A phone that answers is one of the named ones.
LEMMA AnswersNamed ==
  TypeOK => Answers \subseteq Named
<1>. SUFFICES ASSUME TypeOK, NEW p \in Answers PROVE p \in Named
  OBVIOUS
<1>1. ready \subseteq Phones
  BY DEF TypeOK
<1>2. p \in ready /\ Reaches(p)
  BY Zenon DEF Answers
<1>3. p \in Phones
  BY <1>1, <1>2, Zenon
<1>. QED  BY <1>2, <1>3, Zenon DEF Named

\* What one fastboot command may do: it adds marks of one named phone, and
\* when it succeeds, exactly the announced ones.
LEMMA FastbootFacts ==
  ASSUME TypeOK, NEW verb \in Commands, NEW p \in Phones, NEW ok \in BOOLEAN,
         NEW E \in SUBSET Parts, NEW F \in SUBSET Parts,
         Fastboot(verb, p, ok, E, F)
  PROVE  /\ erased \subseteq erased' /\ formatted \subseteq formatted'
         /\ erased' \subseteq erased \cup (Named \X Parts)
         /\ formatted' \subseteq formatted \cup (Named \X Parts)
         /\ sent' \in Commands \X Parts
         /\ ok => p \in Named /\ \A q \in F : <<p, q>> \in formatted'
<1>1. sent' \in Commands \X Parts
  BY DEF Fastboot, TypeOK
<1>2. CASE ~ok /\ UNCHANGED phoneVars
  BY <1>1, <1>2 DEF phoneVars
<1>3. CASE p \in Answers /\ \E e \in SUBSET E, f \in SUBSET F :
              /\ ok => e = E /\ f = F
              /\ erased' = erased \cup ({p} \X e)
              /\ formatted' = formatted \cup ({p} \X f)
  <2>1. p \in Named
    BY <1>3, AnswersNamed
  <2>2. PICK e \in SUBSET E, f \in SUBSET F :
              /\ ok => e = E /\ f = F
              /\ erased' = erased \cup ({p} \X e)
              /\ formatted' = formatted \cup ({p} \X f)
    BY <1>3
  <2>3. {p} \X e \subseteq Named \X Parts /\ {p} \X f \subseteq Named \X Parts
    BY <2>1, <2>2
  <2>4. ok => \A q \in F : <<p, q>> \in formatted'
    BY <2>2
  <2>. QED  BY <1>1, <2>1, <2>2, <2>3, <2>4
<1>. QED  BY <1>2, <1>3 DEF Fastboot

\* The same in the words of the invariant, for a command that is sent from a
\* place behind the answer.
LEMMA FastbootKeeps ==
  ASSUME AndroidInv, pc \in Changing, UNCHANGED <<cfg, agreed>>,
         NEW verb \in Commands, NEW p \in Phones, NEW ok \in BOOLEAN,
         NEW E \in SUBSET Parts, NEW F \in SUBSET Parts,
         Fastboot(verb, p, ok, E, F)
  PROVE  /\ erased' \subseteq Partitions /\ formatted' \subseteq Partitions
         /\ sent' \in Commands \X Parts
         /\ Real' /\ agreed' /\ Touched' \subseteq (Named \X Parts)'
         /\ UserdataFormatted => UserdataFormatted'
         /\ ok /\ "userdata" \in F => UserdataFormatted'
<1>1. Named' = Named /\ (Real /\ agreed => Real' /\ agreed') /\ Real /\ agreed
  BY DEF Named, Reaches, Real, AndroidInv, PathInv
<1>2. /\ erased \subseteq erased' /\ formatted \subseteq formatted'
      /\ erased' \subseteq erased \cup (Named \X Parts)
      /\ formatted' \subseteq formatted \cup (Named \X Parts)
      /\ sent' \in Commands \X Parts
      /\ ok => p \in Named /\ \A q \in F : <<p, q>> \in formatted'
  BY FastbootFacts DEF AndroidInv
<1>3. Named \X Parts \subseteq Partitions
  BY DEF Named, Partitions
<1>4. erased' \subseteq Partitions /\ formatted' \subseteq Partitions
  BY <1>2, <1>3 DEF AndroidInv, TypeOK
<1>5. Touched' \subseteq (Named \X Parts)'
  <2>1. erased \subseteq Named \X Parts /\ formatted \subseteq Named \X Parts
    BY DEF AndroidInv, TouchInv, Touched
  <2>. QED  BY <1>1, <1>2, <2>1 DEF Touched
<1>6. UserdataFormatted => UserdataFormatted'
  BY <1>1, <1>2 DEF UserdataFormatted
<1>7. ok /\ "userdata" \in F => UserdataFormatted'
  BY <1>1, <1>2 DEF UserdataFormatted
<1>. QED  BY <1>1, <1>2, <1>4, <1>5, <1>6, <1>7

\* android_wipe's decision about a partition: it goes on to another one, or
\* out with code 0, only if userdata is formatted.
LEMMA FormattedFacts ==
  ASSUME NEW from, NEW ok \in BOOLEAN, TypeOK, pc = from, from # "exited",
         Formatted(from, ok)
  PROVE  /\ pc' \in {"erase", "exited"} /\ part' \in Parts
         /\ exit' \in {"none", "0", "1"} /\ (exit' = "none" <=> pc' # "exited")
         /\ part' # "userdata" => ok \/ part # "userdata"
         /\ exit' = "0" => ok \/ part # "userdata"
<1>1. part \in Parts /\ exit = "none"
  BY DEF TypeOK
<1>2. CASE part = "userdata" /\ (~ok \/ mode = "userdata")
  BY <1>1, <1>2 DEF Formatted, Exit, Parts
<1>3. CASE part = "userdata" /\ ok /\ mode # "userdata"
  BY <1>1, <1>3 DEF Formatted, Goto, Parts
<1>4. CASE part = "cache"
  BY <1>1, <1>4 DEF Formatted, Goto, Parts
<1>5. CASE part = "metadata"
  BY <1>1, <1>5 DEF Formatted, Exit, Parts
<1>. QED  BY <1>1, <1>2, <1>3, <1>4, <1>5 DEF Parts

-----------------------------------------------------------------------------
LEMMA AndroidInit ==
  Init => AndroidInv
<1>. SUFFICES ASSUME Init PROVE AndroidInv
  OBVIOUS
<1>1. cfg \in Configs /\ cfg.op \in {"wipe", "reboot"} /\ cfg.mode \in {"factory", "userdata", "full"}
  BY DEF Init, Configs
<1>2. TypeOK
  BY <1>1 DEF Init, TypeOK, Parts, Partitions
<1>3. PathInv /\ TouchInv /\ UserdataInv
  BY <1>1 DEF Init, PathInv, TouchInv, UserdataInv, Touched, Changing
<1>. QED  BY <1>2, <1>3 DEF AndroidInv

\* The steps that send no command leave the phone as it is.
LEMMA QuietSteps ==
  ASSUME AndroidInv, Reboot \/ Plan \/ Confirm \/ Tool \/ Move \/ UNCHANGED vars
  PROVE  AndroidInv'
<1>1. /\ cfg' = cfg /\ mode' = mode /\ part' = part
      /\ erased' = erased /\ formatted' = formatted
      /\ cfg \in Configs /\ cfg.op \in {"wipe", "reboot"} /\ cfg.dryRun \in BOOLEAN
  BY DEF Reboot, Plan, Confirm, Tool, Move, vars, phoneVars, AndroidInv, TypeOK, Configs
<1>2. Named' = Named /\ Touched' = Touched /\ Real' = Real /\ UserdataFormatted' = UserdataFormatted
  BY <1>1 DEF Named, Reaches, Touched, Real, UserdataFormatted
<1>3. sent' \in (Commands \X Parts) \cup {None} /\ ready' \subseteq Phones /\ agreed' \in BOOLEAN
  <2>1. /\ sent \in (Commands \X Parts) \cup {None} /\ ready \subseteq Phones
        /\ agreed \in BOOLEAN /\ part \in Parts /\ "getvar" \in Commands
    BY DEF AndroidInv, TypeOK, Commands
  <2>2. sent' \in {sent, <<"getvar", part>>}
    BY DEF Reboot, Plan, Confirm, Tool, Move, vars
  <2>3. ready' = ready \/ \E p \in Phones : ready' \in {ready \cup {p}, ready \ {p}}
    BY DEF Reboot, Plan, Confirm, Tool, Move, vars
  <2>4. agreed' \in {agreed, TRUE}
    BY DEF Reboot, Plan, Confirm, Tool, Move, vars
  <2>5. agreed' \in BOOLEAN
    BY <2>1, <2>4, Zenon
  <2>6. sent' \in (Commands \X Parts) \cup {None}
    BY <2>1, <2>2
  <2>7. ready' \subseteq Phones
    BY <2>1, <2>3
  <2>. QED  BY <2>5, <2>6, <2>7
<1>4. CASE Reboot
  <2>1. pc = "reboot" /\ pc' = "exited" /\ exit' \in {"0", "1"} /\ agreed' = agreed
    BY <1>4 DEF Reboot, Exit
  <2>2. ~Real /\ Touched = {}
    BY <2>1 DEF AndroidInv, PathInv, TouchInv, Real
  <2>3. TypeOK'
    BY <1>1, <1>3, <2>1 DEF AndroidInv, TypeOK
  <2>4. PathInv' /\ TouchInv' /\ UserdataInv'
    BY <1>1, <1>2, <2>1, <2>2 DEF AndroidInv, PathInv, TouchInv, UserdataInv, Changing
  <2>. QED  BY <2>3, <2>4 DEF AndroidInv
<1>5. CASE Plan
  <2>1. /\ pc = "plan" /\ agreed' = agreed
        /\ \/ cfg.dryRun /\ pc' = "exited" /\ exit' = "0"
           \/ ~cfg.dryRun /\ pc' = "confirm" /\ exit' = exit
    BY <1>5 DEF Plan, Exit, Goto
  <2>2. cfg.op = "wipe" /\ Touched = {}
    BY <2>1 DEF AndroidInv, PathInv, TouchInv
  <2>3. TypeOK'
    BY <1>1, <1>3, <2>1 DEF AndroidInv, TypeOK
  <2>4. PathInv' /\ TouchInv' /\ UserdataInv'
    BY <1>1, <1>2, <2>1, <2>2 DEF AndroidInv, PathInv, TouchInv, UserdataInv, Changing, Real,
                                  TypeOK
  <2>. QED  BY <2>3, <2>4 DEF AndroidInv
<1>6. CASE Confirm
  <2>1. /\ pc = "confirm"
        /\ \/ pc' = "tool" /\ agreed' = TRUE /\ exit' = exit
           \/ pc' = "exited" /\ exit' = "1" /\ agreed' = agreed
    BY <1>6 DEF Confirm, Exit, Goto
  <2>2. Real /\ Touched = {}
    BY <2>1 DEF AndroidInv, PathInv, TouchInv
  <2>3. TypeOK'
    BY <1>1, <1>3, <2>1 DEF AndroidInv, TypeOK
  <2>4. PathInv' /\ TouchInv' /\ UserdataInv'
    BY <1>1, <1>2, <2>1, <2>2 DEF AndroidInv, PathInv, TouchInv, UserdataInv, Changing, TypeOK
  <2>. QED  BY <2>3, <2>4 DEF AndroidInv
<1>7. CASE Tool
  <2>1. /\ pc = "tool" /\ agreed' = agreed
        /\ \/ pc' \in {"-w", "erase"} /\ exit' = exit
           \/ pc' = "exited" /\ exit' = "1"
    BY <1>7 DEF Tool, Exit, Goto
  <2>2. Real /\ agreed
    BY <2>1 DEF AndroidInv, PathInv, Changing
  <2>3. TypeOK'
    BY <1>1, <1>3, <2>1 DEF AndroidInv, TypeOK
  <2>4. PathInv' /\ TouchInv' /\ UserdataInv'
    BY <1>1, <1>2, <2>1, <2>2 DEF AndroidInv, PathInv, TouchInv, UserdataInv, Changing, TypeOK
  <2>. QED  BY <2>3, <2>4 DEF AndroidInv
<1>8. CASE Move \/ UNCHANGED vars
  <2>1. pc' = pc /\ agreed' = agreed /\ exit' = exit
    BY <1>8 DEF Move, vars
  <2>2. TypeOK'
    BY <1>1, <1>3, <2>1 DEF AndroidInv, TypeOK
  <2>3. PathInv' /\ TouchInv' /\ UserdataInv'
    BY <1>1, <1>2, <2>1 DEF AndroidInv, PathInv, TouchInv, UserdataInv
  <2>. QED  BY <2>2, <2>3 DEF AndroidInv
<1>. QED  BY <1>4, <1>5, <1>6, <1>7, <1>8

\* A command is sent, and the step goes on from there.
LEMMA CommandStep ==
  ASSUME AndroidInv, pc \in Changing, UNCHANGED <<cfg, ready, agreed>>,
         NEW verb \in Commands, NEW p \in Phones, NEW ok \in BOOLEAN,
         NEW E \in SUBSET Parts, NEW F \in SUBSET Parts,
         Fastboot(verb, p, ok, E, F),
         pc' \in Changing \cup {"exited"}, mode' \in {"factory", "userdata", "full"},
         part' \in Parts, exit' \in {"none", "0", "1"}, exit' = "none" <=> pc' # "exited",
         part' # "userdata" => (ok /\ "userdata" \in F) \/ part # "userdata",
         exit' = "0" => (ok /\ "userdata" \in F) \/ part # "userdata"
  PROVE  AndroidInv'
<1>1. /\ erased' \subseteq Partitions /\ formatted' \subseteq Partitions
      /\ sent' \in Commands \X Parts
      /\ Real' /\ agreed' /\ Touched' \subseteq (Named \X Parts)'
      /\ UserdataFormatted => UserdataFormatted'
      /\ ok /\ "userdata" \in F => UserdataFormatted'
  BY FastbootKeeps
<1>2. TypeOK'
  BY <1>1 DEF AndroidInv, TypeOK, Changing
<1>3. PathInv' /\ TouchInv'
  BY <1>1 DEF PathInv, TouchInv, Changing
<1>4. UserdataInv'
  BY <1>1 DEF AndroidInv, UserdataInv
<1>. QED  BY <1>2, <1>3, <1>4 DEF AndroidInv

LEMMA CommandSteps ==
  ASSUME AndroidInv, FactoryWipe \/ Erase \/ EraseAgain \/ Format \/ FormatAgain
  PROVE  AndroidInv'
<1>1. /\ part \in Parts /\ {part} \in SUBSET Parts /\ {} \in SUBSET Parts
      /\ {"userdata", "cache"} \in SUBSET Parts
      /\ mode \in {"factory", "userdata", "full"}
      /\ exit \in {"none", "0", "1"} /\ (exit = "none" <=> pc # "exited")
  BY DEF AndroidInv, TypeOK, Parts
<1>2. CASE FactoryWipe
  <2>1. PICK p \in Phones, ok \in BOOLEAN :
          /\ Fastboot("-w", p, ok, {"userdata", "cache"}, {"userdata", "cache"})
          /\ IF ok THEN Exit("-w", "0") /\ UNCHANGED mode
             ELSE Goto("-w", "erase") /\ mode' = "full"
    BY <1>2 DEF FactoryWipe
  <2>2. UNCHANGED <<cfg, ready, part, agreed>>
    BY <1>2 DEF FactoryWipe
  <2>3. /\ pc = "-w" /\ pc' \in {"erase", "exited"} /\ mode' \in {"factory", "userdata", "full"}
        /\ exit' \in {"none", "0", "1"} /\ (exit' = "none" <=> pc' # "exited")
        /\ exit' = "0" => ok
    BY <1>1, <2>1 DEF Exit, Goto
  <2>. QED  BY <1>1, <2>1, <2>2, <2>3, CommandStep DEF Commands, Changing
<1>3. CASE Erase
  <2>1. PICK p \in Phones, ok \in BOOLEAN :
          /\ Fastboot("erase", p, ok, {part}, {})
          /\ Goto("erase", IF ok THEN "format" ELSE "erase:")
    BY <1>3 DEF Erase
  <2>2. UNCHANGED <<cfg, ready, mode, part, agreed>>
    BY <1>3 DEF Erase
  <2>3. pc = "erase" /\ pc' \in {"format", "erase:"} /\ exit' = "none"
    BY <1>1, <2>1 DEF Goto
  <2>. QED  BY <1>1, <2>1, <2>2, <2>3, CommandStep DEF Commands, Changing
<1>4. CASE EraseAgain
  <2>1. PICK p \in Phones, ok \in BOOLEAN : Fastboot("erase:", p, ok, {part}, {})
    BY <1>4 DEF EraseAgain
  <2>2. UNCHANGED <<cfg, ready, mode, part, agreed>>
    BY <1>4 DEF EraseAgain
  <2>3. pc = "erase:" /\ pc' = "format" /\ exit' = "none"
    BY <1>1, <1>4 DEF EraseAgain, Goto
  <2>. QED  BY <1>1, <2>1, <2>2, <2>3, CommandStep DEF Commands, Changing
<1>5. CASE Format
  <2>1. PICK p \in Phones, ok \in BOOLEAN :
          /\ Fastboot("format", p, ok, {}, {part})
          /\ IF ok THEN Formatted("format", TRUE)
             ELSE Goto("format", "format:") /\ UNCHANGED part
    BY <1>5 DEF Format
  <2>2. UNCHANGED <<cfg, ready, mode, agreed>>
    BY <1>5 DEF Format
  <2>3. CASE ok
    <3>1. pc = "format" /\ Formatted("format", ok)
      BY <1>1, <2>1, <2>3 DEF Formatted, Exit, Goto, Parts
    <3>2. /\ pc' \in {"erase", "exited"} /\ part' \in Parts
          /\ exit' \in {"none", "0", "1"} /\ (exit' = "none" <=> pc' # "exited")
      BY <3>1, FormattedFacts DEF AndroidInv
    <3>3. part # "userdata" \/ "userdata" \in {part}
      OBVIOUS
    <3>. QED  BY <1>1, <2>1, <2>2, <2>3, <3>1, <3>2, <3>3, CommandStep DEF Commands, Changing
  <2>4. CASE ~ok
    <3>1. pc = "format" /\ pc' = "format:" /\ exit' = "none" /\ part' = part
      BY <1>1, <2>1, <2>4 DEF Goto
    <3>. QED  BY <1>1, <2>1, <2>2, <3>1, CommandStep DEF Commands, Changing
  <2>. QED  BY <2>3, <2>4
<1>6. CASE FormatAgain
  <2>1. PICK p \in Phones, ok \in BOOLEAN :
          Fastboot("format:", p, ok, {}, {part}) /\ Formatted("format:", ok)
    BY <1>6 DEF FormatAgain
  <2>2. UNCHANGED <<cfg, ready, mode, agreed>>
    BY <1>6 DEF FormatAgain
  <2>3. pc = "format:"
    BY <1>1, <2>1 DEF Formatted, Exit, Goto, Parts
  <2>4. /\ pc' \in {"erase", "exited"} /\ part' \in Parts
        /\ exit' \in {"none", "0", "1"} /\ (exit' = "none" <=> pc' # "exited")
        /\ part' # "userdata" => ok \/ part # "userdata"
        /\ exit' = "0" => ok \/ part # "userdata"
    BY <2>1, <2>3, FormattedFacts DEF AndroidInv
  <2>5. part # "userdata" \/ "userdata" \in {part}
    OBVIOUS
  <2>. QED  BY <1>1, <2>1, <2>2, <2>3, <2>4, <2>5, CommandStep DEF Commands, Changing
<1>. QED  BY <1>2, <1>3, <1>4, <1>5, <1>6

\* The invariant holds of every run, with any phones coming and going.
THEOREM AndroidInvariance ==
  Spec => []AndroidInv
<1>1. AndroidInv /\ [Next]_vars => AndroidInv'
  BY QuietSteps, CommandSteps DEF Next, Tick
<1>. QED  BY <1>1, AndroidInit, PTL DEF Spec

-----------------------------------------------------------------------------
\* Every state of a run is of the declared types (android.c and the Android
\* part of main.c).
THEOREM AndroidTypes ==
  Spec => []TypeOK
<1>1. AndroidInv => TypeOK
  BY DEF AndroidInv
<1>. QED  BY <1>1, AndroidInvariance, PTL

\* What changes on a phone the user has agreed to, and with a serial number it
\* is that phone, whichever phones come and go during the wipe
\* (append_serial_arg and android_confirm_wipe of android.c).
THEOREM NothingUnasked ==
  Spec => []OnlyAgreed
<1>1. AndroidInv => OnlyAgreed
  <2>. SUFFICES ASSUME AndroidInv, Touched # {} PROVE
           /\ agreed /\ Real
           /\ cfg.serial \in Phones => Touched \subseteq {cfg.serial} \X Parts
    BY DEF OnlyAgreed
  <2>1. agreed /\ Real /\ Touched \subseteq Named \X Parts
    BY Zenon DEF AndroidInv, TouchInv
  <2>2. cfg.serial \in Phones => Named \subseteq {cfg.serial}
    BY AndroidAssumption DEF Named, Reaches
  <2>3. cfg.serial \in Phones => Touched \subseteq {cfg.serial} \X Parts
    BY <2>1, <2>2
  <2>. QED  BY <2>1, <2>3, Zenon
<1>. QED  BY <1>1, AndroidInvariance, PTL

\* Exit code 0 of a real wipe means that userdata of the named phone, or of
\* some phone when none was named, is formatted (android_wipe of android.c).
THEOREM SuccessFormatsUserdata ==
  Spec => []SuccessMeansUserdata
<1>1. AndroidInv => SuccessMeansUserdata
  <2>. SUFFICES ASSUME AndroidInv, exit = "0", Real PROVE
           \E p \in Phones : (cfg.serial \in Phones => p = cfg.serial) /\ <<p, "userdata">> \in formatted
    BY DEF SuccessMeansUserdata
  <2>1. PICK p \in Named : <<p, "userdata">> \in formatted
    BY Zenon DEF AndroidInv, UserdataInv, UserdataFormatted
  <2>. QED  BY <2>1, AndroidAssumption DEF Named, Reaches
<1>. QED  BY <1>1, AndroidInvariance, PTL
-----------------------------------------------------------------------------
(***************************************************************************)
(* Why a wipe ends once fastboot gets its answers: every step of the tool  *)
(* brings it nearer to its end, whatever comes of the command.             *)
(***************************************************************************)

\* The commands and questions that are still to come, at most.
PartsBehind == [userdata |-> 2, cache |-> 1, metadata |-> 0]
Ahead ==
  CASE pc = "plan" -> 8 [] pc = "confirm" -> 7 [] pc = "tool" -> 6 [] pc = "-w" -> 5
    [] pc = "erase" -> 4 [] pc = "erase:" -> 3 [] pc = "format" -> 2 [] pc = "format:" -> 1
    [] pc = "reboot" -> 1 [] OTHER -> 0
CommandsLeft == 4 * PartsBehind[part] + Ahead

LEMMA CommandsLeftType ==
  TypeOK => PartsBehind[part] \in Nat /\ Ahead \in Nat /\ CommandsLeft \in Nat
<1>. SUFFICES ASSUME TypeOK
              PROVE  PartsBehind[part] \in Nat /\ Ahead \in Nat /\ CommandsLeft \in Nat
  OBVIOUS
<1>1. PartsBehind[part] \in Nat
  BY DEF TypeOK, PartsBehind, Parts
<1>2. Ahead \in Nat
  BY DEF TypeOK, Ahead
<1>. QED  BY <1>1, <1>2 DEF CommandsLeft

\* With a partition done the next one begins, or the wipe is over.
LEMMA FormattedCounts ==
  ASSUME TypeOK, NEW from \in {"format", "format:"}, NEW ok \in BOOLEAN, Formatted(from, ok)
  PROVE  CommandsLeft' < CommandsLeft
<1>1. pc = from /\ Ahead \in 1 .. 2 /\ PartsBehind[part] \in Nat
  <2>1. part \in Parts
    BY DEF TypeOK
  <2>2. pc = from
    BY <2>1 DEF Formatted, Exit, Goto, Parts
  <2>. QED  BY <2>2, CommandsLeftType DEF Ahead
<1>2. \/ pc' = "exited" /\ part' = part
      \/ pc' = "erase" /\ part = "userdata" /\ part' = "cache"
      \/ pc' = "erase" /\ part = "cache" /\ part' = "metadata"
  BY DEF Formatted, Exit, Goto, TypeOK, Parts
<1>3. CASE pc' = "exited" /\ part' = part
  <2>1. Ahead' = 0 /\ PartsBehind[part'] = PartsBehind[part]
    BY <1>3 DEF Ahead
  <2>. QED  BY <1>1, <2>1 DEF CommandsLeft
<1>4. CASE pc' = "erase" /\ PartsBehind[part] = PartsBehind[part'] + 1
  <2>1. Ahead' = 4
    BY <1>4 DEF Ahead
  <2>2. PartsBehind[part'] = PartsBehind[part] - 1
    BY <1>1, <1>2, <1>4 DEF PartsBehind
  <2>. QED  BY <1>1, <2>1, <2>2 DEF CommandsLeft
<1>. QED  BY <1>2, <1>3, <1>4 DEF PartsBehind

LEMMA ToolCountsDown ==
  ASSUME TypeOK, Tick
  PROVE  CommandsLeft' < CommandsLeft
<1>1. PartsBehind[part] \in Nat
  BY CommandsLeftType
<1>2. CASE Reboot \/ Plan \/ Confirm \/ Tool \/ FactoryWipe \/ Erase \/ EraseAgain
  <2>1. part' = part /\ Ahead' < Ahead /\ Ahead \in Nat /\ Ahead' \in Nat
    BY <1>2
       DEF Reboot, Plan, Confirm, Tool, FactoryWipe, Erase, EraseAgain, Goto, Exit, Ahead
  <2>. QED  BY <1>1, <2>1 DEF CommandsLeft
<1>3. CASE Format
  <2>1. CASE Goto("format", "format:") /\ UNCHANGED part
    <3>1. Ahead = 2 /\ Ahead' = 1 /\ part' = part
      BY <2>1 DEF Goto, Ahead
    <3>. QED  BY <1>1, <3>1 DEF CommandsLeft
  <2>2. CASE ~(Goto("format", "format:") /\ UNCHANGED part)
    <3>1. \E ok \in BOOLEAN : ok /\ Formatted("format", ok)
      BY <1>3, <2>2 DEF Format, Formatted
    <3>. QED  BY <3>1, FormattedCounts
  <2>. QED  BY <2>1, <2>2
<1>4. CASE FormatAgain
  <2>1. PICK ok \in BOOLEAN : Formatted("format:", ok)
    BY <1>4 DEF FormatAgain
  <2>. QED  BY <2>1, FormattedCounts
<1>. QED  BY <1>2, <1>3, <1>4 DEF Tick

\* Every step of the tool, whether its command succeeded or failed, brings it
\* nearer to its end, and phones that come and go do not set it back: a wipe
\* takes at most 16 steps (android_wipe and its callers).
THEOREM WipeIsBounded ==
  Spec => /\ [](CommandsLeft \in 0 .. 16)
          /\ [][ /\ Tick => CommandsLeft' < CommandsLeft
                 /\ Move => CommandsLeft' = CommandsLeft ]_vars
<1>. DEFINE counts == /\ Tick => CommandsLeft' < CommandsLeft
                      /\ Move => CommandsLeft' = CommandsLeft
            bounded == CommandsLeft \in 0 .. 16
<1>1. AndroidInv => bounded
  <2>. SUFFICES ASSUME TypeOK PROVE CommandsLeft \in 0 .. 16
    BY DEF AndroidInv
  <2>1. PartsBehind[part] \in 0 .. 2 /\ Ahead \in 0 .. 8
    BY DEF TypeOK, PartsBehind, Parts, Ahead
  <2>. QED  BY <2>1 DEF CommandsLeft
<1>2. AndroidInv => [counts]_vars
  <2>1. Move => CommandsLeft' = CommandsLeft
    BY DEF Move, CommandsLeft, Ahead
  <2>. QED  BY <2>1, ToolCountsDown DEF AndroidInv
<1>. HIDE DEF counts, bounded
<1>3. Spec => []bounded /\ [][counts]_vars
  BY <1>1, <1>2, AndroidInvariance, PTL DEF Spec
<1>. QED  BY <1>3 DEF counts, bounded
=============================================================================
