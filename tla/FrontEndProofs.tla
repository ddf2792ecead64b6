---------------------------- MODULE FrontEndProofs ----------------------------
(***************************************************************************)
(* Proofs about the two ways to start a wipe: the command line, for every  *)
(* order of words and whatever fails, and, in the second half, the wizard. *)
(*                                                                         *)
(* Inv is about CommandLine.  It says at each place of the program what    *)
(* has happened to the target, the handle and the filler, and what is      *)
(* known of the words that were read.  The five properties are parts of    *)
(* it; each of them needs the others, because what an exit code says is    *)
(* decided places before it.                                               *)
(***************************************************************************)
EXTENDS CommandLine, GuiWizard, TLAPS

Lines ==
  [windows : BOOLEAN, mode : {"whole", "free", "gaps"}, form : Forms \cup {"none"},
   profile : {"ghost", "shadow", "slack"}, chunk : {"fits", "tiny"}, dryRun : BOOLEAN,
   yes : BOOLEAN, force : BOOLEAN, format : BOOLEAN, system : BOOLEAN]

Resolving == {"filler", "open", "ranges", "slack", "check", "confirm", "plan"}
Wiping == {"wipe", "format", "remove", "cleanup"}
WholeKinds == {"WHOLE_DISK", "PARTITION", "FILE"}

\* The kind that infer_kind finds, as far as the mode decides it.
KindFits(k) ==
  /\ cfg.mode = "free" => k = "FREE_SPACE"
  /\ cfg.mode = "gaps" => k = "UNALLOCATED"
  /\ cfg.mode = "whole" => k \in WholeKinds

\* What is known of the words.
Understood ==
  /\ cfg \in Lines
  /\ named \subseteq {"word", "free", "gaps"}
  /\ cfg.mode = "free" <=> "free" \in named
  /\ cfg.mode = "gaps" <=> "gaps" \in named /\ "free" \notin named
  /\ cfg.form # "none" => named # {}
  /\ asked = "enough" => cfg.chunk = "fits"
  /\ pc = "args" => kind = "WHOLE_DISK"
  /\ pc \in {"infer"} \cup Resolving \cup Wiping => named # {}
  /\ pc \in Resolving \cup Wiping => KindFits(kind)

\* What has been done so far.
Untouched ==
  /\ pc \in {"args", "infer", "filler"} => dev = "closed" /\ ~fillerPath /\ filler = "none"
  /\ pc \in {"args", "infer", "wipe"} \cup Resolving =>
       wiped = "no" /\ formatted = "nothing" /\ file \in {"intact", "extended"}
  /\ pc # "exited" => exit = "none"
  /\ pc \in Wiping \cup (Resolving \ {"filler"}) /\ cfg.mode = "free" => filler # "none"

\* What the user has agreed to.
Agreed ==
  /\ pc \in Wiping => consent /\ ~cfg.dryRun /\ (cfg.yes \/ ~Blocked)
  /\ pc = "plan" => cfg.dryRun
  /\ pc \in Wiping \ {"wipe"} /\ ~Tiny => Complete

\* A filler is removed, or its removal is still to come, or the tool's own
\* handle was in its way.
FillerKept ==
  filler = "present" =>
    \/ fillerPath \/ refused
    \/ Windows /\ pc \in {"cleanup", "exited", "killed"} /\ exit # "1" /\ ~cfg.dryRun

Shadowed ==
  pc = "cleanup" /\ ShadowsFile /\ ~refused /\ ~Windows => file = "deleted"

Inv ==
  /\ Understood /\ Untouched /\ Agreed /\ FillerKept /\ Shadowed
  /\ ConsentFirst /\ NoHandleLeft /\ TargetAsNamed /\ WipedAsAsked /\ FilesRemoved

-----------------------------------------------------------------------------
LEMMA InitInv == LineInit => Inv
<1>. SUFFICES ASSUME LineInit PROVE Inv
  OBVIOUS
<1>1. Understood
  BY DEF LineInit, Understood, Lines, Resolving, Wiping
<1>2. Untouched /\ Agreed /\ FillerKept /\ Shadowed
  BY DEF LineInit, Untouched, Agreed, FillerKept, Shadowed, Resolving, Wiping
<1>3. ConsentFirst /\ NoHandleLeft /\ TargetAsNamed /\ WipedAsAsked /\ FilesRemoved
  BY DEF LineInit, ConsentFirst, NoHandleLeft, TargetAsNamed, WipedAsAsked, FilesRemoved
<1>. QED  BY <1>1, <1>2, <1>3 DEF Inv

\* While words are read nothing happens but to what is known of them.
LEMMA UnreadInv ==
  ASSUME Inv, Unread, Understood', UNCHANGED diverted
  PROVE  Inv'
BY DEF Unread, fsVars, Inv, Understood, Untouched, Agreed, FillerKept, Shadowed, ConsentFirst,
       NoHandleLeft, TargetAsNamed, WipedAsAsked, FilesRemoved, Resolving, Wiping

\* The words.
LEMMA WordsInv ==
  ASSUME Inv, Words
  PROVE  Inv'
<1>. USE DEF Resolving, Wiping
<1>1. CASE Option
  <2>1. PICK f \in {"dryRun", "yes", "force", "format", "profile"},
             x \in BOOLEAN \cup {"ghost", "shadow", "slack"} :
          /\ cfg' = [cfg EXCEPT ![f] = x]
          /\ IF f = "profile" THEN x \in {"ghost", "shadow", "slack"} ELSE x \in BOOLEAN
    BY <1>1 DEF Option
  <2>2. cfg' \in Lines /\ cfg'.mode = cfg.mode /\ cfg'.form = cfg.form /\ cfg'.chunk = cfg.chunk
    BY <2>1 DEF Inv, Understood, Lines
  <2>. QED
    BY <1>1, <2>2, UnreadInv DEF Option, Unread, Inv, Understood
<1>2. CASE ChunkOption
  <2>1. PICK c \in {"fits", "tiny"} :
          cfg' = [cfg EXCEPT !.chunk = c] /\ (asked' = "enough" => c = "fits")
    BY <1>2 DEF ChunkOption
  <2>2. cfg' \in Lines /\ cfg'.mode = cfg.mode /\ cfg'.form = cfg.form /\ cfg'.chunk = c
    BY <2>1 DEF Inv, Understood, Lines
  <2>. QED
    BY <1>2, <2>1, <2>2, UnreadInv DEF ChunkOption, Unread, Inv, Understood
<1>3. CASE ModeOption
  <2>1. PICK m \in {"free", "gaps"}, f \in Forms, s \in BOOLEAN :
          cfg' = [cfg EXCEPT !.mode = IF cfg.mode = "free" THEN "free" ELSE m,
                             !.form = f, !.system = s]
    BY <1>3 DEF ModeOption
  <2>2. cfg' \in Lines /\ cfg'.mode # "whole" /\ cfg'.chunk = cfg.chunk
    BY <2>1 DEF Inv, Understood, Lines
  <2>. QED
    BY <1>3, <2>2, UnreadInv DEF ModeOption, Unread, Inv, Understood
<1>4. CASE Positional
  <2>1. PICK f \in Forms, s \in BOOLEAN : cfg' = [cfg EXCEPT !.form = f, !.system = s]
    BY <1>4 DEF Positional
  <2>2. cfg' \in Lines /\ cfg'.mode = cfg.mode /\ cfg'.chunk = cfg.chunk
    BY <2>1 DEF Inv, Understood, Lines
  <2>. QED
    BY <1>4, <2>2, UnreadInv DEF Positional, Unread, Inv, Understood
<1>5. CASE Divert
  BY <1>5
     DEF Divert, Unread, fsVars, Inv, Understood, Untouched, Agreed, FillerKept, Shadowed,
         ConsentFirst, NoHandleLeft, TargetAsNamed, WipedAsAsked, FilesRemoved
<1>6. CASE Stop
  BY <1>6
     DEF Stop, Goto, fsVars, Inv, Understood, Untouched, Agreed, FillerKept, Shadowed,
         ConsentFirst, NoHandleLeft, TargetAsNamed, WipedAsAsked, FilesRemoved, ShadowsFile
<1>7. CASE LastWord
  BY <1>7
     DEF LastWord, Fail, Goto, fsVars, Inv, Understood, Untouched, Agreed, FillerKept, Shadowed,
         ConsentFirst, NoHandleLeft, TargetAsNamed, WipedAsAsked, FilesRemoved, ShadowsFile
<1>. QED
  BY <1>1, <1>2, <1>3, <1>4, <1>5, <1>6, <1>7 DEF Words

\* The run that the words have configured.  It leaves them alone.
LEMMA Configured ==
  ASSUME cfg' = cfg
  PROVE  /\ Windows' = Windows /\ Tiny' = Tiny
         /\ kind' = kind => ShadowsFile' = ShadowsFile
         /\ empty' = empty => Blocked' = Blocked
BY DEF Windows, Tiny, ShadowsFile, Blocked

LEMMA KindInferred ==
  ASSUME cfg \in Lines
  PROVE  KindFits(InferKind(cfg.mode, cfg.form))
BY DEF InferKind, KindFits, WholeKinds, Lines

LEMMA RunInv ==
  ASSUME Inv, Next, UNCHANGED <<asked, named, diverted>>
  PROVE  Inv'
<1>1. cfg' = cfg
  BY DEF Next, Main, Infer, CreateFiller, OpenTarget, Ranges, ExtendSlack, Check, Confirm,
         DryRunEnd, Wipe, Format, Remove, Cleanup, Interrupted, Ended, vars
<1>2. /\ Windows' = Windows /\ Tiny' = Tiny /\ (kind' = kind => ShadowsFile' = ShadowsFile)
      /\ empty' = empty => Blocked' = Blocked
  BY <1>1, Configured
<1>17. asked = "enough" => ~Tiny
  BY DEF Inv, Understood, Tiny
<1>18. cfg.mode \in {"whole", "free", "gaps"}
  BY DEF Inv, Understood, Lines
<1>. USE <1>1, <1>2, <1>17, <1>18
     DEF Resolving, Wiping, Goto, fsVars, Inv, Understood, Untouched, Agreed, FillerKept,
         Shadowed, Complete, KindFits, WholeKinds,
         ConsentFirst, NoHandleLeft, TargetAsNamed, WipedAsAsked, FilesRemoved
<1>3. CASE Infer
  <2>6. KindFits(kind')
    BY <1>3, KindInferred DEF Infer
  <2>1. Understood' /\ Untouched' /\ Agreed'
    BY <1>3, <2>6 DEF Infer
  <2>2. FillerKept' /\ Shadowed'
    BY <1>3 DEF Infer
  <2>3. ConsentFirst' /\ NoHandleLeft'
    BY <1>3 DEF Infer
  <2>4. TargetAsNamed' /\ WipedAsAsked'
    BY <1>3 DEF Infer
  <2>5. FilesRemoved'
    BY <1>3 DEF Infer
  <2>. QED  BY <2>1, <2>2, <2>3, <2>4, <2>5
<1>4. CASE CreateFiller
  <2>1. Understood' /\ Untouched' /\ Agreed'
    BY <1>4 DEF CreateFiller, Fail
  <2>2. FillerKept' /\ Shadowed'
    BY <1>4 DEF CreateFiller, Fail
  <2>3. ConsentFirst' /\ NoHandleLeft'
    BY <1>4 DEF CreateFiller, Fail
  <2>4. TargetAsNamed' /\ WipedAsAsked'
    BY <1>4 DEF CreateFiller, Fail
  <2>5. FilesRemoved'
    BY <1>4 DEF CreateFiller, Fail
  <2>. QED  BY <2>1, <2>2, <2>3, <2>4, <2>5
<1>5. CASE OpenTarget
  <2>1. Understood' /\ Untouched' /\ Agreed'
    BY <1>5 DEF OpenTarget, Fail, TargetCleanup, DeleteFiller
  <2>2. FillerKept' /\ Shadowed'
    BY <1>5 DEF OpenTarget, Fail, TargetCleanup, DeleteFiller
  <2>3. ConsentFirst' /\ NoHandleLeft'
    BY <1>5 DEF OpenTarget, Fail, TargetCleanup, DeleteFiller
  <2>4. TargetAsNamed' /\ WipedAsAsked'
    BY <1>5 DEF OpenTarget, Fail, TargetCleanup, DeleteFiller
  <2>5. FilesRemoved'
    BY <1>5 DEF OpenTarget, Fail, TargetCleanup, DeleteFiller
  <2>. QED  BY <2>1, <2>2, <2>3, <2>4, <2>5
<1>6. CASE Ranges
  <2>1. Understood' /\ Untouched' /\ Agreed'
    BY <1>6 DEF Ranges, Fail, TargetCleanup, DeleteFiller
  <2>2. FillerKept' /\ Shadowed'
    BY <1>6 DEF Ranges, Fail, TargetCleanup, DeleteFiller
  <2>3. ConsentFirst' /\ NoHandleLeft'
    BY <1>6 DEF Ranges, Fail, TargetCleanup, DeleteFiller
  <2>4. TargetAsNamed' /\ WipedAsAsked'
    BY <1>6 DEF Ranges, Fail, TargetCleanup, DeleteFiller
  <2>5. FilesRemoved'
    BY <1>6 DEF Ranges, Fail, TargetCleanup, DeleteFiller
  <2>. QED  BY <2>1, <2>2, <2>3, <2>4, <2>5
<1>7. CASE ExtendSlack
  <2>1. Understood' /\ Untouched' /\ Agreed'
    BY <1>7 DEF ExtendSlack
  <2>2. FillerKept' /\ Shadowed'
    BY <1>7 DEF ExtendSlack
  <2>3. ConsentFirst' /\ NoHandleLeft'
    BY <1>7 DEF ExtendSlack
  <2>4. TargetAsNamed' /\ WipedAsAsked'
    BY <1>7 DEF ExtendSlack
  <2>5. FilesRemoved'
    BY <1>7 DEF ExtendSlack
  <2>. QED  BY <2>1, <2>2, <2>3, <2>4, <2>5
<1>8. CASE Check
  <2>1. Understood' /\ Untouched' /\ Agreed'
    BY <1>8 DEF Check
  <2>2. FillerKept' /\ Shadowed'
    BY <1>8 DEF Check
  <2>3. ConsentFirst' /\ NoHandleLeft'
    BY <1>8 DEF Check
  <2>4. TargetAsNamed' /\ WipedAsAsked'
    BY <1>8 DEF Check
  <2>5. FilesRemoved'
    BY <1>8 DEF Check
  <2>. QED  BY <2>1, <2>2, <2>3, <2>4, <2>5
<1>9. CASE Confirm
  <2>1. Understood' /\ Untouched' /\ Agreed'
    BY <1>9 DEF Confirm, Fail, TargetCleanup, DeleteFiller
  <2>2. FillerKept' /\ Shadowed'
    BY <1>9 DEF Confirm, Fail, TargetCleanup, DeleteFiller
  <2>3. ConsentFirst' /\ NoHandleLeft'
    BY <1>9 DEF Confirm, Fail, TargetCleanup, DeleteFiller
  <2>4. TargetAsNamed' /\ WipedAsAsked'
    BY <1>9 DEF Confirm, Fail, TargetCleanup, DeleteFiller
  <2>5. FilesRemoved'
    BY <1>9 DEF Confirm, Fail, TargetCleanup, DeleteFiller
  <2>. QED  BY <2>1, <2>2, <2>3, <2>4, <2>5
<1>10. CASE DryRunEnd
  <2>1. Understood' /\ Untouched' /\ Agreed'
    BY <1>10 DEF DryRunEnd, TargetCleanup, DeleteFiller
  <2>2. FillerKept' /\ Shadowed'
    BY <1>10 DEF DryRunEnd, TargetCleanup, DeleteFiller
  <2>3. ConsentFirst' /\ NoHandleLeft'
    BY <1>10 DEF DryRunEnd, TargetCleanup, DeleteFiller
  <2>4. TargetAsNamed' /\ WipedAsAsked'
    BY <1>10 DEF DryRunEnd, TargetCleanup, DeleteFiller
  <2>5. FilesRemoved'
    BY <1>10 DEF DryRunEnd, TargetCleanup, DeleteFiller
  <2>. QED  BY <2>1, <2>2, <2>3, <2>4, <2>5
<1>11. CASE Wipe
  <2>6. PICK o \in Outcomes(Called) :
          \/ /\ o.ret = "ok" /\ Goto("wipe", "format")
             /\ wiped' \in {o.extent} \cup (IF Tiny THEN {"no"} ELSE {})
             /\ file' \in {file, "wiped"}
             /\ dev' = (IF o.device = "none" THEN "closed" ELSE o.device)
             /\ UNCHANGED <<fillerPath, filler, refused, exit>>
          \/ Fail("wipe") /\ wiped' = o.extent /\ UNCHANGED file /\ TargetCleanup
    BY <1>11 DEF Wipe, Overwritten
  <2>7. UNCHANGED <<kind, format, empty, consent, formatted>>
    BY <1>11 DEF Wipe
  <2>8. pc = "wipe" /\ ~cfg.dryRun
    BY <2>6 DEF Fail
  <2>9. o.ret = "ok" => o.extent \in {"all", "lost"}
    BY <2>8 DEF Outcomes, Called
  <2>10. /\ KindFits(kind) /\ (cfg.mode = "free" => filler # "none")
         /\ consent /\ (cfg.yes \/ ~Blocked) /\ Blocked' = Blocked
    BY <2>7, <2>8
  <2>11. CASE Goto("wipe", "format")
    <3>1. Understood'
      BY <2>7, <2>8, <2>11
    <3>2. Untouched' /\ Agreed'
      BY <2>6, <2>7, <2>8, <2>9, <2>10, <2>11 DEF Fail
    <3>3. FillerKept' /\ Shadowed' /\ FilesRemoved'
      BY <2>6, <2>7, <2>8, <2>11 DEF Fail
    <3>4. ConsentFirst' /\ NoHandleLeft' /\ WipedAsAsked'
      BY <2>6, <2>7, <2>8, <2>10, <2>11 DEF Fail
    <3>5. filler' = filler /\ file' \in {file, "wiped"}
      BY <2>6, <2>8, <2>11 DEF Fail
    <3>6. TargetAsNamed'
      BY <2>7, <2>8, <2>10, <3>5
    <3>. QED  BY <3>1, <3>2, <3>3, <3>4, <3>6
  <2>12. CASE Fail("wipe") /\ TargetCleanup /\ UNCHANGED file
    <3>1. Understood' /\ Untouched' /\ Agreed'
      BY <2>7, <2>8, <2>12 DEF Fail
    <3>2. FillerKept' /\ Shadowed' /\ FilesRemoved'
      BY <2>7, <2>8, <2>12 DEF Fail, TargetCleanup, DeleteFiller
    <3>3. ConsentFirst' /\ NoHandleLeft' /\ WipedAsAsked'
      BY <2>7, <2>8, <2>10, <2>12 DEF Fail, TargetCleanup
    <3>4. filler' \in {filler, "removed"}
      BY <2>12 DEF TargetCleanup, DeleteFiller
    <3>5. TargetAsNamed'
      BY <2>7, <2>8, <2>10, <2>12, <3>4
    <3>. QED  BY <3>1, <3>2, <3>3, <3>5
  <2>. QED  BY <2>6, <2>11, <2>12 DEF Fail
<1>12. CASE Format
  <2>1. Understood' /\ Untouched' /\ Agreed'
    BY <1>12 DEF Format
  <2>2. FillerKept' /\ Shadowed'
    BY <1>12 DEF Format
  <2>3. ConsentFirst' /\ NoHandleLeft'
    BY <1>12 DEF Format
  <2>4. TargetAsNamed' /\ WipedAsAsked'
    BY <1>12 DEF Format
  <2>5. FilesRemoved'
    BY <1>12 DEF Format
  <2>. QED  BY <2>1, <2>2, <2>3, <2>4, <2>5
<1>13. CASE Remove
  <2>1. Understood' /\ Untouched' /\ Agreed'
    BY <1>13 DEF Remove, HasFiller, ShadowsFile, HeldOpen, DeleteFiller
  <2>2. FillerKept' /\ Shadowed'
    BY <1>13 DEF Remove, HasFiller, ShadowsFile, HeldOpen, DeleteFiller
  <2>3. ConsentFirst' /\ NoHandleLeft'
    BY <1>13 DEF Remove, HasFiller, ShadowsFile, HeldOpen, DeleteFiller
  <2>4. TargetAsNamed' /\ WipedAsAsked'
    <3>1. /\ file' = file \/ (file' = "deleted" /\ kind = "FILE")
          /\ filler' = "none" => filler = "none"
          /\ UNCHANGED <<kind, wiped, formatted, exit>> /\ pc = "remove"
      BY <1>13 DEF Remove, ShadowsFile, DeleteFiller
    <3>2. kind = "FILE" => named = {"word"}
      BY <3>1
    <3>3. file' = "deleted" => named = {"word"}
      BY <3>1, <3>2
    <3>4. TargetAsNamed'
      BY <3>1, <3>3
    <3>5. WipedAsAsked'
      BY <3>1
    <3>. QED  BY <3>4, <3>5
  <2>5. FilesRemoved'
    BY <1>13 DEF Remove, HasFiller, ShadowsFile, HeldOpen, DeleteFiller
  <2>. QED  BY <2>1, <2>2, <2>3, <2>4, <2>5
<1>14. CASE Cleanup
  <2>1. Understood' /\ Untouched' /\ Agreed'
    BY <1>14 DEF Cleanup, TargetCleanup, DeleteFiller
  <2>2. FillerKept' /\ Shadowed'
    BY <1>14 DEF Cleanup, TargetCleanup, DeleteFiller
  <2>3. ConsentFirst' /\ NoHandleLeft'
    BY <1>14 DEF Cleanup, TargetCleanup, DeleteFiller
  <2>4. TargetAsNamed' /\ WipedAsAsked'
    BY <1>14 DEF Cleanup, TargetCleanup, DeleteFiller
  <2>5. FilesRemoved'
    BY <1>14 DEF Cleanup, TargetCleanup, DeleteFiller
  <2>. QED  BY <2>1, <2>2, <2>3, <2>4, <2>5
<1>15. CASE Interrupted
  <2>1. Understood' /\ Untouched' /\ Agreed'
    BY <1>15 DEF Interrupted
  <2>2. FillerKept' /\ Shadowed'
    BY <1>15 DEF Interrupted
  <2>3. ConsentFirst' /\ NoHandleLeft'
    BY <1>15 DEF Interrupted
  <2>4. TargetAsNamed' /\ WipedAsAsked'
    BY <1>15 DEF Interrupted
  <2>5. FilesRemoved'
    BY <1>15 DEF Interrupted
  <2>. QED  BY <2>1, <2>2, <2>3, <2>4, <2>5
<1>16. CASE Ended
  BY <1>16 DEF Ended, vars
<1>. QED
  BY <1>3, <1>4, <1>5, <1>6, <1>7, <1>8, <1>9, <1>10, <1>11, <1>12, <1>13, <1>14, <1>15, <1>16
     DEF Next, Main

LEMMA StutterInv ==
  ASSUME Inv, UNCHANGED lineVars
  PROVE  Inv'
<1>1. /\ Windows' = Windows /\ Tiny' = Tiny /\ ShadowsFile' = ShadowsFile
      /\ Blocked' = Blocked
  BY Configured DEF lineVars, vars
<1>. QED
  BY <1>1
     DEF lineVars, vars, fsVars, Inv, Understood, Untouched, Agreed, FillerKept, Shadowed,
         Complete, KindFits,
         ConsentFirst, NoHandleLeft, TargetAsNamed, WipedAsAsked, FilesRemoved

LEMMA StepInv == Inv /\ [LineNext]_lineVars => Inv'
BY WordsInv, RunInv, StutterInv DEF LineNext

\* Inv is an invariant of every command line and the run it starts.
LEMMA Invariance == LineSpec => []Inv
BY InitInv, StepInv, PTL DEF LineSpec

-----------------------------------------------------------------------------
\* The options decide what the wipe is of, wherever they stand: a filler that
\* was created, the gaps of a table, or else what a plain word named; and only
\* such a file is deleted afterwards.
THEOREM AsNamed == LineSpec => []TargetAsNamed
<1>1. Inv => TargetAsNamed
  BY DEF Inv
<1>. QED  BY <1>1, Invariance, PTL

\* Exit code 0 means wiped or a dry run, and formatting and deleting follow a
\* complete wipe, for chunk sizes of at least a sector.
THEOREM SuccessWiped == LineSpec => []WipedAsAsked
<1>1. Inv => WipedAsAsked
  BY DEF Inv
<1>. QED  BY <1>1, Invariance, PTL

\* Nothing is overwritten, deleted or formatted without the user's consent or by
\* a dry run, nor a target that was blocked without --yes.
THEOREM Consent == LineSpec => []ConsentFirst
<1>1. Inv => ConsentFirst
  BY DEF Inv
<1>. QED  BY <1>1, Invariance, PTL

\* Whichever way main is left, the handle is closed and no filler is forgotten.
THEOREM HandleClosed == LineSpec => []NoHandleLeft
<1>1. Inv => NoHandleLeft
  BY DEF Inv
<1>. QED  BY <1>1, Invariance, PTL

\* A failed run and a dry run remove their filler; on POSIX a success does too,
\* and deletes the file that filesystem-shadow was given.
THEOREM FilesGone == LineSpec => []FilesRemoved
<1>1. Inv => FilesRemoved
  BY DEF Inv
<1>. QED  BY <1>1, Invariance, PTL

\* The variables of a run keep their types, whatever the arguments; only
\* --free-space has a filler.
Typed ==
  /\ cfg \in Configs /\ kind \in Kinds
  /\ pc \in {"infer", "filler", "open", "ranges", "slack", "check", "confirm", "plan", "wipe",
             "format", "remove", "cleanup", "exited", "killed"}
  /\ format \in BOOLEAN /\ empty \in BOOLEAN /\ dev \in {"closed", "ro", "rw"}
  /\ file \in {"intact", "extended", "wiped", "deleted"}
  /\ consent \in BOOLEAN /\ refused \in BOOLEAN /\ wiped \in Extents
  /\ formatted \in {"nothing", "disk", "volume", "part"}
  /\ exit \in {"none", "0", "1"}

FillerTyped ==
  /\ fillerPath \in BOOLEAN /\ filler \in {"none", "present", "removed"}
  /\ cfg.mode # "free" => ~fillerPath /\ filler = "none" /\ pc # "filler"

LEMMA CleansTyped ==
  ASSUME TargetCleanup, Typed, FillerTyped
  PROVE  /\ dev' = "closed" /\ fillerPath' = FALSE /\ refused' \in BOOLEAN
         /\ filler' \in {"none", "present", "removed"}
         /\ cfg.mode # "free" => filler' = "none"
BY DEF TargetCleanup, DeleteFiller, Typed, FillerTyped

LEMMA StepTyped ==
  ASSUME Typed, FillerTyped, [Next]_vars
  PROVE  Typed'
<1>. USE DEF Typed, Goto, fsVars
<1>1. CASE Infer
  BY <1>1 DEF Infer, InferKind, Kinds
<1>2. CASE CreateFiller
  BY <1>2 DEF CreateFiller, Fail
<1>3. CASE OpenTarget
  BY <1>3, CleansTyped DEF OpenTarget, Fail
<1>4. CASE Ranges
  BY <1>4, CleansTyped DEF Ranges, Fail
<1>5. CASE ExtendSlack
  BY <1>5 DEF ExtendSlack
<1>6. CASE Check
  BY <1>6 DEF Check
<1>7. CASE Confirm
  BY <1>7, CleansTyped DEF Confirm, Fail
<1>8. CASE DryRunEnd
  BY <1>8, CleansTyped DEF DryRunEnd
<1>9. CASE Wipe
  <2>1. PICK o \in Outcomes(Called) :
          \/ /\ o.ret = "ok" /\ Goto("wipe", "format")
             /\ wiped' \in {o.extent} \cup (IF Tiny THEN {"no"} ELSE {})
             /\ file' = (IF o.extent = "all" THEN Overwritten ELSE file)
             /\ dev' = (IF o.device = "none" THEN "closed" ELSE o.device)
             /\ UNCHANGED <<fillerPath, filler, refused, exit>>
          \/ /\ o.ret = "err" /\ Fail("wipe")
             /\ wiped' = o.extent /\ UNCHANGED file
             /\ TargetCleanup
    BY <1>9 DEF Wipe
  <2>2. /\ o.extent \in Extents
        /\ (IF o.device = "none" THEN "closed" ELSE o.device) \in {"closed", "ro", "rw"}
        /\ "no" \in Extents
    BY DEF Outcomes, Called, Extents
  <2>3. UNCHANGED <<cfg, kind, format, empty, consent, formatted>>
    BY <1>9 DEF Wipe
  <2>. QED
    BY <2>1, <2>2, <2>3, CleansTyped DEF Overwritten, Fail
<1>10. CASE Format
  BY <1>10 DEF Format, FormatObject
<1>11. CASE Remove
  BY <1>11 DEF Remove, DeleteFiller
<1>12. CASE Cleanup
  BY <1>12, CleansTyped DEF Cleanup
<1>13. CASE Interrupted \/ UNCHANGED vars
  BY <1>13 DEF Interrupted, vars
<1>. QED
  BY <1>1, <1>2, <1>3, <1>4, <1>5, <1>6, <1>7, <1>8, <1>9, <1>10, <1>11, <1>12, <1>13
     DEF Next, Main, Ended

LEMMA StepFiller ==
  ASSUME Typed, FillerTyped, [Next]_vars
  PROVE  FillerTyped'
<1>. DEFINE Cleaned == /\ fillerPath' = FALSE /\ filler' \in {"none", "present", "removed"}
                       /\ cfg.mode # "free" => filler' = "none"
<1>1. TargetCleanup => Cleaned
  BY CleansTyped
<1>2. ASSUME cfg' = cfg, pc' # "filler",
             Cleaned \/ UNCHANGED <<filler, fillerPath>>
      PROVE  FillerTyped'
  <2>1. CASE Cleaned
    BY <1>2, <2>1 DEF FillerTyped
  <2>2. CASE UNCHANGED <<filler, fillerPath>>
    <3>1. fillerPath' = fillerPath /\ filler' = filler
      BY <2>2
    <3>. QED  BY <1>2, <3>1, Zenon DEF FillerTyped
  <2>. QED  BY <1>2, <2>1, <2>2
<1>. USE DEF Goto, fsVars, Fail
<1>. HIDE DEF Cleaned
<1>3. CASE Infer
  BY <1>3 DEF Infer, FillerTyped
<1>4. CASE CreateFiller
  BY <1>4 DEF CreateFiller, FillerTyped
<1>5. CASE OpenTarget
  BY <1>5, <1>1, <1>2 DEF OpenTarget
<1>6. CASE Ranges
  BY <1>6, <1>1, <1>2 DEF Ranges
<1>7. CASE Confirm \/ DryRunEnd \/ Cleanup
  BY <1>7, <1>1, <1>2 DEF Confirm, DryRunEnd, Cleanup
<1>8. CASE Wipe
  BY <1>8, <1>1, <1>2 DEF Wipe
<1>9. CASE Remove
  <2>1. CASE HasFiller
    BY <1>9, <2>1 DEF Remove, DeleteFiller, HasFiller, FillerTyped
  <2>2. CASE ~HasFiller
    BY <1>9, <2>2, <1>2 DEF Remove
  <2>. QED  BY <2>1, <2>2
<1>10. CASE ExtendSlack \/ Check \/ Format \/ Interrupted
  BY <1>10, <1>2 DEF ExtendSlack, Check, Format, Interrupted
<1>11. CASE UNCHANGED vars
  BY <1>11 DEF vars, FillerTyped
<1>. QED
  BY <1>3, <1>4, <1>5, <1>6, <1>7, <1>8, <1>9, <1>10, <1>11 DEF Next, Main, Ended

THEOREM RunTypes == Spec => []TypeOK
<1>1. Init => Typed /\ FillerTyped
  BY DEF Init, Typed, FillerTyped, Kinds, Extents, Configs
<1>2. Typed /\ FillerTyped /\ [Next]_vars => (Typed /\ FillerTyped)'
  BY StepTyped, StepFiller
<1>3. Typed /\ FillerTyped => TypeOK
  BY DEF Typed, FillerTyped, TypeOK
<1>. QED  BY <1>1, <1>2, <1>3, PTL DEF Spec

-----------------------------------------------------------------------------
(***************************************************************************)
(* The wizard, for any operations, targets and number of processes.        *)
(* PageInv is what makes the confirmation and the preview worth anything:  *)
(* from the review page on no page lets the user change a setting, and the *)
(* way back to those that do leads again through the review page.          *)
(***************************************************************************)
\* What the pages can set, what build_argv is given, and what it makes of that.
Chosen == [op : Ops \cup {"whole"}, target : Targets \cup {""}, dryRun : BOOLEAN]
Given == [op : Ops \cup {"whole", "list_only"}, target : Targets \cup {""},
          dryRun : BOOLEAN]
Argvs == [op : Ops \cup {"whole", "list_only"}, target : Targets \cup {""},
          dryRun : BOOLEAN, yes : BOOLEAN]
Buttons == {"refresh", "dryrun", "run"}
Processes == [button : Buttons, argv : Argvs, typed : BOOLEAN, shown : BOOLEAN,
              previewed : BOOLEAN]

PageInv ==
  /\ step \in 0 .. 5 /\ settings \in Chosen /\ shown \in BOOLEAN
  /\ step >= 3 => preview = BuildArgv(settings, FALSE)

ProcsInv ==
  /\ procs \in [1 .. Slots -> Processes \cup {Idle}]
  /\ ConfirmedTarget /\ PreviewIsRun

WizardInv == PageInv /\ ProcsInv

\* A command that may be given to a new process of this button.
Admitted(button, argv) ==
  /\ argv.op \in WipeOps /\ ~argv.dryRun =>
       button = "run" /\ argv.yes /\ typed = Expected(argv)
  /\ button = "run" => [argv EXCEPT !.yes = FALSE] = preview

\* What build_argv makes of settings, whichever they are.
IsBuilt(argv, c, yes) ==
  \E dry, sure \in BOOLEAN :
    /\ dry <=> c.dryRun /\ c.op \in WipeOps
    /\ sure <=> yes /\ ~c.dryRun /\ c.op \in WipeOps
    /\ argv = [op |-> c.op, target |-> IF c.op = "list_only" THEN "" ELSE c.target,
               dryRun |-> dry, yes |-> sure]

LEMMA Built ==
  ASSUME NEW c, NEW yes
  PROVE  IsBuilt(BuildArgv(c, yes), c, yes)
<1>. USE DEF IsBuilt
<1>. WITNESS (c.dryRun /\ c.op \in WipeOps) \in BOOLEAN,
             (yes /\ ~c.dryRun /\ c.op \in WipeOps) \in BOOLEAN
<1>. QED  BY Zenon DEF BuildArgv

LEMMA BuiltFields ==
  ASSUME NEW c \in Given, NEW yes \in BOOLEAN, NEW argv, IsBuilt(argv, c, yes)
  PROVE  /\ argv \in Argvs /\ argv.op = c.op
         /\ argv.dryRun <=> c.dryRun /\ c.op \in WipeOps
         /\ argv.yes <=> yes /\ ~c.dryRun /\ c.op \in WipeOps
         /\ c.op # "list_only" => argv.target = c.target
<1>1. PICK dry, sure \in BOOLEAN :
        /\ dry <=> c.dryRun /\ c.op \in WipeOps
        /\ sure <=> yes /\ ~c.dryRun /\ c.op \in WipeOps
        /\ argv = [op |-> c.op, target |-> IF c.op = "list_only" THEN "" ELSE c.target,
                   dryRun |-> dry, yes |-> sure]
  BY Zenon DEF IsBuilt
<1>2. argv.dryRun = dry /\ argv.yes = sure
  BY <1>1
<1>3. argv \in Argvs /\ argv.op = c.op /\ (c.op # "list_only" => argv.target = c.target)
  BY <1>1 DEF Argvs, Given
<1>. QED  BY <1>1, <1>2, <1>3, Zenon

LEMMA WithYes ==
  ASSUME NEW argv, NEW op, NEW target, NEW dry, NEW old, NEW yes,
         argv = [op |-> op, target |-> target, dryRun |-> dry, yes |-> old]
  PROVE  [argv EXCEPT !.yes = yes] = [op |-> op, target |-> target, dryRun |-> dry, yes |-> yes]
OBVIOUS

\* --yes is all that the command run has more than the one previewed.
LEMMA BuiltAlike ==
  ASSUME NEW c \in Chosen, NEW a, NEW b, IsBuilt(a, c, TRUE), IsBuilt(b, c, FALSE)
  PROVE  [a EXCEPT !.yes = FALSE] = b
<1>1. PICK d, y \in BOOLEAN :
        /\ d <=> c.dryRun /\ c.op \in WipeOps
        /\ a = [op |-> c.op, target |-> IF c.op = "list_only" THEN "" ELSE c.target,
                dryRun |-> d, yes |-> y]
  BY Zenon DEF IsBuilt
<1>2. PICK e, n \in BOOLEAN :
        /\ e <=> c.dryRun /\ c.op \in WipeOps
        /\ n <=> FALSE /\ ~c.dryRun /\ c.op \in WipeOps
        /\ b = [op |-> c.op, target |-> IF c.op = "list_only" THEN "" ELSE c.target,
                dryRun |-> e, yes |-> n]
  BY Zenon DEF IsBuilt
<1>3. d = e /\ n = FALSE
  BY <1>1, <1>2
<1>4. PICK t : t = IF c.op = "list_only" THEN "" ELSE c.target
  OBVIOUS
<1>5. a = [op |-> c.op, target |-> t, dryRun |-> d, yes |-> y]
  BY <1>1, <1>4, Zenon
<1>6. b = [op |-> c.op, target |-> t, dryRun |-> d, yes |-> FALSE]
  BY <1>2, <1>3, <1>4, Zenon
<1>7. ASSUME NEW yes
      PROVE  [a EXCEPT !.yes = yes] = [op |-> c.op, target |-> t, dryRun |-> d, yes |-> yes]
  BY <1>5, WithYes
<1>. QED  BY <1>6, <1>7, Zenon

\* A new process is one whose command was admitted.
LEMMA StartKeeps ==
  ASSUME ProcsInv, NEW button \in Buttons, NEW argv \in Argvs,
         Start(button, argv), Admitted(button, argv), shown \in BOOLEAN
  PROVE  ProcsInv'
<1>. DEFINE confirmed == button = "run" /\ typed = Expected(argv)
            fresh == button = "run" /\ shown
            seen == button = "run" /\ [argv EXCEPT !.yes = FALSE] = preview
            new == [button |-> button, argv |-> argv, typed |-> confirmed, shown |-> fresh,
                    previewed |-> seen]
<1>1. PICK s \in 1 .. Slots : procs' = [procs EXCEPT ![s] = new]
  BY DEF Start
<1>2. confirmed \in BOOLEAN /\ fresh \in BOOLEAN /\ seen \in BOOLEAN
  OBVIOUS
<1>3. /\ argv.op \in WipeOps /\ ~argv.dryRun => button = "run" /\ argv.yes /\ confirmed
      /\ button = "run" => seen
  BY DEF Admitted
<1>. HIDE DEF confirmed, fresh, seen
<1>4. new \in Processes
  BY <1>2 DEF Processes
<1>5. procs' \in [1 .. Slots -> Processes \cup {Idle}]
  BY <1>1, <1>4 DEF ProcsInv
<1>6. \A r \in 1 .. Slots : procs'[r] = IF r = s THEN new ELSE procs[r]
  BY <1>1 DEF ProcsInv
<1>7. ConfirmedTarget'
  <2>. SUFFICES ASSUME NEW r \in 1 .. Slots, procs'[r] # Idle,
                       Destroys(procs'[r])
                PROVE  procs'[r].button = "run" /\ procs'[r].argv.yes /\ procs'[r].typed
    BY DEF ConfirmedTarget, Alive, Destroys, WipeOps, DiskOps
  <2>1. CASE r = s
    BY <2>1, <1>6, <1>3 DEF Destroys
  <2>2. CASE r # s
    BY <2>2, <1>6 DEF ProcsInv, ConfirmedTarget, Alive
  <2>. QED  BY <2>1, <2>2
<1>8. PreviewIsRun'
  <2>. SUFFICES ASSUME NEW r \in 1 .. Slots, procs'[r] # Idle, procs'[r].button = "run"
                PROVE  procs'[r].previewed
    BY DEF PreviewIsRun, Alive
  <2>1. CASE r = s
    BY <2>1, <1>6, <1>3
  <2>2. CASE r # s
    BY <2>2, <1>6 DEF ProcsInv, PreviewIsRun, Alive
  <2>. QED  BY <2>1, <2>2
<1>. QED  BY <1>5, <1>7, <1>8 DEF ProcsInv

\* Processes that do not change keep what is said of them.
LEMMA ProcsStay ==
  ASSUME ProcsInv, UNCHANGED procs
  PROVE  ProcsInv'
BY DEF ProcsInv, ConfirmedTarget, PreviewIsRun, Alive, Destroys,
       WipeOps, DiskOps

\* A refresh only lists.
LEMMA RefreshKeeps ==
  ASSUME ProcsInv, Refresh, shown \in BOOLEAN
  PROVE  ProcsInv'
<1>. DEFINE c == [Default EXCEPT !.op = "list_only"]
            argv == BuildArgv(c, FALSE)
<1>1. /\ c.op = "list_only"
      /\ c \in Given
  BY DEF Default, Given
<1>2. IsBuilt(argv, c, FALSE)
  BY Built, Zenon
<1>. HIDE DEF c, argv
<1>3. argv \in Argvs /\ argv.op = "list_only"
  BY <1>1, <1>2, BuiltFields
<1>4. Admitted("refresh", argv)
  BY <1>3 DEF Admitted, WipeOps, DiskOps
<1>5. CASE Start("refresh", argv)
  BY <1>3, <1>4, <1>5, StartKeeps DEF Buttons
<1>6. CASE StartNothing
  BY <1>6, ProcsStay DEF StartNothing
<1>. QED  BY <1>5, <1>6 DEF Refresh, c, argv

\* Every way to a page behind the review page leads over it.
LEMMA ShowKeeps ==
  ASSUME WizardInv, NEW n \in 0 .. 5, Show(n),
         n >= 3 => step >= 3 \/ n = 3
  PROVE  WizardInv'
<1>1. PageInv'
  BY DEF WizardInv, PageInv, Show, BuildArgv
<1>2. ProcsInv'
  BY RefreshKeeps, ProcsStay DEF WizardInv, PageInv, Show, StartNothing
<1>. QED  BY <1>1, <1>2 DEF WizardInv

\* The dry-run button: a wipe is started with --dry-run.
LEMMA DryRunKeeps ==
  ASSUME WizardInv, PressDryRun
  PROVE  WizardInv'
<1>. DEFINE c == [settings EXCEPT !.dryRun = TRUE]
            argv == BuildArgv(c, FALSE)
<1>1. c \in Given /\ c.dryRun
  BY DEF WizardInv, PageInv, Chosen, Given
<1>2. IsBuilt(argv, c, FALSE)
  BY Built, Zenon
<1>. HIDE DEF c, argv
<1>3. argv \in Argvs /\ argv.op = c.op /\ (argv.op \in WipeOps => argv.dryRun)
  BY <1>1, <1>2, BuiltFields, Zenon
<1>4. Admitted("dryrun", argv)
  BY <1>3 DEF Admitted
<1>5. ProcsInv'
  BY <1>3, <1>4, StartKeeps DEF WizardInv, PageInv, PressDryRun, Buttons, c, argv
<1>6. PageInv'
  BY DEF WizardInv, PageInv, PressDryRun, pageVars, BuildArgv
<1>. QED  BY <1>5, <1>6 DEF WizardInv

\* The run button: the command is the one shown, and MayRun has compared what
\* was typed with its target.
LEMMA RunKeeps ==
  ASSUME WizardInv, PressRun
  PROVE  WizardInv'
<1>. DEFINE argv == BuildArgv(settings, TRUE)
<1>1. /\ settings \in Chosen /\ settings \in Given /\ step >= 3
      /\ preview = BuildArgv(settings, FALSE)
  BY DEF WizardInv, PageInv, Chosen, Given, PressRun
<1>2. IsBuilt(argv, settings, TRUE) /\ IsBuilt(preview, settings, FALSE)
  BY <1>1, Built, Zenon
<1>. HIDE DEF argv
<1>3. /\ argv \in Argvs /\ argv.op = settings.op
      /\ argv.dryRun <=> settings.dryRun /\ settings.op \in WipeOps
      /\ argv.yes <=> ~settings.dryRun /\ settings.op \in WipeOps
      /\ settings.op # "list_only" => argv.target = settings.target
  BY <1>1, <1>2, BuiltFields, Zenon
<1>4. [argv EXCEPT !.yes = FALSE] = preview
  BY <1>1, <1>2, BuiltAlike, Zenon
<1>5. ASSUME argv.op \in WipeOps, ~argv.dryRun
      PROVE  argv.yes /\ typed = Expected(argv)
  <2>1. settings.op \in WipeOps /\ ~settings.dryRun
    BY <1>3, <1>5
  <2>2. typed = Expected(settings)
    BY <2>1 DEF PressRun, MayRun
  <2>3. argv.target = settings.target
    BY <1>3, <2>1 DEF WipeOps, DiskOps
  <2>. QED  BY <1>3, <2>1, <2>2, <2>3 DEF Expected
<1>6. Admitted("run", argv)
  BY <1>4, <1>5 DEF Admitted
<1>7. ProcsInv'
  BY <1>3, <1>6, StartKeeps DEF WizardInv, PageInv, PressRun, Buttons, argv
<1>8. PageInv'
  BY DEF WizardInv, PageInv, PressRun, pageVars, BuildArgv
<1>. QED  BY <1>7, <1>8 DEF WizardInv

LEMMA EndKeeps ==
  ASSUME WizardInv, NEW s \in 1 .. Slots, End(s)
  PROVE  WizardInv'
<1>1. \A r \in 1 .. Slots : procs'[r] = IF r = s THEN Idle ELSE procs[r]
  BY DEF WizardInv, ProcsInv, End
<1>2. procs' \in [1 .. Slots -> Processes \cup {Idle}]
  BY DEF WizardInv, ProcsInv, End
<1>3. \A r \in Alive' : r \in Alive /\ procs'[r] = procs[r]
  BY <1>1 DEF Alive, Idle
<1>4. ConfirmedTarget' /\ PreviewIsRun'
  BY <1>3 DEF WizardInv, ProcsInv, ConfirmedTarget, PreviewIsRun,
              Destroys, WipeOps, DiskOps
<1>5. PageInv'
  BY DEF WizardInv, PageInv, End, pageVars, BuildArgv
<1>. QED  BY <1>2, <1>4, <1>5 DEF WizardInv, ProcsInv

LEMMA PageKeeps ==
  ASSUME WizardInv,
         \/ Edit \/ Type \/ PressRefresh \/ PressNext
         \/ PressBack
  PROVE  WizardInv'
<1>1. CASE Edit
  <2>1. settings' \in Chosen
    BY <1>1 DEF Edit, WizardInv, PageInv, Chosen
  <2>2. shown' = (shown /\ settings' = settings)
    BY <1>1, Zenon DEF Edit
  <2>3. shown' \in BOOLEAN
    BY <2>2, Zenon
  <2>4. step' = step /\ (step = 1 \/ step = 2)
    BY <1>1, Zenon DEF Edit
  <2>5. step' \in 0 .. 5 /\ ~(step' >= 3)
    BY <2>4
  <2>6. PageInv'
    BY <2>1, <2>3, <2>5, Zenon DEF PageInv
  <2>. QED  BY <1>1, <2>6, ProcsStay DEF Edit, WizardInv
<1>2. CASE Type
  BY <1>2, ProcsStay DEF Type, WizardInv, PageInv, BuildArgv
<1>3. CASE PressRefresh
  BY <1>3, RefreshKeeps DEF PressRefresh, pageVars, WizardInv, PageInv,
                           BuildArgv
<1>4. CASE PressNext
  <2>1. step + 1 \in 0 .. 5 /\ (step + 1 >= 3 => step >= 3 \/ step + 1 = 3)
    BY <1>4 DEF PressNext, WizardInv, PageInv
  <2>. QED  BY <1>4, <2>1, ShowKeeps DEF PressNext
<1>5. CASE PressBack
  <2>1. step - 1 \in 0 .. 5 /\ (step - 1 >= 3 => step >= 3)
    BY <1>5 DEF PressBack, WizardInv, PageInv
  <2>. QED  BY <1>5, <2>1, ShowKeeps DEF PressBack
<1>. QED  BY <1>1, <1>2, <1>3, <1>4, <1>5

\* Each step of the wizard, its processes and its timer keeps the invariant.
THEOREM WizardInvariance ==
  WizardSpec => []WizardInv
<1>1. WizardInit => WizardInv
  <2>. SUFFICES ASSUME WizardInit PROVE WizardInv
    OBVIOUS
  <2>1. settings = Default /\ step = 0 /\ shown = FALSE
    BY Zenon DEF WizardInit
  <2>2. Default \in Chosen
    BY DEF Default, Chosen
  <2>3. step \in 0 .. 5 /\ ~(step >= 3)
    BY <2>1
  <2>4. PageInv
    BY <2>1, <2>2, <2>3, Zenon DEF PageInv
  <2>5. /\ procs = [k \in 1 .. Slots |-> Idle]
        /\ \A s \in 1 .. Slots : procs[s] = Idle
    BY DEF WizardInit
  <2>. QED  BY <2>4, <2>5 DEF WizardInv, ProcsInv, ConfirmedTarget, PreviewIsRun,
                             Alive
<1>2. WizardInv /\ [WizardNext]_wizardVars => WizardInv'
  <2>. SUFFICES ASSUME WizardInv, [WizardNext]_wizardVars PROVE WizardInv'
    OBVIOUS
  <2>1. CASE User
    BY <2>1, PageKeeps, DryRunKeeps, RunKeeps DEF User
  <2>2. ASSUME NEW s \in 1 .. Slots, End(s) PROVE WizardInv'
    BY <2>2, EndKeeps
  <2>3. CASE Drain \/ UNCHANGED wizardVars
    BY <2>3, ProcsStay DEF Drain, wizardVars, pageVars, WizardInv, PageInv,
                           BuildArgv
  <2>. QED  BY <2>1, <2>2, <2>3 DEF WizardNext
<1>. QED  BY <1>1, <1>2, PTL DEF WizardSpec

\* Whatever the way through the pages, and with any number of processes, a
\* command that may destroy something was started by Run, and what had been
\* typed names the target in its arguments (_run_wipe).
THEOREM Confirmed ==
  WizardSpec => []ConfirmedTarget
<1>1. WizardInv => ConfirmedTarget
  BY DEF WizardInv, ProcsInv
<1>. QED  BY <1>1, WizardInvariance, PTL

\* What Run starts is the command that the review page last showed, plus
\* --yes: settings do not change behind the preview.
THEOREM Previewed ==
  WizardSpec => []PreviewIsRun
<1>1. WizardInv => PreviewIsRun
  BY DEF WizardInv, ProcsInv
<1>. QED  BY <1>1, WizardInvariance, PTL

-----------------------------------------------------------------------------
\* Why the strip runs: a process has still to end, or its end to be read.
StripCause ==
  /\ queue \in Seq(Buttons)
  /\ running => Alive # {} \/ queue # <<>>

\* What Start does to the strip.
LEMMA StartCauses ==
  ASSUME ProcsInv, StripCause, NEW button \in Buttons, NEW argv, Start(button, argv)
  PROVE  StripCause'
<1>. DEFINE new == [button |-> button, argv |-> argv,
                     typed |-> button = "run" /\ typed = Expected(argv),
                     shown |-> button = "run" /\ shown,
                     previewed |-> button = "run" /\ [argv EXCEPT !.yes = FALSE] = preview]
<1>1. PICK s \in 1 .. Slots : procs' = [procs EXCEPT ![s] = new]
  BY DEF Start
<1>2. procs'[s].button = button
  <2>1. new.button = button
    OBVIOUS
  <2>. QED  BY <1>1, <2>1 DEF ProcsInv
<1>3. procs'[s] # Idle
  BY <1>2 DEF Idle, Buttons
<1>4. s \in Alive'
  BY <1>3 DEF Alive
<1>5. queue' = queue
  BY DEF Start
<1>. QED  BY <1>4, <1>5 DEF StripCause

LEMMA NothingCauses ==
  ASSUME StripCause, UNCHANGED <<procs, queue, running>>
  PROVE  StripCause'
BY DEF StripCause, Alive

LEMMA UserCauses ==
  ASSUME ProcsInv, StripCause, User
  PROVE  StripCause'
<1>1. ASSUME Refresh PROVE StripCause'
  BY <1>1, StartCauses, NothingCauses DEF Refresh, StartNothing, Buttons
<1>2. ASSUME NEW n, Show(n) PROVE StripCause'
  BY <1>1, <1>2, NothingCauses DEF Show, StartNothing
<1>3. CASE Edit \/ Type
  BY <1>3, NothingCauses DEF Edit, Type
<1>4. CASE PressRefresh
  BY <1>4, <1>1 DEF PressRefresh
<1>5. CASE PressNext \/ PressBack
  BY <1>5, <1>2 DEF PressNext, PressBack
<1>6. CASE PressDryRun \/ PressRun
  BY <1>6, StartCauses DEF PressDryRun, PressRun, Buttons
<1>. QED  BY <1>3, <1>4, <1>5, <1>6 DEF User

\* An end leaves its message.
LEMMA EndCauses ==
  ASSUME ProcsInv, StripCause, NEW s \in 1 .. Slots, End(s)
  PROVE  StripCause'
<1>1. procs[s] \in Processes
  BY DEF End, ProcsInv
<1>2. procs[s].button \in Buttons
  BY <1>1 DEF Processes
<1>3. queue' = Append(queue, procs[s].button)
  BY DEF End
<1>4. queue' \in Seq(Buttons) /\ queue' # <<>>
  BY <1>2, <1>3 DEF StripCause
<1>. QED  BY <1>4 DEF StripCause

\* With any number of processes, the strip runs only while one has still to
\* end or its "done" lies in the queue, where the next run of the timer finds
\* it (_start_progress, run_interactive, _drain_output).
THEOREM StripHasCause == WizardSpec => [](running => Alive # {} \/ queue # <<>>)
<1>1. WizardInit => StripCause
  <2>1. WizardInit => queue = <<>> /\ running = FALSE
    BY Zenon DEF WizardInit
  <2>2. <<>> \in Seq(Buttons)
    OBVIOUS
  <2>. QED  BY <2>1, <2>2 DEF StripCause
<1>2. WizardInv /\ StripCause /\ [WizardNext]_wizardVars => StripCause'
  <2>. SUFFICES ASSUME WizardInv, StripCause, [WizardNext]_wizardVars PROVE StripCause'
    OBVIOUS
  <2>1. CASE User
    BY <2>1, UserCauses DEF WizardInv
  <2>2. ASSUME NEW s \in 1 .. Slots, End(s) PROVE StripCause'
    BY <2>2, EndCauses DEF WizardInv
  <2>3. CASE Drain
    BY <2>3 DEF Drain, StripCause
  <2>4. CASE UNCHANGED wizardVars
    BY <2>4, NothingCauses DEF wizardVars
  <2>. QED  BY <2>1, <2>2, <2>3, <2>4 DEF WizardNext
<1>3. StripCause => (running => Alive # {} \/ queue # <<>>)
  BY DEF StripCause
<1>. QED  BY <1>1, <1>2, <1>3, WizardInvariance, PTL DEF WizardSpec
=============================================================================
