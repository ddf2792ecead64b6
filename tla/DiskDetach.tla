----------------------------- MODULE DiskDetach -----------------------------
(***************************************************************************)
(* platform_detach_disk_for_wipe of platform_win.c: the dismount passes,   *)
(* the removal of drive letters and the attempt to take the disk offline.  *)
(*                                                                         *)
(* A pass goes over the disk three times: by drive letter, by the volume   *)
(* names the system enumerates, and by the partition ids of the GPT.  To   *)
(* dismount a volume it must lock it, and only a volume that nobody else   *)
(* has open can be locked.  Every attempt opens a handle of its own and    *)
(* closes it again, so other programs may open a volume, which mounts it,  *)
(* or close it, between any two attempts.                                  *)
(***************************************************************************)
EXTENDS Integers, FiniteSets

\* DetachedWipe says what is assumed of these.
CONSTANTS
  Volumes,    \* the volumes on the disk, in the order they are enumerated
  Lettered,   \* those that have a drive letter when the detach starts
  GptIds      \* those that can be opened by their partition id

VARIABLES
  pc,         \* "letters", "volumes" or "gpt" (the stages of a pass), "passend",
              \* "remove", "offline", "returned"
  pass,       \* dismount passes begun, counted from 0 as in the code
  left,       \* volumes this stage has still to look at
  attempted,  \* attempts, over all passes
  dismounted, \* successful attempts, over all passes
  letters,    \* volumes that have a drive letter
  busy,       \* volumes another program has open
  mounted,    \* volumes with a mounted file system
  disk,       \* what the system says of the disk: "online" or "offline"
  offlined,   \* state->disk_offlined
  offError,   \* why the disk is not offline: "none", "unsupported", "error"
  gone,       \* history: volumes dismounted by this detach
  stuck,      \* history: volumes that could not be dismounted in this pass
  tried,      \* history: volumes attempted by letter in this pass
  skipped,    \* history: those whose letter the system gave no disk for, likewise
  verdict,    \* history: how platform_dismount_volumes_on_device came out; "unlisted"
              \* if it could not even list the letters
  ret         \* what the detach returned: "none", "ok", "fail"

volumeVars == <<letters, busy, mounted>>
diskVars == <<volumeVars, disk>>
countVars == <<attempted, dismounted>>
histVars == <<gone, stuck, tried, skipped>>
vars == <<pc, pass, left, countVars, diskVars, offlined, offError, histVars, verdict, ret>>

Init ==
  /\ pc = "letters" /\ pass = 0 /\ left = Volumes
  /\ attempted = 0 /\ dismounted = 0
  /\ letters = Lettered /\ busy \in SUBSET Volumes
  /\ mounted \in { m \in SUBSET Volumes : busy \subseteq m }
  /\ disk = "online" /\ offlined = FALSE /\ offError = "none"
  /\ gone = {} /\ stuck = {} /\ tried = {} /\ skipped = {}
  /\ verdict = "none" /\ ret = "none"

\* The volume the loop of the current stage has come to.
Current(v) == v \in left /\ \A w \in left : v <= w

\* An attempt, which counts: by letter, win_dismount_letter, whose second open
\* may fail as well; then win_dismount_handle: lock, dismount, force the
\* dismount.  The last two may be refused even after a lock.
Attempt(v) ==
  /\ attempted' = attempted + 1
  /\ \/ /\ v \notin busy
        /\ dismounted' = dismounted + 1
        /\ mounted' = mounted \ {v}
        /\ gone' = gone \cup {v} /\ UNCHANGED stuck
     \/ /\ stuck' = stuck \cup {v}
        /\ UNCHANGED <<dismounted, mounted, gone>>

Skip == UNCHANGED <<countVars, mounted, gone, stuck>>

\* GetLogicalDriveStrings fails: there will be no pass at all.
CannotList ==
  /\ pc = "letters" /\ pass = 0 /\ left = Volumes
  /\ pc' = "returned" /\ verdict' = "unlisted" /\ ret' = "fail"
  /\ UNCHANGED <<pass, left, countVars, diskVars, offlined, offError, histVars>>

\* The first loop of win_dismount_pass.  A letter is attempted if the system
\* says that it is on this disk; win_volume_disk_index may fail to find that
\* out, and then the letter is passed over and counts for nothing.
TryLetter(v) ==
  /\ pc = "letters" /\ Current(v)
  /\ left' = left \ {v}
  /\ \/ v \in letters /\ Attempt(v) /\ tried' = tried \cup {v} /\ UNCHANGED skipped
     \/ v \in letters /\ Skip /\ skipped' = skipped \cup {v} /\ UNCHANGED tried
     \/ v \notin letters /\ Skip /\ UNCHANGED <<tried, skipped>>
  /\ UNCHANGED <<pc, pass, letters, busy, disk, offlined, offError, verdict, ret>>

\* win_dismount_volumes_findfirst: a volume that cannot be opened is skipped
\* and counts for nothing.
TryVolume(v) ==
  /\ pc = "volumes" /\ Current(v)
  /\ left' = left \ {v}
  /\ Attempt(v) \/ Skip
  /\ UNCHANGED <<pc, pass, letters, busy, disk, offlined, offError, tried, skipped, verdict, ret>>

\* win_dismount_gpt_partitions, likewise.
TryGpt(v) ==
  /\ pc = "gpt" /\ Current(v)
  /\ left' = left \ {v}
  /\ (v \in GptIds /\ Attempt(v)) \/ Skip
  /\ UNCHANGED <<pc, pass, letters, busy, disk, offlined, offError, tried, skipped, verdict, ret>>

NextStage ==
  /\ left = {}
  /\ \/ pc = "letters" /\ pc' = "volumes" /\ left' = Volumes
     \/ pc = "volumes" /\ pc' = "gpt" /\ left' = Volumes
     \/ pc = "gpt" /\ pc' = "passend" /\ UNCHANGED left
  /\ UNCHANGED <<pass, countVars, diskVars, offlined, offError, histVars, verdict, ret>>

LastPass == 2

\* Mutants of EndPass: the letters go before the retry; the passes never end.
EndPassRemove ==
  /\ pc = "passend"
  /\ IF pass = LastPass \/ (attempted > 0 /\ dismounted >= attempted)
     THEN pc' = "remove" /\ UNCHANGED <<pass, left, stuck, tried, skipped, letters>>
     ELSE /\ pc' = "letters" /\ pass' = pass + 1 /\ left' = Volumes
          /\ stuck' = {} /\ tried' = {} /\ skipped' = {} /\ letters' = {}
  /\ UNCHANGED <<countVars, busy, mounted, disk, offlined, offError, gone, verdict, ret>>
EndPassForever ==
  /\ pc = "passend"
  /\ IF attempted > 0 /\ dismounted >= attempted
     THEN pc' = "remove" /\ UNCHANGED <<left, stuck, tried, skipped>>
     ELSE pc' = "letters" /\ left' = Volumes /\ stuck' = {} /\ tried' = {} /\ skipped' = {}
  /\ attempted' = 0 /\ dismounted' = 0
  /\ UNCHANGED <<pass, diskVars, offlined, offError, gone, verdict, ret>>

\* The test after a pass: go on with the letters, or retry.
EndPass ==
  /\ pc = "passend"
  /\ IF pass = LastPass \/ (attempted > 0 /\ dismounted >= attempted)
     THEN pc' = "remove" /\ UNCHANGED <<pass, left, stuck, tried, skipped>>
     ELSE /\ pc' = "letters" /\ pass' = pass + 1 /\ left' = Volumes
          /\ stuck' = {} /\ tried' = {} /\ skipped' = {}
  /\ UNCHANGED <<countVars, diskVars, offlined, offError, gone, verdict, ret>>

\* Mutant of AllDismounted: one volume is enough.
AllDismountedAny == attempted > 0 /\ dismounted > 0
AllDismounted == attempted > 0 /\ dismounted >= attempted

\* win_remove_letters_on_disk, in which any single removal may fail, and the
\* verdict on the passes.
RemoveLetters ==
  /\ pc = "remove"
  /\ letters' \in SUBSET letters
  /\ IF AllDismounted THEN verdict' = "ok" /\ pc' = "offline" /\ UNCHANGED ret
     ELSE verdict' = "fail" /\ pc' = "returned" /\ ret' = "fail"
  /\ UNCHANGED <<pass, left, countVars, busy, mounted, disk, offlined, offError, histVars>>

\* Mutant of TakeOffline: whatever the error, it is only a warning.
TakeOfflineWarns ==
  /\ pc = "offline" /\ pc' = "returned" /\ ret' = "ok"
  /\ \/ /\ disk' = "offline" /\ offlined' = TRUE
        /\ busy' = {} /\ mounted' = {}
        /\ UNCHANGED offError
     \/ /\ offError' \in {"unsupported", "error"}
        /\ UNCHANGED <<disk, offlined, busy, mounted>>
  /\ UNCHANGED <<pass, left, countVars, letters, histVars, verdict>>

\* platform_set_disk_offline: taking the disk offline dismounts what is left;
\* an error that means "not supported" is a warning, any other fails.
TakeOffline ==
  /\ pc = "offline"
  /\ \/ /\ disk' = "offline" /\ offlined' = TRUE /\ ret' = "ok"
        /\ busy' = {} /\ mounted' = {}
        /\ UNCHANGED offError
     \/ /\ offError' = "unsupported" /\ ret' = "ok"
        /\ UNCHANGED <<disk, offlined, busy, mounted>>
     \/ /\ offError' = "error" /\ ret' = "fail"
        /\ UNCHANGED <<disk, offlined, busy, mounted>>
  /\ pc' = "returned"
  /\ UNCHANGED <<pass, left, countVars, letters, histVars, verdict>>

Detach ==
  \/ \E v \in Volumes : TryLetter(v) \/ TryVolume(v) \/ TryGpt(v)
  \/ CannotList \/ NextStage \/ EndPass \/ RemoveLetters \/ TakeOffline

(***************************************************************************)
(* The other programs.                                                     *)
(***************************************************************************)

AppOpens(v) ==
  /\ disk = "online" /\ v \notin busy
  /\ busy' = busy \cup {v} /\ mounted' = mounted \cup {v}
  /\ UNCHANGED <<pc, pass, left, countVars, letters, disk, offlined, offError, histVars,
                 verdict, ret>>

AppCloses(v) ==
  /\ v \in busy /\ busy' = busy \ {v}
  /\ UNCHANGED <<pc, pass, left, countVars, letters, mounted, disk, offlined, offError, histVars,
                 verdict, ret>>

Apps == \E v \in Volumes : AppOpens(v) \/ AppCloses(v)

Ended == pc = "returned" /\ UNCHANGED vars

Next == Detach \/ Apps \/ Ended

Spec == Init /\ [][Next]_vars
-----------------------------------------------------------------------------
TypeOK ==
  /\ pc \in {"letters", "volumes", "gpt", "passend", "remove", "offline", "returned"}
  /\ pass \in 0 .. LastPass /\ left \subseteq Volumes
  /\ dismounted \in 0 .. attempted
  /\ attempted \in 0 .. 3 * (LastPass + 1) * Cardinality(Volumes)
  /\ letters \subseteq Lettered /\ busy \subseteq mounted /\ mounted \subseteq Volumes
  /\ disk \in {"online", "offline"} /\ offlined \in BOOLEAN
  /\ offError \in {"none", "unsupported", "error"}
  /\ gone \subseteq Volumes /\ stuck \subseteq Volumes /\ tried \subseteq Lettered
  /\ skipped \subseteq Lettered
  /\ verdict \in {"none", "ok", "fail", "unlisted"} /\ ret \in {"none", "ok", "fail"}

\* A dismount that succeeds has dismounted at least one volume, has seen no
\* attempt of its last pass fail, and has dismounted every volume with a drive
\* letter except those the last pass could not learn the disk of: whoever
\* opened and closed volumes meanwhile.
OkMeansDismounted ==
  verdict = "ok" => gone # {} /\ stuck = {} /\ Lettered \ skipped \subseteq gone

\* "Lock/dismount before removing letters": every pass, retries included, finds
\* each letter the disk came with still there, to attempt or to pass over.
LettersOutliveRetries ==
  pc \in {"volumes", "gpt", "passend"} => tried \cup skipped = Lettered

(***************************************************************************)
(* What the messages and the documentation say and the code does not do.   *)
(***************************************************************************)

\* A retry can succeed: after a pass that dismounted every volume it tried,
\* the dismount is not reported as a failure.
RetryCanSucceed == verdict = "fail" => stuck # {} \/ attempted = 0

\* "could not dismount all volumes" is only said of a disk with a volume that
\* is mounted or could not be dismounted.
ErrorIsTrue == verdict = "fail" => mounted # {} \/ stuck # {}

\* A disk that is to be wiped has had all its volumes dismounted.
AllVolumesDismounted == verdict = "ok" => gone = Volumes
=============================================================================
