------------------------------ MODULE WinPwrite ------------------------------
(***************************************************************************)
(* platform_pwrite of platform_win.c with win_write_chunk: a write of any  *)
(* length, made of WriteFile calls that may fail, write less than asked,   *)
(* or nothing.  A failed or empty call is repeated with half the length,   *)
(* a limited number of times.  The workers of one pass call it at the same *)
(* time, for extents that do not overlap, and share g_last_io_error.       *)
(*                                                                         *)
(* Positions and lengths are counted in sectors, in which the unbuffered   *)
(* handle writes; a DWORD holds every length, so its cap is left out.      *)
(***************************************************************************)
EXTENDS OwArith

CONSTANTS
  Writers,   \* the threads
  First,     \* First[w]: where w's extent starts
  Length,    \* Length[w]: its length, in sectors
  Tries,     \* attempts per chunk; 8 in the code
  Direct     \* dev->direct_io

ASSUME PwriteAssumption ==
  /\ First \in [Writers -> Nat] /\ Length \in [Writers -> Nat \ {0}]
  /\ Tries \in Nat \ {0} /\ Direct \in BOOLEAN

VARIABLES
  pc,         \* pc[w]: "enter", "outer", "try", "judge", "empty", "advance", "returned"
  pos,        \* pos[w]: next sector to write
  chunk,      \* chunk[w]: length of the next WriteFile
  tries,      \* tries[w]: attempts left for this chunk
  written,    \* written[w]: sectors the last successful WriteFile wrote
  lastError,  \* g_last_io_error: "none", "denied", "other", "partial"
  disk,       \* the sectors overwritten
  failures,   \* history: failures[w]: WriteFile calls that failed or wrote nothing
  ret         \* ret[w]: "running", "ok" or "fail"

vars == <<pc, pos, chunk, tries, written, lastError, disk, failures, ret>>

Extent(w) == Bytes(First[w], First[w] + Length[w])
Remaining(w) == First[w] + Length[w] - pos[w]

Init ==
  /\ pc = [w \in Writers |-> "enter"] /\ pos = First
  /\ chunk = [w \in Writers |-> 0] /\ tries = [w \in Writers |-> 0]
  /\ written = [w \in Writers |-> 0] /\ lastError = "none" /\ disk = {}
  /\ failures = [w \in Writers |-> 0]
  /\ ret = [w \in Writers |-> "running"]

Goto(w, from, to) == pc[w] = from /\ pc' = [pc EXCEPT ![w] = to]
Return(w, from, result) == Goto(w, from, "returned") /\ ret' = [ret EXCEPT ![w] = result]

\* Every call forgets the last error, whoever's it was.
Enter(w) ==
  /\ Goto(w, "enter", "outer") /\ lastError' = "none"
  /\ UNCHANGED <<pos, chunk, tries, written, disk, failures, ret>>

\* The outer loop: all that remains is the next chunk.
Outer(w) ==
  /\ IF Remaining(w) > 0
     THEN /\ Goto(w, "outer", "try") /\ UNCHANGED ret
          /\ chunk' = [chunk EXCEPT ![w] = Remaining(w)]
          /\ tries' = [tries EXCEPT ![w] = Tries]
          /\ written' = [written EXCEPT ![w] = 0]
     ELSE Return(w, "outer", "ok") /\ UNCHANGED <<chunk, tries, written>>
  /\ UNCHANGED <<pos, lastError, disk, failures>>

\* win_write_chunk, while tries are left.
WriteOk(w) ==
  /\ pc[w] = "try" /\ tries[w] > 0
  /\ \E n \in 0 .. chunk[w] :
       /\ written' = [written EXCEPT ![w] = n]
       /\ disk' = disk \cup Bytes(pos[w], pos[w] + n)
       /\ failures' = [failures EXCEPT ![w] = IF n = 0 THEN @ + 1 ELSE @]
       /\ Goto(w, "try", IF n = 0 THEN "empty" ELSE "advance")
  /\ tries' = [tries EXCEPT ![w] = @ - 1]
  /\ UNCHANGED <<pos, chunk, lastError, ret>>

\* A failed call may have written some sectors, but does not say how many.
WriteError(w) ==
  /\ Goto(w, "try", "judge") /\ tries[w] > 0
  /\ \E n \in 0 .. chunk[w] : disk' = disk \cup Bytes(pos[w], pos[w] + n)
  /\ lastError' \in {"denied", "other"}
  /\ failures' = [failures EXCEPT ![w] = @ + 1]
  /\ tries' = [tries EXCEPT ![w] = @ - 1]
  /\ UNCHANGED <<pos, chunk, written, ret>>

OutOfTries(w) ==
  /\ Goto(w, "try", "advance") /\ tries[w] = 0
  /\ UNCHANGED <<pos, chunk, tries, written, lastError, disk, failures, ret>>

\* The error is read back from the global.  Only an unbuffered write is
\* repeated, with half the length.
Judge(w) ==
  /\ IF lastError = "denied" \/ chunk[w] <= 1 \/ ~Direct
     THEN Return(w, "judge", "fail") /\ UNCHANGED chunk
     ELSE /\ Goto(w, "judge", "try") /\ chunk' = [chunk EXCEPT ![w] = @ \div 2]
          /\ UNCHANGED ret
  /\ UNCHANGED <<pos, tries, written, lastError, disk, failures>>

Empty(w) ==
  /\ lastError' = "partial"
  /\ IF chunk[w] <= 1 THEN Return(w, "empty", "fail") /\ UNCHANGED chunk
     ELSE /\ Goto(w, "empty", "try") /\ chunk' = [chunk EXCEPT ![w] = @ \div 2]
          /\ UNCHANGED ret
  /\ UNCHANGED <<pos, tries, written, disk, failures>>

\* Mutants of Advance: on by the length asked for, not the length written;
\* a short write taken for a failure; out of tries, the chunk is begun anew.
AdvanceShort(w) ==
  /\ IF written[w] < chunk[w]
     THEN Return(w, "advance", "fail") /\ lastError' = "partial" /\ UNCHANGED pos
     ELSE Goto(w, "advance", "outer") /\ pos' = [pos EXCEPT ![w] = @ + written[w]]
          /\ UNCHANGED <<lastError, ret>>
  /\ UNCHANGED <<chunk, tries, written, disk, failures>>
AdvanceChunk(w) ==
  /\ IF written[w] = 0
     THEN Return(w, "advance", "fail") /\ lastError' = "partial" /\ UNCHANGED pos
     ELSE Goto(w, "advance", "outer") /\ pos' = [pos EXCEPT ![w] = @ + chunk[w]]
          /\ UNCHANGED <<lastError, ret>>
  /\ UNCHANGED <<chunk, tries, written, disk, failures>>
AdvanceAnew(w) ==
  /\ Goto(w, "advance", "outer") /\ pos' = [pos EXCEPT ![w] = @ + written[w]]
  /\ failures' = [failures EXCEPT ![w] = 0]
  /\ UNCHANGED <<lastError, ret, chunk, tries, written, disk>>

\* After the inner loop: nothing written is a failure, else on to the rest.
Advance(w) ==
  /\ IF written[w] = 0
     THEN Return(w, "advance", "fail") /\ lastError' = "partial" /\ UNCHANGED pos
     ELSE Goto(w, "advance", "outer") /\ pos' = [pos EXCEPT ![w] = @ + written[w]]
          /\ UNCHANGED <<lastError, ret>>
  /\ UNCHANGED <<chunk, tries, written, disk, failures>>

Writer(w) ==
  \/ Enter(w) \/ Outer(w) \/ WriteOk(w) \/ WriteError(w) \/ OutOfTries(w)
  \/ Judge(w) \/ Empty(w) \/ Advance(w)

Ended == (\A w \in Writers : pc[w] = "returned") /\ UNCHANGED vars

Next == (\E w \in Writers : Writer(w)) \/ Ended

Spec == Init /\ [][Next]_vars

\* Every WriteFile call returns and every thread runs.
FairSpec == Spec /\ \A w \in Writers : WF_vars(Writer(w))
-----------------------------------------------------------------------------
TypeOK ==
  /\ pc \in [Writers -> {"enter", "outer", "try", "judge", "empty", "advance", "returned"}]
  /\ pos \in [Writers -> Nat]
  /\ \A w \in Writers :
       /\ pos[w] <= First[w] + Length[w]
       /\ pc[w] \in {"try", "judge", "empty"} => chunk[w] \in 1 .. Remaining(w)
       /\ tries[w] \in 0 .. Tries
       /\ written[w] \in 0 .. chunk[w]
  /\ lastError \in {"none", "denied", "other", "partial"}
  /\ failures \in [Writers -> Nat]
  /\ ret \in [Writers -> {"running", "ok", "fail"}]

\* A call that returns 0 has written its whole extent, however the system cut
\* the write up and however often it failed in between; up to its position
\* every call has written what it says, and none writes outside its extent.
SuccessMeansWritten ==
  /\ \A w \in Writers :
       /\ ret[w] = "ok" => Extent(w) \subseteq disk
       /\ Bytes(First[w], pos[w]) \subseteq disk
  /\ disk \subseteq UNION { Extent(w) : w \in Writers }

\* A call gives up only after a WriteFile failed or wrote nothing, and it
\* never wastes more than Tries calls on one chunk.
FailsForCause ==
  \A w \in Writers :
    /\ ret[w] = "fail" => failures[w] > 0
    /\ failures[w] <= Tries * Length[w]

\* Every call returns: the retries are bounded.
CallsReturn == \A w \in Writers : <>(ret[w] # "running")
=============================================================================
