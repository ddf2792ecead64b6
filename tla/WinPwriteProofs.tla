--------------------------- MODULE WinPwriteProofs ---------------------------
(***************************************************************************)
(* Proofs about WinPwrite, for any number of writers, any extents and any  *)
(* number of attempts.                                                     *)
(*                                                                         *)
(* WriterInv describes one call.  Its last part counts: a call has wasted  *)
(* at most Tries attempts for every sector it has moved on, and those of   *)
(* the chunk at hand.  The steps of one writer leave the others' alone     *)
(* (OnlyWriter), but for the disk, which only ever gains sectors.          *)
(***************************************************************************)
EXTENDS WinPwrite, TLAPS

Steps == {"enter", "outer", "try", "judge", "empty", "advance", "returned"}

Funs ==
  /\ pc \in [Writers -> Steps] /\ pos \in [Writers -> Nat]
  /\ chunk \in [Writers -> Nat] /\ tries \in [Writers -> Nat]
  /\ written \in [Writers -> Nat] /\ failures \in [Writers -> Nat]
  /\ ret \in [Writers -> {"running", "ok", "fail"}]
  /\ lastError \in {"none", "denied", "other", "partial"}

Budget(w) == Tries * (pos[w] - First[w])

WriterInv(w) ==
  /\ First[w] <= pos[w] /\ pos[w] <= First[w] + Length[w]
  /\ Bytes(First[w], pos[w]) \subseteq disk
  /\ tries[w] <= Tries /\ written[w] <= chunk[w]
  /\ pc[w] = "returned" <=> ret[w] # "running"
  /\ ret[w] = "ok" => pos[w] = First[w] + Length[w]
  /\ ret[w] = "fail" => failures[w] > 0
  /\ pc[w] \in {"try", "judge", "empty", "advance"} => chunk[w] \in 1 .. Remaining(w)
  /\ pc[w] \in {"try", "judge", "empty"} => written[w] = 0
  /\ pc[w] = "try" /\ tries[w] < Tries => failures[w] > 0
  /\ pc[w] \in {"judge", "empty"} => failures[w] > 0
  /\ pc[w] = "advance" /\ written[w] = 0 => failures[w] > 0
  /\ pc[w] = "advance" => Bytes(pos[w], pos[w] + written[w]) \subseteq disk
  /\ pc[w] \in {"enter", "outer"} => failures[w] <= Budget(w)
  /\ pc[w] \in {"try", "judge", "empty", "advance"} =>
       failures[w] <= Budget(w) + (Tries - tries[w])
  /\ failures[w] <= Tries * Length[w]

IInv ==
  /\ Funs
  /\ \A w \in Writers : WriterInv(w)
  /\ disk \subseteq UNION { Extent(w) : w \in Writers }

OnlyWriter(w) ==
  \A x \in Writers : x # w =>
    /\ pc'[x] = pc[x] /\ pos'[x] = pos[x] /\ chunk'[x] = chunk[x]
    /\ tries'[x] = tries[x] /\ written'[x] = written[x]
    /\ failures'[x] = failures[x] /\ ret'[x] = ret[x]

-----------------------------------------------------------------------------
LEMMA Constants ==
  ASSUME NEW w \in Writers
  PROVE  First[w] \in Nat /\ Length[w] \in Nat \ {0} /\ Tries \in Nat \ {0}
BY PwriteAssumption

\* Attempts wasted on a chunk are paid for by the sector gained, or given up.
LEMMA Paid ==
  ASSUME NEW n \in Nat, NEW a \in Nat, NEW b \in Nat, a < b, NEW t \in Nat, t <= n
  PROVE  n * a + (n - t) <= n * b
<1>1. n * (a + 1) <= n * b
  <2>1. a + 1 <= b
    OBVIOUS
  <2>. QED  BY <2>1
<1>2. n * (a + 1) = n * a + n
  OBVIOUS
<1>3. n * a \in Nat /\ n * b \in Nat
  OBVIOUS
<1>. QED  BY <1>1, <1>2, <1>3

\* What a writer has achieved stays so while others write.
LEMMA OthersInv ==
  ASSUME IInv, NEW w \in Writers, OnlyWriter(w), disk \subseteq disk',
         Funs', WriterInv(w)',
         disk' \subseteq UNION { Extent(x) : x \in Writers }
  PROVE  IInv'
<1>1. ASSUME NEW x \in Writers, x # w PROVE WriterInv(x)'
  <2>1. WriterInv(x)
    BY DEF IInv
  <2>2. /\ pc'[x] = pc[x] /\ pos'[x] = pos[x] /\ chunk'[x] = chunk[x]
        /\ tries'[x] = tries[x] /\ written'[x] = written[x]
        /\ failures'[x] = failures[x] /\ ret'[x] = ret[x]
    BY <1>1 DEF OnlyWriter
  <2>3. Budget(x)' = Budget(x) /\ Remaining(x)' = Remaining(x)
    BY <2>2 DEF Budget, Remaining
  <2>. QED  BY <2>1, <2>2, <2>3 DEF WriterInv
<1>2. \A x \in Writers : WriterInv(x)'
  BY <1>1
<1>3. (UNION { Extent(x) : x \in Writers })' = UNION { Extent(x) : x \in Writers }
  BY DEF Extent
<1>. QED  BY <1>2, <1>3 DEF IInv

\* Sectors written at the position of a chunk lie in the writer's extent.
LEMMA InExtent ==
  ASSUME IInv, NEW w \in Writers, NEW n \in Nat,
         n <= chunk[w], chunk[w] \in 1 .. Remaining(w)
  PROVE  Bytes(pos[w], pos[w] + n) \subseteq UNION { Extent(x) : x \in Writers }
<1>1. /\ First[w] \in Nat /\ Length[w] \in Nat /\ pos[w] \in Nat /\ First[w] <= pos[w]
      /\ pos[w] + n <= First[w] + Length[w]
  BY Constants DEF IInv, Funs, WriterInv, Remaining
<1>2. Bytes(pos[w], pos[w] + n) \subseteq Extent(w)
  BY <1>1 DEF Extent, Bytes
<1>. QED  BY <1>2

-----------------------------------------------------------------------------
LEMMA InitInv == Init => IInv
<1>. SUFFICES ASSUME Init PROVE IInv
  OBVIOUS
<1>1. Funs
  BY PwriteAssumption DEF Init, Funs, Steps
<1>2. ASSUME NEW w \in Writers PROVE WriterInv(w)
  <2>1. /\ First[w] \in Nat /\ Length[w] \in Nat \ {0} /\ Tries \in Nat \ {0}
        /\ pc[w] = "enter" /\ pos[w] = First[w] /\ chunk[w] = 0 /\ tries[w] = 0
        /\ written[w] = 0 /\ failures[w] = 0 /\ ret[w] = "running"
    BY Constants DEF Init
  <2>2. Bytes(First[w], First[w]) = {} /\ First[w] - First[w] = 0
    BY <2>1 DEF Bytes
  <2>3. 0 <= Tries * Length[w] /\ Budget(w) = 0
    BY <2>1, <2>2 DEF Budget
  <2>. QED  BY <2>1, <2>2, <2>3 DEF WriterInv
<1>. QED  BY <1>1, <1>2 DEF Init, IInv

LEMMA EnterInv == ASSUME IInv, NEW w \in Writers, Enter(w) PROVE IInv'
<1>1. /\ Funs /\ WriterInv(w) /\ pc[w] = "enter" /\ pc' = [pc EXCEPT ![w] = "outer"]
      /\ lastError' = "none"
      /\ UNCHANGED <<pos, chunk, tries, written, disk, failures, ret>>
  BY DEF IInv, Enter, Goto
<1>2. Funs' /\ OnlyWriter(w) /\ pc'[w] = "outer"
  BY <1>1 DEF Funs, OnlyWriter, Steps
<1>3. WriterInv(w)'
  BY <1>1, <1>2 DEF WriterInv, Budget, Remaining
<1>. QED  BY <1>1, <1>2, <1>3, OthersInv DEF IInv

LEMMA OuterInv == ASSUME IInv, NEW w \in Writers, Outer(w) PROVE IInv'
<1>1. Funs /\ WriterInv(w) /\ pc[w] = "outer" /\ UNCHANGED <<pos, lastError, disk, failures>>
  BY DEF IInv, Outer, Goto, Return
<1>2. /\ First[w] \in Nat /\ Length[w] \in Nat \ {0} /\ Tries \in Nat \ {0}
      /\ pos[w] \in Nat /\ failures[w] \in Nat /\ Budget(w)' = Budget(w)
      /\ Remaining(w)' = Remaining(w) /\ Remaining(w) \in Nat
  BY <1>1, Constants DEF Funs, WriterInv, Budget, Remaining
<1>3. CASE Remaining(w) > 0
  <2>1. /\ pc' = [pc EXCEPT ![w] = "try"] /\ UNCHANGED ret
        /\ chunk' = [chunk EXCEPT ![w] = Remaining(w)]
        /\ tries' = [tries EXCEPT ![w] = Tries]
        /\ written' = [written EXCEPT ![w] = 0]
    BY <1>3 DEF Outer, Goto
  <2>2. /\ Funs' /\ OnlyWriter(w)
        /\ pc'[w] = "try" /\ chunk'[w] = Remaining(w) /\ tries'[w] = Tries /\ written'[w] = 0
        /\ ret'[w] = ret[w] /\ pos'[w] = pos[w] /\ failures'[w] = failures[w]
    BY <1>1, <1>2, <2>1 DEF Funs, OnlyWriter, Steps
  <2>3. Budget(w) \in Int /\ Tries - Tries = 0
    BY <1>2 DEF Budget
  <2>4. WriterInv(w)'
    BY <1>1, <1>2, <1>3, <2>2, <2>3 DEF WriterInv
  <2>. QED  BY <1>1, <2>2, <2>4, OthersInv DEF IInv
<1>4. CASE ~(Remaining(w) > 0)
  <2>1. /\ pc' = [pc EXCEPT ![w] = "returned"] /\ ret' = [ret EXCEPT ![w] = "ok"]
        /\ UNCHANGED <<chunk, tries, written>>
    BY <1>4 DEF Outer, Return, Goto
  <2>2. Funs' /\ OnlyWriter(w) /\ pc'[w] = "returned" /\ ret'[w] = "ok"
    BY <1>1, <2>1 DEF Funs, OnlyWriter, Steps
  <2>3. pos[w] = First[w] + Length[w]
    BY <1>2, <1>4 DEF Remaining
  <2>4. WriterInv(w)'
    BY <1>1, <1>2, <2>1, <2>2, <2>3 DEF WriterInv
  <2>. QED  BY <1>1, <2>2, <2>4, OthersInv DEF IInv
<1>. QED  BY <1>3, <1>4

\* What the steps inside a chunk start from.
LEMMA InChunk ==
  ASSUME IInv, NEW w \in Writers, pc[w] \in {"try", "judge", "empty", "advance"}
  PROVE  /\ Funs /\ WriterInv(w)
         /\ First[w] \in Nat /\ Length[w] \in Nat \ {0} /\ Tries \in Nat \ {0}
         /\ pos[w] \in Nat /\ failures[w] \in Nat /\ tries[w] \in Nat
         /\ chunk[w] \in 1 .. Remaining(w) /\ Remaining(w) \in Nat
         /\ First[w] <= pos[w] /\ pos[w] < First[w] + Length[w]
         /\ Budget(w) \in Nat /\ tries[w] <= Tries
         /\ failures[w] <= Budget(w) + (Tries - tries[w])
         /\ Budget(w) + (Tries - tries[w]) <= Tries * Length[w]
<1>1. Funs /\ WriterInv(w)
  BY DEF IInv
<1>2. /\ First[w] \in Nat /\ Length[w] \in Nat \ {0} /\ Tries \in Nat \ {0}
      /\ pos[w] \in Nat /\ failures[w] \in Nat /\ tries[w] \in Nat
  BY <1>1, Constants DEF Funs
<1>3. chunk[w] \in 1 .. Remaining(w) /\ failures[w] <= Budget(w) + (Tries - tries[w])
      /\ First[w] <= pos[w] /\ pos[w] <= First[w] + Length[w] /\ tries[w] <= Tries
  BY <1>1 DEF WriterInv
<1>4. Remaining(w) \in Int /\ Remaining(w) = First[w] + Length[w] - pos[w]
  BY <1>2 DEF Remaining
<1>5. Remaining(w) \in Nat /\ pos[w] < First[w] + Length[w]
  BY <1>2, <1>3, <1>4
<1>6. PICK a \in Nat : a = pos[w] - First[w] /\ a < Length[w]
  BY <1>2, <1>3, <1>5
<1>7. Budget(w) = Tries * a /\ Tries * a \in Nat
  BY <1>2, <1>6 DEF Budget
<1>8. Tries * a + (Tries - tries[w]) <= Tries * Length[w]
  BY <1>2, <1>3, <1>6, Paid
<1>. QED  BY <1>1, <1>2, <1>3, <1>5, <1>7, <1>8

LEMMA WriteOkInv == ASSUME IInv, NEW w \in Writers, WriteOk(w) PROVE IInv'
<1>1. /\ pc[w] = "try" /\ tries[w] > 0 /\ tries' = [tries EXCEPT ![w] = @ - 1]
      /\ UNCHANGED <<pos, chunk, lastError, ret>>
  BY DEF WriteOk
<1>2. PICK n \in 0 .. chunk[w] :
         /\ written' = [written EXCEPT ![w] = n]
         /\ disk' = disk \cup Bytes(pos[w], pos[w] + n)
         /\ failures' = [failures EXCEPT ![w] = IF n = 0 THEN @ + 1 ELSE @]
         /\ pc' = [pc EXCEPT ![w] = IF n = 0 THEN "empty" ELSE "advance"]
  BY DEF WriteOk, Goto
<1>3. /\ Funs /\ WriterInv(w)
      /\ First[w] \in Nat /\ Length[w] \in Nat \ {0} /\ Tries \in Nat \ {0}
      /\ pos[w] \in Nat /\ failures[w] \in Nat /\ tries[w] \in Nat
      /\ chunk[w] \in 1 .. Remaining(w) /\ Remaining(w) \in Nat
      /\ Budget(w) \in Nat /\ tries[w] <= Tries
      /\ failures[w] <= Budget(w) + (Tries - tries[w])
      /\ Budget(w) + (Tries - tries[w]) <= Tries * Length[w]
      /\ Budget(w) + (Tries - (tries[w] - 1)) <= Tries * Length[w]
  <2>1. PICK a \in Nat : a = pos[w] - First[w] /\ a < Length[w]
    BY <1>1, InChunk
  <2>2. Tries * a + (Tries - (tries[w] - 1)) <= Tries * Length[w]
    <3>1. tries[w] - 1 \in Nat /\ tries[w] - 1 <= Tries /\ Tries \in Nat /\ Length[w] \in Nat
      BY <1>1, InChunk
    <3>. QED  BY <2>1, <3>1, Paid
  <2>. QED  BY <1>1, <2>1, <2>2, InChunk DEF Budget
<1>4. n \in Nat /\ n <= chunk[w] /\ chunk[w] \in Nat
  BY <1>3
<1>5. /\ Funs' /\ OnlyWriter(w)
      /\ pos'[w] = pos[w] /\ chunk'[w] = chunk[w] /\ ret'[w] = ret[w] /\ written'[w] = n
      /\ tries'[w] = tries[w] - 1
      /\ failures'[w] = IF n = 0 THEN failures[w] + 1 ELSE failures[w]
      /\ pc'[w] = IF n = 0 THEN "empty" ELSE "advance"
  <2>1. tries[w] - 1 \in Nat /\ failures[w] + 1 \in Nat
    BY <1>1, <1>3
  <2>. QED  BY <1>1, <1>2, <1>3, <1>4, <2>1 DEF Funs, OnlyWriter, Steps
<1>6. disk \subseteq disk' /\ Bytes(pos[w], pos[w] + n) \subseteq disk'
      /\ disk' \subseteq UNION { Extent(x) : x \in Writers }
  BY <1>2, <1>3, <1>4, InExtent DEF IInv
<1>7. Budget(w)' = Budget(w) /\ Remaining(w)' = Remaining(w)
  BY <1>5 DEF Budget, Remaining
<1>8. WriterInv(w)'
  <2>1. /\ failures'[w] <= Budget(w) + (Tries - (tries[w] - 1))
        /\ failures'[w] <= Tries * Length[w] /\ (n = 0 => failures'[w] > 0)
        /\ tries[w] - 1 <= Tries
    <3>1. Tries * Length[w] \in Nat
      BY <1>3
    <3>. QED  BY <1>3, <1>5, <3>1
  <2>2. ret'[w] = "running"
    BY <1>1, <1>3, <1>5 DEF WriterInv
  <2>3. /\ First[w] <= pos[w] /\ pos[w] <= First[w] + Length[w]
        /\ Bytes(First[w], pos[w]) \subseteq disk
    BY <1>3 DEF WriterInv
  <2>. QED
    BY <1>3, <1>4, <1>5, <1>6, <1>7, <2>1, <2>2, <2>3 DEF WriterInv
<1>. QED  BY <1>5, <1>6, <1>8, OthersInv

LEMMA WriteErrorInv == ASSUME IInv, NEW w \in Writers, WriteError(w) PROVE IInv'
<1>1. /\ pc[w] = "try" /\ tries[w] > 0 /\ tries' = [tries EXCEPT ![w] = @ - 1]
      /\ pc' = [pc EXCEPT ![w] = "judge"]
      /\ failures' = [failures EXCEPT ![w] = @ + 1]
      /\ lastError' \in {"denied", "other"}
      /\ UNCHANGED <<pos, chunk, written, ret>>
  BY DEF WriteError, Goto
<1>2. PICK n \in 0 .. chunk[w] : disk' = disk \cup Bytes(pos[w], pos[w] + n)
  BY DEF WriteError
<1>3. /\ Funs /\ WriterInv(w)
      /\ First[w] \in Nat /\ Length[w] \in Nat \ {0} /\ Tries \in Nat \ {0}
      /\ pos[w] \in Nat /\ failures[w] \in Nat /\ tries[w] \in Nat
      /\ chunk[w] \in 1 .. Remaining(w) /\ Remaining(w) \in Nat
      /\ Budget(w) \in Nat /\ tries[w] <= Tries
      /\ failures[w] <= Budget(w) + (Tries - tries[w])
      /\ Budget(w) + (Tries - (tries[w] - 1)) <= Tries * Length[w]
  <2>1. PICK a \in Nat : a = pos[w] - First[w] /\ a < Length[w]
    BY <1>1, InChunk
  <2>2. Tries * a + (Tries - (tries[w] - 1)) <= Tries * Length[w]
    <3>1. tries[w] - 1 \in Nat /\ tries[w] - 1 <= Tries /\ Tries \in Nat /\ Length[w] \in Nat
      BY <1>1, InChunk
    <3>. QED  BY <2>1, <3>1, Paid
  <2>. QED  BY <1>1, <2>1, <2>2, InChunk DEF Budget
<1>4. n \in Nat /\ n <= chunk[w]
  BY <1>3
<1>5. /\ Funs' /\ OnlyWriter(w)
      /\ pos'[w] = pos[w] /\ chunk'[w] = chunk[w] /\ ret'[w] = ret[w]
      /\ written'[w] = written[w] /\ tries'[w] = tries[w] - 1
      /\ failures'[w] = failures[w] + 1 /\ pc'[w] = "judge"
  <2>1. tries[w] - 1 \in Nat /\ failures[w] + 1 \in Nat
    BY <1>1, <1>3
  <2>. QED  BY <1>1, <1>3, <2>1 DEF Funs, OnlyWriter, Steps
<1>6. disk \subseteq disk' /\ disk' \subseteq UNION { Extent(x) : x \in Writers }
  BY <1>2, <1>3, <1>4, InExtent DEF IInv
<1>7. Budget(w)' = Budget(w) /\ Remaining(w)' = Remaining(w)
  BY <1>5 DEF Budget, Remaining
<1>8. WriterInv(w)'
  <2>1. /\ failures'[w] <= Budget(w) + (Tries - (tries[w] - 1))
        /\ failures'[w] <= Tries * Length[w] /\ failures'[w] > 0
        /\ tries[w] - 1 <= Tries
    <3>1. Tries * Length[w] \in Nat
      BY <1>3
    <3>. QED  BY <1>3, <1>5, <3>1
  <2>2. ret'[w] = "running" /\ written'[w] = 0 /\ written'[w] <= chunk'[w]
    BY <1>1, <1>3, <1>5 DEF WriterInv
  <2>3. /\ First[w] <= pos[w] /\ pos[w] <= First[w] + Length[w]
        /\ Bytes(First[w], pos[w]) \subseteq disk
    BY <1>3 DEF WriterInv
  <2>. QED
    BY <1>3, <1>5, <1>6, <1>7, <2>1, <2>2, <2>3 DEF WriterInv
<1>. QED  BY <1>5, <1>6, <1>8, OthersInv

LEMMA OutOfTriesInv == ASSUME IInv, NEW w \in Writers, OutOfTries(w) PROVE IInv'
<1>1. /\ pc[w] = "try" /\ tries[w] = 0 /\ pc' = [pc EXCEPT ![w] = "advance"]
      /\ UNCHANGED <<pos, chunk, tries, written, lastError, disk, failures, ret>>
  BY DEF OutOfTries, Goto
<1>2. Funs /\ WriterInv(w) /\ Tries \in Nat \ {0} /\ pos[w] \in Nat
  BY <1>1, InChunk
<1>3. Funs' /\ OnlyWriter(w) /\ pc'[w] = "advance"
  BY <1>1, <1>2 DEF Funs, OnlyWriter, Steps
<1>4. Budget(w)' = Budget(w) /\ Remaining(w)' = Remaining(w)
  BY <1>1 DEF Budget, Remaining
<1>5. written[w] = 0 /\ failures[w] > 0
  BY <1>1, <1>2 DEF WriterInv
<1>6. Bytes(pos[w], pos[w] + 0) = {}
  BY <1>2 DEF Bytes
<1>7. WriterInv(w)'
  BY <1>1, <1>2, <1>3, <1>4, <1>5, <1>6 DEF WriterInv
<1>. QED  BY <1>1, <1>3, <1>7, OthersInv DEF IInv

\* A chunk that is given up ends the call; one that is halved is tried again.
LEMMA RetryInv ==
  ASSUME IInv, NEW w \in Writers, pc[w] \in {"judge", "empty"}, Funs',
         UNCHANGED <<pos, tries, written, disk, failures>>,
         \/ /\ pc' = [pc EXCEPT ![w] = "returned"] /\ ret' = [ret EXCEPT ![w] = "fail"]
            /\ UNCHANGED chunk
         \/ /\ chunk[w] > 1 /\ pc' = [pc EXCEPT ![w] = "try"]
            /\ chunk' = [chunk EXCEPT ![w] = @ \div 2] /\ UNCHANGED ret
  PROVE  IInv'
<1>1. /\ Funs /\ WriterInv(w) /\ chunk[w] \in 1 .. Remaining(w) /\ Remaining(w) \in Nat
      /\ written[w] = 0 /\ failures[w] > 0
  BY InChunk DEF WriterInv
<1>2. Budget(w)' = Budget(w) /\ Remaining(w)' = Remaining(w)
  BY DEF Budget, Remaining
<1>3. OnlyWriter(w)
  BY <1>1 DEF Funs, OnlyWriter
<1>4. WriterInv(w)'
  <2>1. CASE pc' = [pc EXCEPT ![w] = "returned"] /\ ret' = [ret EXCEPT ![w] = "fail"]
             /\ UNCHANGED chunk
    <3>1. pc'[w] = "returned" /\ ret'[w] = "fail"
      BY <1>1, <2>1 DEF Funs
    <3>. QED  BY <1>1, <1>2, <2>1, <3>1 DEF WriterInv
  <2>2. CASE /\ chunk[w] > 1 /\ pc' = [pc EXCEPT ![w] = "try"]
             /\ chunk' = [chunk EXCEPT ![w] = @ \div 2] /\ UNCHANGED ret
    <3>1. pc'[w] = "try" /\ chunk'[w] = chunk[w] \div 2
      BY <1>1, <2>2 DEF Funs
    <3>2. chunk[w] \div 2 \in 1 .. Remaining(w)
      BY <1>1, <2>2
    <3>3. 0 <= chunk[w] \div 2
      BY <3>2
    <3>. QED  BY <1>1, <1>2, <2>2, <3>1, <3>2, <3>3 DEF WriterInv
  <2>. QED  BY <2>1, <2>2
<1>. QED  BY <1>3, <1>4, OthersInv DEF IInv

LEMMA JudgeInv == ASSUME IInv, NEW w \in Writers, Judge(w) PROVE IInv'
<1>1. pc[w] = "judge" /\ UNCHANGED <<pos, tries, written, lastError, disk, failures>>
  BY DEF Judge, Goto, Return
<1>2. Funs /\ chunk[w] \in 1 .. Remaining(w) /\ Remaining(w) \in Nat
  BY <1>1, InChunk
<1>3. \/ /\ pc' = [pc EXCEPT ![w] = "returned"] /\ ret' = [ret EXCEPT ![w] = "fail"]
         /\ UNCHANGED chunk
      \/ /\ chunk[w] > 1 /\ pc' = [pc EXCEPT ![w] = "try"]
         /\ chunk' = [chunk EXCEPT ![w] = @ \div 2] /\ UNCHANGED ret
  BY <1>2 DEF Judge, Goto, Return
<1>4. chunk[w] \div 2 \in Nat
  BY <1>2
<1>5. Funs'
  BY <1>1, <1>2, <1>3, <1>4 DEF Funs, Steps
<1>. QED  BY <1>1, <1>3, <1>5, RetryInv

LEMMA EmptyInv == ASSUME IInv, NEW w \in Writers, Empty(w) PROVE IInv'
<1>1. pc[w] = "empty" /\ lastError' = "partial"
      /\ UNCHANGED <<pos, tries, written, disk, failures>>
  BY DEF Empty, Goto, Return
<1>2. Funs /\ chunk[w] \in 1 .. Remaining(w) /\ Remaining(w) \in Nat
  BY <1>1, InChunk
<1>3. \/ /\ pc' = [pc EXCEPT ![w] = "returned"] /\ ret' = [ret EXCEPT ![w] = "fail"]
         /\ UNCHANGED chunk
      \/ /\ chunk[w] > 1 /\ pc' = [pc EXCEPT ![w] = "try"]
         /\ chunk' = [chunk EXCEPT ![w] = @ \div 2] /\ UNCHANGED ret
  BY <1>2 DEF Empty, Goto, Return
<1>4. chunk[w] \div 2 \in Nat
  BY <1>2
<1>5. Funs'
  BY <1>1, <1>2, <1>3, <1>4 DEF Funs, Steps
<1>. QED  BY <1>1, <1>3, <1>5, RetryInv

LEMMA AdvanceInv == ASSUME IInv, NEW w \in Writers, Advance(w) PROVE IInv'
<1>1. pc[w] = "advance" /\ UNCHANGED <<chunk, tries, written, disk, failures>>
  BY DEF Advance, Goto, Return
<1>2. /\ Funs /\ WriterInv(w)
      /\ First[w] \in Nat /\ Length[w] \in Nat \ {0} /\ Tries \in Nat \ {0}
      /\ pos[w] \in Nat /\ failures[w] \in Nat /\ tries[w] \in Nat /\ tries[w] <= Tries
      /\ chunk[w] \in 1 .. Remaining(w) /\ Remaining(w) \in Nat
      /\ First[w] <= pos[w] /\ pos[w] < First[w] + Length[w]
      /\ failures[w] <= Budget(w) + (Tries - tries[w])
  BY <1>1, InChunk
<1>3. CASE written[w] = 0
  <2>1. /\ pc' = [pc EXCEPT ![w] = "returned"] /\ ret' = [ret EXCEPT ![w] = "fail"]
        /\ lastError' = "partial" /\ UNCHANGED pos
    BY <1>3 DEF Advance, Return, Goto
  <2>2. Funs' /\ OnlyWriter(w) /\ pc'[w] = "returned" /\ ret'[w] = "fail"
    BY <1>1, <1>2, <2>1 DEF Funs, OnlyWriter, Steps
  <2>3. WriterInv(w)'
    BY <1>1, <1>2, <1>3, <2>1, <2>2 DEF WriterInv
  <2>. QED  BY <1>1, <2>2, <2>3, OthersInv DEF IInv
<1>4. CASE written[w] # 0
  <2>1. /\ pc' = [pc EXCEPT ![w] = "outer"] /\ UNCHANGED <<lastError, ret>>
        /\ pos' = [pos EXCEPT ![w] = @ + written[w]]
    BY <1>4 DEF Advance, Goto
  <2>2. written[w] \in Nat \ {0} /\ written[w] <= chunk[w]
    BY <1>2, <1>4 DEF Funs, WriterInv
  <2>3. /\ Funs' /\ OnlyWriter(w)
        /\ pc'[w] = "outer" /\ pos'[w] = pos[w] + written[w] /\ ret'[w] = ret[w]
    <3>1. pos[w] + written[w] \in Nat
      BY <1>2, <2>2
    <3>. QED  BY <1>1, <1>2, <2>1, <2>2, <3>1 DEF Funs, OnlyWriter, Steps
  <2>4. pos'[w] <= First[w] + Length[w] /\ First[w] <= pos'[w]
    BY <1>2, <2>2, <2>3 DEF Remaining
  <2>5. Bytes(First[w], pos'[w]) \subseteq disk'
    <3>1. Bytes(First[w], pos[w]) \subseteq disk
          /\ Bytes(pos[w], pos[w] + written[w]) \subseteq disk
      BY <1>1, <1>2 DEF WriterInv
    <3>2. Bytes(First[w], pos'[w])
            \subseteq Bytes(First[w], pos[w]) \cup Bytes(pos[w], pos[w] + written[w])
      BY <1>2, <2>2, <2>3 DEF Bytes
    <3>. QED  BY <1>1, <3>1, <3>2
  <2>6. failures'[w] <= Budget(w)'
    <3>1. PICK a \in Nat, b \in Nat :
             a = pos[w] - First[w] /\ b = pos'[w] - First[w] /\ a < b
      <4>1. pos[w] - First[w] \in Nat /\ pos'[w] - First[w] \in Nat
            /\ pos[w] - First[w] < pos'[w] - First[w]
        BY <1>2, <2>2, <2>3
      <4>. QED  BY <4>1
    <3>2. Tries * a + (Tries - tries[w]) <= Tries * b
      BY <1>2, <3>1, Paid
    <3>3. Budget(w) = Tries * a /\ Budget(w)' = Tries * b
      BY <3>1 DEF Budget
    <3>4. Tries * a \in Nat /\ Tries * b \in Nat
      BY <1>2, <3>1
    <3>. QED  BY <1>1, <1>2, <3>2, <3>3, <3>4
  <2>7. ret[w] = "running" /\ tries[w] <= Tries /\ failures[w] <= Tries * Length[w]
    BY <1>1, <1>2 DEF WriterInv
  <2>8. WriterInv(w)'
    BY <1>1, <2>2, <2>3, <2>4, <2>5, <2>6, <2>7 DEF WriterInv
  <2>. QED  BY <1>1, <2>3, <2>8, OthersInv DEF IInv
<1>. QED  BY <1>3, <1>4

LEMMA StutterInv == IInv /\ UNCHANGED vars => IInv'
BY DEF IInv, Funs, WriterInv, Budget, Remaining, Extent, vars

LEMMA NextInv == IInv /\ [Next]_vars => IInv'
BY EnterInv, OuterInv, WriteOkInv, WriteErrorInv, OutOfTriesInv, JudgeInv, EmptyInv,
   AdvanceInv, StutterInv DEF Next, Writer, Ended

THEOREM Invariance == Spec => []IInv
BY InitInv, NextInv, PTL DEF Spec

-----------------------------------------------------------------------------
\* Type correctness of the write path.
THEOREM TypeCorrect == Spec => []TypeOK
<1>1. IInv => TypeOK
  BY Constants DEF IInv, Funs, WriterInv, TypeOK, Steps
<1>. QED  BY <1>1, Invariance, PTL

\* A call that returns 0 has written its whole extent, and no call writes
\* outside its own.
THEOREM SuccessWritten == Spec => []SuccessMeansWritten
<1>1. IInv => SuccessMeansWritten
  BY DEF IInv, WriterInv, SuccessMeansWritten, Extent
<1>. QED  BY <1>1, Invariance, PTL

\* A call fails only after a failed or empty WriteFile, and wastes at most
\* Tries of them per sector, whatever the other writers do to g_last_io_error.
THEOREM FailsWithCause == Spec => []FailsForCause
<1>1. IInv => FailsForCause
  BY DEF IInv, WriterInv, FailsForCause
<1>. QED  BY <1>1, Invariance, PTL

-----------------------------------------------------------------------------
(***************************************************************************)
(* Why every call returns.  Its steps are counted: those for the chunk at  *)
(* hand by the attempts left, those for what lies behind it by its sectors.*)
(* No step of another writer changes the number, although the error one of *)
(* them has left in g_last_io_error may decide what this one does next.    *)
(***************************************************************************)
PerSector == 3 * Tries + 5

SectorsBehind(w) ==
  CASE pc[w] \in {"enter", "outer"} -> Remaining(w)
    [] pc[w] \in {"try", "judge", "empty", "advance"} -> Remaining(w) - 1
    [] pc[w] = "returned" -> 0

ForThisChunk(w) ==
  CASE pc[w] = "enter" -> 2
    [] pc[w] = "outer" -> 1
    [] pc[w] = "try" -> 3 * tries[w] + 3
    [] pc[w] \in {"judge", "empty"} -> 3 * tries[w] + 5
    [] pc[w] = "advance" -> 2
    [] pc[w] = "returned" -> 0

StepsLeft(w) == PerSector * SectorsBehind(w) + ForThisChunk(w)

LEMMA Products ==
  ASSUME NEW k \in Nat, NEW a \in Nat, NEW b \in Nat
  PROVE  /\ k * a \in Nat
         /\ k * (a + 1) = k * a + k
         /\ a <= b => k * a <= k * b
<1>1. ASSUME a <= b PROVE k * a <= k * b
  <2>1. PICK d \in Nat : b = a + d
    <3>1. b - a \in Nat /\ b = a + (b - a)
      BY <1>1
    <3>. QED  BY <3>1
  <2>2. k * (a + d) = k * a + k * d /\ k * d \in Nat /\ k * a \in Nat
    OBVIOUS
  <2>. QED  BY <2>1, <2>2
<1>. QED  BY <1>1

\* What there is to know of one writer before and after a step of its own.
LEMMA WriterFacts ==
  ASSUME IInv, NEW w \in Writers
  PROVE  /\ pc[w] \in Steps /\ tries[w] \in 0 .. Tries /\ written[w] \in Nat
         /\ Remaining(w) \in Nat /\ pos[w] \in Nat
         /\ pc[w] \in {"try", "judge", "empty", "advance"} => Remaining(w) > 0
         /\ written[w] <= Remaining(w) \/ pc[w] # "advance"
         /\ PerSector \in Nat /\ Tries \in Nat \ {0}
BY Constants DEF IInv, Funs, WriterInv, Remaining, PerSector, Steps

\* Fewer steps for the chunk, or a sector less and no more than it costs.
LEMMA Lower ==
  ASSUME NEW k \in Nat, NEW a \in Nat, NEW b \in Nat, NEW f \in Nat, NEW g \in Nat,
         (b <= a /\ g < f) \/ (b < a /\ g < f + k)
  PROVE  k * b + g < k * a + f
<1>1. k * a \in Nat /\ k * b \in Nat
  BY Products
<1>2. CASE b <= a /\ g < f
  <2>1. k * b <= k * a
    BY <1>2, Products
  <2>. QED  BY <1>1, <1>2, <2>1
<1>3. CASE b < a /\ g < f + k
  <2>1. k * (b + 1) <= k * a
    BY <1>3, Products
  <2>2. k * (b + 1) = k * b + k
    BY Products
  <2>. QED  BY <1>1, <1>3, <2>1, <2>2
<1>. QED  BY <1>2, <1>3

LEMMA StepsLeftType ==
  ASSUME IInv, NEW w \in Writers
  PROVE  StepsLeft(w) \in Nat
<1>1. SectorsBehind(w) \in Nat /\ ForThisChunk(w) \in Nat /\ PerSector \in Nat
  BY WriterFacts DEF SectorsBehind, ForThisChunk, Steps
<1>2. PerSector * SectorsBehind(w) \in Nat
  BY <1>1, Products
<1>. QED  BY <1>1, <1>2 DEF StepsLeft

\* A step of the writer itself.
LEMMA OwnStep ==
  ASSUME IInv, IInv', NEW w \in Writers, Writer(w)
  PROVE  StepsLeft(w)' < StepsLeft(w)
<1>. DEFINE a == SectorsBehind(w)
            b == SectorsBehind(w)'
            f == ForThisChunk(w)
            g == ForThisChunk(w)'
<1>1. /\ pc[w] \in Steps /\ tries[w] \in 0 .. Tries /\ written[w] \in Nat
      /\ Remaining(w) \in Nat /\ pos[w] \in Nat
      /\ pc[w] \in {"try", "judge", "empty", "advance"} => Remaining(w) > 0
      /\ written[w] <= Remaining(w) \/ pc[w] # "advance"
      /\ PerSector \in Nat /\ Tries \in Nat \ {0}
  BY WriterFacts
<1>2. pc \in [Writers -> Steps] /\ pos \in [Writers -> Nat] /\ tries \in [Writers -> Nat]
  BY DEF IInv, Funs
<1>3. First[w] \in Nat /\ Length[w] \in Nat
  BY Constants
<1>4. ASSUME a \in Nat, b \in Nat, f \in Nat, g \in Nat,
             (b <= a /\ g < f) \/ (b < a /\ g < f + PerSector)
      PROVE  StepsLeft(w)' < StepsLeft(w)
  <2>1. PerSector * b + g < PerSector * a + f
    BY <1>1, <1>4, Lower
  <2>2. StepsLeft(w) = PerSector * a + f /\ StepsLeft(w)' = PerSector * b + g
    BY DEF StepsLeft, PerSector
  <2>. QED  BY <2>1, <2>2, Zenon
<1>. USE DEF Goto, Return
<1>5. CASE Enter(w)
  <2>1. pc[w] = "enter" /\ pc'[w] = "outer" /\ pos' = pos
    BY <1>2, <1>5 DEF Enter
  <2>2. a = Remaining(w) /\ b = Remaining(w) /\ f = 2 /\ g = 1
    BY <2>1 DEF SectorsBehind, ForThisChunk, Remaining
  <2>. QED  BY <1>1, <1>4, <2>2
<1>6. CASE Outer(w)
  <2>1. CASE Remaining(w) > 0
    <3>1. pc[w] = "outer" /\ pc'[w] = "try" /\ pos' = pos /\ tries'[w] = Tries
      BY <1>2, <1>6, <2>1 DEF Outer
    <3>2. a = Remaining(w) /\ b = Remaining(w) - 1 /\ f = 1 /\ g = 3 * Tries + 3
      BY <3>1 DEF SectorsBehind, ForThisChunk, Remaining
    <3>3. b \in Nat /\ b < a /\ g \in Nat /\ g < f + PerSector
      BY <1>1, <2>1, <3>2 DEF PerSector
    <3>. QED  BY <1>1, <1>4, <3>2, <3>3
  <2>2. CASE ~(Remaining(w) > 0)
    <3>1. pc[w] = "outer" /\ pc'[w] = "returned"
      BY <1>2, <1>6, <2>2 DEF Outer
    <3>2. a = Remaining(w) /\ b = 0 /\ f = 1 /\ g = 0
      BY <3>1 DEF SectorsBehind, ForThisChunk
    <3>. QED  BY <1>1, <1>4, <3>2
  <2>. QED  BY <2>1, <2>2
<1>7. CASE WriteOk(w) \/ WriteError(w)
  <2>1. /\ pc[w] = "try" /\ pc'[w] \in {"judge", "empty", "advance"} /\ pos' = pos
        /\ tries[w] > 0 /\ tries'[w] = tries[w] - 1
    BY <1>2, <1>7 DEF WriteOk, WriteError
  <2>2. a = Remaining(w) - 1 /\ b = Remaining(w) - 1 /\ f = 3 * tries[w] + 3
    BY <2>1 DEF SectorsBehind, ForThisChunk, Remaining
  <2>3. g \in {3 * (tries[w] - 1) + 5, 2}
    BY <2>1 DEF ForThisChunk
  <2>4. a \in Nat /\ f \in Nat /\ g \in Nat /\ g < f
    BY <1>1, <2>1, <2>2, <2>3
  <2>. QED  BY <1>4, <2>2, <2>4
<1>8. CASE OutOfTries(w)
  <2>1. pc[w] = "try" /\ pc'[w] = "advance" /\ pos' = pos /\ tries[w] = 0
    BY <1>2, <1>8 DEF OutOfTries
  <2>2. a = Remaining(w) - 1 /\ b = Remaining(w) - 1 /\ f = 3 /\ g = 2
    BY <2>1 DEF SectorsBehind, ForThisChunk, Remaining
  <2>3. a \in Nat
    BY <1>1, <2>1, <2>2
  <2>. QED  BY <1>4, <2>2, <2>3
<1>9. CASE Judge(w) \/ Empty(w)
  <2>1. /\ pc[w] \in {"judge", "empty"} /\ pc'[w] \in {"try", "returned"}
        /\ pos' = pos /\ tries' = tries
    BY <1>2, <1>9 DEF Judge, Empty
  <2>2. a = Remaining(w) - 1 /\ b \in {Remaining(w) - 1, 0} /\ f = 3 * tries[w] + 5
    BY <2>1 DEF SectorsBehind, ForThisChunk, Remaining
  <2>3. g \in {3 * tries[w] + 3, 0}
    BY <2>1 DEF ForThisChunk
  <2>4. a \in Nat /\ b \in Nat /\ b <= a /\ f \in Nat /\ g \in Nat /\ g < f
    BY <1>1, <2>1, <2>2, <2>3
  <2>. QED  BY <1>4, <2>4
<1>10. CASE Advance(w)
  <2>1. CASE written[w] = 0
    <3>1. pc[w] = "advance" /\ pc'[w] = "returned"
      BY <1>2, <1>10, <2>1 DEF Advance
    <3>2. a = Remaining(w) - 1 /\ b = 0 /\ f = 2 /\ g = 0
      BY <3>1 DEF SectorsBehind, ForThisChunk
    <3>3. a \in Nat
      BY <1>1, <3>1, <3>2
    <3>. QED  BY <1>4, <3>2, <3>3
  <2>2. CASE written[w] # 0
    <3>1. pc[w] = "advance" /\ pc'[w] = "outer" /\ pos'[w] = pos[w] + written[w]
      BY <1>2, <1>10, <2>2 DEF Advance
    <3>2. a = Remaining(w) - 1 /\ b = Remaining(w)' /\ f = 2 /\ g = 1
      BY <3>1 DEF SectorsBehind, ForThisChunk
    <3>3. Remaining(w)' = Remaining(w) - written[w]
      BY <1>1, <1>3, <3>1 DEF Remaining
    <3>4. a \in Nat /\ b \in Nat /\ b <= a
      BY <1>1, <2>2, <3>1, <3>2, <3>3
    <3>. QED  BY <1>4, <3>2, <3>4
  <2>. QED  BY <2>1, <2>2
<1>. QED  BY <1>5, <1>6, <1>7, <1>8, <1>9, <1>10 DEF Writer

\* A step of another one.
LEMMA OthersStep ==
  ASSUME IInv, NEW w \in Writers, NEW x \in Writers, x # w, Writer(x)
  PROVE  StepsLeft(w)' = StepsLeft(w)
<1>1. pc \in [Writers -> Steps] /\ pos \in [Writers -> Nat] /\ tries \in [Writers -> Nat]
  BY DEF IInv, Funs
<1>2. pc'[w] = pc[w] /\ pos'[w] = pos[w] /\ tries'[w] = tries[w]
  BY <1>1
     DEF Writer, Enter, Outer, WriteOk, WriteError, OutOfTries, Judge, Empty, Advance, Goto,
         Return
<1>. QED
  BY <1>2 DEF StepsLeft, SectorsBehind, ForThisChunk, Remaining, PerSector

\* Every call is bounded by its sectors and the attempts for each of them: each
\* of its steps lowers the number left, whatever the others write or leave in
\* g_last_io_error, and no step of another writer raises it.
THEOREM CallIsBounded ==
  Spec => /\ [](\A w \in Writers : StepsLeft(w) \in Nat)
          /\ [][ \A w, x \in Writers :
                   Writer(x) => IF x = w THEN StepsLeft(w)' < StepsLeft(w)
                                ELSE StepsLeft(w)' = StepsLeft(w) ]_vars
<1>. DEFINE counts == \A w, x \in Writers :
                        Writer(x) => IF x = w THEN StepsLeft(w)' < StepsLeft(w)
                                     ELSE StepsLeft(w)' = StepsLeft(w)
            natural == \A w \in Writers : StepsLeft(w) \in Nat
<1>1. IInv => natural
  BY StepsLeftType
<1>2. IInv /\ IInv' /\ [Next]_vars => [counts]_vars
  BY OwnStep, OthersStep
<1>. HIDE DEF counts, natural
<1>3. Spec => []natural /\ [][counts]_vars
  BY <1>1, <1>2, NextInv, Invariance, PTL DEF Spec
<1>. QED  BY <1>3 DEF counts, natural
=============================================================================
