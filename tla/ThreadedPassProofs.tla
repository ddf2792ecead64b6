-------------------------- MODULE ThreadedPassProofs --------------------------
(***************************************************************************)
(* Proofs about ThreadedPass, for any number of workers, any range length, *)
(* sector and chunk size, in both builds.                                  *)
(*                                                                         *)
(* IInv is the inductive invariant.  SplitInv describes the creation loop: *)
(* as long as slots remain, the cursor stands at a whole number of equal   *)
(* shares, and the ranges handed out tile everything below it.  WorkerInv  *)
(* ties a worker's offset to the bytes on the device.  CallerInv ties what *)
(* the calling thread knows at each point to what the workers still do.    *)
(* LateInv, NameInv and CountInv, on top of it, are about what is written  *)
(* after a failure, whose error is named and how many bytes are counted.   *)
(***************************************************************************)
EXTENDS ThreadedPass, OwArithProofs, FiniteSetTheorems

\* The share of every slot but the last.
Share == AlignDown(Total \div Threads, Sector)

SplitInv ==
  /\ spawned < Threads => cursor = spawned * Share
  /\ spawned = Threads => cursor = AlignDown(Total, Sector)
  /\ cursor <= AlignDown(Total, Sector)
  /\ Multiple(cursor, Sector)
  /\ \A i \in Created :
       /\ Multiple(first[i], Sector) /\ Multiple(last[i], Sector)
       /\ first[i] <= last[i] /\ last[i] <= cursor
  /\ \A i, j \in Created : i < j => last[i] <= first[j]
  /\ \A b \in Bytes(0, cursor) : \E i \in Created : b \in Bytes(first[i], last[i])

WorkerInv(i) ==
  /\ i \notin Created => wpc[i] = "none"
  /\ i \in Created =>
       /\ wpc[i] # "none"
       /\ Multiple(offset[i], Sector)
       /\ first[i] <= offset[i] /\ offset[i] <= last[i]
       /\ Bytes(first[i], offset[i]) \subseteq wiped
  /\ wpc[i] \in {"write", "count"} => offset[i] < last[i] /\ ToWrite(i) # 0
  /\ wpc[i] = "count" => Bytes(offset[i], offset[i] + ToWrite(i)) \subseteq wiped
  /\ wpc[i] = "exited" => offset[i] = last[i] \/ failed \/ Chunk < Sector
  /\ wpc[i] = "record" => failed
  /\ i \in erred => wpc[i] = "exited" /\ failed

CallerInv ==
  /\ pc = "returned" <=> ret # "running"
  /\ pc = "alloc" => spawned = 0
  /\ joined # 0 => pc \in {"join", "returned"}
  /\ pc = "join" => failed \/ spawned = Threads
  /\ \A i \in Workers : i < joined => wpc[i] \in {"none", "exited"}
  /\ ret \in {"ok", "fail"} => \A i \in Workers : wpc[i] \in {"none", "exited"}
  /\ ret = "ok" => spawned = Threads /\ ~failed

IInv ==
  /\ TypeOK
  /\ SplitInv
  /\ wiped \subseteq Target
  /\ \A i \in Workers : WorkerInv(i)
  /\ CallerInv

-----------------------------------------------------------------------------
(***************************************************************************)
(* Arithmetic of the split.                                                *)
(***************************************************************************)

\* Equal shares of whole sectors, one per worker, fit into the range.
LEMMA ShareFacts ==
  /\ Share \in Nat
  /\ Multiple(Share, Sector)
  /\ Threads * Share <= Total
<1>. DEFINE per == Total \div Threads
<1>1. per \in Nat /\ Total = Threads * per + (Total % Threads)
                  /\ Total % Threads \in Nat
  BY PassAssumption, ModFacts
<1>. HIDE DEF per
<1>2. Share \in Nat /\ Share <= per /\ Multiple(Share, Sector)
  BY <1>1, PassAssumption, AlignDownFacts DEF Share, per
<1>3. Threads * Share <= Threads * per
  BY <1>1, <1>2, PassAssumption
<1>. QED
  <2>1. Threads * per \in Nat /\ Threads * Share \in Nat
    BY <1>1, <1>2, PassAssumption
  <2>. QED  BY <1>1, <1>2, <1>3, <2>1, PassAssumption

\* What one round of the creation loop does to the cursor.
LEMMA SpawnFacts ==
  ASSUME SplitInv, spawned \in Nat, spawned < Threads
  PROVE  /\ cursor \in 0 .. Total
         /\ SlotLength(spawned) \in Nat
         /\ Multiple(SlotLength(spawned), Sector)
         /\ cursor + SlotLength(spawned) <= Total
         /\ cursor + SlotLength(spawned) <= AlignDown(Total, Sector)
         /\ Multiple(cursor + SlotLength(spawned), Sector)
         /\ spawned + 1 < Threads =>
              cursor + SlotLength(spawned) = (spawned + 1) * Share
         /\ spawned + 1 = Threads =>
              cursor + SlotLength(spawned) = AlignDown(Total, Sector)
<1>1. cursor = spawned * Share
  BY DEF SplitInv
<1>2. cursor \in Nat /\ cursor + Share = (spawned + 1) * Share
  BY <1>1, ShareFacts
<1>3. (spawned + 1) * Share <= Threads * Share
  BY ShareFacts, PassAssumption
<1>4. cursor + Share <= Total
  <2>1. (spawned + 1) * Share \in Nat /\ Threads * Share \in Nat
    BY ShareFacts, PassAssumption
  <2>. QED  BY <1>2, <1>3, <2>1, ShareFacts, PassAssumption
<1>5. Multiple(cursor, Sector)
  BY DEF SplitInv
<1>6. CASE spawned + 1 < Threads
  <2>1. SlotLength(spawned) = Share
    BY <1>6, PassAssumption DEF SlotLength, Share
  <2>2. Multiple(cursor + Share, Sector)
    BY <1>2, <1>5, ShareFacts, MultipleAdd, PassAssumption
  <2>3. cursor + Share <= AlignDown(Total, Sector)
    <3>1. PICK j \in Nat : cursor + Share = Sector * j
      BY <2>2 DEF Multiple
    <3>2. PICK k \in Nat : AlignDown(Total, Sector) = Sector * k
      BY AlignDownFacts, PassAssumption DEF Multiple
    <3>3. Total - Sector * k < Sector /\ Sector * k \in Nat
      BY <3>2, AlignDownFacts, PassAssumption
    <3>4. ~(k < j)
      <4>. SUFFICES ASSUME k < j PROVE FALSE
        OBVIOUS
      <4>1. Sector * (k + 1) <= Sector * j
        BY PassAssumption
      <4>2. Sector * (k + 1) = Sector * k + Sector
        BY PassAssumption
      <4>. QED  BY <1>2, <1>4, <3>1, <3>3, <4>1, <4>2, ShareFacts, PassAssumption
    <3>. QED  BY <3>1, <3>2, <3>4, PassAssumption
  <2>. QED  BY <1>2, <1>4, <1>6, <2>1, <2>2, <2>3, ShareFacts, PassAssumption
<1>7. CASE spawned + 1 = Threads
  <2>1. SlotLength(spawned) = AlignDown(Total - cursor, Sector)
    BY <1>7, PassAssumption DEF SlotLength
  <2>2. cursor <= Total /\ Total - cursor \in Nat
    BY <1>2, <1>4, ShareFacts, PassAssumption
  <2>3. SlotLength(spawned) \in Nat /\ Multiple(SlotLength(spawned), Sector)
    BY <2>1, <2>2, AlignDownFacts, PassAssumption
  <2>4. cursor + SlotLength(spawned) = AlignDown(Total, Sector)
    BY <1>2, <1>5, <2>1, <2>2, AlignDownRest, PassAssumption
  <2>5. AlignDown(Total, Sector) <= Total /\ Multiple(AlignDown(Total, Sector), Sector)
    BY AlignDownFacts, PassAssumption
  <2>. QED  BY <1>2, <1>7, <2>2, <2>3, <2>4, <2>5, PassAssumption
<1>. QED  BY <1>6, <1>7, PassAssumption

\* What a worker decides to write stays inside its range, and is something
\* whenever a chunk holds a sector and the range is not finished.
LEMMA ToWriteFacts ==
  ASSUME IInv, NEW i \in Created
  PROVE  /\ offset[i] \in Nat /\ last[i] \in Nat /\ offset[i] <= last[i]
         /\ ToWrite(i) \in Nat
         /\ Multiple(ToWrite(i), Sector)
         /\ offset[i] + ToWrite(i) <= last[i]
         /\ offset[i] < last[i] /\ Sector <= Chunk => ToWrite(i) # 0
<1>. DEFINE rest == last[i] - offset[i]
            piece == OwMin(rest, Chunk)
<1>1. i \in Workers
  BY PassAssumption DEF IInv, TypeOK, Created, Workers
<1>2. /\ offset[i] \in Nat /\ last[i] \in Nat /\ offset[i] <= last[i]
      /\ Multiple(offset[i], Sector) /\ Multiple(last[i], Sector)
  BY <1>1 DEF IInv, TypeOK, WorkerInv, SplitInv
<1>3. rest \in Nat /\ Multiple(rest, Sector)
  BY <1>2, MultipleSub, PassAssumption
<1>4. piece \in Nat /\ piece <= rest /\ (piece = rest \/ piece = Chunk)
  BY <1>3, PassAssumption DEF OwMin
<1>5. ToWrite(i) = AlignDown(piece, Sector)
  BY DEF ToWrite
<1>. HIDE DEF piece
<1>6. ToWrite(i) \in Nat /\ ToWrite(i) <= piece /\ Multiple(ToWrite(i), Sector)
  BY <1>4, <1>5, AlignDownFacts, PassAssumption
<1>7. ASSUME offset[i] < last[i], Sector <= Chunk PROVE ToWrite(i) # 0
  <2>1. Sector <= rest
    BY <1>2, <1>3, <1>7, MultipleAtLeast, PassAssumption
  <2>2. Sector <= piece
    BY <1>4, <1>7, <2>1
  <2>. QED  BY <1>4, <1>5, <2>2, AlignDownPositive, PassAssumption
<1>. QED  BY <1>2, <1>3, <1>4, <1>6, <1>7

-----------------------------------------------------------------------------
(***************************************************************************)
(* Initial states and steps, one lemma per action.                         *)
(***************************************************************************)

LEMMA InitInv == Init => IInv
<1>. SUFFICES ASSUME Init PROVE IInv
  OBVIOUS
<1>1. TypeOK
  <2>1. 0 \in 0 .. Total /\ 0 \in 0 .. Threads
    BY PassAssumption
  <2>. QED  BY <2>1 DEF Init, TypeOK, WorkerStates
<1>2. Created = {} /\ Bytes(0, cursor) = {} /\ cursor = 0 /\ spawned = 0
  BY DEF Init, Created, Bytes
<1>3. SplitInv
  <2>1. Multiple(0, Sector) /\ 0 * Share = 0 /\ 0 <= AlignDown(Total, Sector)
    BY ShareFacts, AlignDownFacts, PassAssumption DEF Multiple
  <2>. QED  BY <1>2, <2>1, PassAssumption DEF SplitInv
<1>4. wiped \subseteq Target
  BY DEF Init
<1>5. \A i \in Workers : WorkerInv(i)
  BY <1>2 DEF Init, WorkerInv
<1>6. CallerInv
  BY DEF Init, CallerInv
<1>. QED  BY <1>1, <1>3, <1>4, <1>5, <1>6 DEF IInv

\* A worker that does not move keeps its invariant when others write, fail
\* or are created.
LEMMA WorkerStable ==
  ASSUME NEW i \in Workers, WorkerInv(i),
         first'[i] = first[i], last'[i] = last[i], offset'[i] = offset[i],
         wpc'[i] = wpc[i], wiped \subseteq wiped', failed => failed',
         i \in Created' <=> i \in Created, i \in erred' <=> i \in erred
  PROVE  WorkerInv(i)'
<1>1. ToWrite(i)' = ToWrite(i)
  BY DEF ToWrite
<1>. QED  BY <1>1 DEF WorkerInv

\* The ranges do not move once the creation loop is over.
LEMMA SplitStable ==
  ASSUME SplitInv, spawned' = spawned, cursor' = cursor, first' = first, last' = last
  PROVE  SplitInv'
BY DEF SplitInv, Created

LEMMA AllocStep == IInv /\ Alloc => IInv'
<1>. SUFFICES ASSUME IInv, Alloc PROVE IInv'
  OBVIOUS
<1>. USE DEF Alloc, workerVars
<1>1. TypeOK'
  BY DEF IInv, TypeOK
<1>2. SplitInv'
  BY SplitStable DEF IInv
<1>3. (wiped \subseteq Target)'
  BY DEF IInv, Target
<1>4. \A i \in Workers : WorkerInv(i)'
  BY WorkerStable DEF IInv, Created
<1>5. CallerInv'
  <2>1. Created = {}
    BY DEF IInv, CallerInv, Created
  <2>2. \A i \in Workers : wpc[i] = "none"
    BY <2>1 DEF IInv, WorkerInv
  <2>. QED  BY <2>2 DEF IInv, CallerInv
<1>. QED  BY <1>1, <1>2, <1>3, <1>4, <1>5 DEF IInv

LEMMA SpawnStep == IInv /\ Spawn => IInv'
<1>. SUFFICES ASSUME IInv, Spawn,
                   NEW n, n = spawned, NEW len, len = SlotLength(spawned)
              PROVE  IInv'
  OBVIOUS
<1>1. /\ n \in Nat /\ n < Threads /\ n \in Workers
      /\ spawned' = n + 1 /\ cursor' = cursor + len
      /\ first' = [first EXCEPT ![n] = cursor]
      /\ last' = [last EXCEPT ![n] = cursor + len]
      /\ offset' = [offset EXCEPT ![n] = cursor]
      /\ UNCHANGED <<windows, pc, joined, error, ret, erred, late, done, wiped, failed>>
  BY PassAssumption DEF Spawn, IInv, TypeOK, Workers
<1>2. PICK start \in {"check", "nobuffer"} : wpc' = [wpc EXCEPT ![n] = start]
  BY DEF Spawn
<1>3. /\ cursor \in 0 .. Total /\ len \in Nat /\ cursor + len <= Total
      /\ cursor + len <= AlignDown(Total, Sector)
      /\ Multiple(cursor + len, Sector)
      /\ n + 1 < Threads => cursor + len = (n + 1) * Share
      /\ n + 1 = Threads => cursor + len = AlignDown(Total, Sector)
  BY <1>1, SpawnFacts DEF IInv
<1>4. Created' = Created \cup {n} /\ n \notin Created /\ Created \subseteq Workers
  BY <1>1, PassAssumption DEF Created, Workers
<1>5. TypeOK'
  <2>1. cursor + len \in 0 .. Total /\ n + 1 \in 0 .. Threads
    BY <1>1, <1>3, PassAssumption
  <2>. QED
    BY <1>1, <1>2, <1>3, <2>1 DEF IInv, TypeOK, WorkerStates
<1>6. SplitInv'
  <2>1. /\ n + 1 < Threads => cursor' = spawned' * Share
        /\ n + 1 = Threads => cursor' = AlignDown(Total, Sector)
        /\ Multiple(cursor', Sector) /\ cursor' <= AlignDown(Total, Sector)
    BY <1>1, <1>3
  <2>2. /\ first \in [Workers -> 0 .. Total] /\ last \in [Workers -> 0 .. Total]
        /\ Multiple(cursor, Sector)
    BY DEF IInv, TypeOK, SplitInv
  <2>3. \A i \in Created : first'[i] = first[i] /\ last'[i] = last[i]
    BY <1>1, <1>4, <2>2
  <2>4. first'[n] = cursor /\ last'[n] = cursor + len
    BY <1>1, <2>2
  <2>5. \A i \in Created' :
          /\ Multiple(first'[i], Sector) /\ Multiple(last'[i], Sector)
          /\ first'[i] <= last'[i] /\ last'[i] <= cursor'
    <3>1. ASSUME NEW i \in Created
          PROVE  /\ Multiple(first'[i], Sector) /\ Multiple(last'[i], Sector)
                 /\ first'[i] <= last'[i] /\ last'[i] <= cursor'
      <4>1. last[i] \in Nat /\ last[i] <= cursor
        BY <1>4, <2>2 DEF IInv, SplitInv
      <4>. QED  BY <1>1, <1>3, <2>3, <4>1 DEF IInv, SplitInv
    <3>2. /\ Multiple(first'[n], Sector) /\ Multiple(last'[n], Sector)
          /\ first'[n] <= last'[n] /\ last'[n] <= cursor'
      BY <1>1, <1>3, <2>2, <2>4
    <3>. QED  BY <1>4, <3>1, <3>2
  <2>6. \A i, j \in Created' : i < j => last'[i] <= first'[j]
    <3>1. \A i \in Created : i < n /\ last[i] <= cursor
      BY <1>1 DEF Created, IInv, SplitInv
    <3>2. \A i \in Created : i \in Int /\ n \in Int
      BY <1>1 DEF Created
    <3>3. \A i, j \in Created : i < j => last'[i] <= first'[j]
      BY <2>3 DEF IInv, SplitInv
    <3>4. \A i \in Created : last'[i] <= first'[n]
      BY <2>3, <2>4, <3>1
    <3>5. \A j \in Created : ~(n < j)
      BY <3>1, <3>2
    <3>. QED  BY <1>1, <1>4, <3>3, <3>4, <3>5
  <2>7. \A b \in Bytes(0, cursor') : \E i \in Created' : b \in Bytes(first'[i], last'[i])
    <3>1. ASSUME NEW b \in Bytes(0, cursor'), b < cursor
          PROVE  \E i \in Created' : b \in Bytes(first'[i], last'[i])
      <4>1. b \in Bytes(0, cursor)
        BY <1>1, <1>3, <3>1 DEF Bytes
      <4>2. PICK i \in Created : b \in Bytes(first[i], last[i])
        BY <4>1 DEF IInv, SplitInv
      <4>. QED  BY <1>4, <2>3, <4>2
    <3>2. ASSUME NEW b \in Bytes(0, cursor'), ~(b < cursor)
          PROVE  b \in Bytes(first'[n], last'[n])
      BY <1>1, <1>3, <2>4, <3>2 DEF Bytes
    <3>. QED  BY <1>4, <3>1, <3>2
  <2>. QED
    BY <1>1, <1>3, <2>1, <2>5, <2>6, <2>7, PassAssumption DEF SplitInv
<1>7. (wiped \subseteq Target)'
  BY <1>1 DEF IInv, Target
<1>8. \A i \in Workers : WorkerInv(i)'
  <2>1. ASSUME NEW i \in Workers, i # n PROVE WorkerInv(i)'
    <3>1. /\ first'[i] = first[i] /\ last'[i] = last[i] /\ offset'[i] = offset[i]
          /\ wpc'[i] = wpc[i]
      BY <1>1, <1>2, <2>1 DEF IInv, TypeOK
    <3>. QED  BY <1>1, <1>4, <2>1, <3>1, WorkerStable DEF IInv
  <2>2. WorkerInv(n)'
    <3>1. /\ first'[n] = cursor /\ last'[n] = cursor + len /\ offset'[n] = cursor
          /\ wpc'[n] \in {"check", "nobuffer"}
      BY <1>1, <1>2 DEF IInv, TypeOK
    <3>2. Multiple(cursor, Sector) /\ Bytes(cursor, cursor) = {}
      BY <1>3 DEF IInv, SplitInv, Bytes
    <3>3. n \notin erred'
      BY <1>1, <1>4 DEF IInv, WorkerInv
    <3>4. n \in Created' /\ wiped' = wiped /\ cursor <= cursor + len
      BY <1>1, <1>3, <1>4
    <3>5. /\ Multiple(offset'[n], Sector)
          /\ first'[n] <= offset'[n] /\ offset'[n] <= last'[n]
          /\ Bytes(first'[n], offset'[n]) \subseteq wiped'
      BY <1>3, <3>1, <3>2, <3>4
    <3>. QED  BY <3>1, <3>3, <3>4, <3>5 DEF WorkerInv
  <2>. QED  BY <2>1, <2>2
<1>9. CallerInv'
  <2>1. pc = "spawn" /\ pc' = "spawn" /\ ret = "running" /\ joined = 0
    BY DEF Spawn, IInv, CallerInv
  <2>. QED  BY <1>1, <2>1 DEF CallerInv, Workers
<1>. QED  BY <1>5, <1>6, <1>7, <1>8, <1>9 DEF IInv

LEMMA SpawnFailsStep == IInv /\ SpawnFails => IInv'
<1>. SUFFICES ASSUME IInv, SpawnFails PROVE IInv'
  OBVIOUS
<1>. USE DEF SpawnFails, workerVars
<1>1. TypeOK'
  BY DEF IInv, TypeOK
<1>2. SplitInv'
  BY SplitStable DEF IInv
<1>3. (wiped \subseteq Target)'
  BY DEF IInv, Target
<1>4. \A i \in Workers : WorkerInv(i)'
  BY WorkerStable DEF IInv, Created
<1>5. CallerInv'
  BY DEF IInv, CallerInv
<1>. QED  BY <1>1, <1>2, <1>3, <1>4, <1>5 DEF IInv

LEMMA AllSpawnedStep == IInv /\ AllSpawned => IInv'
<1>. SUFFICES ASSUME IInv, AllSpawned PROVE IInv'
  OBVIOUS
<1>. USE DEF AllSpawned, workerVars
<1>1. TypeOK'
  BY DEF IInv, TypeOK
<1>2. SplitInv'
  BY SplitStable DEF IInv
<1>3. (wiped \subseteq Target)'
  BY DEF IInv, Target
<1>4. \A i \in Workers : WorkerInv(i)'
  BY WorkerStable DEF IInv, Created
<1>5. CallerInv'
  BY DEF IInv, CallerInv
<1>. QED  BY <1>1, <1>2, <1>3, <1>4, <1>5 DEF IInv

\* The four ways of the join leave the workers alone; what the calling thread
\* knows at each of them is CallerInv.
Joining == JoinWindows \/ JoinPosix \/ JoinMissing \/ JoinedPosix

LEMMA JoinCaller == IInv /\ Joining => CallerInv'
<1>. SUFFICES ASSUME IInv, Joining PROVE CallerInv'
  OBVIOUS
<1>1. \A i \in Workers : i \notin Created => wpc[i] = "none"
  BY DEF IInv, WorkerInv
<1>2. /\ pc = "join" /\ ret = "running"
      /\ spawned \in 0 .. Threads /\ joined \in 0 .. Threads
      /\ failed \/ spawned = Threads
      /\ UNCHANGED <<spawned, wpc, failed>>
  BY DEF Joining, JoinWindows, JoinPosix, JoinMissing, JoinedPosix, workerVars,
         IInv, CallerInv, TypeOK
<1>3. CASE JoinWindows
  <2>1. \A i \in Workers : wpc[i] \in {"none", "exited"}
    BY <1>1, <1>3 DEF JoinWindows, Created
  <2>. QED  BY <1>2, <1>3, <2>1 DEF JoinWindows, CallerInv, Status, IInv
<1>4. CASE JoinPosix
  <2>1. \A i \in Workers : i < joined' => wpc[i] \in {"none", "exited"}
    <3>. SUFFICES ASSUME NEW i \in Workers, i < joined'
                  PROVE  wpc[i] \in {"none", "exited"}
      OBVIOUS
    <3>1. i < joined \/ i = joined
      BY <1>2, <1>4 DEF JoinPosix, Workers
    <3>. QED  BY <1>4, <3>1 DEF JoinPosix, IInv, CallerInv
  <2>. QED  BY <1>2, <1>4, <2>1 DEF JoinPosix, CallerInv
<1>5. CASE JoinMissing
  <2>1. \A i \in Workers : i < joined' => wpc[i] \in {"none", "exited"}
    <3>. SUFFICES ASSUME NEW i \in Workers, i < joined'
                  PROVE  wpc[i] \in {"none", "exited"}
      OBVIOUS
    <3>1. i < joined \/ i \notin Created
      BY <1>2, <1>5 DEF JoinMissing, Workers, Created
    <3>. QED  BY <1>1, <3>1 DEF IInv, CallerInv
  <2>. QED  BY <1>2, <1>5, <2>1 DEF JoinMissing, CallerInv
<1>6. CASE JoinedPosix
  <2>1. \A i \in Workers : wpc[i] \in {"none", "exited"}
    <3>1. \A i \in Workers : i < joined
      BY <1>6, PassAssumption DEF JoinedPosix, Workers
    <3>. QED  BY <3>1 DEF IInv, CallerInv
  <2>. QED  BY <1>2, <1>6, <2>1 DEF JoinedPosix, CallerInv, Status, IInv
<1>. QED  BY <1>3, <1>4, <1>5, <1>6 DEF Joining

LEMMA JoinStep == IInv /\ Joining => IInv'
<1>. SUFFICES ASSUME IInv, Joining PROVE IInv'
  OBVIOUS
<1>1. UNCHANGED <<windows, spawned, cursor, first, last, workerVars, failed>>
  BY DEF Joining, JoinWindows, JoinPosix, JoinMissing, JoinedPosix
<1>2. TypeOK'
  <2>1. /\ pc' \in {"alloc", "spawn", "join", "returned"}
        /\ joined' \in 0 .. Threads
        /\ error' \in {"none", "create", "write", "worker"}
        /\ ret' \in {"running", "ok", "fail", "crashed"}
    BY PassAssumption
       DEF Joining, JoinWindows, JoinPosix, JoinMissing, JoinedPosix, Status, Collect,
           IInv, TypeOK
  <2>. QED  BY <1>1, <2>1 DEF IInv, TypeOK, workerVars
<1>3. SplitInv'
  BY <1>1, SplitStable DEF IInv
<1>4. (wiped \subseteq Target)'
  BY <1>1 DEF IInv, Target, workerVars
<1>5. \A i \in Workers : WorkerInv(i)'
  BY <1>1, WorkerStable DEF IInv, Created, workerVars
<1>6. CallerInv'
  BY JoinCaller
<1>. QED  BY <1>2, <1>3, <1>4, <1>5, <1>6 DEF IInv

\* A worker that has something to do is created and not yet joined.
LEMMA BusyFacts ==
  ASSUME IInv, NEW i \in Workers, wpc[i] \notin {"none", "exited"}
  PROVE  /\ i \in Created /\ i \notin erred
         /\ ~(i < joined) /\ ret \notin {"ok", "fail"}
BY DEF IInv, WorkerInv, CallerInv

LEMMA BusyCaller ==
  ASSUME IInv, NEW i \in Workers, wpc[i] \notin {"none", "exited"},
         NEW label, wpc' = [wpc EXCEPT ![i] = label],
         UNCHANGED mainVars, failed => failed'
  PROVE  CallerInv'
<1>1. ~(i < joined) /\ ret \notin {"ok", "fail"}
  BY BusyFacts
<1>2. wpc \in [Workers -> WorkerStates]
  BY DEF IInv, TypeOK
<1>3. \A k \in Workers : k # i => wpc'[k] = wpc[k]
  BY <1>2
<1>. QED  BY <1>1, <1>3 DEF IInv, CallerInv, mainVars

LEMMA CheckStep == ASSUME NEW i \in Workers PROVE IInv /\ Check(i) => IInv'
<1>. SUFFICES ASSUME IInv, Check(i) PROVE IInv'
  OBVIOUS
<1>1. /\ wpc[i] = "check"
      /\ UNCHANGED <<mainVars, offset, erred, late, done, wiped, failed>>
      /\ wpc' = [wpc EXCEPT ![i] = IF WantsToWrite(i) THEN "write" ELSE "exited"]
  BY DEF Check, Goto
<1>2. i \in Created /\ i \notin erred /\ wpc \in [Workers -> WorkerStates]
  BY <1>1, BusyFacts DEF IInv, TypeOK
<1>3. TypeOK'
  BY <1>1 DEF IInv, TypeOK, mainVars, WorkerStates
<1>4. SplitInv'
  BY <1>1, SplitStable DEF IInv, mainVars
<1>5. (wiped \subseteq Target)'
  BY <1>1 DEF IInv, Target
<1>6. ASSUME NEW k \in Workers PROVE WorkerInv(k)'
  <2>1. CASE k # i
    BY <1>1, <1>2, <2>1, WorkerStable DEF IInv, Created, mainVars
  <2>2. CASE k = i
    <3>1. wpc'[i] = IF WantsToWrite(i) THEN "write" ELSE "exited"
      BY <1>1, <1>2
    <3>2. offset[i] < last[i] \/ offset[i] = last[i]
      BY <1>2, ToWriteFacts
    <3>3. ToWrite(i) = 0 /\ offset[i] < last[i] => Chunk < Sector
      BY <1>2, ToWriteFacts, PassAssumption
    <3>4. ToWrite(i)' = ToWrite(i)
      BY <1>1 DEF ToWrite, mainVars
    <3>5. WorkerInv(i)
      BY DEF IInv
    <3>. QED
      BY <1>1, <1>2, <2>2, <3>1, <3>2, <3>3, <3>4, <3>5
         DEF WorkerInv, WantsToWrite, Created, mainVars
  <2>. QED  BY <2>1, <2>2
<1>7. CallerInv'
  BY <1>1, BusyCaller
<1>. QED  BY <1>3, <1>4, <1>5, <1>6, <1>7 DEF IInv

LEMMA CheckNoBufferStep ==
  ASSUME NEW i \in Workers PROVE IInv /\ CheckNoBuffer(i) => IInv'
<1>. SUFFICES ASSUME IInv, CheckNoBuffer(i) PROVE IInv'
  OBVIOUS
<1>1. /\ wpc[i] = "nobuffer"
      /\ UNCHANGED <<mainVars, offset, erred, late, done, wiped, failed>>
      /\ wpc' = [wpc EXCEPT ![i] = IF WantsToWrite(i) THEN "flag" ELSE "exited"]
  BY DEF CheckNoBuffer, Goto
<1>2. i \in Created /\ i \notin erred /\ wpc \in [Workers -> WorkerStates]
  BY <1>1, BusyFacts DEF IInv, TypeOK
<1>3. TypeOK'
  BY <1>1 DEF IInv, TypeOK, mainVars, WorkerStates
<1>4. SplitInv'
  BY <1>1, SplitStable DEF IInv, mainVars
<1>5. (wiped \subseteq Target)'
  BY <1>1 DEF IInv, Target
<1>6. ASSUME NEW k \in Workers PROVE WorkerInv(k)'
  <2>1. CASE k # i
    BY <1>1, <1>2, <2>1, WorkerStable DEF IInv, Created, mainVars
  <2>2. CASE k = i
    <3>1. wpc'[i] = IF WantsToWrite(i) THEN "flag" ELSE "exited"
      BY <1>1, <1>2
    <3>2. ~WantsToWrite(i) => offset[i] = last[i] \/ failed \/ Chunk < Sector
      BY <1>2, ToWriteFacts, PassAssumption DEF WantsToWrite
    <3>3. WorkerInv(i)
      BY DEF IInv
    <3>. QED
      BY <1>1, <1>2, <2>2, <3>1, <3>2, <3>3 DEF WorkerInv, Created, mainVars
  <2>. QED  BY <2>1, <2>2
<1>7. CallerInv'
  BY <1>1, BusyCaller
<1>. QED  BY <1>3, <1>4, <1>5, <1>6, <1>7 DEF IInv

LEMMA WriteStep == ASSUME NEW i \in Workers PROVE IInv /\ Write(i) => IInv'
<1>. SUFFICES ASSUME IInv, Write(i) PROVE IInv'
  OBVIOUS
<1>1. /\ wpc[i] = "write" /\ NoteLate(i)
      /\ UNCHANGED <<mainVars, offset, erred, done, failed>>
  BY DEF Write
<1>2. /\ i \in Created /\ i \notin erred /\ wpc \in [Workers -> WorkerStates]
  BY <1>1, BusyFacts DEF IInv, TypeOK
<1>3. /\ offset[i] \in Nat /\ last[i] \in Nat /\ ToWrite(i) \in Nat
      /\ offset[i] + ToWrite(i) <= last[i] /\ ToWrite(i) # 0
  BY <1>1, <1>2, ToWriteFacts DEF IInv, WorkerInv
<1>4. PICK n \in 0 .. ToWrite(i), label \in {"count", "flag"} :
        /\ wiped' = wiped \cup Bytes(offset[i], offset[i] + n)
        /\ wpc' = [wpc EXCEPT ![i] = label]
        /\ label = "count" => n = ToWrite(i)
  <2>1. CASE /\ wiped' = wiped \cup Bytes(offset[i], offset[i] + ToWrite(i))
             /\ Goto(i, "count")
    <3>1. ToWrite(i) \in 0 .. ToWrite(i)
      BY <1>3
    <3>. QED  BY <2>1, <3>1 DEF Goto
  <2>2. CASE \E n \in 0 .. ToWrite(i) :
               /\ n % Sector = 0
               /\ wiped' = wiped \cup Bytes(offset[i], offset[i] + n)
               /\ Goto(i, "flag")
    BY <2>2 DEF Goto
  <2>. QED  BY <2>1, <2>2 DEF Write
<1>5. Bytes(offset[i], offset[i] + n) \subseteq Target
  <2>1. last[i] <= cursor /\ cursor <= AlignDown(Total, Sector)
    BY <1>2 DEF IInv, SplitInv
  <2>2. cursor \in Nat /\ AlignDown(Total, Sector) \in Nat
    BY AlignDownFacts, PassAssumption DEF IInv, TypeOK
  <2>. QED  BY <1>3, <1>4, <2>1, <2>2 DEF Bytes, Target
<1>6. (wiped \subseteq Target)'
  BY <1>4, <1>5 DEF IInv, Target
<1>7. TypeOK'
  <2>1. Target \subseteq Bytes(0, Total)
    BY AlignDownFacts, PassAssumption DEF Target, Bytes
  <2>2. late' \in [Workers -> Nat]
    BY <1>1 DEF NoteLate, IInv, TypeOK
  <2>3. wiped' \subseteq Bytes(0, Total)
    BY <1>6, <2>1 DEF Target
  <2>. QED  BY <1>1, <1>4, <2>2, <2>3 DEF IInv, TypeOK, mainVars, WorkerStates
<1>8. SplitInv'
  BY <1>1, SplitStable DEF IInv, mainVars
<1>9. ASSUME NEW k \in Workers PROVE WorkerInv(k)'
  <2>1. CASE k # i
    BY <1>1, <1>2, <1>4, <2>1, WorkerStable DEF IInv, Created, mainVars
  <2>2. CASE k = i
    <3>1. wpc'[i] = label
      BY <1>2, <1>4
    <3>2. ToWrite(i)' = ToWrite(i)
      BY <1>1 DEF ToWrite, mainVars
    <3>3. WorkerInv(i)
      BY DEF IInv
    <3>. QED
      BY <1>1, <1>2, <1>4, <2>2, <3>1, <3>2, <3>3 DEF WorkerInv, Created, mainVars
  <2>. QED  BY <2>1, <2>2
<1>10. CallerInv'
  BY <1>1, <1>4, BusyCaller
<1>. QED  BY <1>6, <1>7, <1>8, <1>9, <1>10 DEF IInv

LEMMA CountStep == ASSUME NEW i \in Workers PROVE IInv /\ Count(i) => IInv'
<1>. SUFFICES ASSUME IInv, Count(i) PROVE IInv'
  OBVIOUS
<1>1. /\ wpc[i] = "count"
      /\ offset' = [offset EXCEPT ![i] = offset[i] + ToWrite(i)]
      /\ done' = done + ToWrite(i)
      /\ wpc' = [wpc EXCEPT ![i] = "check"]
      /\ UNCHANGED <<mainVars, erred, late, wiped, failed>>
  BY DEF Count, Goto
<1>2. /\ i \in Created /\ i \notin erred /\ wpc \in [Workers -> WorkerStates]
      /\ offset \in [Workers -> 0 .. Total] /\ last \in [Workers -> 0 .. Total]
      /\ first \in [Workers -> 0 .. Total] /\ done \in Nat
  BY <1>1, BusyFacts DEF IInv, TypeOK
<1>3. /\ ToWrite(i) \in Nat /\ offset[i] + ToWrite(i) <= last[i]
      /\ Multiple(ToWrite(i), Sector)
  BY <1>2, ToWriteFacts
<1>4. WorkerInv(i)
  BY DEF IInv
<1>5. TypeOK'
  <2>1. offset[i] + ToWrite(i) \in 0 .. Total
    BY <1>2, <1>3, PassAssumption
  <2>. QED  BY <1>1, <1>2, <1>3, <2>1 DEF IInv, TypeOK, mainVars, WorkerStates
<1>6. SplitInv'
  BY <1>1, SplitStable DEF IInv, mainVars
<1>7. (wiped \subseteq Target)'
  BY <1>1 DEF IInv, Target
<1>8. ASSUME NEW k \in Workers PROVE WorkerInv(k)'
  <2>1. CASE k # i
    BY <1>1, <1>2, <2>1, WorkerStable DEF IInv, Created, mainVars
  <2>2. CASE k = i
    <3>1. wpc'[i] = "check" /\ offset'[i] = offset[i] + ToWrite(i)
      BY <1>1, <1>2
    <3>2. Multiple(offset[i] + ToWrite(i), Sector)
      BY <1>2, <1>3, <1>4, MultipleAdd, PassAssumption DEF WorkerInv
    <3>3. first[i] <= offset[i] + ToWrite(i)
      BY <1>2, <1>3, <1>4 DEF WorkerInv
    <3>4. Bytes(first[i], offset[i] + ToWrite(i)) \subseteq wiped
      BY <1>1, <1>2, <1>3, <1>4 DEF WorkerInv, Bytes
    <3>. QED
      BY <1>1, <1>2, <1>3, <2>2, <3>1, <3>2, <3>3, <3>4 DEF WorkerInv, Created, mainVars
  <2>. QED  BY <2>1, <2>2
<1>9. CallerInv'
  BY <1>1, BusyCaller
<1>. QED  BY <1>5, <1>6, <1>7, <1>8, <1>9 DEF IInv

LEMMA FlagStep == ASSUME NEW i \in Workers PROVE IInv /\ Flag(i) => IInv'
<1>. SUFFICES ASSUME IInv, Flag(i) PROVE IInv'
  OBVIOUS
<1>1. PICK label \in {"exited", "record"} :
        /\ wpc[i] = "flag" /\ failed' = TRUE
        /\ wpc' = [wpc EXCEPT ![i] = label]
        /\ UNCHANGED <<mainVars, offset, erred, late, done, wiped>>
  BY DEF Flag, Goto
<1>2. i \in Created /\ i \notin erred /\ wpc \in [Workers -> WorkerStates]
  BY <1>1, BusyFacts DEF IInv, TypeOK
<1>3. TypeOK'
  BY <1>1 DEF IInv, TypeOK, mainVars, WorkerStates
<1>4. SplitInv'
  BY <1>1, SplitStable DEF IInv, mainVars
<1>5. (wiped \subseteq Target)'
  BY <1>1 DEF IInv, Target
<1>6. ASSUME NEW k \in Workers PROVE WorkerInv(k)'
  <2>1. CASE k # i
    BY <1>1, <1>2, <2>1, WorkerStable DEF IInv, Created, mainVars
  <2>2. CASE k = i
    <3>1. wpc'[i] = label
      BY <1>1, <1>2
    <3>2. WorkerInv(i)
      BY DEF IInv
    <3>. QED
      BY <1>1, <1>2, <2>2, <3>1, <3>2 DEF WorkerInv, Created, mainVars
  <2>. QED  BY <2>1, <2>2
<1>7. CallerInv'
  BY <1>1, BusyCaller
<1>. QED  BY <1>3, <1>4, <1>5, <1>6, <1>7 DEF IInv

LEMMA RecordStep == ASSUME NEW i \in Workers PROVE IInv /\ Record(i) => IInv'
<1>. SUFFICES ASSUME IInv, Record(i) PROVE IInv'
  OBVIOUS
<1>1. /\ wpc[i] = "record" /\ erred' = erred \cup {i}
      /\ wpc' = [wpc EXCEPT ![i] = "exited"]
      /\ UNCHANGED <<mainVars, offset, late, done, wiped, failed>>
  BY DEF Record, Goto
<1>2. i \in Created /\ i \notin erred /\ wpc \in [Workers -> WorkerStates]
  BY <1>1, BusyFacts DEF IInv, TypeOK
<1>3. TypeOK'
  BY <1>1 DEF IInv, TypeOK, mainVars, WorkerStates
<1>4. SplitInv'
  BY <1>1, SplitStable DEF IInv, mainVars
<1>5. (wiped \subseteq Target)'
  BY <1>1 DEF IInv, Target
<1>6. ASSUME NEW k \in Workers PROVE WorkerInv(k)'
  <2>1. CASE k # i
    BY <1>1, <1>2, <2>1, WorkerStable DEF IInv, Created, mainVars
  <2>2. CASE k = i
    <3>1. wpc'[i] = "exited" /\ failed
      BY <1>1, <1>2 DEF IInv, WorkerInv
    <3>2. WorkerInv(i)
      BY DEF IInv
    <3>. QED
      BY <1>1, <1>2, <2>2, <3>1, <3>2 DEF WorkerInv, Created, mainVars
  <2>. QED  BY <2>1, <2>2
<1>7. CallerInv'
  BY <1>1, BusyCaller
<1>. QED  BY <1>3, <1>4, <1>5, <1>6, <1>7 DEF IInv

LEMMA NextStep == IInv /\ [Next]_vars => IInv'
<1>. SUFFICES ASSUME IInv, [Next]_vars PROVE IInv'
  OBVIOUS
<1>1. CASE Caller
  BY <1>1, AllocStep, SpawnStep, SpawnFailsStep, AllSpawnedStep, JoinStep
     DEF Caller, Joining
<1>2. CASE \E i \in Workers : Worker(i)
  BY <1>2, CheckStep, CheckNoBufferStep, WriteStep, CountStep, FlagStep, RecordStep
     DEF Worker
<1>3. CASE UNCHANGED vars
  <2>1. UNCHANGED <<mainVars, workerVars, failed>>
    BY <1>3 DEF vars
  <2>2. TypeOK'
    BY <2>1 DEF IInv, TypeOK, mainVars, workerVars
  <2>3. SplitInv'
    BY <2>1, SplitStable DEF IInv, mainVars
  <2>4. (wiped \subseteq Target)'
    BY <2>1 DEF IInv, Target, workerVars
  <2>5. \A i \in Workers : WorkerInv(i)'
    BY <2>1, WorkerStable DEF IInv, Created, mainVars, workerVars
  <2>6. CallerInv'
    BY <2>1 DEF IInv, CallerInv, mainVars, workerVars
  <2>. QED  BY <2>2, <2>3, <2>4, <2>5, <2>6 DEF IInv
<1>. QED  BY <1>1, <1>2, <1>3 DEF Next, Returned

LEMMA Inductive == Spec => []IInv
<1>. QED  BY InitInv, NextStep, PTL DEF Spec

-----------------------------------------------------------------------------
(***************************************************************************)
(* The theorems.                                                           *)
(***************************************************************************)

\* Every variable keeps its type; in particular the cursor of the creation
\* loop never passes the end of the range, so that the unsigned subtraction
\* "total_len - cursor" of run_workers never wraps around.
THEOREM TypeCorrect == Spec => []TypeOK
<1>1. IInv => TypeOK
  BY DEF IInv
<1>. QED  BY Inductive, <1>1, PTL

\* However many workers there are, the ranges run_workers gives them are
\* aligned, do not overlap, leave no gap, and once all workers exist make up
\* the whole sectors of the range exactly.
THEOREM SplitCorrect == Spec => []RangesPartition
<1>1. IInv => RangesPartition
  <2>. SUFFICES ASSUME IInv PROVE RangesPartition
    OBVIOUS
  <2>1. cursor <= Total
    BY PassAssumption DEF IInv, TypeOK
  <2>2. ASSUME NEW i \in Created
        PROVE  /\ first[i] <= last[i] /\ last[i] <= cursor
               /\ first[i] % Sector = 0 /\ last[i] % Sector = 0
    <3>1. i \in Workers
      BY PassAssumption DEF IInv, TypeOK, Created, Workers
    <3>2. first[i] \in Nat /\ last[i] \in Nat
      BY <3>1 DEF IInv, TypeOK
    <3>. QED  BY <3>2, MultipleMod, PassAssumption DEF IInv, SplitInv
  <2>. QED  BY <2>1, <2>2 DEF IInv, SplitInv, RangesPartition
<1>. QED  BY Inductive, <1>1, PTL

\* A worker that ran to the end of its range has its whole range on the
\* device, so a pass that returns success has everything there.
LEMMA SuccessMeansWiped ==
  ASSUME Sector <= Chunk, IInv, ~failed, spawned = Threads,
         \A i \in Workers : wpc[i] \in {"none", "exited"}
  PROVE  wiped = Target
<1>1. Created = Workers
  BY DEF Created, Workers
<1>2. ASSUME NEW i \in Workers
      PROVE  Bytes(first[i], last[i]) \subseteq wiped
  <2>1. WorkerInv(i)
    BY DEF IInv
  <2>2. offset[i] = last[i]
    BY <1>1, <2>1, PassAssumption DEF WorkerInv
  <2>. QED  BY <1>1, <2>1, <2>2 DEF WorkerInv
<1>3. cursor = AlignDown(Total, Sector)
  BY DEF IInv, SplitInv
<1>4. ASSUME NEW b \in Target PROVE b \in wiped
  <2>1. PICK i \in Created : b \in Bytes(first[i], last[i])
    BY <1>3 DEF Target, IInv, SplitInv
  <2>. QED  BY <1>1, <1>2, <2>1
<1>. QED  BY <1>4 DEF IInv

\* Provided a chunk holds at least one sector, a pass returns success only
\* when every whole sector of the range is overwritten.
THEOREM SuccessComplete ==
  ASSUME Sector <= Chunk PROVE Spec => []SuccessIsComplete
<1>1. IInv => SuccessIsComplete
  BY SuccessMeansWiped DEF IInv, CallerInv, SuccessIsComplete
<1>. QED  BY Inductive, <1>1, PTL

\* Under the same condition run_workers implements PassSpec: each of its steps
\* overwrites bytes of the target, returns a result PassSpec allows, or is
\* invisible there.  In particular nothing is written after the return.
THEOREM PromiseKept ==
  ASSUME Sector <= Chunk PROVE Spec => KeepsPromise
<1>1. Init => Promise!PassInit
  BY DEF Init, Promise!PassInit
<1>2. IInv /\ IInv' /\ SuccessIsComplete' /\ [Next]_vars
        => [Promise!PassNext]_(Promise!passVars)
  <2>. SUFFICES ASSUME IInv, IInv', SuccessIsComplete', [Next]_vars
                PROVE  [Promise!PassNext]_(Promise!passVars)
    OBVIOUS
  <2>. USE DEF Promise!PassNext, Promise!passVars, Promise!Overwrite, Promise!Return
  <2>1. wiped' \subseteq Target
    BY DEF IInv, Target
  <2>2. ret' = "ok" => wiped' = Target
    BY DEF Target, SuccessIsComplete
  <2>3. CASE Caller
    <3>1. wiped' = wiped
      BY <2>3 DEF Caller, Alloc, Spawn, SpawnFails, AllSpawned, JoinWindows, JoinPosix,
                  JoinMissing, JoinedPosix, workerVars
    <3>2. ret' = ret \/ (pc # "returned" /\ ret' \in {"ok", "fail", "crashed"})
      BY <2>3 DEF Caller, Alloc, Spawn, SpawnFails, AllSpawned, JoinWindows, JoinPosix,
                  JoinMissing, JoinedPosix, Status
    <3>. QED  BY <2>2, <3>1, <3>2 DEF IInv, CallerInv
  <2>4. ASSUME NEW i \in Workers, Worker(i)
        PROVE  [Promise!PassNext]_(Promise!passVars)
    <3>1. wpc[i] \notin {"none", "exited"} /\ ret # "crashed"
      BY <2>4 DEF Worker, Check, CheckNoBuffer, Write, Count, Flag, Record, Alive
    <3>2. ret = "running"
      BY <3>1, BusyFacts DEF IInv, TypeOK
    <3>3. ret' = ret /\ wiped \subseteq wiped'
      BY <2>4 DEF Worker, Check, CheckNoBuffer, Write, Count, Flag, Record, mainVars
    <3>. QED  BY <2>1, <3>2, <3>3
  <2>5. CASE UNCHANGED vars
    BY <2>5 DEF vars, mainVars, workerVars
  <2>. QED  BY <2>3, <2>4, <2>5 DEF Next, Returned
<1>. QED  BY Inductive, SuccessComplete, <1>1, <1>2, PTL DEF Spec, KeepsPromise,
Promise!PassPromise

\* A worker that still means to write has not written since the flag went up.
LateInv ==
  \A i \in Workers :
    /\ late[i] <= 1
    /\ late[i] # 0 => failed
    /\ wpc[i] = "write" => late[i] = 0

\* After the first failure no worker writes more than one further chunk.
THEOREM FailureStopsWorkers == Spec => []StopsAfterFailure
<1>1. Init => LateInv
  BY DEF Init, LateInv
<1>2. IInv /\ LateInv /\ [Next]_vars => LateInv'
  <2>. SUFFICES ASSUME IInv, LateInv, [Next]_vars PROVE LateInv'
    OBVIOUS
  <2>1. late \in [Workers -> Nat] /\ wpc \in [Workers -> WorkerStates]
    BY DEF IInv, TypeOK
  <2>2. CASE Caller /\ ~Spawn
    <3>1. UNCHANGED <<late, wpc>> /\ (failed => failed')
      BY <2>2 DEF Caller, Alloc, SpawnFails, AllSpawned, JoinWindows, JoinPosix,
                  JoinMissing, JoinedPosix, workerVars
    <3>. QED  BY <3>1 DEF LateInv
  <2>3. CASE Spawn
    <3>1. PICK start \in {"check", "nobuffer"} : wpc' = [wpc EXCEPT ![spawned] = start]
      BY <2>3 DEF Spawn
    <3>2. \A i \in Workers : wpc'[i] = "write" => wpc[i] = "write"
      BY <2>1, <3>1
    <3>. QED  BY <2>3, <3>2 DEF Spawn, LateInv
  <2>4. ASSUME NEW i \in Workers, Check(i) PROVE LateInv'
    <3>1. \A k \in Workers : wpc'[k] = "write" => wpc[k] = "write" \/ ~failed
      BY <2>1, <2>4 DEF Check, Goto, WantsToWrite
    <3>. QED  BY <2>4, <3>1 DEF Check, LateInv
  <2>5. ASSUME NEW i \in Workers, Write(i) PROVE LateInv'
    <3>1. wpc'[i] # "write" /\ late[i] = 0 /\ wpc' = [wpc EXCEPT ![i] = wpc'[i]]
      BY <2>1, <2>5 DEF Write, Goto, LateInv
    <3>2. /\ failed' = failed
          /\ late' = IF failed THEN [late EXCEPT ![i] = late[i] + 1] ELSE late
      BY <2>5 DEF Write, NoteLate
    <3>. QED  BY <2>1, <3>1, <3>2 DEF LateInv
  <2>6. ASSUME NEW i \in Workers,
               CheckNoBuffer(i) \/ Count(i) \/ Flag(i) \/ Record(i)
        PROVE  LateInv'
    <3>1. late' = late /\ (failed => failed')
      BY <2>6 DEF CheckNoBuffer, Count, Flag, Record
    <3>2. \A k \in Workers : wpc'[k] = "write" => wpc[k] = "write"
      BY <2>1, <2>6 DEF CheckNoBuffer, Count, Flag, Record, Goto
    <3>. QED  BY <3>1, <3>2 DEF LateInv
  <2>7. CASE UNCHANGED vars
    BY <2>7 DEF vars, workerVars, LateInv
  <2>. QED
    BY <2>2, <2>3, <2>4, <2>5, <2>6, <2>7 DEF Next, Worker, Returned, Caller
<1>3. LateInv => StopsAfterFailure
  BY DEF LateInv, StopsAfterFailure
<1>. QED  BY Inductive, <1>1, <1>2, <1>3, PTL DEF Spec

-----------------------------------------------------------------------------
\* A worker that has the right to name its error, or has used it.
Claims(i) == wpc[i] = "record" \/ i \in erred

\* On Windows there is one such worker at most, and until the pass returns
\* nobody but the creation loop has named a cause.
NameInv ==
  windows =>
    /\ \A i, j \in Workers : Claims(i) /\ Claims(j) => i = j
    /\ pc = "alloc" => ~failed /\ erred = {}
    /\ ret = "running" => error \in {"none", "create"}
    /\ ret = "fail" /\ failed => error # "none"
    /\ ret = "fail" /\ erred # {} => error \in {"write", "create"}

\* A worker that claims its error has found the flag set or has set it.
LEMMA ClaimsFailed == ASSUME IInv, NEW i \in Workers, Claims(i) PROVE failed
BY DEF IInv, WorkerInv, Claims

LEMMA NameCaller == ASSUME IInv, NameInv, windows, Caller PROVE NameInv'
<1>1. windows' = windows /\ erred' = erred /\ erred \subseteq Workers
  BY DEF Caller, Alloc, Spawn, SpawnFails, AllSpawned, JoinWindows, JoinPosix, JoinMissing,
         JoinedPosix, workerVars, IInv, TypeOK
<1>2. \A i \in Workers : Claims(i)' => Claims(i)
  <2>1. CASE Spawn
    <3>1. PICK start \in {"check", "nobuffer"} : wpc' = [wpc EXCEPT ![spawned] = start]
      BY <2>1 DEF Spawn
    <3>. QED  BY <1>1, <3>1 DEF Claims, IInv, TypeOK
  <2>2. CASE ~Spawn
    BY <2>2 DEF Claims, Caller, Alloc, SpawnFails, AllSpawned, JoinWindows, JoinPosix,
                JoinMissing, JoinedPosix, workerVars
  <2>. QED  BY <2>1, <2>2
<1>3. CASE Alloc
  BY <1>1, <1>2, <1>3 DEF Alloc, NameInv, IInv, CallerInv
<1>4. CASE JoinWindows
  <2>1. ret = "running" /\ pc' = "returned" /\ ret' \in {"ok", "fail"} /\ failed' = failed
    BY <1>4 DEF JoinWindows, Status, IInv, CallerInv
  <2>2. error \in {"none", "create"}
    BY <2>1 DEF NameInv
  <2>3. /\ failed => error' # "none"
        /\ failed /\ erred # {} => error' \in {"write", "create"}
    BY <1>1, <1>4, <2>2 DEF JoinWindows, Collect
  <2>4. ret' = "fail" => failed
    BY <1>4 DEF JoinWindows, Status
  <2>. QED  BY <1>1, <1>2, <2>1, <2>3, <2>4 DEF NameInv
<1>5. CASE Spawn \/ SpawnFails \/ AllSpawned
  BY <1>1, <1>2, <1>5 DEF Spawn, SpawnFails, AllSpawned, NameInv, IInv, CallerInv
<1>. QED
  BY <1>3, <1>4, <1>5 DEF Caller, JoinPosix, JoinMissing, JoinedPosix

LEMMA NameWorker ==
  ASSUME IInv, NameInv, windows, NEW i \in Workers, Worker(i)
  PROVE  NameInv'
<1>1. /\ wpc[i] \notin {"none", "exited"} /\ ret # "crashed"
      /\ UNCHANGED <<windows, error>>
      /\ wpc \in [Workers -> WorkerStates] /\ erred \subseteq Workers
  BY DEF Worker, Check, CheckNoBuffer, Write, Count, Flag, Record, Alive, mainVars, IInv, TypeOK
<1>2. i \in Created /\ ret = "running" /\ pc # "alloc"
  <2>1. i \in Created /\ ret = "running"
    BY <1>1, BusyFacts DEF IInv, TypeOK
  <2>. QED  BY <2>1, PassAssumption DEF IInv, CallerInv, Created
<1>3. ret' = "running" /\ pc' # "alloc"
  BY <1>2 DEF Worker, Check, CheckNoBuffer, Write, Count, Flag, Record, mainVars
<1>4. \A k \in Workers : k # i => (Claims(k)' <=> Claims(k))
  BY <1>1 DEF Claims, Worker, Check, CheckNoBuffer, Write, Count, Flag, Record, Goto
<1>5. Claims(i)' => Claims(i) \/ ~failed
  BY <1>1 DEF Claims, Worker, Check, CheckNoBuffer, Write, Count, Flag, Record, Goto
<1>6. \A k, j \in Workers : Claims(k)' /\ Claims(j)' => k = j
  BY <1>4, <1>5, ClaimsFailed DEF NameInv
<1>. QED  BY <1>1, <1>2, <1>3, <1>6 DEF NameInv

\* On Windows one worker at most records an error, and a pass that failed
\* with the flag set names a cause; a recorded error is not lost.
THEOREM FailureNamed == Spec => []FailureIsNamed
<1>1. Init => NameInv
  BY DEF Init, NameInv, Claims
<1>2. IInv /\ NameInv /\ [Next]_vars => NameInv'
  <2>. SUFFICES ASSUME IInv, NameInv, [Next]_vars PROVE NameInv'
    OBVIOUS
  <2>1. windows' = windows
    BY DEF Next, Caller, Alloc, Spawn, SpawnFails, AllSpawned, JoinWindows, JoinPosix,
           JoinMissing, JoinedPosix, Worker, Check, CheckNoBuffer, Write, Count, Flag, Record,
           Returned, vars, mainVars
  <2>2. CASE ~windows
    BY <2>1, <2>2 DEF NameInv
  <2>3. CASE windows /\ Caller
    BY <2>3, NameCaller
  <2>4. CASE windows /\ \E i \in Workers : Worker(i)
    BY <2>4, NameWorker
  <2>5. CASE UNCHANGED vars
    BY <2>5 DEF NameInv, Claims, vars, mainVars, workerVars
  <2>. QED  BY <2>2, <2>3, <2>4, <2>5 DEF Next, Returned
<1>3. IInv /\ NameInv => FailureIsNamed
  <2>. SUFFICES ASSUME IInv, NameInv, windows PROVE FailureIsNamed
    BY DEF FailureIsNamed
  <2>1. Cardinality(erred) <= 1
    <3>1. \A i, j \in erred : i = j
      BY DEF NameInv, Claims, IInv, TypeOK
    <3>2. CASE erred = {}
      BY <3>2, FS_EmptySet
    <3>3. CASE erred # {}
      <4>1. PICK i : erred = {i}
        BY <3>1, <3>3
      <4>2. Cardinality({i}) = 1
        BY FS_Singleton
      <4>. QED  BY <4>1, <4>2
    <3>. QED  BY <3>2, <3>3
  <2>. QED  BY <2>1 DEF NameInv, FailureIsNamed
<1>. QED  BY Inductive, <1>1, <1>2, <1>3, PTL DEF Spec

-----------------------------------------------------------------------------
\* The bytes that workers have counted.
Counted == { b \in Bytes(0, Total) : \E i \in Created : b \in Bytes(first[i], offset[i]) }

LEMMA BytesFinite ==
  ASSUME NEW a \in Nat, NEW n \in Nat
  PROVE  IsFiniteSet(Bytes(a, a + n)) /\ Cardinality(Bytes(a, a + n)) = n
<1>1. a \in Int /\ a + n - 1 \in Int
  OBVIOUS
<1>2. /\ IsFiniteSet(a .. (a + n - 1))
      /\ Cardinality(a .. (a + n - 1)) = IF a > a + n - 1 THEN 0 ELSE a + n - 1 - a + 1
  BY <1>1, FS_Interval
<1>. QED  BY <1>2 DEF Bytes

LEMMA CountedFacts ==
  IsFiniteSet(Bytes(0, Total)) /\ IsFiniteSet(Counted) /\ Cardinality(Counted) \in Nat
<1>1. IsFiniteSet(Bytes(0, 0 + Total)) /\ 0 + Total = Total
  BY BytesFinite, PassAssumption
<1>2. Counted \in SUBSET Bytes(0, Total)
  BY DEF Counted
<1>. QED  BY <1>1, <1>2, FS_Subset, FS_CardinalityType

\* The chunk that a worker counts has not been counted before.
LEMMA CountMore ==
  ASSUME IInv, NEW i \in Workers, Count(i)
  PROVE  Cardinality(Counted') = Cardinality(Counted) + ToWrite(i)
<1>. DEFINE new == Bytes(offset[i], offset[i] + ToWrite(i))
<1>1. i \in Created
  BY BusyFacts DEF Count
<1>2. /\ offset[i] \in Nat /\ last[i] \in Nat /\ ToWrite(i) \in Nat
      /\ offset[i] + ToWrite(i) <= last[i]
  BY <1>1, ToWriteFacts
<1>3. /\ first \in [Workers -> 0 .. Total] /\ last \in [Workers -> 0 .. Total]
      /\ offset \in [Workers -> 0 .. Total] /\ Created \subseteq Workers
      /\ \A k \in Created : first[k] <= offset[k] /\ offset[k] <= last[k]
  BY PassAssumption DEF IInv, TypeOK, WorkerInv, Created, Workers
<1>4. /\ offset' = [offset EXCEPT ![i] = offset[i] + ToWrite(i)]
      /\ UNCHANGED <<first, spawned>>
  BY DEF Count, mainVars
<1>5. Counted' = Counted \cup new
  <2>1. ASSUME NEW b \in Counted' PROVE b \in Counted \cup new
    <3>1. PICK k \in Created : b \in Bytes(first[k], offset'[k])
      BY <1>4, <2>1 DEF Counted, Created
    <3>2. b \in Bytes(0, Total)
      BY <2>1 DEF Counted
    <3>3. CASE k # i
      BY <1>3, <1>4, <3>1, <3>2, <3>3 DEF Counted
    <3>4. CASE k = i
      <4>1. b \in Bytes(first[i], offset[i] + ToWrite(i))
        BY <1>1, <1>3, <1>4, <3>1, <3>4
      <4>2. b \in Bytes(first[i], offset[i]) \/ b \in new
        BY <1>1, <1>2, <1>3, <4>1 DEF Bytes
      <4>. QED  BY <1>1, <3>2, <4>2 DEF Counted
    <3>. QED  BY <3>3, <3>4
  <2>2. ASSUME NEW b \in Counted PROVE b \in Counted'
    <3>1. PICK k \in Created : b \in Bytes(first[k], offset[k])
      BY <2>2 DEF Counted
    <3>2. b \in Bytes(first[k], offset'[k])
      BY <1>2, <1>3, <1>4, <3>1 DEF Bytes
    <3>. QED  BY <1>4, <2>2, <3>1, <3>2 DEF Counted, Created
  <2>3. ASSUME NEW b \in new PROVE b \in Counted'
    <3>1. b \in Bytes(first[i], offset'[i]) /\ b \in Bytes(0, Total)
      BY <1>1, <1>2, <1>3, <1>4, PassAssumption DEF Bytes
    <3>. QED  BY <1>1, <1>4, <3>1 DEF Counted, Created
  <2>. QED  BY <2>1, <2>2, <2>3
<1>6. Counted \cap new = {}
  <2>. SUFFICES ASSUME NEW k \in Created, NEW b \in new, b \in Bytes(first[k], offset[k])
                PROVE  FALSE
    BY DEF Counted
  <2>1. CASE k = i
    BY <1>2, <1>3, <2>1 DEF Bytes
  <2>2. CASE k < i
    <3>1. last[k] <= first[i]
      BY <1>1, <2>2 DEF IInv, SplitInv
    <3>. QED  BY <1>1, <1>2, <1>3, <3>1 DEF Bytes
  <2>3. CASE i < k
    <3>1. last[i] <= first[k]
      BY <1>1, <2>3 DEF IInv, SplitInv
    <3>. QED  BY <1>1, <1>2, <1>3, <3>1 DEF Bytes
  <2>. QED  BY <1>1, <2>1, <2>2, <2>3 DEF Created
<1>7. IsFiniteSet(new) /\ Cardinality(new) = ToWrite(i)
  BY <1>2, BytesFinite
<1>. HIDE DEF new
<1>8. Cardinality(Counted \cup new)
        = Cardinality(Counted) + Cardinality(new) - Cardinality(Counted \cap new)
  BY <1>7, CountedFacts, FS_Union
<1>9. Cardinality(Counted \cap new) = 0
  <2>1. Cardinality({}) = 0
    BY FS_EmptySet
  <2>. QED  BY <1>6, <2>1
<1>10. Cardinality(Counted \cup new) = Cardinality(Counted) + ToWrite(i)
  BY <1>2, <1>7, <1>8, <1>9, CountedFacts
<1>. QED  BY <1>5, <1>10

LEMMA CountedKept ==
  ASSUME IInv, NEW S, S = Created, Created' = S,
         \A i \in S : first'[i] = first[i] /\ offset'[i] = offset[i]
  PROVE  Counted' = Counted
BY DEF Counted

CountInv == done = Cardinality(Counted)

LEMMA CountStepExact == IInv /\ CountInv /\ [Next]_vars => CountInv'
<1>. SUFFICES ASSUME IInv, CountInv, [Next]_vars PROVE CountInv'
  OBVIOUS
<1>1. ASSUME NEW i \in Workers, Count(i) PROVE CountInv'
  BY <1>1, CountMore DEF Count, CountInv
<1>2. CASE Spawn
  <2>1. /\ spawned \in Workers /\ Created' = Created \cup {spawned} /\ spawned \notin Created
        /\ Created \subseteq Workers
    <3>1. spawned \in Nat /\ spawned < Threads /\ spawned' = spawned + 1
      BY <1>2, PassAssumption DEF Spawn, IInv, TypeOK
    <3>. QED  BY <3>1, PassAssumption DEF Created, Workers
  <2>2. /\ first' = [first EXCEPT ![spawned] = cursor]
        /\ offset' = [offset EXCEPT ![spawned] = cursor] /\ done' = done
        /\ first \in [Workers -> 0 .. Total] /\ offset \in [Workers -> 0 .. Total]
        /\ cursor \in Int
    BY <1>2, PassAssumption DEF Spawn, IInv, TypeOK
  <2>3. \A i \in Created : first'[i] = first[i] /\ offset'[i] = offset[i]
    BY <2>1, <2>2
  <2>4. Bytes(first'[spawned], offset'[spawned]) = {}
    BY <2>1, <2>2 DEF Bytes
  <2>5. Counted' = Counted
    BY <2>1, <2>3, <2>4 DEF Counted
  <2>. QED  BY <2>2, <2>5 DEF CountInv
<1>3. ASSUME UNCHANGED <<spawned, first, offset, done>> PROVE CountInv'
  BY <1>3, CountedKept DEF CountInv, Created
<1>4. CASE Caller /\ ~Spawn
  BY <1>3, <1>4 DEF Caller, Alloc, SpawnFails, AllSpawned, JoinWindows, JoinPosix, JoinMissing,
                    JoinedPosix, workerVars
<1>5. ASSUME NEW i \in Workers, Worker(i), ~Count(i) PROVE CountInv'
  BY <1>3, <1>5 DEF Worker, Check, CheckNoBuffer, Write, Flag, Record, mainVars
<1>6. CASE UNCHANGED vars
  BY <1>3, <1>6 DEF vars, mainVars, workerVars
<1>. QED  BY <1>1, <1>2, <1>4, <1>5, <1>6 DEF Next, Returned

\* The counter that the progress bar shows is exact: it says how many bytes
\* have been written and counted, which is never more than there are on the
\* device, and, where a chunk holds a sector, all of them after a success.
THEOREM ProgressExact ==
  ASSUME Sector <= Chunk PROVE Spec => []ProgressIsHonest
<1>1. Init => CountInv
  <2>. SUFFICES ASSUME Init PROVE Cardinality(Counted) = 0 /\ done = 0
    BY DEF CountInv
  <2>1. Counted = {}
    BY DEF Init, Counted, Created
  <2>. QED  BY <2>1, FS_EmptySet DEF Init
<1>2. IInv /\ CountInv => ProgressIsHonest
  <2>. SUFFICES ASSUME IInv, CountInv PROVE ProgressIsHonest
    OBVIOUS
  <2>1. Counted \subseteq wiped
    <3>. SUFFICES ASSUME NEW b \in Counted PROVE b \in wiped
      OBVIOUS
    <3>1. PICK i \in Created : b \in Bytes(first[i], offset[i])
      BY DEF Counted
    <3>2. i \in Workers
      BY PassAssumption DEF Created, Workers, IInv, TypeOK
    <3>. QED  BY <3>1, <3>2 DEF IInv, WorkerInv
  <2>2. IsFiniteSet(wiped)
    <3>1. wiped \in SUBSET Bytes(0, Total)
      BY DEF IInv, TypeOK
    <3>. QED  BY <3>1, CountedFacts, FS_Subset
  <2>3. done <= Cardinality(wiped)
    BY <2>1, <2>2, FS_Subset DEF CountInv
  <2>4. ASSUME ret = "ok" PROVE Counted = Target
    <3>1. /\ spawned = Threads /\ ~failed /\ Created = Workers
          /\ \A i \in Workers : wpc[i] \in {"none", "exited"}
      BY <2>4 DEF IInv, CallerInv, Created, Workers
    <3>2. \A i \in Workers : offset[i] = last[i]
      BY <3>1, PassAssumption DEF IInv, WorkerInv
    <3>3. cursor = AlignDown(Total, Sector)
      BY <3>1 DEF IInv, SplitInv
    <3>4. Target \subseteq Bytes(0, Total)
      BY AlignDownFacts, PassAssumption DEF Target, Bytes
    <3>5. ASSUME NEW b \in Target PROVE b \in Counted
      <4>1. PICK i \in Created : b \in Bytes(first[i], last[i])
        BY <3>3 DEF Target, IInv, SplitInv
      <4>. QED  BY <3>1, <3>2, <3>4, <4>1 DEF Counted
    <3>. QED  BY <2>1, <3>5 DEF IInv
  <2>. QED  BY <2>3, <2>4 DEF ProgressIsHonest, CountInv
<1>. QED  BY Inductive, CountStepExact, <1>1, <1>2, PTL DEF Spec

-----------------------------------------------------------------------------
(***************************************************************************)
(* Why a pass ends: the steps that each thread has still to do, at most.   *)
(* Its own lower the number; the steps of the other threads leave it as it *)
(* is, except that creating a worker gives that worker its steps.          *)
(***************************************************************************)
BytesAhead(i) == last[i] - offset[i]

WorkerLeft(i) ==
  CASE wpc[i] = "check" -> 3 * BytesAhead(i) + 2
    [] wpc[i] = "write" -> 3 * BytesAhead(i) + 1
    [] wpc[i] = "count" -> 3 * BytesAhead(i)
    [] wpc[i] = "nobuffer" -> 3
    [] wpc[i] = "flag" -> 2
    [] wpc[i] = "record" -> 1
    [] wpc[i] \in {"none", "exited"} -> 0

CallerLeft ==
  CASE pc = "alloc" -> 2 * Threads + 3
    [] pc = "spawn" -> (Threads - spawned) + Threads + 2
    [] pc = "join" -> (Threads - joined) + 1
    [] pc = "returned" -> 0

LEMMA LeftTypes ==
  ASSUME IInv
  PROVE  CallerLeft \in Nat /\ \A i \in Workers : WorkerLeft(i) \in Nat
<1>1. CallerLeft \in Nat
  BY PassAssumption DEF IInv, TypeOK, CallerLeft
<1>2. ASSUME NEW i \in Workers PROVE WorkerLeft(i) \in Nat
  <2>1. wpc[i] \in {"check", "write", "count"} => BytesAhead(i) \in Nat
    <3>1. last[i] \in Nat /\ offset[i] \in Nat
      BY PassAssumption DEF IInv, TypeOK
    <3>2. wpc[i] # "none" => offset[i] <= last[i]
      BY DEF IInv, WorkerInv
    <3>. QED  BY <3>1, <3>2 DEF BytesAhead
  <2>2. wpc[i] \in WorkerStates
    BY DEF IInv, TypeOK
  <2>. QED  BY <2>1, <2>2 DEF WorkerLeft, WorkerStates
<1>. QED  BY <1>1, <1>2

LEMMA CallerCountsDown ==
  ASSUME IInv, Caller
  PROVE  /\ CallerLeft' < CallerLeft
         /\ \A i \in Created : WorkerLeft(i)' = WorkerLeft(i)
<1>1. /\ spawned \in 0 .. Threads /\ joined \in 0 .. Threads /\ Threads \in Nat
      /\ joined # 0 => pc \in {"join", "returned"}
      /\ Created \subseteq Workers
      /\ pc = "alloc" => spawned = 0
  BY PassAssumption DEF IInv, TypeOK, CallerInv, Created, Workers
<1>2. /\ wpc \in [Workers -> WorkerStates] /\ offset \in [Workers -> 0 .. Total]
      /\ last \in [Workers -> 0 .. Total]
  BY DEF IInv, TypeOK
<1>3. CallerLeft' < CallerLeft
  <2>1. CASE Alloc
    BY <1>1, <2>1 DEF Alloc, CallerLeft
  <2>2. CASE Spawn
    BY <1>1, <2>2 DEF Spawn, CallerLeft
  <2>3. CASE SpawnFails \/ AllSpawned
    BY <1>1, <2>3 DEF SpawnFails, AllSpawned, CallerLeft
  <2>4. CASE JoinWindows \/ JoinPosix \/ JoinMissing \/ JoinedPosix
    BY <1>1, <2>4 DEF JoinWindows, JoinPosix, JoinMissing, JoinedPosix, CallerLeft
  <2>. QED  BY <2>1, <2>2, <2>3, <2>4 DEF Caller
<1>4. ASSUME NEW i \in Created PROVE WorkerLeft(i)' = WorkerLeft(i)
  <2>1. wpc'[i] = wpc[i] /\ offset'[i] = offset[i] /\ last'[i] = last[i]
    BY <1>1, <1>2
       DEF Caller, Alloc, Spawn, SpawnFails, AllSpawned, JoinWindows, JoinPosix, JoinMissing,
           JoinedPosix, workerVars, Created
  <2>. QED  BY <2>1 DEF WorkerLeft, BytesAhead
<1>. QED  BY <1>3, <1>4

LEMMA WorkerCountsDown ==
  ASSUME IInv, NEW i \in Workers, Worker(i)
  PROVE  /\ WorkerLeft(i)' < WorkerLeft(i)
         /\ CallerLeft' = CallerLeft
         /\ \A j \in Workers \ {i} : WorkerLeft(j)' = WorkerLeft(j)
<1>1. /\ wpc \in [Workers -> WorkerStates] /\ offset \in [Workers -> 0 .. Total]
      /\ last \in [Workers -> 0 .. Total] /\ Total \in Nat
  BY PassAssumption DEF IInv, TypeOK
<1>2. /\ offset[i] \in Nat /\ last[i] \in Nat
      /\ wpc[i] # "none" => offset[i] <= last[i]
      /\ wpc[i] \in {"write", "count"} => offset[i] < last[i] /\ ToWrite(i) # 0
  BY <1>1 DEF IInv, WorkerInv
<1>3. BytesAhead(i) \in Int /\ (wpc[i] # "none" => BytesAhead(i) \in Nat)
  BY <1>2 DEF BytesAhead
<1>4. WorkerLeft(i)' < WorkerLeft(i)
  <2>1. CASE Check(i)
    <3>1. /\ wpc[i] = "check" /\ wpc'[i] \in {"write", "exited"}
          /\ UNCHANGED <<offset, last>>
      BY <1>1, <2>1 DEF Check, Goto, mainVars
    <3>2. BytesAhead(i)' = BytesAhead(i)
      BY <3>1 DEF BytesAhead
    <3>3. WorkerLeft(i) = 3 * BytesAhead(i) + 2
          /\ WorkerLeft(i)' \in {3 * BytesAhead(i) + 1, 0}
      BY <3>1, <3>2 DEF WorkerLeft
    <3>. QED  BY <1>3, <3>1, <3>3
  <2>2. CASE CheckNoBuffer(i)
    <3>1. wpc[i] = "nobuffer" /\ wpc'[i] \in {"flag", "exited"}
      BY <1>1, <2>2 DEF CheckNoBuffer, Goto
    <3>. QED  BY <3>1 DEF WorkerLeft
  <2>3. CASE Write(i)
    <3>1. /\ wpc[i] = "write" /\ wpc'[i] \in {"count", "flag"}
          /\ UNCHANGED <<offset, last>>
      BY <1>1, <2>3 DEF Write, Goto, mainVars
    <3>2. BytesAhead(i)' = BytesAhead(i) /\ BytesAhead(i) \in Nat \ {0}
      BY <1>2, <3>1 DEF BytesAhead
    <3>3. WorkerLeft(i) = 3 * BytesAhead(i) + 1
          /\ WorkerLeft(i)' \in {3 * BytesAhead(i), 2}
      BY <3>1, <3>2 DEF WorkerLeft
    <3>. QED  BY <3>2, <3>3
  <2>4. CASE Count(i)
    <3>1. /\ wpc[i] = "count" /\ wpc'[i] = "check" /\ last' = last
          /\ offset'[i] = offset[i] + ToWrite(i)
      BY <1>1, <2>4 DEF Count, Goto, mainVars
    <3>2. ToWrite(i) \in Nat \ {0}
      BY <1>2, <3>1, PassAssumption, AlignDownFacts DEF ToWrite, OwMin
    <3>3. BytesAhead(i)' = BytesAhead(i) - ToWrite(i)
      BY <1>2, <3>1, <3>2 DEF BytesAhead
    <3>4. WorkerLeft(i) = 3 * BytesAhead(i) /\ WorkerLeft(i)' = 3 * BytesAhead(i)' + 2
      BY <3>1 DEF WorkerLeft
    <3>. QED  BY <1>3, <3>2, <3>3, <3>4
  <2>5. CASE Flag(i) \/ Record(i)
    <3>1. \/ wpc[i] = "flag" /\ wpc'[i] \in {"exited", "record"}
          \/ wpc[i] = "record" /\ wpc'[i] = "exited"
      BY <1>1, <2>5 DEF Flag, Record, Goto
    <3>. QED  BY <3>1 DEF WorkerLeft
  <2>. QED  BY <2>1, <2>2, <2>3, <2>4, <2>5 DEF Worker
<1>5. CallerLeft' = CallerLeft
  <2>1. UNCHANGED <<pc, spawned, joined>>
    BY DEF Worker, Check, CheckNoBuffer, Write, Count, Flag, Record, mainVars
  <2>. QED  BY <2>1 DEF CallerLeft
<1>6. ASSUME NEW j \in Workers \ {i} PROVE WorkerLeft(j)' = WorkerLeft(j)
  <2>1. wpc'[j] = wpc[j] /\ offset'[j] = offset[j] /\ last'[j] = last[j]
    BY <1>1
       DEF Worker, Check, CheckNoBuffer, Write, Count, Flag, Record, Goto, mainVars
  <2>. QED  BY <2>1 DEF WorkerLeft, BytesAhead
<1>. QED  BY <1>4, <1>5, <1>6

\* No thread of a pass can go on for ever, however the threads interleave: each
\* step of a thread lowers the number it has left, and no step of another thread
\* raises it once the thread is created.
THEOREM PassIsBounded ==
  Spec =>
    /\ [](CallerLeft \in Nat /\ \A i \in Workers : WorkerLeft(i) \in Nat)
    /\ [][ /\ Caller => /\ CallerLeft' < CallerLeft
                        /\ \A i \in Created : WorkerLeft(i)' = WorkerLeft(i)
           /\ \A i \in Workers : Worker(i) =>
                /\ WorkerLeft(i)' < WorkerLeft(i)
                /\ CallerLeft' = CallerLeft
                /\ \A j \in Workers \ {i} : WorkerLeft(j)' = WorkerLeft(j) ]_vars
<1>. DEFINE natural == CallerLeft \in Nat /\ \A i \in Workers : WorkerLeft(i) \in Nat
            counts ==
              /\ Caller => /\ CallerLeft' < CallerLeft
                           /\ \A i \in Created : WorkerLeft(i)' = WorkerLeft(i)
              /\ \A i \in Workers : Worker(i) =>
                   /\ WorkerLeft(i)' < WorkerLeft(i)
                   /\ CallerLeft' = CallerLeft
                   /\ \A j \in Workers \ {i} : WorkerLeft(j)' = WorkerLeft(j)
<1>1. IInv => natural
  BY LeftTypes
<1>2. IInv => counts
  BY CallerCountsDown, WorkerCountsDown
<1>. HIDE DEF natural, counts
<1>3. Spec => []natural /\ [][counts]_vars
  BY <1>1, <1>2, Inductive, PTL
<1>. QED  BY <1>3 DEF natural, counts
=============================================================================
