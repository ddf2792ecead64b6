--------------------------- MODULE SequentialPass ---------------------------
(***************************************************************************)
(* One overwrite pass by the calling thread alone: wipe_ranges_sequential  *)
(* of wipe.c, which wipe_execute uses for removable disks and for every    *)
(* target that is not a single range from offset 0 (the gaps between       *)
(* partitions).  It walks the range list in order and writes every range   *)
(* chunk by chunk.                                                         *)
(***************************************************************************)
EXTENDS Geometry, Sequences

VARIABLES
  ranges,   \* target.ranges; a pass does not change it
  pc,       \* "start", "range" (head of the outer loop), "chunk", "returned"
  index,    \* the range being written
  offset,   \* where the next chunk goes
  failed,   \* shared.failed
  errorAt,  \* the offset in the text of shared.error; -1 for no text
  done,     \* shared.bytes_done
  wiped,    \* bytes overwritten on the device
  ret       \* what the pass has returned

\* range_list_push drops empty ranges.
ByteRange == [offset : Nat, length : Nat \ {0}]

vars == <<ranges, pc, index, offset, failed, errorAt, done, wiped, ret>>

End(i) == ranges[i].offset + ranges[i].length

Init ==
  /\ ranges \in Seq(ByteRange)
  /\ pc = "start" /\ index = 1 /\ offset = 0
  /\ failed = FALSE /\ errorAt = -1 /\ done = 0
  /\ wiped = {} /\ ret = "running"

\* Without a buffer or a random stream the pass fails before its loop, with
\* the shared flag as it was.
Start ==
  /\ pc = "start"
  /\ \/ pc' = "range" /\ UNCHANGED ret
     \/ pc' = "returned" /\ ret' = "fail"
  /\ UNCHANGED <<index, offset, failed, errorAt, done, wiped>>

NextRange ==
  /\ pc = "range" /\ index <= Len(ranges) /\ ~failed
  /\ offset' = ranges[index].offset
  /\ pc' = "chunk"
  /\ UNCHANGED <<index, failed, errorAt, done, wiped, ret>>

AllRanges ==
  /\ pc = "range" /\ (index > Len(ranges) \/ failed)
  /\ pc' = "returned" /\ ret' = IF failed THEN "fail" ELSE "ok"
  /\ UNCHANGED <<index, offset, failed, errorAt, done, wiped>>

\* Mutant of ToWrite: the chunk is not cut at the end of the range.
ToWriteWhole == IF offset < End(index) THEN AlignDown(Chunk, Sector) ELSE 0
\* The size of the next chunk: 0 if the range is done, or if what is left of
\* it, or the configured chunk, is less than a sector.
ToWrite ==
  IF offset < End(index)
  THEN AlignDown(OwMin(End(index) - offset, Chunk), Sector)
  ELSE 0

\* Mutant of WriteChunk: advances by the nominal chunk size.
WriteChunkNominal ==
  /\ pc = "chunk" /\ ToWrite # 0
  /\ wiped' = wiped \cup Bytes(offset, offset + ToWrite)
  /\ offset' = offset + Chunk
  /\ done' = done + Chunk
  /\ UNCHANGED <<pc, index, failed, errorAt, ret>>

WriteChunk ==
  /\ pc = "chunk" /\ ToWrite # 0
  /\ wiped' = wiped \cup Bytes(offset, offset + ToWrite)
  /\ offset' = offset + ToWrite
  /\ done' = done + ToWrite
  /\ UNCHANGED <<pc, index, failed, errorAt, ret>>

\* A failed write may have reached some of the chunk's sectors.  The break
\* leaves the inner loop, the flag the outer one.
WriteFails ==
  /\ pc = "chunk" /\ ToWrite # 0
  /\ \E n \in 0 .. ToWrite :
       n % Sector = 0 /\ wiped' = wiped \cup Bytes(offset, offset + n)
  /\ failed' = TRUE /\ errorAt' = offset
  /\ pc' = "range" /\ index' = index + 1
  /\ UNCHANGED <<offset, done, ret>>

\* Mutant of RangeDone: a tail shorter than a sector does not leave the loop.
RangeDoneNoBreak ==
  /\ pc = "chunk" /\ ToWrite = 0
  /\ IF offset < End(index) THEN UNCHANGED <<pc, index>>
     ELSE pc' = "range" /\ index' = index + 1
  /\ UNCHANGED <<offset, failed, errorAt, done, wiped, ret>>

RangeDone ==
  /\ pc = "chunk" /\ ToWrite = 0
  /\ pc' = "range" /\ index' = index + 1
  /\ UNCHANGED <<offset, failed, errorAt, done, wiped, ret>>

Step ==
  /\ Start \/ NextRange \/ AllRanges \/ WriteChunk \/ WriteFails \/ RangeDone
  /\ UNCHANGED ranges

Returned == pc = "returned" /\ UNCHANGED vars

Next == Step \/ Returned

Spec == Init /\ [][Next]_vars
-----------------------------------------------------------------------------
\* The sectors of range i that a pass can write.
Sectors(i) ==
  Bytes(ranges[i].offset, ranges[i].offset + AlignDown(ranges[i].length, Sector))

Target == UNION { Sectors(i) : i \in DOMAIN ranges }

TypeOK ==
  /\ ranges \in Seq(ByteRange)
  /\ pc \in {"start", "range", "chunk", "returned"}
  /\ index \in 1 .. Len(ranges) + 1
  /\ offset \in Nat /\ errorAt \in Nat \cup {-1}
  /\ failed \in BOOLEAN /\ done \in Nat
  /\ wiped \subseteq Target
  /\ ret \in {"running", "ok", "fail"}

\* A pass that returns success has overwritten the whole sectors of all its
\* ranges, and no byte outside them.
SuccessIsComplete == ret = "ok" => wiped = Target

\* Ranges are written in the order of the list: whatever the pass is doing,
\* the ranges before the current one are complete, and the current one is
\* complete up to the write offset.
InOrder ==
  ~failed =>
    /\ \A i \in 1 .. index - 1 : Sectors(i) \subseteq wiped
    /\ pc = "chunk" => Bytes(ranges[index].offset, offset) \subseteq wiped

\* A pass that fails without raising the flag has not written anything.
SilentFailureIsEarly == ret = "fail" /\ ~failed => wiped = {}

\* The pass keeps the promise of PassSpec, as the thread pool does.
Promise == INSTANCE PassSpec WITH target <- Target
KeepsPromise == Promise!PassPromise
=============================================================================
