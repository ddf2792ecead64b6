---------------------------- MODULE ThreadedPass ----------------------------
(***************************************************************************)
(* One overwrite pass by the thread pool: run_workers and worker_thread of *)
(* wipe.c.  The calling thread cuts [0, Total) into one range per worker,  *)
(* creates the workers one after the other, waits for them and collects    *)
(* their errors.  A worker writes its range chunk by chunk until it is     *)
(* done or until somebody has set the shared failed flag.                  *)
(*                                                                         *)
(* Windows and POSIX have a run_workers each; the variable windows says    *)
(* whose this is.  They differ in who may record an error, in how the threads are    *)
(* joined, and in the error text of a failed pass.                         *)
(*                                                                         *)
(* A step is what one thread does between two accesses to shared state, so *)
(* workers interleave between testing the flag, writing a chunk, counting  *)
(* it and raising the flag, and also with the creation of later workers.   *)
(***************************************************************************)
EXTENDS OwArith, FiniteSets

CONSTANTS
  Threads,   \* ow_thread_count: the number of worker slots
  Total,     \* total_len: bytes in the single range, which starts at 0
  Sector,    \* geo.logical_sector_size
  Chunk      \* cfg.chunk_size

ASSUME PassAssumption ==
  /\ Threads \in Nat \ {0}
  /\ Total \in Nat
  /\ Sector \in Nat \ {0}
  /\ Chunk \in Nat

Workers == 0 .. Threads - 1

VARIABLES
  windows,   \* whether this is the Windows build; never changes
  pc,        \* the calling thread: "alloc", "spawn", "join", "returned"
  spawned,   \* number of workers created
  cursor,    \* offset at which the next range starts
  joined,    \* POSIX: number of slots joined so far
  first,     \* first[i], last[i]: worker i's range is [first[i], last[i])
  last,
  offset,    \* offset[i]: where worker i writes next
  wpc,       \* wpc[i]: what worker i is about to do
  erred,     \* workers that have filled in args[i].error
  failed,    \* shared.failed
  error,     \* shared.error: "none", "create", "write" or "worker"
  done,      \* shared.bytes_done
  late,      \* history: chunks worker i wrote with failed already set
  wiped,     \* bytes overwritten on the device
  ret        \* what the pass has returned

mainVars   == <<windows, pc, spawned, cursor, joined, first, last, error, ret>>
workerVars == <<offset, wpc, erred, late, done, wiped>>
vars == <<mainVars, workerVars, failed>>

Init ==
  /\ windows \in BOOLEAN
  /\ pc = "alloc"
  /\ spawned = 0 /\ cursor = 0 /\ joined = 0
  /\ first = [i \in Workers |-> 0] /\ last = [i \in Workers |-> 0]
  /\ offset = [i \in Workers |-> 0]
  /\ wpc = [i \in Workers |-> "none"]
  /\ erred = {} /\ failed = FALSE /\ error = "none"
  /\ done = 0 /\ late = [i \in Workers |-> 0]
  /\ wiped = {} /\ ret = "running"

\* Threads die with the process; that the pass has returned does not stop them.
Alive == ret # "crashed"

(***************************************************************************)
(* The calling thread.                                                     *)
(***************************************************************************)

\* An empty range or a failed calloc ends the pass before the flag is ever
\* touched; otherwise the slots exist and the loop over them begins.
Alloc ==
  /\ pc = "alloc"
  /\ \/ /\ pc' = "returned" /\ ret' = "fail"
     \/ /\ Total > 0
        /\ pc' = "spawn" /\ UNCHANGED ret
  /\ UNCHANGED <<windows, spawned, cursor, joined, first, last, error, workerVars, failed>>

\* Mutant of SlotLength: no rounding to sectors.
SlotLengthUnaligned(i) ==
  IF i = Threads - 1 THEN Total - cursor ELSE Total \div Threads

\* The length of slot i's range: Total/Threads for every slot but the last,
\* which takes what is left; both rounded down to whole sectors.
SlotLength(i) ==
  AlignDown(IF i = Threads - 1 THEN Total - cursor ELSE Total \div Threads, Sector)

\* One round of the creation loop that ends with a running worker.  The
\* worker's buffer may be missing: nobody tests platform_alloc_aligned.
Spawn ==
  /\ pc = "spawn" /\ spawned < Threads
  /\ first' = [first EXCEPT ![spawned] = cursor]
  /\ last' = [last EXCEPT ![spawned] = cursor + SlotLength(spawned)]
  /\ offset' = [offset EXCEPT ![spawned] = cursor]
  /\ \E start \in {"check", "nobuffer"} : wpc' = [wpc EXCEPT ![spawned] = start]
  /\ cursor' = cursor + SlotLength(spawned)
  /\ spawned' = spawned + 1
  /\ UNCHANGED <<windows, pc, joined, error, ret, erred, late, done, wiped, failed>>

\* One round that does not: rng_create or the thread creation fails, the
\* flag is set and the loop is left.  Only Windows names the second cause.
SpawnFails ==
  /\ pc = "spawn" /\ spawned < Threads
  /\ failed' = TRUE
  /\ \/ UNCHANGED error
     \/ windows /\ error' = "create"
  /\ pc' = "join"
  /\ UNCHANGED <<windows, spawned, cursor, joined, first, last, ret, workerVars>>

AllSpawned ==
  /\ pc = "spawn" /\ spawned = Threads
  /\ pc' = "join"
  /\ UNCHANGED <<windows, spawned, cursor, joined, first, last, error, ret, workerVars, failed>>

\* The cleanup loop keeps the first worker error it meets.
Collect(err, slots) ==
  IF err = "none" /\ erred \cap slots # {} THEN "write" ELSE err

Status == IF failed THEN "fail" ELSE "ok"

\* Mutant of JoinWindows: wait for handles that were never created.
JoinAllSlots ==
  /\ windows /\ pc = "join"
  /\ \A i \in Workers : wpc[i] = "exited"
  /\ pc' = "returned" /\ ret' = Status
  /\ UNCHANGED <<windows, spawned, cursor, joined, first, last, error, workerVars, failed>>

\* Windows waits for all the handles it has, then cleans every slot up and
\* makes sure that a failed pass has a text.
JoinWindows ==
  /\ windows /\ pc = "join"
  /\ \A i \in 0 .. spawned - 1 : wpc[i] = "exited"
  /\ LET err == Collect(error, Workers)
     IN  error' = IF failed /\ err = "none" THEN "worker" ELSE err
  /\ pc' = "returned" /\ ret' = Status
  /\ UNCHANGED <<windows, spawned, cursor, joined, first, last, workerVars, failed>>

\* Mutant of JoinPosix: skip the wait.
JoinPosixDetached ==
  /\ ~windows /\ pc = "join" /\ joined < spawned
  /\ error' = Collect(error, {joined})
  /\ joined' = joined + 1
  /\ UNCHANGED <<windows, pc, spawned, cursor, first, last, ret, workerVars, failed>>

\* POSIX joins and cleans slot by slot, all Threads of them ...
JoinPosix ==
  /\ ~windows /\ pc = "join"
  /\ joined < spawned /\ wpc[joined] = "exited"
  /\ error' = Collect(error, {joined})
  /\ joined' = joined + 1
  /\ UNCHANGED <<windows, pc, spawned, cursor, first, last, ret, workerVars, failed>>

\* ... so after a failed creation it joins pthread_t values that no
\* pthread_create ever filled in, which has no defined outcome: the join
\* fails and the loop goes on, or the process dies.
JoinMissing ==
  /\ ~windows /\ pc = "join"
  /\ spawned <= joined /\ joined < Threads
  /\ \/ joined' = joined + 1 /\ UNCHANGED <<pc, ret>>
     \/ pc' = "returned" /\ ret' = "crashed" /\ UNCHANGED joined
  /\ UNCHANGED <<windows, spawned, cursor, first, last, error, workerVars, failed>>

JoinedPosix ==
  /\ ~windows /\ pc = "join" /\ joined = Threads
  /\ pc' = "returned" /\ ret' = Status
  /\ UNCHANGED <<windows, spawned, cursor, joined, first, last, error, workerVars, failed>>

Caller == Alloc \/ Spawn \/ SpawnFails \/ AllSpawned
            \/ JoinWindows \/ JoinPosix \/ JoinMissing \/ JoinedPosix

(***************************************************************************)
(* The workers.                                                            *)
(***************************************************************************)

ToWrite(i) == AlignDown(OwMin(last[i] - offset[i], Chunk), Sector)

\* Mutant of WantsToWrite: a worker that ignores the flag.
WantsToWriteAnyway(i) == offset[i] < last[i] /\ ToWrite(i) # 0

WantsToWrite(i) == offset[i] < last[i] /\ ~failed /\ ToWrite(i) # 0

Goto(i, label) == wpc' = [wpc EXCEPT ![i] = label]

\* The loop test, the size of the chunk and its random data.
Check(i) ==
  /\ Alive /\ wpc[i] = "check"
  /\ Goto(i, IF WantsToWrite(i) THEN "write" ELSE "exited")
  /\ UNCHANGED <<mainVars, offset, erred, late, done, wiped, failed>>

\* A worker without a buffer: rng_fill leaves at once and platform_pwrite
\* refuses to write, so its first chunk fails and nothing reaches the device.
CheckNoBuffer(i) ==
  /\ Alive /\ wpc[i] = "nobuffer"
  /\ Goto(i, IF WantsToWrite(i) THEN "flag" ELSE "exited")
  /\ UNCHANGED <<mainVars, offset, erred, late, done, wiped, failed>>

NoteLate(i) ==
  late' = IF failed THEN [late EXCEPT ![i] = @ + 1] ELSE late

\* platform_pwrite writes the chunk, or fails after some of its sectors.
Write(i) ==
  /\ Alive /\ wpc[i] = "write"
  /\ \/ /\ wiped' = wiped \cup Bytes(offset[i], offset[i] + ToWrite(i))
        /\ Goto(i, "count")
     \/ \E n \in 0 .. ToWrite(i) :
          /\ n % Sector = 0
          /\ wiped' = wiped \cup Bytes(offset[i], offset[i] + n)
          /\ Goto(i, "flag")
  /\ NoteLate(i)
  /\ UNCHANGED <<mainVars, offset, erred, done, failed>>

\* Mutant of Count: progress by the nominal chunk size.
CountChunk(i) ==
  /\ Alive /\ wpc[i] = "count"
  /\ offset' = [offset EXCEPT ![i] = @ + ToWrite(i)]
  /\ done' = done + Chunk
  /\ Goto(i, "check")
  /\ UNCHANGED <<mainVars, erred, late, wiped, failed>>

Count(i) ==
  /\ Alive /\ wpc[i] = "count"
  /\ offset' = [offset EXCEPT ![i] = @ + ToWrite(i)]
  /\ done' = done + ToWrite(i)
  /\ Goto(i, "check")
  /\ UNCHANGED <<mainVars, erred, late, wiped, failed>>

\* Mutant of Flag: the Windows worker stores the flag instead of swapping it.
FlagStored(i) ==
  /\ Alive /\ wpc[i] = "flag"
  /\ failed' = TRUE
  /\ Goto(i, "record")
  /\ UNCHANGED <<mainVars, offset, erred, late, done, wiped>>

\* Windows raises the flag with a compare-and-swap, and only the worker that
\* wins it goes on to record its error; POSIX stores the flag.
Flag(i) ==
  /\ Alive /\ wpc[i] = "flag"
  /\ failed' = TRUE
  /\ Goto(i, IF windows /\ failed THEN "exited" ELSE "record")
  /\ UNCHANGED <<mainVars, offset, erred, late, done, wiped>>

Record(i) ==
  /\ Alive /\ wpc[i] = "record"
  /\ erred' = erred \cup {i}
  /\ Goto(i, "exited")
  /\ UNCHANGED <<mainVars, offset, late, done, wiped, failed>>

Worker(i) == Check(i) \/ CheckNoBuffer(i) \/ Write(i) \/ Count(i) \/ Flag(i) \/ Record(i)

Returned == ret # "running" /\ UNCHANGED vars

Next == Caller \/ (\E i \in Workers : Worker(i)) \/ Returned

Spec == Init /\ [][Next]_vars

\* The operating system runs every thread, and platform_pwrite, which bounds
\* its retries, returns.
FairSpec == Spec /\ WF_vars(Caller) /\ \A i \in Workers : WF_vars(Worker(i))
-----------------------------------------------------------------------------
(***************************************************************************)
(* Properties.                                                             *)
(***************************************************************************)

WorkerStates ==
  {"none", "check", "nobuffer", "write", "count", "flag", "record", "exited"}

TypeOK ==
  /\ windows \in BOOLEAN
  /\ pc \in {"alloc", "spawn", "join", "returned"}
  /\ spawned \in 0 .. Threads /\ joined \in 0 .. Threads
  /\ cursor \in 0 .. Total
  /\ first \in [Workers -> 0 .. Total] /\ last \in [Workers -> 0 .. Total]
  /\ offset \in [Workers -> 0 .. Total]
  /\ wpc \in [Workers -> WorkerStates]
  /\ erred \subseteq Workers /\ failed \in BOOLEAN
  /\ error \in {"none", "create", "write", "worker"}
  /\ done \in Nat /\ late \in [Workers -> Nat]
  /\ wiped \subseteq Bytes(0, Total)
  /\ ret \in {"running", "ok", "fail", "crashed"}

\* The bytes a pass is there for: the whole sectors of the range.
Target == Bytes(0, AlignDown(Total, Sector))

Created == 0 .. spawned - 1

\* run_workers' arithmetic never hands two workers the same byte, never
\* leaves a gap between two workers, and starts and ends every range on a
\* sector boundary inside the target; "total_len - cursor" never wraps.
RangesPartition ==
  /\ cursor <= Total
  /\ \A i \in Created :
       /\ first[i] <= last[i] /\ last[i] <= cursor
       /\ first[i] % Sector = 0 /\ last[i] % Sector = 0
  /\ \A i, j \in Created : i < j => last[i] <= first[j]
  /\ \A b \in Bytes(0, cursor) : \E i \in Created : b \in Bytes(first[i], last[i])
  /\ spawned = Threads => cursor = AlignDown(Total, Sector)

\* A pass that returns success has overwritten every whole sector of the
\* range and nothing else, whatever the workers' interleaving.
SuccessIsComplete == ret = "ok" => wiped = Target

\* shared.bytes_done, which the progress bar shows, never runs ahead of the
\* bytes on the device, and is exact when the pass succeeds.
ProgressIsHonest ==
  /\ done <= Cardinality(wiped)
  /\ ret = "ok" => done = Cardinality(Target)

\* On Windows the error of a failed pass is that of the first worker to fail,
\* alone, and a pass that failed after its workers started names a cause.
FailureIsNamed ==
  windows =>
    /\ Cardinality(erred) <= 1
    /\ (ret = "fail" /\ failed) => error # "none"
    /\ (ret = "fail" /\ erred # {}) => error \in {"write", "create"}

\* Once a worker has raised the flag, every worker finishes at most the chunk
\* it had already decided to write.
StopsAfterFailure == \A i \in Workers : late[i] <= 1

\* The detailed pass keeps the promise of PassSpec: in particular run_workers
\* does not return while a worker may still write to the device.
Promise == INSTANCE PassSpec WITH target <- Target
KeepsPromise == Promise!PassPromise

\* Every pass ends: no join waits for a thread that will not exit.
PassEnds == <>(ret # "running")
=============================================================================
