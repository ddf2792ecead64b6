----------------------------- MODULE TargetWipe -----------------------------
(***************************************************************************)
(* From a target to the bytes overwritten: target_resolve of target.c      *)
(* finds the ranges of a wipe, slack-hunter stretches them, and one pass   *)
(* of wipe_execute writes them.  The parts of PartitionGaps and            *)
(* SequentialPass, composed; the thread pool, which takes a single range   *)
(* from offset 0, is the one PassSpec promises (ThreadedPass keeps it).    *)
(***************************************************************************)
EXTENDS PartitionGaps

CONSTANTS
  Sizes,           \* what a file may have for a size
  Clusters,        \* what the system may call the cluster size of a file
  DefaultCluster   \* 4096, where that is of no use

ASSUME TargetAssumption ==
  /\ Sizes \subseteq Nat /\ Clusters \subseteq Nat
  /\ DefaultCluster \in Nat \ {0}

VARIABLES
  request,   \* what is to be wiped, and where; never changes
  size,      \* geo.capacity_bytes: of the file when it was opened, or the device
  extended,  \* target.slack.extended
  stage,     \* "resolve", "slack", "pass"
  slackEnd,  \* target.slack.wipe_size; 0 if the target was not analysed
  ranges, passPc, index, offset, failed, errorAt, done, wiped, ret

Pass == INSTANCE SequentialPass WITH pc <- passPc
Promise == INSTANCE PassSpec WITH target <- Pass!Target

wipeVars == <<ranges, passPc, index, offset, failed, errorAt, done, wiped, ret>>
targetVars == <<vars, request, size, extended, stage, slackEnd, wipeVars>>

\* kind: "gaps" (--unallocated, block-cartographer), "filler" (--free-space)
\* or "whole"; regular: a file, not a device; sequential: what
\* wipe_use_sequential says of a device; windows: the build, which matters
\* for the slack of a file only.
Requests ==
  { r \in [kind : {"gaps", "filler", "whole"}, regular : BOOLEAN, slack : BOOLEAN,
           sequential : BOOLEAN, windows : BOOLEAN] :
      /\ r.kind = "filler" => r.regular
      /\ r.sequential => ~r.regular
      /\ r.windows => r.slack /\ r.regular }

TargetInit ==
  /\ Init
  /\ request \in Requests
  /\ request.kind # "gaps" => table.kind = "none"
  /\ IF request.regular /\ request.kind # "gaps" THEN size \in Sizes ELSE size = Capacity
  /\ stage = "resolve" /\ slackEnd = 0 /\ extended = FALSE
  /\ ranges = <<>>
  /\ passPc = "start" /\ index = 1 /\ offset = 0 /\ failed = FALSE /\ errorAt = -1
  /\ done = 0 /\ wiped = {} /\ ret = "running"

(***************************************************************************)
(* target_resolve                                                          *)
(***************************************************************************)

ReadTable ==
  /\ stage = "resolve" /\ request.kind = "gaps"
  /\ Read \/ Sort \/ Visit \/ Finish
  /\ UNCHANGED <<request, size, extended, stage, slackEnd, wipeVars>>

\* The gaps become the ranges.
TakeGaps ==
  /\ stage = "resolve" /\ pc = "done" /\ stage' = "slack"
  /\ ranges' = [k \in DOMAIN gaps |-> [offset |-> gaps[k].start, length |-> gaps[k].length]]
  /\ UNCHANGED <<vars, request, size, extended, slackEnd, passPc, index, offset, failed, errorAt,
                 done, wiped, ret>>

\* A file that is not empty, other than a filler, has at least one sector.
WholeLength ==
  LET whole == AlignDown(size, Sector) IN
  IF whole = 0 /\ size > 0 /\ request.regular /\ request.kind = "whole" THEN Sector ELSE whole

\* Any other target is one range, unless that is empty.
TakeWhole ==
  /\ stage = "resolve" /\ request.kind # "gaps" /\ stage' = "slack"
  /\ ranges' = IF WholeLength = 0 THEN <<>>
               ELSE << [offset |-> 0, length |-> WholeLength] >>
  /\ UNCHANGED <<vars, request, size, extended, slackEnd, passPc, index, offset, failed, errorAt,
                 done, wiped, ret>>

NoSlack ==
  /\ stage = "slack" /\ ~request.slack /\ stage' = "pass"
  /\ UNCHANGED <<vars, request, size, extended, slackEnd, wipeVars>>

\* apply_slack_hunter on what cannot be analysed: a range ends at the end of a
\* sector that is still on the device.
ToSectorEnd(r) ==
  LET up  == AlignUp(r.offset + r.length, Sector)
      end == IF up > size THEN AlignDown(size, Sector) ELSE up
  IN IF end > r.offset THEN [r EXCEPT !.length = end - r.offset] ELSE r

NoAnalysis ==
  /\ stage = "slack" /\ request.slack /\ stage' = "pass"
  /\ ranges' = [k \in DOMAIN ranges |-> ToSectorEnd(ranges[k])]
  /\ UNCHANGED <<vars, request, size, extended, slackEnd, passPc, index, offset, failed, errorAt,
                 done, wiped, ret>>

\* slack_hunter_analyze.  Only POSIX refuses clusters that are no power of two.
Usable(cluster) == cluster # 0 /\ (request.windows \/ IsPowerOfTwo(cluster))
WipeSize(cluster) ==
  AlignUp(size, IF Usable(cluster) THEN cluster ELSE DefaultCluster)

\* slack_hunter_extend_file, whose failure is a warning.
ExtendFile(end) == extended' \in {FALSE, end > size}

\* Whether the file has been extended or not, the first range, whatever it
\* was, now has its length.
Analysis ==
  /\ stage = "slack" /\ request.slack /\ request.regular /\ stage' = "pass"
  /\ \E c \in Clusters :
       LET end == WipeSize(c)
           whole == AlignDown(end, Sector)
       IN /\ slackEnd' = end
          /\ ExtendFile(end)
          /\ ranges' = IF ranges = <<>> THEN ranges
                       ELSE [ranges EXCEPT ![1].length =
                               IF whole = 0 /\ end > 0 THEN Sector ELSE whole]
  /\ UNCHANGED <<vars, request, size, passPc, index, offset, failed, errorAt, done, wiped, ret>>

(***************************************************************************)
(* One pass of wipe_execute                                                *)
(***************************************************************************)

\* Mutant of Pooled: every single range goes to the pool, which writes a range
\* of its length from offset 0.
PooledAnywhere == Len(ranges) = 1 /\ ~request.sequential

\* The engine is the thread pool.
Pooled == Len(ranges) = 1 /\ ranges[1].offset = 0 /\ ~request.sequential

\* run_workers adds the lengths up and starts from 0.
PoolBytes == Bytes(0, AlignDown(ranges[1].length, Sector))

PoolWrites ==
  /\ stage = "pass" /\ Pooled /\ ret = "running"
  /\ \E b \in PoolBytes \ wiped :
       b % Sector = 0 /\ wiped' = wiped \cup Bytes(b, b + Sector)
  /\ UNCHANGED <<vars, request, size, extended, stage, slackEnd, ranges, passPc, index, offset,
                 failed, errorAt, done, ret>>

PoolReturns ==
  /\ stage = "pass" /\ Pooled /\ ret = "running"
  /\ ret' \in {"ok", "fail"} /\ (ret' = "ok" => wiped = PoolBytes)
  /\ UNCHANGED <<vars, request, size, extended, stage, slackEnd, ranges, passPc, index, offset,
                 failed, errorAt, done, wiped>>

Sequential ==
  /\ stage = "pass" /\ ~Pooled /\ Pass!Step
  /\ UNCHANGED <<vars, request, size, extended, stage, slackEnd>>

Over == ret # "running" \/ pc \in {"failed", "crashed"}

TargetEnded == Over /\ UNCHANGED targetVars

Work ==
  \/ ReadTable \/ TakeGaps \/ TakeWhole \/ NoSlack \/ NoAnalysis \/ Analysis
  \/ PoolWrites \/ PoolReturns \/ Sequential

TargetNext == Work \/ TargetEnded

TargetSpec == TargetInit /\ [][TargetNext]_targetVars

\* Every step is one thread's own, or the pool's, which ends (ThreadedPass).
FairTarget == TargetSpec /\ WF_targetVars(Work)
-----------------------------------------------------------------------------
\* A disk image whose gaps slack-hunter has analysed as if it were a file.
ImageSlack == request.kind = "gaps" /\ slackEnd > 0

\* The bytes that no gap may hold, from what is on the disk: those of the used
\* entries, or of the protective entry if the GPT behind it cannot be read.
Spared ==
  IF HasEntries THEN Occupied
  ELSE IF table.kind = "badgpt" THEN BytesOf(Protective[1]) ELSE {}

\* The bytes that are to be wiped, from the request and what is on the disk.
Wanted ==
  IF request.kind = "gaps" THEN Bytes(0, Capacity) \ Spared ELSE Bytes(0, size)

\* Whatever the partition table, the geometry and the profile, nothing is
\* written that was not asked for: with gaps, no byte of a listed partition,
\* and behind the end of the disk only what lies before a partition that
\* starts there, which the code does not test (a device refuses such a write,
\* an image grows); otherwise on a device nothing behind its end, and behind
\* the end of a file no more than the rest of its last cluster or, in a file
\* of less than a sector, of its only sector.  (Left out: an image whose gaps
\* slack-hunter has analysed, which GapsOnly is about.)
OnlyWantedWritten ==
  ~ImageSlack =>
    \A b \in wiped \ Wanted :
      IF request.kind = "gaps"
      THEN b >= Capacity /\ b \notin Spared /\ \E k \in DOMAIN parts : b < parts[k].start
      ELSE request.regular /\ b >= size /\ b < (IF slackEnd > Sector THEN slackEnd ELSE Sector)

\* A wipe that returns success leaves less than a sector of what was asked
\* for; and nothing of a file whose slack was analysed, if clusters are whole
\* sectors.
OkLeavesNoSector ==
  ret = "ok" /\ ~ImageSlack /\ InsideDisk =>
    /\ Cardinality(Wanted \ wiped) < Sector
    /\ request.kind = "whole" /\ slackEnd % Sector = 0 => Bytes(0, slackEnd) \subseteq wiped

\* The ranges of a target, whatever they are, are written in their order.
InOrder == Pass!InOrder

\* Either engine keeps the promise of a pass on the ranges that were resolved.
KeepsPromise == Promise!PassPromise

\* Every wipe ends, whatever the table and the ranges.
WipeEnds == <>Over

(***************************************************************************)
(* What the documentation says and the code does not do.                   *)
(***************************************************************************)

\* "--unallocated <path>  Wipe partition gaps only": no byte of a partition
\* is written, with any profile.
GapsOnly == request.kind = "gaps" /\ HasEntries => wiped \cap Occupied = {}
=============================================================================
