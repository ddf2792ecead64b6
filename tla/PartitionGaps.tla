---------------------------- MODULE PartitionGaps ----------------------------
(***************************************************************************)
(* What --unallocated and block-cartographer wipe: partition_map_read and  *)
(* partition_map_unallocated of partition.c.  The partition table is read  *)
(* into a list of partitions, the list is sorted by start, and one walk    *)
(* over it collects the gaps, which become the ranges of the wipe.         *)
(*                                                                         *)
(* Positions and lengths are counted in bytes: the code multiplies what a  *)
(* table says by the sector size as it reads it.  Sectors have 512 bytes,  *)
(* or at least no more than the buffer for the MBR.                        *)
(***************************************************************************)
EXTENDS Geometry, FiniteSets, Sequences

CONSTANTS
  Capacity,   \* of the disk
  Tables      \* the partition tables a disk may have

\* What a partition table says, entry by entry.  kind: "none" has no MBR
\* signature, "gpt" a protective entry and a readable GPT, "badgpt" the former
\* only.  An MBR entry is used if its type is not 0.  Both kinds of table count
\* in sectors.
Entry == [used : BOOLEAN, start : Nat, length : Nat]

ASSUME GapsAssumption ==
  /\ Capacity \in Nat /\ Capacity >= 2 * Sector
  /\ Tables \subseteq [kind : {"none", "mbr", "gpt", "badgpt"}, entries : Seq(Entry)]
  /\ \A t \in Tables : \A k \in DOMAIN t.entries :
       t.entries[k].start % Sector = 0 /\ t.entries[k].length % Sector = 0

VARIABLES
  table,   \* the table on the disk; never changes
  pc,      \* "read", "sort", "walk", "done", "failed", "crashed"
  parts,   \* map.partitions, later sorted
  i,       \* the walk's index
  cursor,  \* end of what the walk has seen
  gaps     \* out.ranges

vars == <<table, pc, parts, i, cursor, gaps>>

Extent(start, length) == [start |-> start, length |-> length]
BytesOf(r) == Bytes(r.start, r.start + r.length)

Init ==
  /\ table \in Tables
  /\ pc = "read" /\ parts = <<>> /\ i = 1 /\ cursor = 0 /\ gaps = <<>>

\* The loops of parse_gpt and parse_mbr skip unused and empty entries.
Used(entries) ==
  { k \in DOMAIN entries : entries[k].used /\ entries[k].length > 0 }

\* The indices in K, in order.
Enumerations(K) ==
  { f \in [1 .. Cardinality(K) -> K] :
      /\ \A m, n \in 1 .. Cardinality(K) : m < n => f[m] < f[n]
      /\ \A k \in K : \E m \in 1 .. Cardinality(K) : f[m] = k }

\* map.partitions after the loops: the used entries, in the table's order.
Listed(entries) ==
  { [m \in DOMAIN f |-> Extent(entries[f[m]].start, entries[f[m]].length)] :
      f \in Enumerations(Used(entries)) }

\* The protective MBR entry, which covers the disk from sector 1 on.
Protective == << Extent(Sector, AlignDown(Capacity, Sector) - Sector) >>

\* partition_map_read.  A disk without MBR has no partitions; if the GPT
\* cannot be read, its protective entry is taken for a partition.  parse_gpt
\* reads a whole sector into its 92 bytes of header, so that a disk with a
\* protective entry may also end the process.
Read ==
  /\ pc = "read"
  /\ \/ pc' = "sort"
        /\ parts' \in CASE table.kind = "none" -> { <<>> }
                        [] table.kind = "badgpt" -> { Protective }
                        [] OTHER -> Listed(table.entries)
     \/ pc' = "failed" /\ UNCHANGED parts
     \/ table.kind \in {"gpt", "badgpt"} /\ pc' = "crashed" /\ UNCHANGED parts
  /\ UNCHANGED <<table, i, cursor, gaps>>

\* qsort by start; entries that start alike may come in any order.
Sort ==
  /\ pc = "sort" /\ pc' = "walk"
  /\ \E p \in [DOMAIN parts -> DOMAIN parts] :
       /\ \A m \in DOMAIN parts : \E n \in DOMAIN parts : p[n] = m
       /\ \A m, n \in DOMAIN parts : m < n => parts[p[m]].start <= parts[p[n]].start
       /\ parts' = [k \in DOMAIN parts |-> parts[p[k]]]
  /\ UNCHANGED <<table, i, cursor, gaps>>

\* range_list_push drops empty ranges.
Push(start, length) ==
  gaps' = IF length = 0 THEN gaps ELSE Append(gaps, Extent(start, length))

\* One round of the walk.
Visit ==
  LET p == parts[i] IN
  /\ pc = "walk" /\ i <= Len(parts)
  /\ IF p.start > cursor THEN Push(cursor, p.start - cursor) ELSE UNCHANGED gaps
  /\ cursor' = IF p.start + p.length > cursor THEN p.start + p.length ELSE cursor
  /\ i' = i + 1
  /\ UNCHANGED <<table, pc, parts>>

\* Mutant of Finish: the space behind the last partition is left out.
FinishEarly ==
  /\ pc = "walk" /\ i > Len(parts)
  /\ pc' = "done"
  /\ UNCHANGED <<table, parts, i, cursor, gaps>>

\* The gap behind the last partition; without partitions, the whole disk.
Finish ==
  /\ pc = "walk" /\ i > Len(parts)
  /\ pc' = "done"
  /\ IF cursor < Capacity THEN Push(cursor, Capacity - cursor) ELSE UNCHANGED gaps
  /\ UNCHANGED <<table, parts, i, cursor>>

Ended == pc \in {"done", "failed", "crashed"} /\ UNCHANGED vars

Next == Read \/ Sort \/ Visit \/ Finish \/ Ended

Spec == Init /\ [][Next]_vars
-----------------------------------------------------------------------------
Gaps == UNION { BytesOf(gaps[k]) : k \in DOMAIN gaps }

\* The bytes of the used partitions, from the table itself.
Occupied ==
  UNION { BytesOf(Extent(table.entries[k].start, table.entries[k].length)) :
            k \in { n \in DOMAIN table.entries : table.entries[n].used } }

HasEntries == table.kind \in {"mbr", "gpt"}
PartBytes == UNION { BytesOf(parts[k]) : k \in DOMAIN parts }
InsideDisk == \A k \in DOMAIN parts : parts[k].start + parts[k].length <= Capacity

TypeOK ==
  /\ table \in Tables
  /\ pc \in {"read", "sort", "walk", "done", "failed", "crashed"}
  /\ parts \in Seq([start : Nat, length : Nat])
  /\ i \in 1 .. Len(parts) + 1
  /\ cursor \in Nat
  /\ gaps \in Seq([start : Nat, length : Nat \ {0}])

\* No byte of a partition that the table on the disk lists is ever in a gap,
\* whatever the order of the table, and however its partitions overlap, nest or
\* exceed the disk.
GapsAvoidPartitions == HasEntries => Gaps \cap Occupied = {}

\* On a disk that holds its partitions, the gaps are all the rest of it, and
\* they come in order and do not touch: a pass over them writes every byte
\* of the rest, and none twice.
GapsComplete ==
  pc = "done" /\ InsideDisk =>
    /\ Gaps = Bytes(0, Capacity) \ PartBytes
    /\ \A m, n \in DOMAIN gaps : m < n => gaps[m].start + gaps[m].length < gaps[n].start

(***************************************************************************)
(* What the documentation says and the code does not do.                   *)
(***************************************************************************)

\* The gaps of a partitioned disk are space between partitions: the sectors
\* that hold the partition table itself (sector 0, and sector 1 of a GPT) are
\* not among them.
TableSpared ==
  pc = "done" =>
    /\ table.kind # "none" => Bytes(0, Sector) \cap Gaps = {}
    /\ table.kind \in {"gpt", "badgpt"} => Bytes(Sector, 2 * Sector) \cap Gaps = {}
=============================================================================
