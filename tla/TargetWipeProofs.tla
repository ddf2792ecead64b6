--------------------------- MODULE TargetWipeProofs ---------------------------
(***************************************************************************)
(* Proofs about TargetWipe, for any disk, any partition table, any file    *)
(* and any geometry.  There are three parts: the walk over the partition   *)
(* table (the actions of PartitionGaps), the sequential pass (the actions  *)
(* of SequentialPass), and their composition, whose invariant TargetInv    *)
(* holds those of the parts and ties them by AimInv: the ranges that the   *)
(* pass is to write are what was asked for.                                *)
(***************************************************************************)
EXTENDS TargetWipe, OwArithProofs, FiniteSetTheorems, SequenceTheorems

(***************************************************************************)
(* The walk.  Everything below the cursor belongs to a gap or to a         *)
(* partition (Covered), the partitions already visited end below the       *)
(* cursor (Behind), and the others start no earlier than the one being     *)
(* visited, as the list is sorted; so a gap that is pushed touches neither *)
(* (Apart).  Listing says that the list is the table's, and Shaped that    *)
(* gaps are made of whole sectors and stay on the disk, or nearly so.      *)
(***************************************************************************)

Positive == [start : Nat, length : Nat \ {0}]

GapTop(g) == gaps[g].start + gaps[g].length
PartTop(k) == parts[k].start + parts[k].length

Extents(entries) == { Extent(entries[k].start, entries[k].length) : k \in Used(entries) }

\* The list holds what the table says, and nothing else.
Known ==
  IF HasEntries THEN Extents(table.entries)
  ELSE IF table.kind = "badgpt" THEN { Protective[1] } ELSE {}
Listing == { parts[n] : n \in DOMAIN parts } = Known

Sorted ==
  \A m, n \in DOMAIN parts : m < n => parts[m].start <= parts[n].start

Apart ==
  \A g \in DOMAIN gaps, k \in DOMAIN parts :
    GapTop(g) <= parts[k].start \/ PartTop(k) <= gaps[g].start

Ascending ==
  \A m, n \in DOMAIN gaps : m < n => GapTop(m) < gaps[n].start

Behind ==
  /\ \A k \in 1 .. i - 1 : PartTop(k) <= cursor
  /\ \A g \in DOMAIN gaps : GapTop(g) < cursor
  /\ cursor = 0 \/ \E k \in DOMAIN parts : PartTop(k) = cursor

\* A gap is made of whole sectors, except for the last one, which ends with
\* the disk; only a partition behind the end makes one that leaves the disk.
Shaped ==
  \A g \in DOMAIN gaps :
    /\ Multiple(gaps[g].start, Sector)
    /\ Multiple(GapTop(g), Sector) \/ GapTop(g) = Capacity
    /\ GapTop(g) <= Capacity \/ \E k \in DOMAIN parts : GapTop(g) <= parts[k].start

InGap(b) == \E g \in DOMAIN gaps : gaps[g].start <= b /\ b < GapTop(g)
InPart(b) == \E k \in DOMAIN parts : parts[k].start <= b /\ b < PartTop(k)
Covered == \A b \in Nat : b < cursor => InGap(b) \/ InPart(b)
Complement == \A b \in Nat : b < Capacity => InGap(b) \/ InPart(b)

WalkInv ==
  /\ TypeOK
  /\ parts \in Seq(Positive)
  /\ pc \notin {"walk", "done"} => i = 1 /\ cursor = 0 /\ gaps = <<>>
  /\ pc \in {"sort", "walk", "done"} => Listing
  /\ pc \in {"walk", "done"} => Sorted /\ Apart /\ Ascending /\ Shaped
  /\ pc = "walk" => Behind /\ Covered
  /\ pc = "done" => /\ Complement
                    /\ InsideDisk => \A g \in DOMAIN gaps : GapTop(g) <= Capacity

-----------------------------------------------------------------------------
LEMMA SeqFacts ==
  ASSUME NEW T, NEW s \in Seq(T)
  PROVE  /\ Len(s) \in Nat /\ DOMAIN s = 1 .. Len(s)
         /\ \A k \in DOMAIN s : s[k] \in T
BY ElementOfSeq

LEMMA AppendFacts ==
  ASSUME NEW T, NEW s \in Seq(T), NEW e \in T
  PROVE  /\ Append(s, e) \in Seq(T)
         /\ DOMAIN Append(s, e) = 1 .. Len(s) + 1
         /\ \A k \in 1 .. Len(s) : Append(s, e)[k] = s[k]
         /\ Append(s, e)[Len(s) + 1] = e
BY AppendProperties

LEMMA FunctionSeq ==
  ASSUME NEW T, NEW n \in Nat, NEW f \in [1 .. n -> T]
  PROVE  f \in Seq(T) /\ Len(f) = n /\ DOMAIN f = 1 .. n
OBVIOUS

\* Ranges of positive length are ranges.
LEMMA PositiveSeq ==
  ASSUME NEW s \in Seq(Positive)
  PROVE  s \in Seq([start : Nat, length : Nat]) /\ Len(s) \in Nat
<1>1. /\ Len(s) \in Nat /\ DOMAIN s = 1 .. Len(s)
      /\ \A k \in DOMAIN s : s[k] \in Positive
  BY SeqFacts
<1>2. s \in [1 .. Len(s) -> Positive]
  BY LenProperties
<1>3. s \in [1 .. Len(s) -> [start : Nat, length : Nat]]
  BY <1>1, <1>2 DEF Positive
<1>. QED  BY <1>1, <1>3, FunctionSeq

\* The types of the lists' members.
LEMMA Types ==
  ASSUME WalkInv
  PROVE  /\ Len(parts) \in Nat /\ DOMAIN parts = 1 .. Len(parts)
         /\ Len(gaps) \in Nat /\ DOMAIN gaps = 1 .. Len(gaps)
         /\ \A k \in DOMAIN parts : /\ parts[k] \in Positive
                                    /\ parts[k].start \in Nat
                                    /\ parts[k].length \in Nat \ {0}
                                    /\ PartTop(k) \in Nat
         /\ \A g \in DOMAIN gaps : /\ gaps[g].start \in Nat
                                   /\ gaps[g].length \in Nat \ {0}
                                   /\ GapTop(g) \in Nat
<1>1. parts \in Seq(Positive) /\ gaps \in Seq(Positive)
  BY DEF WalkInv, TypeOK, Positive
<1>2. /\ Len(parts) \in Nat /\ DOMAIN parts = 1 .. Len(parts)
      /\ \A k \in DOMAIN parts : parts[k] \in Positive
  BY <1>1, SeqFacts
<1>3. /\ Len(gaps) \in Nat /\ DOMAIN gaps = 1 .. Len(gaps)
      /\ \A k \in DOMAIN gaps : gaps[k] \in Positive
  BY <1>1, SeqFacts
<1>. QED  BY <1>2, <1>3 DEF Positive, PartTop, GapTop

\* What the table read into a list looks like.
LEMMA ListedFacts ==
  ASSUME NEW entries \in Seq(Entry), NEW list \in Listed(entries)
  PROVE  /\ list \in Seq(Positive)
         /\ { list[n] : n \in DOMAIN list } = Extents(entries)
<1>. DEFINE K == Used(entries)
            N == Cardinality(K)
<1>1. /\ Len(entries) \in Nat /\ DOMAIN entries = 1 .. Len(entries)
      /\ \A k \in DOMAIN entries : entries[k] \in Entry
  BY SeqFacts
<1>2. K \subseteq 1 .. Len(entries)
  BY <1>1 DEF Used
<1>3. N \in Nat
  <2>1. IsFiniteSet(1 .. Len(entries))
    BY <1>1, FS_Interval
  <2>2. IsFiniteSet(K)
    BY <1>2, <2>1, FS_Subset
  <2>. QED  BY <2>2, FS_CardinalityType
<1>4. PICK f \in Enumerations(K) :
         list = [m \in DOMAIN f |-> Extent(entries[f[m]].start, entries[f[m]].length)]
  BY DEF Listed
<1>5. f \in [1 .. N -> K] /\ \A k \in K : \E m \in 1 .. N : f[m] = k
  BY <1>4 DEF Enumerations
<1>. HIDE DEF N
<1>6. \A k \in K : Extent(entries[k].start, entries[k].length) \in Positive
  <2>. SUFFICES ASSUME NEW k \in K
                PROVE  Extent(entries[k].start, entries[k].length) \in Positive
    OBVIOUS
  <2>1. entries[k].start \in Nat /\ entries[k].length \in Nat /\ entries[k].length > 0
    BY <1>1 DEF Used, Entry
  <2>. QED  BY <2>1 DEF Extent, Positive
<1>. HIDE DEF K
<1>7. list \in [1 .. N -> Positive]
  BY <1>4, <1>5, <1>6
<1>8. list \in Seq(Positive) /\ DOMAIN list = 1 .. N
  BY <1>3, <1>7, FunctionSeq
<1>9. ASSUME NEW k \in K
      PROVE  \E n \in DOMAIN list : list[n] = Extent(entries[k].start, entries[k].length)
  <2>1. PICK m \in 1 .. N : f[m] = k
    BY <1>5
  <2>2. list[m] = Extent(entries[k].start, entries[k].length)
    BY <1>4, <1>5, <2>1
  <2>. QED  BY <1>8, <2>2
<1>10. ASSUME NEW n \in DOMAIN list
       PROVE  \E k \in K : list[n] = Extent(entries[k].start, entries[k].length)
  <2>1. n \in 1 .. N /\ f[n] \in K
    BY <1>5, <1>8, <1>10
  <2>2. list[n] = Extent(entries[f[n]].start, entries[f[n]].length)
    BY <1>4, <1>5, <2>1
  <2>. QED  BY <2>1, <2>2
<1>. QED  BY <1>8, <1>9, <1>10 DEF K, Extents

-----------------------------------------------------------------------------
LEMMA WalkInit == Init => WalkInv
<1>. SUFFICES ASSUME Init PROVE WalkInv
  OBVIOUS
<1>1. TypeOK
  BY DEF Init, TypeOK
<1>. QED  BY <1>1 DEF Init, WalkInv

LEMMA ReadInv == WalkInv /\ Read => WalkInv'
<1>. SUFFICES ASSUME WalkInv, Read PROVE WalkInv'
  OBVIOUS
<1>1. pc = "read" /\ i = 1 /\ cursor = 0 /\ gaps = <<>>
  BY DEF WalkInv, Read
<1>2. UNCHANGED <<table, i, cursor, gaps>>
  BY DEF Read
<1>3. CASE pc' = "sort" /\ parts' \in CASE table.kind = "none" -> { <<>> }
                                        [] table.kind = "badgpt" -> { Protective }
                                        [] OTHER -> Listed(table.entries)
  <2>1. table.entries \in Seq(Entry)
    BY GapsAssumption DEF WalkInv, TypeOK
  <2>2. CASE table.kind = "none"
    <3>1. parts' = <<>>
      BY <1>3, <2>2
    <3>. QED  BY <1>1, <1>2, <1>3, <2>2, <3>1 DEF WalkInv, TypeOK, Listing, Known, HasEntries
  <2>3. CASE table.kind = "badgpt"
    <3>. DEFINE length == AlignDown(Capacity, Sector) - Sector
    <3>1. parts' = << Extent(Sector, length) >>
      BY <1>3, <2>3 DEF Protective
    <3>2. Extent(Sector, length) \in Positive
      <4>1. /\ AlignDown(Capacity, Sector) \in Nat
            /\ Capacity - AlignDown(Capacity, Sector) < Sector
        BY AlignDownFacts, GapsAssumption, GeometryAssumption
      <4>2. length \in Nat \ {0}
        BY <4>1, GapsAssumption, GeometryAssumption
      <4>. QED  BY <4>2, GeometryAssumption DEF Extent, Positive
    <3>. HIDE DEF length
    <3>3. parts' \in Seq(Positive) /\ Len(parts') = 1
      BY <3>1, <3>2
    <3>4. parts' \in Seq([start : Nat, length : Nat])
      BY <3>3, PositiveSeq
    <3>5. { parts'[m] : m \in DOMAIN parts' } = { Protective[1] }
      <4>1. parts' = Protective
        BY <1>3, <2>3
      <4>2. DOMAIN parts' = {1}
        BY <3>1
      <4>. QED  BY <4>1, <4>2
    <3>6. Listing'
      BY <1>2, <2>3, <3>5 DEF Listing, Known, HasEntries, Protective
    <3>. QED  BY <1>1, <1>2, <1>3, <2>3, <3>3, <3>4, <3>6 DEF WalkInv, TypeOK
  <2>4. CASE table.kind \notin {"none", "badgpt"}
    <3>1. parts' \in Listed(table.entries)
      BY <1>3, <2>4
    <3>2. /\ parts' \in Seq(Positive)
          /\ { parts'[n] : n \in DOMAIN parts' } = Extents(table.entries)
      BY <2>1, <3>1, ListedFacts
    <3>3. parts' \in Seq([start : Nat, length : Nat]) /\ Len(parts') \in Nat
      BY <3>2, PositiveSeq
    <3>4. Listing'
      <4>1. HasEntries
        BY <2>4, GapsAssumption DEF WalkInv, TypeOK, HasEntries
      <4>. QED  BY <1>2, <3>2, <4>1 DEF Listing, Known, HasEntries
    <3>. QED  BY <1>1, <1>2, <1>3, <3>2, <3>3, <3>4 DEF WalkInv, TypeOK
  <2>. QED  BY <2>2, <2>3, <2>4
<1>4. CASE pc' \in {"failed", "crashed"} /\ UNCHANGED parts
  BY <1>1, <1>2, <1>4 DEF WalkInv, TypeOK
<1>. QED  BY <1>3, <1>4 DEF Read

LEMMA SortInv == WalkInv /\ Sort => WalkInv'
<1>. SUFFICES ASSUME WalkInv, Sort PROVE WalkInv'
  OBVIOUS
<1>1. /\ pc = "sort" /\ pc' = "walk" /\ i = 1 /\ cursor = 0 /\ gaps = <<>>
      /\ UNCHANGED <<table, i, cursor, gaps>>
  BY DEF WalkInv, Sort
<1>2. PICK p \in [DOMAIN parts -> DOMAIN parts] :
         /\ \A m \in DOMAIN parts : \E n \in DOMAIN parts : p[n] = m
         /\ \A m, n \in DOMAIN parts : m < n => parts[p[m]].start <= parts[p[n]].start
         /\ parts' = [k \in DOMAIN parts |-> parts[p[k]]]
  BY DEF Sort
<1>3. DOMAIN parts = 1 .. Len(parts) /\ Len(parts) \in Nat
  BY Types
<1>4. parts' \in [1 .. Len(parts) -> Positive]
  BY <1>2, <1>3, Types
<1>5. parts' \in Seq(Positive) /\ Len(parts') = Len(parts) /\ DOMAIN parts' = DOMAIN parts
  BY <1>3, <1>4, FunctionSeq
<1>6. parts' \in Seq([start : Nat, length : Nat])
  BY <1>5, PositiveSeq
<1>7. Listing'
  <2>1. { parts'[n] : n \in DOMAIN parts' } = { parts[n] : n \in DOMAIN parts }
    <3>1. ASSUME NEW m \in DOMAIN parts PROVE \E n \in DOMAIN parts' : parts'[n] = parts[m]
      <4>1. PICK n \in DOMAIN parts : p[n] = m
        BY <1>2
      <4>. QED  BY <1>2, <1>5, <4>1
    <3>2. ASSUME NEW n \in DOMAIN parts' PROVE \E m \in DOMAIN parts : parts'[n] = parts[m]
      BY <1>2, <1>5
    <3>. QED  BY <3>1, <3>2
  <2>2. Listing
    BY <1>1 DEF WalkInv
  <2>. QED  BY <1>1, <2>1, <2>2 DEF Listing, Known, HasEntries
<1>8. Sorted'
  BY <1>2, <1>5 DEF Sorted
<1>9. DOMAIN gaps' = {}
  BY <1>1
<1>10. Apart' /\ Ascending' /\ Shaped' /\ Behind' /\ Covered'
  BY <1>1, <1>9 DEF Apart, Ascending, Shaped, Behind, Covered
<1>11. TypeOK'
  BY <1>1, <1>5, <1>6 DEF WalkInv, TypeOK
<1>. QED  BY <1>1, <1>5, <1>7, <1>8, <1>10, <1>11 DEF WalkInv

\* A gap that starts at the cursor and ends where no partition is left.
LEMMA PushFacts ==
  ASSUME WalkInv, pc = "walk", NEW n \in Nat \ {0}, gaps' = Append(gaps, Extent(cursor, n)),
         UNCHANGED <<parts, table>>,
         \A k \in DOMAIN parts : k < i \/ cursor + n <= parts[k].start
  PROVE  /\ gaps' \in Seq(Positive)
         /\ Apart' /\ Ascending'
         /\ \A b \in Nat : InGap(b) => InGap(b)'
         /\ \A b \in Nat : cursor <= b /\ b < cursor + n => InGap(b)'
         /\ \A g \in DOMAIN gaps' : GapTop(g)' <= cursor + n
         /\ \A g \in DOMAIN gaps' :
              \/ g \in DOMAIN gaps /\ gaps'[g] = gaps[g]
              \/ gaps'[g].start = cursor /\ GapTop(g)' = cursor + n
<1>0. PICK L \in Nat : L = Len(gaps)
  BY Types
<1>1. cursor \in Nat /\ i \in 1 .. Len(parts) + 1 /\ Apart /\ Ascending /\ Behind
  BY DEF WalkInv, TypeOK
<1>2. Extent(cursor, n) \in Positive /\ gaps \in Seq(Positive)
  BY <1>1 DEF Extent, Positive, WalkInv, TypeOK
<1>3. /\ gaps' \in Seq(Positive) /\ DOMAIN gaps' = 1 .. L + 1
      /\ \A g \in 1 .. L : gaps'[g] = gaps[g]
      /\ gaps'[L + 1] = Extent(cursor, n)
  BY <1>0, <1>2, AppendFacts
<1>4. L \in Nat /\ DOMAIN gaps = 1 .. L
  BY <1>0, Types
<1>5. \A g \in 1 .. L : GapTop(g)' = GapTop(g) /\ GapTop(g) \in Nat /\ GapTop(g) < cursor
                        /\ gaps[g].start \in Nat
  BY <1>1, <1>3, <1>4, Types DEF GapTop, Behind
<1>6. gaps'[L + 1].start = cursor /\ GapTop(L + 1)' = cursor + n
  BY <1>3 DEF GapTop, Extent
<1>7. \A g \in DOMAIN gaps' : g \in 1 .. L \/ g = L + 1
  BY <1>3, <1>4
<1>8. Apart'
  <2>. SUFFICES ASSUME NEW g \in DOMAIN gaps', NEW k \in DOMAIN parts
                PROVE  GapTop(g)' <= parts[k].start \/ PartTop(k) <= gaps'[g].start
    BY DEF Apart, PartTop
  <2>1. CASE g \in 1 .. L
    BY <1>1, <1>3, <1>4, <1>5, <2>1 DEF Apart
  <2>2. CASE g = L + 1
    <3>1. CASE k < i
      <4>1. k \in 1 .. i - 1
        BY <1>1, <3>1, Types
      <4>. QED  BY <1>1, <1>6, <2>2, <4>1 DEF Behind
    <3>2. CASE cursor + n <= parts[k].start
      BY <1>6, <2>2, <3>2
    <3>. QED  BY <3>1, <3>2
  <2>. QED  BY <1>7, <2>1, <2>2
<1>9. Ascending'
  <2>. SUFFICES ASSUME NEW g \in DOMAIN gaps', NEW h \in DOMAIN gaps', g < h
                PROVE  GapTop(g)' < gaps'[h].start
    BY DEF Ascending
  <2>1. g \in 1 .. L
    BY <1>3, <1>4
  <2>2. CASE h \in 1 .. L
    BY <1>1, <1>3, <1>4, <1>5, <2>1, <2>2 DEF Ascending
  <2>3. CASE h = L + 1
    BY <1>5, <1>6, <2>1, <2>3
  <2>. QED  BY <1>7, <2>2, <2>3
<1>10. ASSUME NEW b \in Nat, InGap(b) PROVE InGap(b)'
  <2>1. PICK g \in DOMAIN gaps : gaps[g].start <= b /\ b < GapTop(g)
    BY <1>10 DEF InGap
  <2>2. g \in DOMAIN gaps' /\ gaps'[g].start <= b /\ b < GapTop(g)'
    BY <1>3, <1>4, <1>5, <2>1
  <2>. QED  BY <2>2 DEF InGap
<1>11. ASSUME NEW b \in Nat, cursor <= b, b < cursor + n PROVE InGap(b)'
  <2>1. L + 1 \in DOMAIN gaps' /\ gaps'[L + 1].start <= b /\ b < GapTop(L + 1)'
    BY <1>3, <1>4, <1>6, <1>11
  <2>. QED  BY <2>1 DEF InGap
<1>12. ASSUME NEW g \in DOMAIN gaps' PROVE GapTop(g)' <= cursor + n
  BY <1>1, <1>5, <1>6, <1>7
<1>13. ASSUME NEW g \in DOMAIN gaps'
       PROVE  \/ g \in DOMAIN gaps /\ gaps'[g] = gaps[g]
              \/ gaps'[g].start = cursor /\ GapTop(g)' = cursor + n
  BY <1>3, <1>4, <1>6, <1>7
<1>. QED  BY <1>3, <1>8, <1>9, <1>10, <1>11, <1>12, <1>13

\* The partitions of the list are made of whole sectors, and so the cursor
\* stands between two sectors.
LEMMA PartsAligned ==
  ASSUME WalkInv, Listing
  PROVE  /\ \A k \in DOMAIN parts :
              Multiple(parts[k].start, Sector) /\ Multiple(PartTop(k), Sector)
         /\ Behind => Multiple(cursor, Sector)
<1>1. ASSUME NEW k \in DOMAIN parts
      PROVE  Multiple(parts[k].start, Sector) /\ Multiple(parts[k].length, Sector)
  <2>1. parts[k] \in Known
    BY DEF Listing
  <2>2. CASE HasEntries
    <3>1. PICK n \in Used(table.entries) :
             parts[k] = Extent(table.entries[n].start, table.entries[n].length)
      BY <2>1, <2>2 DEF Known, Extents
    <3>2. n \in DOMAIN table.entries /\ table \in Tables
      BY DEF Used, WalkInv, TypeOK
    <3>3. /\ parts[k].start % Sector = 0 /\ parts[k].length % Sector = 0
          /\ parts[k].start \in Nat /\ parts[k].length \in Nat
      BY <3>1, <3>2, Types, GapsAssumption DEF Extent
    <3>. QED  BY <3>3, MultipleMod, GeometryAssumption
  <2>3. CASE ~HasEntries
    <3>. DEFINE top == AlignDown(Capacity, Sector)
    <3>1. parts[k] = Protective[1]
      BY <2>1, <2>3 DEF Known
    <3>2. parts[k].start = Sector /\ parts[k].length = top - Sector
      BY <3>1 DEF Protective, Extent
    <3>3. Multiple(Sector, Sector)
      BY GeometryAssumption DEF Multiple
    <3>4. top \in Nat /\ Multiple(top, Sector) /\ Sector <= top
      BY AlignDownFacts, GapsAssumption, GeometryAssumption
    <3>. HIDE DEF top
    <3>5. Multiple(top - Sector, Sector)
      BY <3>3, <3>4, MultipleSub, GeometryAssumption
    <3>. QED  BY <3>2, <3>3, <3>5
  <2>. QED  BY <2>2, <2>3
<1>2. ASSUME NEW k \in DOMAIN parts PROVE Multiple(PartTop(k), Sector)
  BY <1>1, Types, MultipleAdd, GeometryAssumption DEF PartTop
<1>3. Multiple(0, Sector)
  BY GeometryAssumption DEF Multiple
<1>. QED  BY <1>1, <1>2, <1>3 DEF Behind

LEMMA VisitInv == WalkInv /\ Visit => WalkInv'
<1>. SUFFICES ASSUME WalkInv, Visit PROVE WalkInv'
  OBVIOUS
<1>. DEFINE p == parts[i]
<1>1. /\ pc = "walk" /\ i \in DOMAIN parts /\ i \in Nat /\ cursor \in Nat
      /\ Sorted /\ Apart /\ Ascending /\ Shaped /\ Behind /\ Covered /\ Listing
  BY Types DEF WalkInv, TypeOK, Visit
<1>2. i' = i + 1 /\ UNCHANGED <<table, pc, parts>>
  BY DEF Visit
<1>3. p.start \in Nat /\ p.length \in Nat \ {0} /\ PartTop(i) = p.start + p.length
  BY <1>1, Types DEF PartTop
<1>4. cursor' = IF PartTop(i) > cursor THEN PartTop(i) ELSE cursor
  BY DEF Visit, PartTop
<1>5. cursor' \in Nat /\ cursor <= cursor' /\ PartTop(i) <= cursor'
  BY <1>1, <1>3, <1>4
<1>6. \A k \in DOMAIN parts : k < i \/ p.start <= parts[k].start
  <2>. SUFFICES ASSUME NEW k \in DOMAIN parts, ~(k < i) PROVE p.start <= parts[k].start
    OBVIOUS
  <2>1. k = i \/ i < k
    BY <1>1, Types
  <2>. QED  BY <1>1, <1>3, <2>1 DEF Sorted
<1>7. /\ gaps' \in Seq(Positive) /\ Apart' /\ Ascending'
      /\ \A g \in DOMAIN gaps' : GapTop(g)' < cursor'
      /\ \A b \in Nat : b < cursor' => InGap(b)' \/ InPart(b)
      /\ Shaped'
  <2>1. CASE p.start > cursor
    <3>. DEFINE n == p.start - cursor
    <3>1. n \in Nat \ {0} /\ cursor + n = p.start
      BY <1>1, <1>3, <2>1
    <3>2. gaps' = Append(gaps, Extent(cursor, n))
      BY <2>1, <3>1 DEF Visit, Push
    <3>3. \A k \in DOMAIN parts : k < i \/ cursor + n <= parts[k].start
      BY <1>6, <3>1
    <3>. HIDE DEF n
    <3>4. /\ gaps' \in Seq(Positive) /\ Apart' /\ Ascending'
          /\ \A b \in Nat : InGap(b) => InGap(b)'
          /\ \A b \in Nat : cursor <= b /\ b < cursor + n => InGap(b)'
          /\ \A g \in DOMAIN gaps' : GapTop(g)' <= cursor + n
          /\ \A g \in DOMAIN gaps' :
               \/ g \in DOMAIN gaps /\ gaps'[g] = gaps[g]
               \/ gaps'[g].start = cursor /\ GapTop(g)' = cursor + n
      BY <1>1, <1>2, <3>1, <3>2, <3>3, PushFacts
    <3>5. cursor' = PartTop(i) /\ p.start < cursor'
      BY <1>1, <1>3, <1>4, <2>1
    <3>6. ASSUME NEW b \in Nat, b < cursor' PROVE InGap(b)' \/ InPart(b)
      <4>1. CASE b < cursor
        BY <1>1, <3>4, <4>1 DEF Covered
      <4>2. CASE cursor <= b /\ b < p.start
        BY <3>1, <3>4, <4>2
      <4>3. CASE p.start <= b
        BY <1>1, <3>5, <3>6, <4>3 DEF InPart
      <4>. QED  BY <1>1, <1>3, <4>1, <4>2, <4>3
    <3>7. ASSUME NEW g \in DOMAIN gaps' PROVE GapTop(g)' < cursor'
      <4>1. GapTop(g)' \in Nat
        <5>1. gaps'[g] \in Positive
          BY <3>4, SeqFacts
        <5>. QED  BY <5>1 DEF GapTop, Positive
      <4>. QED  BY <1>3, <1>5, <3>1, <3>4, <3>5, <4>1
    <3>8. Shaped'
      <4>. SUFFICES ASSUME NEW g \in DOMAIN gaps'
                    PROVE  /\ Multiple(gaps'[g].start, Sector)
                           /\ Multiple(GapTop(g)', Sector) \/ GapTop(g)' = Capacity
                           /\ \/ GapTop(g)' <= Capacity
                              \/ \E k \in DOMAIN parts : GapTop(g)' <= parts[k].start
        BY <1>2 DEF Shaped
      <4>1. CASE g \in DOMAIN gaps /\ gaps'[g] = gaps[g]
        BY <1>1, <4>1 DEF Shaped, GapTop
      <4>2. CASE gaps'[g].start = cursor /\ GapTop(g)' = cursor + n
        BY <1>1, <1>3, <3>1, <4>2, PartsAligned
      <4>. QED  BY <3>4, <4>1, <4>2
    <3>. QED  BY <3>4, <3>6, <3>7, <3>8
  <2>2. CASE ~(p.start > cursor)
    <3>1. UNCHANGED gaps
      BY <2>2 DEF Visit
    <3>2. gaps' \in Seq(Positive)
      BY <3>1 DEF WalkInv, TypeOK, Positive
    <3>3. Apart' /\ Ascending' /\ Shaped'
      BY <1>1, <1>2, <3>1 DEF Apart, Ascending, Shaped, GapTop, PartTop
    <3>4. ASSUME NEW g \in DOMAIN gaps' PROVE GapTop(g)' < cursor'
      <4>1. GapTop(g)' = GapTop(g) /\ GapTop(g) \in Nat /\ GapTop(g) < cursor
        BY <1>1, <3>1, <3>4, Types DEF GapTop, Behind
      <4>. QED  BY <1>1, <1>5, <4>1
    <3>5. ASSUME NEW b \in Nat, b < cursor' PROVE InGap(b)' \/ InPart(b)
      <4>1. CASE b < cursor
        BY <1>1, <3>1, <4>1 DEF Covered, InGap, GapTop
      <4>2. CASE ~(b < cursor)
        <5>1. p.start <= b /\ b < PartTop(i)
          BY <1>1, <1>3, <1>4, <2>2, <3>5, <4>2
        <5>. QED  BY <1>1, <5>1 DEF InPart
      <4>. QED  BY <4>1, <4>2
    <3>. QED  BY <3>2, <3>3, <3>4, <3>5
  <2>. QED  BY <2>1, <2>2
<1>8. Behind'
  <2>1. ASSUME NEW k \in 1 .. i PROVE PartTop(k) <= cursor'
    <3>1. CASE k = i
      BY <1>5, <3>1
    <3>2. CASE k # i
      <4>1. k \in 1 .. i - 1 /\ k \in DOMAIN parts
        BY <1>1, <3>2, Types
      <4>2. PartTop(k) <= cursor /\ PartTop(k) \in Nat
        BY <1>1, <4>1, Types DEF Behind
      <4>. QED  BY <1>1, <1>5, <4>2
    <3>. QED  BY <3>1, <3>2
  <2>2. cursor' = 0 \/ \E k \in DOMAIN parts : PartTop(k) = cursor'
    BY <1>1, <1>4 DEF Behind
  <2>3. (i + 1) - 1 = i
    BY <1>1
  <2>. QED  BY <1>2, <1>7, <2>1, <2>2, <2>3 DEF Behind, PartTop
<1>9. Covered'
  BY <1>2, <1>7 DEF Covered, InPart, PartTop
<1>10. TypeOK'
  <2>1. i + 1 \in 1 .. Len(parts) + 1
    BY <1>1, Types
  <2>. QED  BY <1>2, <1>5, <1>7, <2>1 DEF WalkInv, TypeOK, Positive
<1>11. Listing' /\ Sorted'
  BY <1>1, <1>2 DEF Listing, Known, Sorted, HasEntries
<1>. QED  BY <1>1, <1>2, <1>7, <1>8, <1>9, <1>10, <1>11 DEF WalkInv

LEMMA FinishInv == WalkInv /\ Finish => WalkInv'
<1>. SUFFICES ASSUME WalkInv, Finish PROVE WalkInv'
  OBVIOUS
<1>1. /\ pc = "walk" /\ i > Len(parts) /\ i \in Nat /\ cursor \in Nat
      /\ Sorted /\ Apart /\ Ascending /\ Shaped /\ Behind /\ Covered /\ Listing
  BY DEF WalkInv, TypeOK, Finish
<1>2. pc' = "done" /\ UNCHANGED <<table, parts, i, cursor>>
  BY DEF Finish
<1>3. Capacity \in Nat
  BY GapsAssumption
<1>4. InsideDisk => cursor <= Capacity
  BY <1>1, <1>3 DEF Behind, InsideDisk, PartTop
<1>5. /\ gaps' \in Seq(Positive) /\ Apart' /\ Ascending'
      /\ \A b \in Nat : b < Capacity => InGap(b)' \/ InPart(b)
      /\ InsideDisk => \A g \in DOMAIN gaps' : GapTop(g)' <= Capacity
      /\ Shaped'
  <2>1. CASE cursor < Capacity
    <3>. DEFINE n == Capacity - cursor
    <3>1. n \in Nat \ {0} /\ cursor + n = Capacity
      BY <1>1, <1>3, <2>1
    <3>2. gaps' = Append(gaps, Extent(cursor, n))
      BY <2>1, <3>1 DEF Finish, Push
    <3>3. \A k \in DOMAIN parts : k < i \/ cursor + n <= parts[k].start
      BY <1>1, Types
    <3>. HIDE DEF n
    <3>4. /\ gaps' \in Seq(Positive) /\ Apart' /\ Ascending'
          /\ \A b \in Nat : InGap(b) => InGap(b)'
          /\ \A b \in Nat : cursor <= b /\ b < cursor + n => InGap(b)'
          /\ \A g \in DOMAIN gaps' : GapTop(g)' <= cursor + n
          /\ \A g \in DOMAIN gaps' :
               \/ g \in DOMAIN gaps /\ gaps'[g] = gaps[g]
               \/ gaps'[g].start = cursor /\ GapTop(g)' = cursor + n
      BY <1>1, <1>2, <3>1, <3>2, <3>3, PushFacts
    <3>5. ASSUME NEW b \in Nat, b < Capacity PROVE InGap(b)' \/ InPart(b)
      <4>1. CASE b < cursor
        BY <1>1, <3>4, <4>1 DEF Covered
      <4>2. CASE cursor <= b
        BY <3>1, <3>4, <3>5, <4>2
      <4>. QED  BY <1>1, <4>1, <4>2
    <3>6. Shaped'
      <4>. SUFFICES ASSUME NEW g \in DOMAIN gaps'
                    PROVE  /\ Multiple(gaps'[g].start, Sector)
                           /\ Multiple(GapTop(g)', Sector) \/ GapTop(g)' = Capacity
                           /\ \/ GapTop(g)' <= Capacity
                              \/ \E k \in DOMAIN parts : GapTop(g)' <= parts[k].start
        BY <1>2 DEF Shaped
      <4>1. CASE g \in DOMAIN gaps /\ gaps'[g] = gaps[g]
        BY <1>1, <4>1 DEF Shaped, GapTop
      <4>2. CASE gaps'[g].start = cursor /\ GapTop(g)' = cursor + n
        BY <1>1, <1>3, <3>1, <4>2, PartsAligned
      <4>. QED  BY <3>4, <4>1, <4>2
    <3>. QED  BY <3>1, <3>4, <3>5, <3>6
  <2>2. CASE ~(cursor < Capacity)
    <3>1. UNCHANGED gaps
      BY <2>2 DEF Finish
    <3>2. gaps' \in Seq(Positive)
      BY <3>1 DEF WalkInv, TypeOK, Positive
    <3>3. Apart' /\ Ascending' /\ Shaped'
      BY <1>1, <1>2, <3>1 DEF Apart, Ascending, Shaped, GapTop, PartTop
    <3>4. ASSUME NEW b \in Nat, b < Capacity PROVE InGap(b)' \/ InPart(b)
      <4>1. b < cursor
        BY <1>1, <1>3, <2>2, <3>4
      <4>. QED  BY <1>1, <3>1, <4>1 DEF Covered, InGap, GapTop
    <3>5. ASSUME InsideDisk, NEW g \in DOMAIN gaps' PROVE GapTop(g)' <= Capacity
      <4>1. GapTop(g)' = GapTop(g) /\ GapTop(g) \in Nat /\ GapTop(g) < cursor
        BY <1>1, <3>1, <3>5, Types DEF GapTop, Behind
      <4>. QED  BY <1>1, <1>3, <1>4, <3>5, <4>1
    <3>. QED  BY <3>2, <3>3, <3>4, <3>5
  <2>. QED  BY <2>1, <2>2
<1>6. TypeOK'
  BY <1>2, <1>5 DEF WalkInv, TypeOK, Positive
<1>7. Listing' /\ Sorted'
  BY <1>1, <1>2 DEF Listing, Known, Sorted, HasEntries
<1>8. Complement'
  BY <1>2, <1>5 DEF Complement, InPart, PartTop
<1>. QED  BY <1>2, <1>5, <1>6, <1>7, <1>8 DEF WalkInv, InsideDisk

LEMMA WalkStutter == WalkInv /\ UNCHANGED vars => WalkInv'
BY DEF WalkInv, TypeOK, Listing, Known, HasEntries, Sorted, Shaped, Apart, Ascending, Behind,
       Covered, Complement,
       InGap, InPart, GapTop, PartTop, InsideDisk, vars

LEMMA WalkNext == WalkInv /\ [Next]_vars => WalkInv'
BY ReadInv, SortInv, VisitInv, FinishInv, WalkStutter DEF Next, Ended

THEOREM WalkInvariance == Spec => []WalkInv
BY WalkInit, WalkNext, PTL DEF Spec

-----------------------------------------------------------------------------
\* Type correctness of the partition walk.
THEOREM WalkTypes == Spec => []TypeOK
BY WalkInvariance, PTL DEF WalkInv

\* What it means for a sector to be in a gap, or in a partition.
LEMMA Membership ==
  ASSUME WalkInv, NEW b
  PROVE  /\ b \in Gaps <=> b \in Nat /\ InGap(b)
         /\ b \in PartBytes <=> b \in Nat /\ InPart(b)
<1>1. ASSUME NEW g \in DOMAIN gaps
      PROVE  b \in BytesOf(gaps[g]) <=> b \in Nat /\ gaps[g].start <= b /\ b < GapTop(g)
  BY Types DEF BytesOf, Bytes, GapTop
<1>2. ASSUME NEW k \in DOMAIN parts
      PROVE  b \in BytesOf(parts[k]) <=> b \in Nat /\ parts[k].start <= b /\ b < PartTop(k)
  BY Types DEF BytesOf, Bytes, PartTop
<1>. QED  BY <1>1, <1>2 DEF Gaps, PartBytes, InGap, InPart

\* No sector is in a gap and in a partition.
LEMMA ApartFacts ==
  ASSUME WalkInv, Apart, NEW b \in Nat
  PROVE  ~(InGap(b) /\ InPart(b))
BY Types DEF Apart, InGap, InPart

\* No sector of a partition the table lists is in a gap, whatever the table.
THEOREM AvoidPartitions == Spec => []GapsAvoidPartitions
<1>1. WalkInv => GapsAvoidPartitions
  <2>. SUFFICES ASSUME WalkInv, HasEntries, NEW b \in Gaps, b \in Occupied PROVE FALSE
    BY DEF GapsAvoidPartitions
  <2>1. b \in Nat /\ InGap(b)
    BY Membership
  <2>2. pc \in {"walk", "done"}
    BY <2>1 DEF WalkInv, InGap
  <2>3. PICK k \in DOMAIN table.entries :
           table.entries[k].used /\
           b \in BytesOf(Extent(table.entries[k].start, table.entries[k].length))
    BY DEF Occupied
  <2>4. table.entries[k].start \in Nat /\ table.entries[k].length \in Nat
    <3>1. table.entries \in Seq(Entry)
      BY GapsAssumption DEF WalkInv, TypeOK
    <3>2. table.entries[k] \in Entry
      BY <3>1, SeqFacts
    <3>. QED  BY <3>2 DEF Entry
  <2>5. k \in Used(table.entries)
    BY <2>3, <2>4 DEF Used, BytesOf, Extent, Bytes
  <2>6. PICK n \in DOMAIN parts :
           parts[n] = Extent(table.entries[k].start, table.entries[k].length)
    <3>1. Extent(table.entries[k].start, table.entries[k].length) \in Known
      BY <2>5 DEF Known, Extents
    <3>. QED  BY <2>2, <3>1 DEF WalkInv, Listing
  <2>7. b \in PartBytes
    BY <2>3, <2>6 DEF PartBytes
  <2>. QED  BY <2>1, <2>2, <2>7, Membership, ApartFacts DEF WalkInv
<1>. QED  BY <1>1, WalkInvariance, PTL

\* On a disk that holds its partitions the gaps are exactly the rest of it, in
\* ascending order and without touching.
LEMMA WalkComplete == WalkInv => GapsComplete
<1>. SUFFICES ASSUME WalkInv, pc = "done", InsideDisk
              PROVE  /\ Gaps = Bytes(0, Capacity) \ PartBytes
                     /\ Ascending
  BY DEF GapsComplete, Ascending, GapTop
<1>1. /\ Apart /\ Ascending /\ Complement
      /\ \A g \in DOMAIN gaps : GapTop(g) <= Capacity
  BY DEF WalkInv
<1>2. Capacity \in Nat
  BY GapsAssumption
<1>3. ASSUME NEW b \in Gaps PROVE b \in Bytes(0, Capacity) \ PartBytes
  <2>1. b \in Nat /\ InGap(b)
    BY Membership
  <2>2. b < Capacity
    BY <1>1, <1>2, <2>1, Types DEF InGap
  <2>3. b \notin PartBytes
    BY <1>1, <2>1, ApartFacts, Membership
  <2>. QED  BY <1>2, <2>1, <2>2, <2>3 DEF Bytes
<1>4. ASSUME NEW b \in Bytes(0, Capacity) \ PartBytes PROVE b \in Gaps
  <2>1. b \in Nat /\ b < Capacity
    BY <1>2 DEF Bytes
  <2>. QED  BY <1>1, <2>1, Membership DEF Complement
<1>. QED  BY <1>1, <1>3, <1>4

-----------------------------------------------------------------------------
(***************************************************************************)
(* The sequential pass, for any list of ranges and any sector and chunk    *)
(* size.  PassInv is the inductive invariant.  CursorInv describes the     *)
(* inner loop: the offset stands a whole number of sectors behind the      *)
(* start of the current range, inside it, and everything before it is      *)
(* written.  OrderInv describes the outer loop.  Only the latter needs a   *)
(* chunk that is no smaller than a sector: with a smaller one a range is   *)
(* left unwritten and the pass succeeds all the same.                      *)
(***************************************************************************)

\* Where the whole sectors of range k end.
RangeTop(k) == ranges[k].offset + AlignDown(ranges[k].length, Sector)

CursorInv ==
  /\ index \in DOMAIN ranges
  /\ ~failed
  /\ ranges[index].offset <= offset /\ offset <= RangeTop(index)
  /\ Multiple(offset - ranges[index].offset, Sector)
  /\ Bytes(ranges[index].offset, offset) \subseteq wiped

OrderInv ==
  Sector <= Chunk /\ ~failed => \A k \in 1 .. index - 1 : Pass!Sectors(k) \subseteq wiped

ReturnInv ==
  /\ ret = "running" <=> passPc # "returned"
  /\ passPc = "start" => wiped = {} /\ ~failed
  /\ ret = "ok" => ~failed /\ index = Len(ranges) + 1
  /\ ret = "fail" /\ ~failed => wiped = {}

PassInv ==
  /\ Pass!TypeOK
  /\ passPc = "chunk" => CursorInv
  /\ OrderInv
  /\ ReturnInv

-----------------------------------------------------------------------------
\* The terms of the pass in the operators of this module.
LEMMA PassTerms ==
  /\ \A a, b : Pass!Bytes(a, b) = Bytes(a, b)
  /\ \A k : Pass!Sectors(k) = Bytes(ranges[k].offset, RangeTop(k))
  /\ Pass!ToWrite =
       IF offset < Pass!End(index)
       THEN AlignDown(OwMin(Pass!End(index) - offset, Chunk), Sector)
       ELSE 0
BY DEF Pass!Sectors, Pass!ToWrite, Pass!OwMin, OwMin, Pass!AlignDown, AlignDown, Pass!Bytes,
       Bytes,
       RangeTop

\* The fields of a range, and the end of its whole sectors.
LEMMA RangeFacts ==
  ASSUME Pass!TypeOK, NEW k \in DOMAIN ranges
  PROVE  /\ ranges[k].offset \in Nat /\ ranges[k].length \in Nat
         /\ RangeTop(k) \in Nat /\ RangeTop(k) <= Pass!End(k)
         /\ Pass!Sectors(k) = Bytes(ranges[k].offset, RangeTop(k))
         /\ Pass!Sectors(k) \subseteq Pass!Target
<1>1. ranges[k].offset \in Nat /\ ranges[k].length \in Nat
  <2>1. ranges \in Seq(Pass!ByteRange) /\ k \in 1 .. Len(ranges)
    BY DEF Pass!TypeOK
  <2>2. ranges[k] \in Pass!ByteRange
    BY <2>1, ElementOfSeq
  <2>. QED  BY <2>2 DEF Pass!ByteRange
<1>2. /\ AlignDown(ranges[k].length, Sector) \in Nat
      /\ AlignDown(ranges[k].length, Sector) <= ranges[k].length
  BY <1>1, GeometryAssumption, AlignDownFacts
<1>3. Pass!Sectors(k) \subseteq Pass!Target
  BY DEF Pass!Target
<1>. QED
  BY <1>1, <1>2, <1>3, PassTerms DEF RangeTop, Pass!End

\* The target is fixed, and so is the number of its ranges.
LEMMA TargetFixed ==
  /\ UNCHANGED ranges => Pass!Target' = Pass!Target
  /\ Pass!TypeOK => Len(ranges) \in Nat /\ DOMAIN ranges = 1 .. Len(ranges)
BY DEF Pass!Target, Pass!Sectors, Pass!TypeOK

\* The next chunk is made of whole sectors of the current range.
LEMMA ChunkFacts ==
  ASSUME Pass!TypeOK, CursorInv, Pass!ToWrite # 0
  PROVE  /\ Pass!ToWrite \in Nat
         /\ offset + Pass!ToWrite <= RangeTop(index)
         /\ Multiple(offset + Pass!ToWrite - ranges[index].offset, Sector)
<1>. DEFINE start == ranges[index].offset
            length == ranges[index].length
            d == offset - start
            m == OwMin(Pass!End(index) - offset, Chunk)
<1>1. start \in Nat /\ length \in Nat /\ offset \in Nat /\ index \in DOMAIN ranges
  BY RangeFacts DEF CursorInv, Pass!TypeOK
<1>2. d \in Nat /\ Multiple(d, Sector)
  BY <1>1 DEF CursorInv
<1>3. offset < Pass!End(index) /\ Pass!ToWrite = AlignDown(m, Sector)
  BY PassTerms
<1>4. m \in Nat /\ d + m <= length
  <2>1. Pass!End(index) = start + length
    BY DEF Pass!End
  <2>2. Pass!End(index) - offset \in Nat /\ d + (Pass!End(index) - offset) = length
    BY <1>1, <1>3, <2>1
  <2>3. m \in Nat /\ m <= Pass!End(index) - offset
    BY <2>2, GeometryAssumption DEF OwMin
  <2>. QED  BY <1>2, <2>2, <2>3
<1>5. Pass!ToWrite \in Nat /\ Pass!ToWrite <= m /\ Multiple(Pass!ToWrite, Sector)
  BY <1>3, <1>4, AlignDownFacts, GeometryAssumption
<1>6. Multiple(d + Pass!ToWrite, Sector) /\ d + Pass!ToWrite \in Nat
  <2>. HIDE DEF d, Pass!ToWrite
  <2>1. Sector \in Nat \ {0}
    BY GeometryAssumption
  <2>. QED  BY <1>2, <1>5, <2>1, MultipleAdd
<1>7. d + Pass!ToWrite <= length /\ length - (d + Pass!ToWrite) \in Nat
  BY <1>1, <1>2, <1>4, <1>5
<1>8. d + Pass!ToWrite <= AlignDown(length, Sector)
  <2>1. (d + Pass!ToWrite) + AlignDown(length - (d + Pass!ToWrite), Sector)
           = AlignDown(length, Sector)
    BY <1>1, <1>6, <1>7, AlignDownRest, GeometryAssumption
  <2>2. AlignDown(length - (d + Pass!ToWrite), Sector) \in Nat
    BY <1>7, AlignDownFacts, GeometryAssumption
  <2>3. AlignDown(length, Sector) \in Nat
    BY <1>1, AlignDownFacts, GeometryAssumption
  <2>. QED  BY <1>6, <2>1, <2>2, <2>3
<1>9. AlignDown(length, Sector) \in Nat
  BY <1>1, AlignDownFacts, GeometryAssumption
<1>10. offset + Pass!ToWrite <= RangeTop(index)
  BY <1>1, <1>5, <1>8, <1>9 DEF RangeTop
<1>11. offset + Pass!ToWrite - start = d + Pass!ToWrite
  BY <1>1, <1>5
<1>. QED  BY <1>5, <1>6, <1>10, <1>11

\* When the inner loop ends, the whole sectors of the range are done.
LEMMA RangeDoneFacts ==
  ASSUME Pass!TypeOK, CursorInv, Pass!ToWrite = 0, Sector <= Chunk
  PROVE  offset = RangeTop(index)
<1>. DEFINE start == ranges[index].offset
            length == ranges[index].length
            d == offset - start
            m == OwMin(Pass!End(index) - offset, Chunk)
<1>1. start \in Nat /\ length \in Nat /\ offset \in Nat /\ index \in DOMAIN ranges
  BY RangeFacts DEF CursorInv, Pass!TypeOK
<1>2. d \in Nat /\ Multiple(d, Sector)
  BY <1>1 DEF CursorInv
<1>3. offset <= RangeTop(index) /\ RangeTop(index) <= Pass!End(index) /\ RangeTop(index) \in Nat
  BY <1>1, RangeFacts DEF CursorInv
<1>4. Pass!End(index) = start + length
  BY DEF Pass!End
<1>5. d <= length
  BY <1>1, <1>3, <1>4
<1>6. length - d < Sector
  <2>1. CASE offset < Pass!End(index)
    <3>1. m \in Nat /\ AlignDown(m, Sector) = 0
      BY <1>1, <1>4, <2>1, PassTerms, GeometryAssumption DEF OwMin
    <3>2. m < Sector
      BY <3>1, AlignDownFacts, GeometryAssumption
    <3>. QED  BY <1>1, <1>4, <2>1, <3>2, GeometryAssumption DEF OwMin
  <2>2. CASE ~(offset < Pass!End(index))
    BY <1>1, <1>3, <1>4, <2>2, GeometryAssumption
  <2>. QED  BY <2>1, <2>2
<1>7. d = AlignDown(length, Sector)
  BY <1>1, <1>2, <1>5, <1>6, AlignUnique, GeometryAssumption
<1>. QED  BY <1>1, <1>7 DEF RangeTop

-----------------------------------------------------------------------------
LEMMA PassInit == Pass!Init => PassInv
<1>. SUFFICES ASSUME Pass!Init PROVE PassInv
  OBVIOUS
<1>1. Len(ranges) \in Nat
  BY GeometryAssumption
<1>2. Pass!TypeOK
  <2>1. 1 \in 1 .. Len(ranges) + 1
    BY <1>1
  <2>2. -1 \in Nat \cup {-1} /\ {} \subseteq Pass!Target
    OBVIOUS
  <2>. QED  BY <2>1, <2>2 DEF Pass!Init, Pass!TypeOK
<1>. QED  BY <1>2 DEF Pass!Init, PassInv, OrderInv, ReturnInv

LEMMA StartInv == PassInv /\ Pass!Start /\ UNCHANGED ranges => PassInv'
<1>. SUFFICES ASSUME PassInv, Pass!Start, UNCHANGED ranges PROVE PassInv'
  OBVIOUS
<1>1. Pass!TypeOK'
  BY TargetFixed DEF PassInv, Pass!TypeOK, Pass!Start
<1>2. OrderInv'
  BY DEF PassInv, OrderInv, Pass!Start, Pass!Sectors
<1>3. ReturnInv'
  BY DEF PassInv, ReturnInv, Pass!Start
<1>. QED  BY <1>1, <1>2, <1>3 DEF PassInv, Pass!Start

LEMMA NextRangeInv == PassInv /\ Pass!NextRange /\ UNCHANGED ranges => PassInv'
<1>. SUFFICES ASSUME PassInv, Pass!NextRange, UNCHANGED ranges PROVE PassInv'
  OBVIOUS
<1>1. index \in DOMAIN ranges
  BY GeometryAssumption DEF PassInv, Pass!TypeOK, Pass!NextRange
<1>2. ranges[index].offset \in Nat /\ ranges[index].length \in Nat
  BY <1>1, RangeFacts DEF PassInv
<1>3. Pass!TypeOK'
  BY <1>2, TargetFixed DEF PassInv, Pass!TypeOK, Pass!NextRange
<1>4. CursorInv'
  <2>1. ranges[index].offset <= RangeTop(index)
    <3>1. AlignDown(ranges[index].length, Sector) \in Nat
      BY <1>2, AlignDownFacts, GeometryAssumption
    <3>. QED  BY <1>2, <3>1 DEF RangeTop
  <2>2. Multiple(0, Sector)
    BY GeometryAssumption DEF Multiple
  <2>3. Bytes(ranges[index].offset, ranges[index].offset) = {}
    BY <1>2 DEF Bytes
  <2>4. ranges[index].offset - ranges[index].offset = 0
    BY <1>2
  <2>. QED
    BY <1>1, <1>2, <2>1, <2>2, <2>3, <2>4 DEF CursorInv, Pass!NextRange, RangeTop
<1>5. OrderInv'
  BY DEF PassInv, OrderInv, Pass!NextRange, Pass!Sectors
<1>6. ReturnInv'
  BY DEF PassInv, ReturnInv, Pass!NextRange
<1>. QED  BY <1>3, <1>4, <1>5, <1>6 DEF PassInv

LEMMA AllRangesInv == PassInv /\ Pass!AllRanges /\ UNCHANGED ranges => PassInv'
<1>. SUFFICES ASSUME PassInv, Pass!AllRanges, UNCHANGED ranges PROVE PassInv'
  OBVIOUS
<1>1. Pass!TypeOK'
  BY TargetFixed DEF PassInv, Pass!TypeOK, Pass!AllRanges
<1>2. OrderInv'
  BY DEF PassInv, OrderInv, Pass!AllRanges, Pass!Sectors
<1>3. ReturnInv'
  BY GeometryAssumption DEF PassInv, ReturnInv, Pass!AllRanges, Pass!TypeOK
<1>. QED  BY <1>1, <1>2, <1>3 DEF PassInv, Pass!AllRanges

LEMMA WriteChunkInv == PassInv /\ Pass!WriteChunk /\ UNCHANGED ranges => PassInv'
<1>. SUFFICES ASSUME PassInv, Pass!WriteChunk, UNCHANGED ranges PROVE PassInv'
  OBVIOUS
<1>1. Pass!TypeOK /\ CursorInv /\ Pass!ToWrite # 0
  BY DEF PassInv, Pass!WriteChunk
<1>2. /\ Pass!ToWrite \in Nat
      /\ offset + Pass!ToWrite <= RangeTop(index)
      /\ Multiple(offset + Pass!ToWrite - ranges[index].offset, Sector)
  BY <1>1, ChunkFacts
<1>3. index \in DOMAIN ranges /\ offset \in Nat /\ ranges[index].offset \in Nat
  BY <1>1, RangeFacts DEF CursorInv, Pass!TypeOK
<1>4. /\ wiped' = wiped \cup Bytes(offset, offset + Pass!ToWrite)
      /\ offset' = offset + Pass!ToWrite /\ done' = done + Pass!ToWrite
      /\ UNCHANGED <<passPc, index, failed, errorAt, ret>>
  BY PassTerms DEF Pass!WriteChunk
<1>. HIDE DEF Pass!ToWrite
<1>5. Bytes(offset, offset + Pass!ToWrite) \subseteq Pass!Target
  <2>1. Bytes(offset, offset + Pass!ToWrite) \subseteq Bytes(ranges[index].offset, RangeTop(index))
    BY <1>1, <1>2, <1>3, RangeFacts DEF Bytes, CursorInv
  <2>. QED  BY <1>1, <1>3, <2>1, RangeFacts
<1>6. Pass!TypeOK'
  BY <1>1, <1>2, <1>3, <1>4, <1>5, TargetFixed DEF Pass!TypeOK
<1>7. CursorInv'
  <2>1. Bytes(ranges[index].offset, offset + Pass!ToWrite)
          \subseteq Bytes(ranges[index].offset, offset) \cup Bytes(offset, offset + Pass!ToWrite)
    BY <1>2, <1>3 DEF Bytes
  <2>2. Bytes(ranges[index].offset, offset) \subseteq wiped
    BY <1>1 DEF CursorInv
  <2>3. ranges[index].offset <= offset + Pass!ToWrite
    BY <1>1, <1>2, <1>3 DEF CursorInv
  <2>. QED
    BY <1>1, <1>2, <1>3, <1>4, <2>1, <2>2, <2>3 DEF CursorInv, RangeTop
<1>8. OrderInv'
  BY <1>4 DEF PassInv, OrderInv, Pass!Sectors
<1>9. ReturnInv'
  BY <1>1, <1>4 DEF PassInv, ReturnInv, Pass!WriteChunk
<1>. QED  BY <1>6, <1>7, <1>8, <1>9 DEF PassInv

LEMMA WriteFailsInv == PassInv /\ Pass!WriteFails /\ UNCHANGED ranges => PassInv'
<1>. SUFFICES ASSUME PassInv, Pass!WriteFails, UNCHANGED ranges PROVE PassInv'
  OBVIOUS
<1>1. Pass!TypeOK /\ CursorInv /\ Pass!ToWrite # 0
  BY DEF PassInv, Pass!WriteFails
<1>2. Pass!ToWrite \in Nat /\ offset + Pass!ToWrite <= RangeTop(index)
  BY <1>1, ChunkFacts
<1>3. index \in DOMAIN ranges /\ offset \in Nat /\ ranges[index].offset \in Nat
  BY <1>1, RangeFacts DEF CursorInv, Pass!TypeOK
<1>4. PICK n \in 0 .. Pass!ToWrite : wiped' = wiped \cup Bytes(offset, offset + n)
  BY PassTerms DEF Pass!WriteFails
<1>5. /\ failed' = TRUE /\ errorAt' = offset /\ passPc' = "range" /\ index' = index + 1
      /\ UNCHANGED <<offset, done, ret>>
  BY DEF Pass!WriteFails
<1>. HIDE DEF Pass!ToWrite
<1>6. Bytes(offset, offset + n) \subseteq Pass!Target
  <2>1. Bytes(offset, offset + n) \subseteq Bytes(ranges[index].offset, RangeTop(index))
    BY <1>1, <1>2, <1>3, RangeFacts DEF Bytes, CursorInv
  <2>. QED  BY <1>1, <1>3, <2>1, RangeFacts
<1>7. Pass!TypeOK'
  <2>1. index + 1 \in 1 .. Len(ranges) + 1
    BY <1>1, <1>3, TargetFixed
  <2>. QED  BY <1>1, <1>3, <1>4, <1>5, <1>6, <2>1, TargetFixed DEF Pass!TypeOK
<1>8. OrderInv'
  BY <1>5 DEF OrderInv
<1>9. ReturnInv'
  BY <1>1, <1>5 DEF PassInv, ReturnInv, Pass!WriteFails
<1>. QED  BY <1>5, <1>7, <1>8, <1>9 DEF PassInv

LEMMA RangeDoneInv == PassInv /\ Pass!RangeDone /\ UNCHANGED ranges => PassInv'
<1>. SUFFICES ASSUME PassInv, Pass!RangeDone, UNCHANGED ranges PROVE PassInv'
  OBVIOUS
<1>1. Pass!TypeOK /\ CursorInv /\ Pass!ToWrite = 0
  BY DEF PassInv, Pass!RangeDone
<1>2. index \in DOMAIN ranges /\ index \in Nat
  BY <1>1 DEF CursorInv, Pass!TypeOK
<1>3. /\ passPc' = "range" /\ index' = index + 1
      /\ UNCHANGED <<offset, failed, errorAt, done, wiped, ret>>
  BY DEF Pass!RangeDone
<1>. HIDE DEF Pass!ToWrite
<1>4. Pass!TypeOK'
  <2>1. index + 1 \in 1 .. Len(ranges) + 1
    BY <1>1, <1>2, TargetFixed
  <2>. QED  BY <1>1, <1>3, <2>1, TargetFixed DEF Pass!TypeOK
<1>5. OrderInv'
  <2>. SUFFICES ASSUME Sector <= Chunk, ~failed,
                       NEW k \in 1 .. index
                PROVE  Pass!Sectors(k) \subseteq wiped
    BY <1>2, <1>3 DEF OrderInv, Pass!Sectors
  <2>1. CASE k = index
    <3>1. offset = RangeTop(index)
      BY <1>1, RangeDoneFacts
    <3>. QED  BY <1>1, <1>2, <2>1, <3>1, RangeFacts DEF CursorInv
  <2>2. CASE k # index
    <3>1. k \in 1 .. index - 1
      BY <1>2, <2>2
    <3>. QED  BY <3>1 DEF PassInv, OrderInv
  <2>. QED  BY <2>1, <2>2
<1>6. ReturnInv'
  BY <1>1, <1>3 DEF PassInv, ReturnInv, Pass!RangeDone
<1>. QED  BY <1>3, <1>4, <1>5, <1>6 DEF PassInv

LEMMA PassStutter == PassInv /\ UNCHANGED Pass!vars => PassInv'
BY DEF PassInv, Pass!TypeOK, CursorInv, OrderInv, ReturnInv, RangeTop, Pass!Sectors,
       Pass!Target, Pass!vars

LEMMA PassNextInv == PassInv /\ [Pass!Next]_Pass!vars => PassInv'
BY StartInv, NextRangeInv, AllRangesInv, WriteChunkInv, WriteFailsInv,
   RangeDoneInv, PassStutter DEF Pass!Next, Pass!Step, Pass!Returned

THEOREM PassInvariance == Pass!Spec => []PassInv
BY PassInit, PassNextInv, PTL DEF Pass!Spec

-----------------------------------------------------------------------------
\* Type correctness, and no byte outside the ranges is ever written.
THEOREM PassTypes == Pass!Spec => []Pass!TypeOK
BY PassInvariance, PTL DEF PassInv

\* A pass that fails without raising the flag (wipe.c:456) has not written
\* anything: it failed before its loop.
THEOREM SilentFailure == Pass!Spec => []Pass!SilentFailureIsEarly
<1>1. PassInv => Pass!SilentFailureIsEarly
  BY DEF PassInv, ReturnInv, Pass!SilentFailureIsEarly
<1>. QED  BY <1>1, PassInvariance, PTL

\* If a chunk holds at least one sector, the ranges are written in order.
THEOREM WrittenInOrder ==
  ASSUME Sector <= Chunk
  PROVE  Pass!Spec => []Pass!InOrder
<1>1. PassInv => Pass!InOrder
  BY PassTerms DEF PassInv, OrderInv, CursorInv, Pass!InOrder
<1>. QED  BY <1>1, PassInvariance, PTL

LEMMA OkMeansWritten ==
  ASSUME Sector <= Chunk, PassInv, ret = "ok"
  PROVE  wiped = Pass!Target
<1>1. DOMAIN ranges = 1 .. Len(ranges) /\ Len(ranges) \in Nat
  BY GeometryAssumption
<1>2. \A k \in DOMAIN ranges : Pass!Sectors(k) \subseteq wiped
  BY <1>1 DEF PassInv, OrderInv, ReturnInv
<1>3. Pass!Target \subseteq wiped
  BY <1>2 DEF Pass!Target
<1>. QED  BY <1>3 DEF PassInv, Pass!TypeOK

\* If a chunk holds at least one sector, a pass that returns success has
\* overwritten the whole sectors of every range.
THEOREM SuccessComplete ==
  ASSUME Sector <= Chunk
  PROVE  Pass!Spec => []Pass!SuccessIsComplete
<1>1. PassInv => Pass!SuccessIsComplete
  BY OkMeansWritten DEF Pass!SuccessIsComplete
<1>. QED  BY <1>1, PassInvariance, PTL

\* If a chunk holds at least one sector, every step of the sequential pass is
\* one of the pass that PassSpec promises, or leaves it alone.
LEMMA PassStepPromised ==
  ASSUME Sector <= Chunk, PassInv, PassInv', [Pass!Next]_Pass!vars
  PROVE  Promise!PassNext \/ UNCHANGED Promise!passVars
<1>1. wiped' \subseteq Pass!Target /\ UNCHANGED Pass!Target
  BY TargetFixed DEF PassInv, Pass!TypeOK, Pass!Next, Pass!Step, Pass!Returned, Pass!vars
<1>2. CASE Pass!Start
  BY <1>2, <1>1 DEF Pass!Start, PassInv, ReturnInv, Promise!PassNext, Promise!Return,
                    Promise!passVars
<1>3. CASE Pass!AllRanges
  <2>1. ret' = "ok" => wiped' = Pass!Target
    <3>. SUFFICES ASSUME ret' = "ok" PROVE wiped = Pass!Target
      BY <1>3 DEF Pass!AllRanges
    <3>1. ~failed /\ index = Len(ranges) + 1
      BY <1>3, GeometryAssumption DEF Pass!AllRanges, PassInv, Pass!TypeOK
    <3>2. \A k \in DOMAIN ranges : Pass!Sectors(k) \subseteq wiped
      BY <3>1, GeometryAssumption DEF PassInv, OrderInv
    <3>. QED  BY <3>2 DEF Pass!Target, PassInv, Pass!TypeOK
  <2>. QED
    BY <1>3, <2>1, <1>1 DEF Pass!AllRanges, PassInv, ReturnInv, Promise!PassNext, Promise!Return
<1>4. CASE Pass!WriteChunk \/ Pass!WriteFails
  <2>1. ret = "running" /\ wiped \subseteq wiped' /\ UNCHANGED ret
    BY <1>4 DEF Pass!WriteChunk, Pass!WriteFails, PassInv, ReturnInv
  <2>. QED  BY <1>1, <2>1 DEF Promise!PassNext, Promise!Overwrite
<1>5. CASE Pass!NextRange \/ Pass!RangeDone \/ Pass!Returned \/ UNCHANGED Pass!vars
  BY <1>5, <1>1 DEF Pass!NextRange, Pass!RangeDone, Pass!Returned, Pass!vars, Promise!passVars
<1>. QED  BY <1>2, <1>3, <1>4, <1>5 DEF Pass!Next, Pass!Step
-----------------------------------------------------------------------------
(***************************************************************************)
(* The composition                                                         *)
(***************************************************************************)

\* What target_resolve has made of the request.
Resolved ==
  IF request.kind = "gaps"
  THEN [k \in DOMAIN gaps |-> [offset |-> gaps[k].start, length |-> gaps[k].length]]
  ELSE IF WholeLength = 0 THEN <<>> ELSE << [offset |-> 0, length |-> WholeLength] >>

RequestInv ==
  /\ request \in Requests /\ size \in Nat
  /\ request.kind = "gaps" => size = Capacity
  /\ stage \in {"resolve", "slack", "pass"}
  /\ request.kind = "gaps" /\ stage # "resolve" => pc = "done"
  /\ request.kind # "gaps" => pc = "read"
  /\ slackEnd \in Nat
  /\ stage # "pass" => slackEnd = 0

\* What may be written though it was not asked for, as in OnlyWantedWritten.
Excess(b) ==
  IF request.kind = "gaps"
  THEN b >= Capacity /\ b \notin Spared /\ \E k \in DOMAIN parts : b < parts[k].start
  ELSE request.regular /\ b >= size /\ b < (IF slackEnd > Sector THEN slackEnd ELSE Sector)

\* The pass aims at what is wanted, and misses less than a sector of it.
AimInv ==
  ~ImageSlack =>
    /\ \A b \in Pass!Target \ Wanted : Excess(b)
    /\ InsideDisk => \A b \in Wanted : b < AlignDown(size, Sector) => b \in Pass!Target
    /\ request.kind = "whole" /\ slackEnd % Sector = 0 => Bytes(0, slackEnd) \subseteq Pass!Target

PoolInv ==
  /\ passPc = "start" /\ index = 1 /\ ~failed
  /\ wiped \subseteq Pass!Target
  /\ ret \in {"running", "ok", "fail"}
  /\ ret = "ok" => wiped = Pass!Target

EngineInv == IF Pooled THEN PoolInv ELSE PassInv

TargetInv ==
  /\ WalkInv
  /\ RequestInv
  /\ ranges \in Seq(Pass!ByteRange)
  /\ stage # "pass" => Pass!Init
  /\ stage = "slack" => ranges = Resolved
  /\ stage = "pass" => AimInv /\ EngineInv

\* Nobody changes these once the ranges are there.
resolveVars == <<vars, request, size>>

-----------------------------------------------------------------------------
\* A byte is in the target if it is in the whole sectors of a range.
LEMMA TargetBytes ==
  ASSUME ranges \in Seq(Pass!ByteRange), NEW b
  PROVE  /\ \A k \in DOMAIN ranges : /\ ranges[k].offset \in Nat
                                     /\ ranges[k].length \in Nat \ {0}
                                     /\ RangeTop(k) \in Nat
         /\ b \in Pass!Target <=>
              b \in Nat /\ \E k \in DOMAIN ranges : ranges[k].offset <= b /\ b < RangeTop(k)
<1>1. ASSUME NEW k \in DOMAIN ranges
      PROVE  /\ ranges[k].offset \in Nat /\ ranges[k].length \in Nat \ {0}
             /\ RangeTop(k) \in Nat
             /\ b \in Pass!Sectors(k) <=> b \in Nat /\ ranges[k].offset <= b /\ b < RangeTop(k)
  <2>1. ranges[k] \in Pass!ByteRange
    BY SeqFacts
  <2>2. ranges[k].offset \in Nat /\ ranges[k].length \in Nat \ {0}
    BY <2>1 DEF Pass!ByteRange
  <2>3. RangeTop(k) \in Nat
    <3>1. AlignDown(ranges[k].length, Sector) \in Nat
      BY <2>2, AlignDownFacts, GeometryAssumption
    <3>. QED  BY <2>2, <3>1 DEF RangeTop
  <2>4. Pass!Sectors(k) = Bytes(ranges[k].offset, RangeTop(k))
    BY PassTerms
  <2>. QED  BY <2>2, <2>3, <2>4 DEF Bytes
<1>. QED  BY <1>1 DEF Pass!Target

\* What the walk has listed when it is done is what no gap may hold.
LEMMA SparedIsListed ==
  ASSUME WalkInv, pc = "done"
  PROVE  Spared = PartBytes
<1>1. { parts[n] : n \in DOMAIN parts } = Known
  BY DEF WalkInv, Listing
<1>2. PartBytes = UNION { BytesOf(e) : e \in Known }
  <2>1. PartBytes = UNION { BytesOf(e) : e \in { parts[n] : n \in DOMAIN parts } }
    BY DEF PartBytes
  <2>. QED  BY <1>1, <2>1
<1>3. CASE HasEntries
  <2>. DEFINE ext(k) == Extent(table.entries[k].start, table.entries[k].length)
              used == { n \in DOMAIN table.entries : table.entries[n].used }
  <2>1. table.entries \in Seq(Entry)
    BY GapsAssumption DEF WalkInv, TypeOK
  <2>2. ASSUME NEW k \in used, NEW b \in BytesOf(ext(k))
        PROVE  k \in Used(table.entries)
    <3>1. table.entries[k] \in Entry
      BY <2>1, SeqFacts
    <3>2. table.entries[k].start \in Nat /\ table.entries[k].length \in Nat
      BY <3>1 DEF Entry
    <3>3. b \in table.entries[k].start .. table.entries[k].start + table.entries[k].length - 1
      BY <2>2, <3>2 DEF BytesOf, Extent, Bytes
    <3>. QED  BY <3>2, <3>3 DEF Used
  <2>3. Used(table.entries) \subseteq used
    BY DEF Used
  <2>4. Known = { ext(k) : k \in Used(table.entries) }
    BY <1>3 DEF Known, Extents
  <2>5. Spared = UNION { BytesOf(ext(k)) : k \in used }
    BY <1>3 DEF Spared, Occupied
  <2>. HIDE DEF used, ext
  <2>6. UNION { BytesOf(ext(k)) : k \in used } = UNION { BytesOf(e) : e \in { ext(k) : k \in Used(table.entries) } }
    BY <2>2, <2>3
  <2>. QED  BY <1>2, <2>4, <2>5, <2>6
<1>4. CASE ~HasEntries
  BY <1>2, <1>4 DEF Spared, Known
<1>. QED  BY <1>3, <1>4

\* The ranges of a target before slack-hunter.
LEMMA ResolvedFacts ==
  ASSUME WalkInv, RequestInv, request.kind = "gaps" => pc = "done"
  PROVE  /\ Resolved \in Seq(Pass!ByteRange)
         /\ request.kind = "gaps" => DOMAIN Resolved = DOMAIN gaps
         /\ request.kind # "gaps" /\ WholeLength = 0 => Resolved = <<>>
         /\ request.kind # "gaps" /\ WholeLength # 0 =>
              /\ Len(Resolved) = 1 /\ DOMAIN Resolved = {1}
              /\ Resolved[1] = [offset |-> 0, length |-> WholeLength]
         /\ WholeLength \in Nat /\ Multiple(WholeLength, Sector)
         /\ WholeLength <= size \/ (WholeLength = Sector /\ size < Sector /\ request.regular)
         /\ WholeLength # 0 => size > 0
<1>1. size \in Nat /\ Sector \in Nat \ {0}
  BY GeometryAssumption DEF RequestInv
<1>2. /\ AlignDown(size, Sector) \in Nat /\ AlignDown(size, Sector) <= size
      /\ size - AlignDown(size, Sector) < Sector
      /\ Multiple(AlignDown(size, Sector), Sector) /\ Multiple(Sector, Sector)
  <2>1. Multiple(Sector, Sector)
    BY <1>1 DEF Multiple
  <2>. QED  BY <1>1, <2>1, AlignDownFacts
<1>. HIDE DEF AlignDown
<1>3. /\ WholeLength \in Nat /\ Multiple(WholeLength, Sector)
      /\ WholeLength <= size \/ (WholeLength = Sector /\ size < Sector /\ request.regular)
      /\ WholeLength # 0 => size > 0
  <2>. DEFINE whole == AlignDown(size, Sector)
  <2>1. CASE whole = 0 /\ size > 0 /\ request.regular /\ request.kind = "whole"
    <3>1. WholeLength = Sector
      BY <2>1 DEF WholeLength
    <3>. QED  BY <1>1, <1>2, <2>1, <3>1
  <2>2. CASE ~(whole = 0 /\ size > 0 /\ request.regular /\ request.kind = "whole")
    <3>1. WholeLength = whole
      BY <2>2 DEF WholeLength
    <3>2. whole \in Nat /\ whole <= size /\ Multiple(whole, Sector)
      BY <1>2
    <3>. HIDE DEF whole, WholeLength
    <3>3. WholeLength \in Nat /\ Multiple(WholeLength, Sector) /\ WholeLength <= size
      BY <3>1, <3>2
    <3>4. WholeLength # 0 => size > 0
      BY <1>1, <3>3
    <3>. QED  BY <3>3, <3>4
  <2>. QED  BY <2>1, <2>2
<1>4. CASE request.kind = "gaps"
  <2>1. /\ Len(gaps) \in Nat /\ DOMAIN gaps = 1 .. Len(gaps)
        /\ \A g \in DOMAIN gaps : gaps[g].start \in Nat /\ gaps[g].length \in Nat \ {0}
    BY Types
  <2>2. Resolved \in [1 .. Len(gaps) -> Pass!ByteRange] /\ DOMAIN Resolved = DOMAIN gaps
    BY <1>4, <2>1 DEF Resolved, Pass!ByteRange
  <2>3. Resolved \in Seq(Pass!ByteRange)
    BY <2>1, <2>2, FunctionSeq
  <2>. QED  BY <1>3, <1>4, <2>2, <2>3
<1>5. CASE request.kind # "gaps" /\ WholeLength = 0
  <2>1. Resolved = <<>>
    BY <1>5 DEF Resolved
  <2>. QED  BY <1>3, <1>5, <2>1
<1>6. CASE request.kind # "gaps" /\ WholeLength # 0
  <2>1. [offset |-> 0, length |-> WholeLength] \in Pass!ByteRange
    BY <1>3, <1>6 DEF Pass!ByteRange
  <2>2. Resolved = << [offset |-> 0, length |-> WholeLength] >>
    BY <1>6 DEF Resolved
  <2>. HIDE DEF WholeLength, Pass!ByteRange
  <2>3. Resolved \in Seq(Pass!ByteRange) /\ Len(Resolved) = 1 /\ DOMAIN Resolved = {1}
        /\ Resolved[1] = [offset |-> 0, length |-> WholeLength]
    BY <2>1, <2>2
  <2>. QED  BY <1>3, <1>6, <2>3
<1>. QED  BY <1>4, <1>5, <1>6

\* Where the whole sectors of a range end whose start is a whole number of
\* sectors, before and after apply_slack_hunter has stretched it.
LEMMA Stretched ==
  ASSUME NEW o \in Nat, NEW l \in Nat \ {0}, size \in Nat, Multiple(o, Sector),
         Multiple(o + l, Sector) \/ o + l = size
  PROVE  LET r == ToSectorEnd([offset |-> o, length |-> l])
             end == AlignDown(o + l, Sector)
         IN /\ r.offset = o /\ r.length \in Nat \ {0} /\ r \in Pass!ByteRange
            /\ o + AlignDown(r.length, Sector) <= o + l
            /\ o + l <= size => o + AlignDown(r.length, Sector) = end
            /\ o + AlignDown(l, Sector) = end /\ end <= o + l
<1>. DEFINE up == AlignUp(o + l, Sector)
            down == AlignDown(size, Sector)
            end == IF up > size THEN down ELSE up
            r == [offset |-> o, length |-> l]
            t == ToSectorEnd(r)
<1>1. Sector \in Nat \ {0} /\ o + l \in Nat
  BY GeometryAssumption
<1>2. o + AlignDown(l, Sector) = AlignDown(o + l, Sector)
  BY <1>1, AlignDownSum
<1>3. down \in Nat /\ down <= size /\ Multiple(down, Sector)
  BY <1>1, AlignDownFacts
<1>4. /\ up \in Nat /\ o + l <= up
      /\ Multiple(o + l, Sector) => up = o + l
      /\ ~Multiple(o + l, Sector) => o + l < up
  BY <1>1, AlignUpFacts
<1>5. AlignDown(o + l, Sector) \in Nat /\ AlignDown(o + l, Sector) <= o + l
  BY <1>1, AlignDownFacts
<1>6. Multiple(o + l, Sector) => AlignDown(o + l, Sector) = o + l
  BY <1>1, AlignDownWhole
<1>7. t = IF end > o THEN [r EXCEPT !.length = end - o] ELSE r
  BY DEF ToSectorEnd
<1>. HIDE DEF up, down, t
<1>8. end \in Nat /\ (up > size => end = down) /\ (~(up > size) => end = up)
  BY <1>3, <1>4
<1>9. CASE end > o
  <2>1. t = [offset |-> o, length |-> end - o] /\ end - o \in Nat \ {0} /\ o + (end - o) = end
    BY <1>7, <1>8, <1>9
  <2>2. Multiple(end, Sector) /\ end <= o + l /\ (o + l <= size => end = AlignDown(o + l, Sector))
    BY <1>3, <1>4, <1>6, <1>8 DEF down
  <2>3. o + AlignDown(end - o, Sector) = end
    <3>. HIDE DEF end
    <3>1. o + AlignDown(end - o, Sector) = AlignDown(o + (end - o), Sector)
      BY <1>1, <2>1, AlignDownSum
    <3>. QED  BY <1>1, <1>8, <2>1, <2>2, <3>1, AlignDownWhole
  <2>. HIDE DEF end
  <2>. QED  BY <1>2, <1>5, <2>1, <2>2, <2>3 DEF t, r, Pass!ByteRange
<1>10. CASE ~(end > o)
  <2>1. t = [offset |-> o, length |-> l]
    BY <1>7, <1>10
  <2>. QED  BY <1>2, <1>5, <2>1 DEF t, r, Pass!ByteRange
<1>. QED  BY <1>9, <1>10 DEF t, r

\* The ranges are the gaps, perhaps stretched to whole sectors.
GapsAimed ==
  /\ WalkInv /\ RequestInv /\ request.kind = "gaps" /\ pc = "done" /\ slackEnd = 0
  /\ ranges \in Seq(Pass!ByteRange) /\ DOMAIN ranges = DOMAIN gaps
  /\ \A k \in DOMAIN gaps :
       /\ ranges[k].offset = gaps[k].start
       /\ RangeTop(k) <= GapTop(k)
       /\ GapTop(k) <= Capacity => RangeTop(k) = AlignDown(GapTop(k), Sector)

LEMMA AimOfGaps == GapsAimed => AimInv
<1>. SUFFICES ASSUME GapsAimed PROVE AimInv
  OBVIOUS
<1>. USE DEF Bytes, GapsAimed
<1>1. /\ Apart /\ Shaped /\ Complement /\ Spared = PartBytes
      /\ size = Capacity /\ Capacity \in Nat /\ Sector \in Nat \ {0}
      /\ InsideDisk => \A g \in DOMAIN gaps : GapTop(g) <= Capacity
  BY SparedIsListed, GapsAssumption, GeometryAssumption DEF WalkInv, RequestInv
<1>2. ASSUME NEW b \in Pass!Target \ Wanted PROVE Excess(b)
  <2>1. b \in Nat /\ b \notin Bytes(0, Capacity) \ Spared
    BY TargetBytes DEF Wanted
  <2>2. PICK k \in DOMAIN gaps : ranges[k].offset <= b /\ b < RangeTop(k)
    BY TargetBytes
  <2>3. /\ gaps[k].start <= b /\ gaps[k].start \in Nat
        /\ RangeTop(k) \in Nat /\ GapTop(k) \in Nat /\ RangeTop(k) <= GapTop(k)
    BY <2>2, TargetBytes, Types
  <2>4. b < GapTop(k)
    BY <2>1, <2>2, <2>3
  <2>5. InGap(b)
    BY <2>3, <2>4 DEF InGap
  <2>6. b \notin Spared
    BY <1>1, <2>1, <2>5, Membership, ApartFacts
  <2>7. b >= Capacity
    BY <1>1, <2>1, <2>6
  <2>8. PICK n \in DOMAIN parts : GapTop(k) <= parts[n].start
    BY <1>1, <2>1, <2>3, <2>4, <2>7 DEF Shaped
  <2>9. b < parts[n].start
    BY <2>1, <2>3, <2>4, <2>8, Types
  <2>. QED  BY <2>6, <2>7, <2>9 DEF Excess
<1>3. ASSUME InsideDisk, NEW b \in Wanted, b < AlignDown(size, Sector) PROVE b \in Pass!Target
  <2>1. b \in Nat /\ b < Capacity /\ b \notin PartBytes
    BY <1>1 DEF Wanted
  <2>2. InGap(b)
    BY <1>1, <2>1, Membership DEF Complement
  <2>3. PICK g \in DOMAIN gaps : gaps[g].start <= b /\ b < GapTop(g)
    BY <2>2 DEF InGap
  <2>4. GapTop(g) \in Nat /\ GapTop(g) <= Capacity /\ RangeTop(g) = AlignDown(GapTop(g), Sector)
    BY <1>1, <1>3, Types
  <2>5. b < RangeTop(g)
    <3>1. CASE Multiple(GapTop(g), Sector)
      BY <1>1, <2>3, <2>4, <3>1, AlignDownWhole
    <3>2. CASE GapTop(g) = Capacity
      BY <1>1, <1>3, <2>4, <3>2
    <3>. QED  BY <1>1, <3>1, <3>2 DEF Shaped
  <2>. QED  BY <2>1, <2>3, <2>5, TargetBytes
<1>. QED  BY <1>2, <1>3 DEF AimInv

\* The target is one range, or none.
WholeAimed ==
  /\ RequestInv /\ request.kind # "gaps" /\ slackEnd = 0
  /\ ranges \in Seq(Pass!ByteRange)
  /\ WholeLength = 0 => ranges = <<>>
  /\ WholeLength # 0 => /\ DOMAIN ranges = {1} /\ ranges[1].offset = 0
                        /\ RangeTop(1) <= WholeLength
                        /\ WholeLength <= size => RangeTop(1) = WholeLength
  /\ WholeLength \in Nat
  /\ WholeLength <= size \/ (WholeLength = Sector /\ size < Sector /\ request.regular)

LEMMA AimOfWhole == WholeAimed => AimInv
<1>. SUFFICES ASSUME WholeAimed PROVE AimInv
  OBVIOUS
<1>. USE DEF Bytes, WholeAimed
<1>1. size \in Nat /\ Sector \in Nat \ {0}
  BY GeometryAssumption DEF RequestInv
<1>2. ASSUME NEW b \in Pass!Target \ Wanted PROVE Excess(b)
  <2>1. b \in Nat /\ b >= size
    BY <1>1, TargetBytes DEF Wanted
  <2>2. PICK k \in DOMAIN ranges : ranges[k].offset <= b /\ b < RangeTop(k)
    BY TargetBytes
  <2>3. WholeLength # 0 /\ k = 1
    BY <2>2
  <2>4. b < WholeLength
    BY <2>1, <2>2, <2>3, TargetBytes
  <2>. QED  BY <1>1, <2>1, <2>4 DEF Excess
<1>3. ASSUME NEW b \in Wanted, b < AlignDown(size, Sector) PROVE b \in Pass!Target
  <2>. DEFINE whole == AlignDown(size, Sector)
  <2>1. b \in Nat /\ whole \in Nat /\ whole <= size /\ b < whole
    BY <1>1, <1>3, AlignDownFacts DEF Wanted
  <2>2. WholeLength = whole
    BY <1>1, <2>1 DEF WholeLength
  <2>. HIDE DEF whole
  <2>3. 1 \in DOMAIN ranges /\ ranges[1].offset = 0 /\ b < RangeTop(1)
    BY <1>1, <2>1, <2>2
  <2>. QED  BY <2>1, <2>3, TargetBytes
<1>4. Bytes(0, slackEnd) \subseteq Pass!Target
  OBVIOUS
<1>. QED  BY <1>2, <1>3, <1>4 DEF AimInv

\* The target is a file whose slack has been analysed.
FileAimed ==
  /\ RequestInv /\ request.regular
  /\ slackEnd \in Nat /\ size <= slackEnd /\ (size = 0 => slackEnd = 0)
  /\ ranges \in Seq(Pass!ByteRange)
  /\ request.kind = "gaps" => slackEnd > 0
  /\ request.kind # "gaps" =>
       /\ WholeLength = 0 => ranges = <<>>
       /\ WholeLength # 0 =>
            /\ DOMAIN ranges = {1} /\ ranges[1].offset = 0
            /\ RangeTop(1) = IF AlignDown(slackEnd, Sector) = 0 THEN Sector
                             ELSE AlignDown(slackEnd, Sector)

LEMMA AimOfFile == FileAimed => AimInv
<1>. SUFFICES ASSUME FileAimed PROVE AimInv
  OBVIOUS
<1>. USE DEF Bytes, FileAimed
<1>. DEFINE end == AlignDown(slackEnd, Sector)
            whole == AlignDown(size, Sector)
<1>1. size \in Nat /\ Sector \in Nat \ {0}
  BY GeometryAssumption DEF RequestInv
<1>2. /\ end \in Nat /\ end <= slackEnd /\ slackEnd - end < Sector
      /\ whole \in Nat /\ whole <= size /\ whole <= end
  BY <1>1, AlignDownFacts, AlignDownMono
<1>3. slackEnd % Sector = 0 => end = slackEnd
  BY <1>1, AlignDownWhole, MultipleMod
<1>4. CASE request.kind = "gaps"
  BY <1>4 DEF AimInv, ImageSlack
<1>5. CASE request.kind # "gaps" /\ WholeLength = 0
  <2>1. \A b : b \notin Pass!Target
    BY <1>5, TargetBytes
  <2>2. whole = 0
    BY <1>1, <1>5 DEF WholeLength
  <2>3. request.kind = "whole" => size = 0
    BY <1>1, <1>2, <1>5, <2>2 DEF WholeLength
  <2>4. \A b \in Wanted : ~(b < whole)
    BY <1>5, <2>2 DEF Wanted
  <2>. QED  BY <2>1, <2>3, <2>4 DEF AimInv
<1>6. CASE request.kind # "gaps" /\ WholeLength # 0
  <2>1. /\ DOMAIN ranges = {1} /\ ranges[1].offset = 0
        /\ RangeTop(1) = IF end = 0 THEN Sector ELSE end
    BY <1>6
  <2>. HIDE DEF end, whole
  <2>2. \A b : b \in Pass!Target <=> b \in Nat /\ b < RangeTop(1)
    BY <2>1, TargetBytes
  <2>3. ASSUME NEW b \in Pass!Target \ Wanted PROVE Excess(b)
    <3>1. b \in Nat /\ b >= size /\ b < RangeTop(1)
      BY <1>1, <1>6, <2>2 DEF Wanted
    <3>. QED  BY <1>1, <1>2, <1>6, <2>1, <3>1 DEF Excess
  <2>4. ASSUME NEW b \in Wanted, b < whole PROVE b \in Pass!Target
    BY <1>1, <1>2, <1>6, <2>1, <2>2, <2>4 DEF Wanted
  <2>5. slackEnd % Sector = 0 => Bytes(0, slackEnd) \subseteq Pass!Target
    BY <1>1, <1>2, <1>3, <2>1, <2>2
  <2>. QED  BY <2>3, <2>4, <2>5 DEF AimInv, whole
<1>. QED  BY <1>4, <1>5, <1>6

\* The same one step later.
LEMMA AimNext == (GapsAimed \/ WholeAimed \/ FileAimed)' => AimInv'
<1>1. GapsAimed \/ WholeAimed \/ FileAimed => AimInv
  BY AimOfGaps, AimOfWhole, AimOfFile
<1>. QED  BY <1>1, PTL

-----------------------------------------------------------------------------
\* Before its first step, a pass of either engine is in order.
LEMMA EngineStart == (Pass!Init => EngineInv) /\ (Pass!Init' => EngineInv')
<1>1. Pass!Init => EngineInv
  <2>. SUFFICES ASSUME Pass!Init PROVE EngineInv
    OBVIOUS
  <2>1. PassInv
    BY PassInit
  <2>2. PoolInv
    BY DEF Pass!Init, PoolInv
  <2>. QED  BY <2>1, <2>2 DEF EngineInv
<1>. QED  BY <1>1, PTL

LEMMA TargetStart == TargetInit => TargetInv
<1>. SUFFICES ASSUME TargetInit PROVE TargetInv
  OBVIOUS
<1>1. WalkInv
  BY WalkInit DEF TargetInit
<1>2. RequestInv
  BY TargetAssumption, GapsAssumption DEF TargetInit, Init, RequestInv
<1>3. ranges \in Seq(Pass!ByteRange) /\ Pass!Init
  BY DEF TargetInit, Pass!Init
<1>. QED  BY <1>1, <1>2, <1>3 DEF TargetInv, TargetInit

LEMMA ReadTableInv == TargetInv /\ ReadTable => TargetInv'
<1>. SUFFICES ASSUME TargetInv, ReadTable PROVE TargetInv'
  OBVIOUS
<1>1. stage = "resolve" /\ UNCHANGED <<request, size, extended, stage, slackEnd, wipeVars>>
  BY DEF ReadTable
<1>2. WalkInv'
  BY WalkNext DEF ReadTable, Next, TargetInv
<1>3. RequestInv'
  BY <1>1 DEF TargetInv, RequestInv, ReadTable
<1>4. Pass!Init' /\ (ranges \in Seq(Pass!ByteRange))'
  BY <1>1 DEF TargetInv, Pass!Init, wipeVars
<1>. QED  BY <1>1, <1>2, <1>3, <1>4 DEF TargetInv

LEMMA TakeInv == TargetInv /\ (TakeGaps \/ TakeWhole) => TargetInv'
<1>. SUFFICES ASSUME TargetInv, TakeGaps \/ TakeWhole PROVE TargetInv'
  OBVIOUS
<1>1. /\ stage' = "slack" /\ stage = "resolve" /\ (request.kind = "gaps" => pc = "done")
      /\ ranges' = Resolved
      /\ UNCHANGED <<vars, request, size, extended, slackEnd, passPc, index, offset, failed,
                     errorAt, done, wiped, ret>>
  <2>1. CASE TakeGaps
    <3>1. request.kind = "gaps"
      BY <2>1 DEF TakeGaps, TargetInv, RequestInv
    <3>. QED  BY <2>1, <3>1 DEF TakeGaps, Resolved
  <2>2. CASE TakeWhole
    BY <2>2 DEF TakeWhole, Resolved
  <2>. QED  BY <2>1, <2>2
<1>2. Resolved \in Seq(Pass!ByteRange)
  BY <1>1, ResolvedFacts DEF TargetInv
<1>3. UNCHANGED Resolved
  BY <1>1 DEF Resolved, WholeLength, vars
<1>4. WalkInv'
  BY <1>1, WalkNext DEF TargetInv
<1>5. RequestInv'
  BY <1>1 DEF TargetInv, RequestInv, vars
<1>6. Pass!Init' /\ (ranges \in Seq(Pass!ByteRange))'
  BY <1>1, <1>2 DEF TargetInv, Pass!Init
<1>. QED  BY <1>1, <1>3, <1>4, <1>5, <1>6 DEF TargetInv

\* What slack-hunter may do to a range leaves it a range.
LEMMA SlackInv ==
  ASSUME TargetInv, stage = "slack", stage' = "pass",
         UNCHANGED <<vars, request, size, passPc, index, offset, failed, errorAt, done, wiped, ret>>,
         ranges' \in Seq(Pass!ByteRange), slackEnd' \in Nat,
         RequestInv' => (GapsAimed \/ WholeAimed \/ FileAimed)'
  PROVE  TargetInv'
<1>1. WalkInv'
  BY WalkNext DEF TargetInv
<1>2. RequestInv'
  BY DEF TargetInv, RequestInv, vars
<1>3. AimInv'
  BY <1>2, AimNext
<1>4. Pass!Init'
  BY DEF TargetInv, Pass!Init
<1>5. EngineInv'
  BY <1>4, EngineStart
<1>. QED  BY <1>1, <1>2, <1>3, <1>5 DEF TargetInv

\* Each range of a resolved target starts with a sector, and ends with one or
\* with the target.
LEMMA ResolvedShape ==
  ASSUME TargetInv, stage = "slack", NEW k \in DOMAIN ranges
  PROVE  /\ ranges[k].offset \in Nat /\ ranges[k].length \in Nat \ {0}
         /\ Multiple(ranges[k].offset, Sector)
         /\ \/ Multiple(ranges[k].offset + ranges[k].length, Sector)
            \/ ranges[k].offset + ranges[k].length = size
         /\ ranges[k] = [offset |-> ranges[k].offset, length |-> ranges[k].length]
<1>1. ranges = Resolved /\ WalkInv /\ RequestInv /\ (request.kind = "gaps" => pc = "done")
  BY DEF TargetInv, RequestInv
<1>2. ranges[k] \in Pass!ByteRange
  BY SeqFacts DEF TargetInv
<1>3. /\ ranges[k].offset \in Nat /\ ranges[k].length \in Nat \ {0}
      /\ ranges[k] = [offset |-> ranges[k].offset, length |-> ranges[k].length]
  BY <1>2 DEF Pass!ByteRange
<1>4. CASE request.kind = "gaps"
  <2>1. k \in DOMAIN gaps /\ ranges[k].offset = gaps[k].start
        /\ ranges[k].offset + ranges[k].length = GapTop(k)
    BY <1>1, <1>4, ResolvedFacts DEF Resolved, GapTop
  <2>2. Shaped /\ size = Capacity
    BY <1>1, <1>4 DEF WalkInv, RequestInv
  <2>. QED  BY <1>3, <2>1, <2>2 DEF Shaped
<1>5. CASE request.kind # "gaps"
  <2>1. k = 1 /\ ranges[k] = [offset |-> 0, length |-> WholeLength]
    BY <1>1, <1>5, ResolvedFacts
  <2>2. Multiple(0, Sector) /\ Multiple(WholeLength, Sector) /\ WholeLength \in Nat
    BY <1>1, ResolvedFacts, GeometryAssumption DEF Multiple
  <2>. QED  BY <1>3, <2>1, <2>2
<1>. QED  BY <1>4, <1>5

\* A pass over the resolved ranges, stretched to whole sectors or not.
LEMMA ClosedInv == TargetInv /\ (NoSlack \/ NoAnalysis) => TargetInv'
<1>. SUFFICES ASSUME TargetInv, NoSlack \/ NoAnalysis PROVE TargetInv'
  OBVIOUS
<1>1. /\ stage = "slack" /\ stage' = "pass" /\ slackEnd' = slackEnd /\ slackEnd = 0
      /\ UNCHANGED <<vars, request, size, passPc, index, offset, failed, errorAt, done, wiped, ret>>
  BY DEF NoSlack, NoAnalysis, TargetInv, RequestInv, wipeVars
<1>2. ranges = Resolved /\ WalkInv /\ RequestInv /\ (request.kind = "gaps" => pc = "done")
      /\ ranges \in Seq(Pass!ByteRange) /\ size \in Nat
  BY <1>1 DEF TargetInv, RequestInv
<1>3. Len(ranges) \in Nat /\ DOMAIN ranges = 1 .. Len(ranges)
  BY <1>2, SeqFacts
<1>4. /\ DOMAIN ranges' = DOMAIN ranges
      /\ \A k \in DOMAIN ranges : ranges'[k] = ranges[k] \/ ranges'[k] = ToSectorEnd(ranges[k])
  BY <1>3 DEF NoSlack, NoAnalysis, wipeVars
<1>5. ASSUME NEW k \in DOMAIN ranges
      PROVE  LET top == ranges[k].offset + ranges[k].length
             IN /\ ranges'[k] \in Pass!ByteRange
                /\ ranges'[k].offset = ranges[k].offset
                /\ RangeTop(k)' <= top
                /\ top <= size => RangeTop(k)' = AlignDown(top, Sector)
  <2>. DEFINE o == ranges[k].offset
              l == ranges[k].length
              r == ToSectorEnd([offset |-> o, length |-> l])
  <2>1. /\ o \in Nat /\ l \in Nat \ {0} /\ Multiple(o, Sector)
        /\ Multiple(o + l, Sector) \/ o + l = size
        /\ ranges[k] = [offset |-> o, length |-> l]
    BY <1>1, ResolvedShape
  <2>2. /\ r.offset = o /\ r \in Pass!ByteRange
        /\ o + AlignDown(r.length, Sector) <= o + l
        /\ o + l <= size => o + AlignDown(r.length, Sector) = AlignDown(o + l, Sector)
        /\ o + AlignDown(l, Sector) = AlignDown(o + l, Sector)
        /\ AlignDown(o + l, Sector) <= o + l
    <3>. HIDE DEF o, l
    <3>. QED  BY <1>2, <2>1, Stretched
  <2>3. CASE ranges'[k] = ranges[k]
    <3>1. ranges[k] \in Pass!ByteRange
      BY <1>2, SeqFacts
    <3>. QED  BY <2>2, <2>3, <3>1 DEF RangeTop
  <2>4. CASE ranges'[k] = ToSectorEnd(ranges[k])
    <3>1. ranges'[k] = r
      BY <2>1, <2>4
    <3>. HIDE DEF r
    <3>. QED  BY <2>2, <3>1 DEF RangeTop
  <2>. QED  BY <1>4, <2>3, <2>4
<1>6. ranges' \in Seq(Pass!ByteRange)
  <2>1. CASE UNCHANGED ranges
    BY <1>2, <2>1
  <2>2. CASE ranges' = [k \in DOMAIN ranges |-> ToSectorEnd(ranges[k])]
    <3>1. ranges' \in [1 .. Len(ranges) -> Pass!ByteRange]
      BY <1>3, <1>5, <2>2
    <3>. QED  BY <1>3, <3>1, FunctionSeq
  <2>. QED  BY <2>1, <2>2 DEF NoSlack, NoAnalysis, wipeVars
<1>7. ASSUME RequestInv', request.kind = "gaps" PROVE GapsAimed'
  <2>1. WalkInv' /\ pc' = "done" /\ DOMAIN ranges' = DOMAIN gaps' /\ UNCHANGED <<gaps, request>>
    BY <1>1, <1>2, <1>4, <1>7, WalkNext, ResolvedFacts DEF vars
  <2>2. ASSUME NEW k \in DOMAIN gaps
        PROVE  /\ ranges'[k].offset = gaps[k].start
               /\ RangeTop(k)' <= GapTop(k)'
               /\ GapTop(k)' <= Capacity => RangeTop(k)' = AlignDown(GapTop(k)', Sector)
    <3>1. /\ k \in DOMAIN ranges /\ ranges[k].offset = gaps[k].start
          /\ ranges[k].offset + ranges[k].length = GapTop(k) /\ GapTop(k)' = GapTop(k)
      BY <1>2, <1>7, <2>1, ResolvedFacts DEF Resolved, GapTop
    <3>. QED  BY <1>2, <1>5, <1>7, <3>1 DEF RequestInv
  <2>. QED  BY <1>1, <1>6, <1>7, <2>1, <2>2 DEF GapsAimed
<1>8. ASSUME RequestInv', request.kind # "gaps" PROVE WholeAimed'
  <2>1. UNCHANGED <<request, size, WholeLength>>
    BY <1>1 DEF WholeLength
  <2>2. /\ WholeLength \in Nat /\ Multiple(WholeLength, Sector)
        /\ WholeLength <= size \/ (WholeLength = Sector /\ size < Sector /\ request.regular)
    BY <1>2, ResolvedFacts
  <2>3. WholeLength = 0 => ranges' = <<>>
    BY <1>2, <1>3, <1>4, <1>6, <1>8, ResolvedFacts
  <2>4. ASSUME WholeLength # 0
        PROVE  /\ DOMAIN ranges' = {1} /\ ranges'[1].offset = 0
               /\ RangeTop(1)' <= WholeLength
               /\ WholeLength <= size => RangeTop(1)' = WholeLength
    <3>1. /\ DOMAIN ranges = {1} /\ ranges[1].offset = 0 /\ ranges[1].length = WholeLength
      BY <1>2, <1>8, <2>4, ResolvedFacts
    <3>2. AlignDown(WholeLength, Sector) = WholeLength
      BY <2>2, AlignDownWhole, GeometryAssumption
    <3>3. ranges[1].offset + ranges[1].length = WholeLength
      BY <2>2, <3>1
    <3>. QED  BY <1>4, <1>5, <3>1, <3>2, <3>3
  <2>. QED  BY <1>1, <1>6, <1>8, <2>1, <2>2, <2>3, <2>4 DEF WholeAimed
<1>. QED  BY <1>1, <1>6, <1>7, <1>8, SlackInv DEF TargetInv, RequestInv

\* A pass over a file whose slack has been analysed.
LEMMA AnalysisInv == TargetInv /\ Analysis => TargetInv'
<1>. SUFFICES ASSUME TargetInv, Analysis PROVE TargetInv'
  OBVIOUS
<1>1. /\ stage = "slack" /\ stage' = "pass" /\ request.regular
      /\ UNCHANGED <<vars, request, size, passPc, index, offset, failed, errorAt, done, wiped, ret>>
  BY DEF Analysis
<1>2. ranges = Resolved /\ WalkInv /\ RequestInv /\ (request.kind = "gaps" => pc = "done")
      /\ ranges \in Seq(Pass!ByteRange) /\ size \in Nat /\ Sector \in Nat \ {0}
  BY <1>1, GeometryAssumption DEF TargetInv, RequestInv
<1>3. PICK c \in Clusters :
        /\ slackEnd' = WipeSize(c)
        /\ ranges' = IF ranges = <<>> THEN ranges
                     ELSE [ranges EXCEPT ![1].length =
                             IF AlignDown(slackEnd', Sector) = 0 /\ slackEnd' > 0 THEN Sector
                             ELSE AlignDown(slackEnd', Sector)]
  BY DEF Analysis
<1>4. slackEnd' \in Nat /\ size <= slackEnd' /\ (size = 0 => slackEnd' = 0)
  <2>1. ASSUME NEW s \in Nat
        PROVE  AlignUp(size, s) \in Nat /\ size <= AlignUp(size, s)
               /\ (size = 0 => AlignUp(size, s) = 0)
    BY <1>2, AlignUpFacts
  <2>2. (IF Usable(c) THEN c ELSE DefaultCluster) \in Nat
    BY TargetAssumption
  <2>. QED  BY <1>3, <2>1, <2>2 DEF WipeSize
<1>5. AlignDown(slackEnd', Sector) \in Nat /\ Multiple(AlignDown(slackEnd', Sector), Sector)
  BY <1>2, <1>4, AlignDownFacts
<1>. DEFINE len == IF AlignDown(slackEnd', Sector) = 0 THEN Sector ELSE AlignDown(slackEnd', Sector)
<1>6. len \in Nat \ {0} /\ AlignDown(len, Sector) = len
  <2>1. Multiple(Sector, Sector)
    BY <1>2 DEF Multiple
  <2>2. len \in Nat \ {0} /\ Multiple(len, Sector)
    BY <1>2, <1>5, <2>1
  <2>. HIDE DEF len
  <2>. QED  BY <1>2, <2>2, AlignDownWhole
<1>7. Len(ranges) \in Nat /\ DOMAIN ranges = 1 .. Len(ranges)
      /\ \A k \in DOMAIN ranges : ranges[k] \in Pass!ByteRange
  BY <1>2, SeqFacts
<1>8. ranges # <<>> => size > 0
  <2>. SUFFICES ASSUME ranges # <<>> PROVE size > 0
    OBVIOUS
  <2>1. CASE request.kind = "gaps"
    BY <1>2, <2>1, GapsAssumption DEF RequestInv
  <2>2. CASE request.kind # "gaps"
    BY <1>2, <2>2, ResolvedFacts
  <2>. QED  BY <2>1, <2>2
<1>9. ranges # <<>> =>
        /\ ranges' = [ranges EXCEPT ![1].length = len]
        /\ 1 \in DOMAIN ranges
  <2>1. ranges # <<>> => Len(ranges) # 0
    BY <1>2
  <2>2. ranges # <<>> => slackEnd' > 0
    BY <1>2, <1>4, <1>8
  <2>3. ranges # <<>> => 1 \in DOMAIN ranges
    BY <1>7, <2>1
  <2>. QED  BY <1>3, <2>2, <2>3
<1>. HIDE DEF len
<1>10. ranges' \in Seq(Pass!ByteRange) /\ DOMAIN ranges' = DOMAIN ranges
  <2>1. CASE ranges = <<>>
    BY <1>2, <1>3, <2>1
  <2>2. CASE ranges # <<>>
    <3>1. [ranges[1] EXCEPT !.length = len] \in Pass!ByteRange
      BY <1>6, <1>7, <1>9, <2>2 DEF Pass!ByteRange
    <3>2. ranges' = [ranges EXCEPT ![1] = [ranges[1] EXCEPT !.length = len]]
      BY <1>9, <2>2
    <3>3. ranges \in [1 .. Len(ranges) -> Pass!ByteRange]
      BY <1>2, LenProperties
    <3>4. ranges' \in [1 .. Len(ranges) -> Pass!ByteRange]
      BY <3>1, <3>2, <3>3
    <3>. QED  BY <1>7, <3>4, FunctionSeq
  <2>. QED  BY <2>1, <2>2
<1>11. ASSUME RequestInv' PROVE FileAimed'
  <2>1. UNCHANGED <<request, size, WholeLength>>
    BY <1>1 DEF WholeLength
  <2>2. request.kind = "gaps" => slackEnd' > 0
    BY <1>2, <1>4, GapsAssumption, GeometryAssumption DEF RequestInv
  <2>3. ASSUME request.kind # "gaps", WholeLength = 0 PROVE ranges' = <<>>
    BY <1>2, <1>3, <2>3, ResolvedFacts
  <2>4. ASSUME request.kind # "gaps", WholeLength # 0
        PROVE  DOMAIN ranges' = {1} /\ ranges'[1].offset = 0 /\ RangeTop(1)' = len
    <3>1. DOMAIN ranges = {1} /\ ranges[1] = [offset |-> 0, length |-> WholeLength]
      BY <1>2, <2>4, ResolvedFacts
    <3>2. ranges # <<>>
      BY <3>1
    <3>3. ranges'[1].offset = 0 /\ ranges'[1].length = len
      BY <1>9, <3>1, <3>2
    <3>. QED  BY <1>6, <1>10, <3>1, <3>3 DEF RangeTop
  <2>. QED  BY <1>1, <1>4, <1>10, <1>11, <2>1, <2>2, <2>3, <2>4 DEF FileAimed, len
<1>. QED  BY <1>1, <1>4, <1>10, <1>11, SlackInv

-----------------------------------------------------------------------------
\* What the pool may write is the target of its only range.
LEMMA PoolTarget ==
  ASSUME ranges \in Seq(Pass!ByteRange), Pooled
  PROVE  /\ PoolBytes = Pass!Target
         /\ \A b \in PoolBytes : b % Sector = 0 => Bytes(b, b + Sector) \subseteq PoolBytes
<1>. DEFINE top == AlignDown(ranges[1].length, Sector)
<1>1. DOMAIN ranges = {1} /\ ranges[1].offset = 0 /\ Sector \in Nat \ {0}
  BY SeqFacts, GeometryAssumption DEF Pooled
<1>2. ranges[1].length \in Nat /\ RangeTop(1) \in Nat
  BY <1>1, TargetBytes
<1>3. top \in Nat /\ Multiple(top, Sector) /\ RangeTop(1) = top
  BY <1>1, <1>2, AlignDownFacts DEF RangeTop
<1>. HIDE DEF top
<1>4. PoolBytes = Bytes(0, top)
  BY DEF PoolBytes, top
<1>5. \A b : b \in Pass!Target <=> b \in Nat /\ b < top
  BY <1>1, <1>3, TargetBytes
<1>6. PoolBytes = Pass!Target
  <2>1. \A b : b \in PoolBytes <=> b \in Nat /\ b < top
    BY <1>3, <1>4 DEF Bytes
  <2>. QED  BY <2>1, <1>5
<1>7. ASSUME NEW b \in PoolBytes, b % Sector = 0 PROVE Bytes(b, b + Sector) \subseteq PoolBytes
  <2>1. b \in Nat /\ b < top /\ Multiple(b, Sector)
    BY <1>1, <1>5, <1>6, <1>7, MultipleMod
  <2>2. top - b \in Nat \ {0} /\ Multiple(top - b, Sector)
    BY <1>1, <1>3, <2>1, MultipleSub
  <2>3. b + Sector <= top
    BY <1>1, <1>3, <2>1, <2>2, MultipleAtLeast
  <2>. QED  BY <1>1, <1>3, <1>4, <2>1, <2>3 DEF Bytes
<1>. QED  BY <1>6, <1>7

\* A step of the pass, of which the ranges and their purpose are settled.
LEMMA PassStepInv ==
  ASSUME TargetInv, stage = "pass",
         UNCHANGED <<vars, request, size, stage, slackEnd, ranges>>,
         EngineInv'
  PROVE  TargetInv'
<1>1. WalkInv'
  BY WalkNext DEF TargetInv
<1>2. RequestInv'
  BY DEF TargetInv, RequestInv, vars
<1>3. UNCHANGED Pass!Target
  BY TargetFixed
<1>4. UNCHANGED <<Wanted, ImageSlack, InsideDisk, Spared, parts>>
  BY DEF Wanted, ImageSlack, InsideDisk, Spared, HasEntries, Occupied, vars
<1>5. AimInv'
  BY <1>3, <1>4 DEF TargetInv, AimInv, Excess
<1>. QED  BY <1>1, <1>2, <1>5 DEF TargetInv

LEMMA PoolInvStep == TargetInv /\ (PoolWrites \/ PoolReturns) => TargetInv'
<1>. SUFFICES ASSUME TargetInv, PoolWrites \/ PoolReturns PROVE TargetInv'
  OBVIOUS
<1>1. /\ stage = "pass" /\ Pooled /\ ret = "running" /\ PoolInv
      /\ ranges \in Seq(Pass!ByteRange)
      /\ UNCHANGED <<vars, request, size, extended, stage, slackEnd, ranges, passPc, index, offset,
                     failed, errorAt, done>>
  BY DEF PoolWrites, PoolReturns, TargetInv, EngineInv
<1>2. UNCHANGED Pass!Target /\ Pooled'
  BY <1>1, TargetFixed DEF Pooled
<1>3. PoolInv'
  <2>1. CASE PoolWrites
    <3>1. PICK b \in PoolBytes : b % Sector = 0 /\ wiped' = wiped \cup Bytes(b, b + Sector)
      BY <2>1 DEF PoolWrites
    <3>2. wiped' \subseteq Pass!Target
      BY <1>1, <3>1, PoolTarget DEF PoolInv
    <3>. QED  BY <1>1, <1>2, <2>1, <3>2 DEF PoolInv, PoolWrites
  <2>2. CASE PoolReturns
    BY <1>1, <1>2, <2>2, PoolTarget DEF PoolInv, PoolReturns
  <2>. QED  BY <2>1, <2>2
<1>. QED  BY <1>1, <1>2, <1>3, PassStepInv DEF EngineInv

LEMMA SequentialInv == TargetInv /\ Sequential => TargetInv'
<1>. SUFFICES ASSUME TargetInv, Sequential PROVE TargetInv'
  OBVIOUS
<1>1. /\ stage = "pass" /\ ~Pooled /\ PassInv /\ Pass!Step
      /\ UNCHANGED <<vars, request, size, extended, stage, slackEnd, ranges>>
  BY DEF Sequential, TargetInv, EngineInv, Pass!Step
<1>2. ~Pooled'
  BY <1>1 DEF Pooled
<1>3. PassInv'
  BY <1>1, PassNextInv DEF Pass!Next
<1>. QED  BY <1>1, <1>2, <1>3, PassStepInv DEF EngineInv

LEMMA TargetStutter == TargetInv /\ UNCHANGED targetVars => TargetInv'
<1>. SUFFICES ASSUME TargetInv, UNCHANGED targetVars PROVE TargetInv'
  OBVIOUS
<1>1. UNCHANGED <<vars, request, size, stage, slackEnd, wipeVars>>
  BY DEF targetVars
<1>2. WalkInv' /\ RequestInv'
  BY <1>1, WalkNext DEF TargetInv, RequestInv, vars
<1>3. CASE stage = "pass"
  <2>1. EngineInv'
    BY <1>1, <1>3, PassStutter, TargetFixed
       DEF TargetInv, EngineInv, Pooled, PoolInv, wipeVars, Pass!vars
  <2>. QED  BY <1>1, <1>3, <2>1, PassStepInv DEF wipeVars
<1>4. CASE stage # "pass"
  BY <1>1, <1>2, <1>4
     DEF TargetInv, Resolved, WholeLength, Pass!Init, wipeVars, vars
<1>. QED  BY <1>3, <1>4

LEMMA TargetStep == TargetInv /\ [TargetNext]_targetVars => TargetInv'
BY ReadTableInv, TakeInv, ClosedInv, AnalysisInv, PoolInvStep, SequentialInv, TargetStutter
   DEF TargetNext, Work, TargetEnded

THEOREM TargetInvariance == TargetSpec => []TargetInv
BY TargetStart, TargetStep, PTL DEF TargetSpec
-----------------------------------------------------------------------------
\* What has been written lies in the target; before the pass, nothing has.
LEMMA WrittenInTarget ==
  ASSUME TargetInv, wiped # {} \/ ret # "running"
  PROVE  stage = "pass" /\ AimInv /\ wiped \subseteq Pass!Target
<1>1. stage = "pass" /\ AimInv /\ EngineInv
  BY DEF TargetInv, Pass!Init
<1>. QED  BY <1>1 DEF EngineInv, PoolInv, PassInv, Pass!TypeOK

\* Nothing is written that was not asked for (target.c:245-285,
\* partition.c:277-294, wipe.c): whatever the table, the geometry, the size of
\* a file and of its clusters, and whichever engine writes.
THEOREM OnlyWanted == TargetSpec => []OnlyWantedWritten
<1>1. TargetInv => OnlyWantedWritten
  <2>. SUFFICES ASSUME TargetInv, ~ImageSlack, NEW b \in wiped \ Wanted PROVE Excess(b)
    BY DEF OnlyWantedWritten, Excess
  <2>. QED  BY WrittenInTarget DEF AimInv
<1>. QED  BY <1>1, TargetInvariance, PTL

\* If a chunk holds at least one sector, a pass that returns success has
\* written all of its target.
LEMMA OkWritesTarget ==
  ASSUME Sector <= Chunk, TargetInv, ret = "ok"
  PROVE  stage = "pass" /\ AimInv /\ wiped = Pass!Target
<1>1. stage = "pass" /\ AimInv /\ EngineInv
  BY WrittenInTarget DEF TargetInv
<1>2. CASE Pooled
  BY <1>1, <1>2 DEF EngineInv, PoolInv
<1>3. CASE ~Pooled
  BY <1>1, <1>3, OkMeansWritten DEF EngineInv
<1>. QED  BY <1>1, <1>2, <1>3

\* The rest of a size, behind its whole sectors, is less than a sector.
LEMMA LessThanSector ==
  ASSUME NEW n \in Nat, NEW S, S \subseteq AlignDown(n, Sector) .. n - 1
  PROVE  Cardinality(S) < Sector
<1>. DEFINE a == AlignDown(n, Sector)
<1>1. Sector \in Nat \ {0} /\ a \in Nat /\ a <= n /\ n - a < Sector
  BY AlignDownFacts, GeometryAssumption
<1>. HIDE DEF a
<1>2. IsFiniteSet(a .. n - 1) /\ Cardinality(a .. n - 1) <= n - a /\ Cardinality(a .. n - 1) \in Nat
  <2>1. a \in Int /\ n - 1 \in Int
    BY <1>1
  <2>2. /\ IsFiniteSet(a .. (n - 1))
        /\ Cardinality(a .. (n - 1)) = IF a > n - 1 THEN 0 ELSE n - 1 - a + 1
    BY <2>1, FS_Interval
  <2>. QED  BY <1>1, <2>2
<1>3. IsFiniteSet(S) /\ Cardinality(S) <= Cardinality(a .. n - 1)
  BY <1>2, FS_Subset DEF a
<1>4. Cardinality(S) \in Nat
  BY <1>3, FS_CardinalityType
<1>. QED  BY <1>1, <1>2, <1>3, <1>4

\* Success means that less than a sector of what was asked for is left, and
\* nothing of the slack of an analysed file (target.c:182-190, wipe.c:436-523).
THEOREM OkLeavesLittle ==
  ASSUME Sector <= Chunk
  PROVE  TargetSpec => []OkLeavesNoSector
<1>1. TargetInv => OkLeavesNoSector
  <2>. SUFFICES ASSUME TargetInv, ret = "ok", ~ImageSlack, InsideDisk
                PROVE  /\ Cardinality(Wanted \ wiped) < Sector
                       /\ request.kind = "whole" /\ slackEnd % Sector = 0 =>
                            Bytes(0, slackEnd) \subseteq wiped
    BY DEF OkLeavesNoSector
  <2>1. AimInv /\ wiped = Pass!Target
    BY OkWritesTarget
  <2>2. size \in Nat /\ (request.kind = "gaps" => size = Capacity)
    BY DEF TargetInv, RequestInv
  <2>3. \A b \in Wanted : b \in Nat /\ b < size
    BY <2>2 DEF Wanted, Bytes
  <2>4. AlignDown(size, Sector) \in Nat
    BY <2>2, AlignDownFacts, GeometryAssumption
  <2>5. Wanted \ wiped \subseteq AlignDown(size, Sector) .. size - 1
    BY <2>1, <2>2, <2>3, <2>4 DEF AimInv
  <2>. QED  BY <2>1, <2>2, <2>5, LessThanSector DEF AimInv
<1>. QED  BY <1>1, TargetInvariance, PTL

\* If a chunk holds at least one sector, the ranges of every target are written
\* in their order (wipe.c:464-517).
THEOREM RangesInOrder ==
  ASSUME Sector <= Chunk
  PROVE  TargetSpec => []InOrder
<1>1. TargetInv => InOrder
  <2>. SUFFICES ASSUME TargetInv PROVE Pass!InOrder
    BY DEF InOrder
  <2>1. CASE stage # "pass"
    BY <2>1 DEF TargetInv, Pass!Init, Pass!InOrder
  <2>2. CASE stage = "pass" /\ Pooled
    BY <2>2 DEF TargetInv, EngineInv, PoolInv, Pass!InOrder
  <2>3. CASE stage = "pass" /\ ~Pooled
    BY <2>3, PassTerms DEF TargetInv, EngineInv, PassInv, OrderInv, CursorInv, Pass!InOrder
  <2>. QED  BY <2>1, <2>2, <2>3
<1>. QED  BY <1>1, TargetInvariance, PTL

\* The gaps of a disk that holds its partitions are the rest of it, in the
\* whole run of a wipe as in the walk alone.
THEOREM GapsAreTheRest == TargetSpec => []GapsComplete
<1>1. TargetInv => GapsComplete
  BY WalkComplete DEF TargetInv
<1>. QED  BY <1>1, TargetInvariance, PTL

\* The wipe of a target, however it is resolved and whichever engine writes,
\* implements the pass that PassSpec promises.
THEOREM TargetKeepsPromise ==
  ASSUME Sector <= Chunk
  PROVE  TargetSpec => KeepsPromise
<1>1. TargetInit => Promise!PassInit
  BY DEF TargetInit, Promise!PassInit
<1>2. TargetInv /\ TargetInv' /\ [TargetNext]_targetVars => [Promise!PassNext]_Promise!passVars
  <2>. SUFFICES ASSUME TargetInv, TargetInv', [TargetNext]_targetVars
                PROVE  Promise!PassNext \/ UNCHANGED Promise!passVars
    OBVIOUS
  <2>1. CASE stage # "pass" /\ UNCHANGED <<wiped, ret>>
    BY <2>1 DEF TargetInv, Pass!Init, Promise!PassNext, Promise!Settle
  <2>2. CASE ReadTable \/ TakeGaps \/ TakeWhole \/ NoSlack \/ NoAnalysis \/ Analysis
    BY <2>1, <2>2 DEF ReadTable, TakeGaps, TakeWhole, NoSlack, NoAnalysis, Analysis, wipeVars
  <2>3. CASE PoolWrites
    <3>1. wiped \subseteq wiped' /\ ret = "running" /\ UNCHANGED <<ret, ranges>>
      BY <2>3 DEF PoolWrites
    <3>2. wiped' \subseteq Pass!Target /\ UNCHANGED Pass!Target
      <4>1. UNCHANGED Pass!Target
        BY <3>1, TargetFixed
      <4>2. Pooled' /\ EngineInv'
        BY <2>3 DEF PoolWrites, Pooled, TargetInv
      <4>. QED  BY <4>1, <4>2 DEF EngineInv, PoolInv
    <3>. QED  BY <3>1, <3>2 DEF Promise!PassNext, Promise!Overwrite
  <2>4. CASE PoolReturns
    <3>1. PoolBytes = Pass!Target
      BY <2>4, PoolTarget DEF PoolReturns, TargetInv
    <3>2. UNCHANGED Pass!Target
      BY <2>4, TargetFixed DEF PoolReturns
    <3>. QED  BY <2>4, <3>1, <3>2 DEF PoolReturns, Promise!PassNext, Promise!Return
  <2>5. CASE Sequential
    <3>1. PassInv /\ [Pass!Next]_Pass!vars
      BY <2>5 DEF Sequential, TargetInv, EngineInv, Pass!Next
    <3>2. PassInv'
      BY <3>1, PassNextInv
    <3>. QED  BY <3>1, <3>2, PassStepPromised
  <2>6. CASE UNCHANGED targetVars
    <3>1. UNCHANGED <<ranges, wiped, ret>>
      BY <2>6 DEF targetVars, wipeVars
    <3>. QED  BY <3>1, TargetFixed DEF Promise!passVars
  <2>. QED
    BY <2>2, <2>3, <2>4, <2>5, <2>6 DEF TargetNext, Work, TargetEnded
<1>. QED
  BY <1>1, <1>2, TargetInvariance, PTL DEF TargetSpec, KeepsPromise, Promise!PassPromise
-----------------------------------------------------------------------------
(***************************************************************************)
(* Why a wipe ends.  How many ranges there are and how long they are, is   *)
(* not known beforehand, so that no single number bounds the steps; but    *)
(* seven numbers, compared from the left, go down with every step.         *)
(***************************************************************************)

Places ==
  [resolve |-> 2, slack |-> 1, pass |-> 0,
   read |-> 3, sort |-> 2, walk |-> 1, done |-> 0, failed |-> 0, crashed |-> 0,
   start |-> 3, range |-> 2, chunk |-> 1, returned |-> 0]

\* What the thread pool has still to do: a sector, at least, with every step.
PoolLeft == Cardinality(PoolBytes \ wiped) + (IF ret = "running" THEN 1 ELSE 0)

\* How far it is to the end: the stage; the place in the walk, and the
\* partitions it has to visit; the ranges to write, the place in the loop, and
\* the bytes of the range at hand; and what the pool has to do.
Distance ==
  << Places[stage],
     Places[pc], Len(parts) + 1 - i,
     Len(ranges) + 1 - index, Places[passPc],
     IF passPc = "chunk" THEN RangeTop(index) - offset ELSE 0,
     IF stage = "pass" /\ Pooled THEN PoolLeft ELSE 0 >>

\* The order of the first difference.
Nearer(d, e) == \E k \in 1 .. 7 : d[k] < e[k] /\ \A j \in 1 .. k - 1 : d[j] = e[j]

LEMMA PoolLeftType ==
  ASSUME ranges \in Seq(Pass!ByteRange), Pooled
  PROVE  IsFiniteSet(PoolBytes \ wiped) /\ PoolLeft \in Nat
<1>1. ranges[1].length \in Nat /\ AlignDown(ranges[1].length, Sector) \in Nat
  <2>1. ranges[1] \in Pass!ByteRange
    BY SeqFacts DEF Pooled
  <2>2. ranges[1].length \in Nat
    BY <2>1 DEF Pass!ByteRange
  <2>. QED  BY <2>2, AlignDownFacts, GeometryAssumption
<1>2. IsFiniteSet(PoolBytes)
  <2>. DEFINE top == AlignDown(ranges[1].length, Sector)
  <2>1. PoolBytes = 0 .. top - 1 /\ top \in Nat
    BY <1>1 DEF PoolBytes, Bytes
  <2>. HIDE DEF top
  <2>2. top - 1 \in Int
    BY <2>1
  <2>3. IsFiniteSet(0 .. (top - 1))
    BY <2>2, FS_Interval
  <2>. QED  BY <2>1, <2>3
<1>3. IsFiniteSet(PoolBytes \ wiped)
  BY <1>2, FS_Difference
<1>4. Cardinality(PoolBytes \ wiped) \in Nat
  BY <1>3, FS_CardinalityType
<1>. QED  BY <1>3, <1>4 DEF PoolLeft

LEMMA PoolByte ==
  ASSUME ranges \in Seq(Pass!ByteRange), Pooled, NEW b \in PoolBytes
  PROVE  b \in Bytes(b, b + Sector)
<1>1. b \in Nat
  BY PoolTarget, TargetBytes
<1>. QED  BY <1>1, GeometryAssumption DEF Bytes

\* The parts of the distance.
LEMMA DistanceTerms ==
  /\ Distance[1] = Places[stage]
  /\ Distance[2] = Places[pc]
  /\ Distance[3] = Len(parts) + 1 - i
  /\ Distance[4] = Len(ranges) + 1 - index
  /\ Distance[5] = Places[passPc]
  /\ Distance[6] = IF passPc = "chunk" THEN RangeTop(index) - offset ELSE 0
  /\ Distance[7] = IF stage = "pass" /\ Pooled THEN PoolLeft ELSE 0
BY DEF Distance

LEMMA DistanceType ==
  ASSUME TargetInv
  PROVE  \A k \in 1 .. 7 : Distance[k] \in Nat
<1>. SUFFICES /\ Distance[1] \in Nat /\ Distance[2] \in Nat /\ Distance[3] \in Nat
              /\ Distance[4] \in Nat /\ Distance[5] \in Nat /\ Distance[6] \in Nat
              /\ Distance[7] \in Nat
  <2>1. \A k \in 1 .. 7 : k = 1 \/ k = 2 \/ k = 3 \/ k = 4 \/ k = 5 \/ k = 6 \/ k = 7
    OBVIOUS
  <2>. HIDE DEF Distance
  <2>. QED  BY <2>1, Zenon
<1>1. /\ pc \in {"read", "sort", "walk", "done", "failed", "crashed"}
      /\ stage \in {"resolve", "slack", "pass"}
      /\ i \in 1 .. Len(parts) + 1 /\ Len(parts) \in Nat
  BY Types DEF TargetInv, RequestInv, WalkInv, TypeOK
<1>0. Places[stage] \in Nat /\ Places[pc] \in Nat /\ Len(parts) + 1 - i \in Nat
  BY <1>1 DEF Places
<1>2. CASE stage = "pass" /\ ~Pooled
  <2>1. PassInv
    BY <1>2 DEF TargetInv, EngineInv
  <2>2. /\ passPc \in {"start", "range", "chunk", "returned"}
        /\ index \in 1 .. Len(ranges) + 1 /\ Len(ranges) \in Nat
    BY <2>1, TargetFixed DEF PassInv, Pass!TypeOK
  <2>3. passPc = "chunk" => RangeTop(index) - offset \in Nat
    BY <2>1, RangeFacts DEF PassInv, CursorInv, Pass!TypeOK
  <2>4. Places[passPc] \in Nat /\ Len(ranges) + 1 - index \in Nat
    BY <2>2 DEF Places
  <2>. QED  BY <1>2, <1>0, <2>3, <2>4, DistanceTerms
<1>3. CASE ~(stage = "pass" /\ ~Pooled)
  <2>1. passPc = "start" /\ index = 1 /\ Len(ranges) \in Nat
    BY <1>1, <1>3, GeometryAssumption DEF TargetInv, EngineInv, PoolInv, Pass!Init
  <2>2. stage = "pass" => Pooled /\ PoolLeft \in Nat
    BY <1>3, PoolLeftType DEF TargetInv
  <2>3. Places[passPc] \in Nat /\ Len(ranges) + 1 - index \in Nat
    BY <2>1 DEF Places
  <2>. QED  BY <1>0, <2>1, <2>2, <2>3, DistanceTerms
<1>. QED  BY <1>2, <1>3

\* The steps of target_resolve.
LEMMA ResolveNearer ==
  ASSUME TargetInv,
         ReadTable \/ TakeGaps \/ TakeWhole \/ NoSlack \/ NoAnalysis \/ Analysis
  PROVE  Nearer(Distance', Distance)
<1>1. CASE TakeGaps \/ TakeWhole \/ NoSlack \/ NoAnalysis \/ Analysis
  <2>1. Places[stage'] < Places[stage]
    BY <1>1 DEF TakeGaps, TakeWhole, NoSlack, NoAnalysis, Analysis, Places
  <2>2. Distance'[1] < Distance[1]
    BY <2>1, DistanceTerms DEF Distance
  <2>. QED  BY <2>2 DEF Nearer
<1>2. CASE ReadTable
  <2>1. Distance'[1] = Distance[1]
    BY <1>2 DEF ReadTable, Distance
  <2>2. CASE Read \/ Sort \/ Finish
    <3>1. Places[pc'] < Places[pc]
      BY <2>2 DEF Read, Sort, Finish, Places
    <3>2. Distance'[2] < Distance[2]
      BY <3>1 DEF Distance
    <3>. QED  BY <2>1, <3>2 DEF Nearer
  <2>3. CASE Visit
    <3>1. UNCHANGED <<pc, parts>> /\ i' = i + 1 /\ i \in Nat /\ Len(parts) \in Nat
      BY <2>3, Types DEF Visit, TargetInv, WalkInv, TypeOK
    <3>2. Distance'[2] = Distance[2] /\ Distance'[3] < Distance[3]
      BY <3>1 DEF Distance
    <3>. QED  BY <2>1, <3>2 DEF Nearer
  <2>. QED  BY <1>2, <2>2, <2>3 DEF ReadTable
<1>. QED  BY <1>1, <1>2

\* Those of the sequential pass, also with a chunk of less than a sector.
LEMMA SequentialNearer ==
  ASSUME TargetInv, Sequential
  PROVE  Nearer(Distance', Distance)
<1>1. /\ stage = "pass" /\ ~Pooled /\ PassInv /\ Pass!Step
      /\ UNCHANGED <<pc, parts, i, stage, ranges>>
  BY DEF Sequential, TargetInv, EngineInv, Pass!Step, vars
<1>2. Distance'[1] = Distance[1] /\ Distance'[2] = Distance[2] /\ Distance'[3] = Distance[3]
  BY <1>1 DEF Distance
<1>3. index \in Nat /\ Len(ranges) \in Nat
  BY <1>1, TargetFixed DEF PassInv, Pass!TypeOK
<1>4. CASE Pass!Start \/ Pass!NextRange \/ Pass!AllRanges
  <2>1. index' = index /\ Places[passPc'] < Places[passPc]
    BY <1>4 DEF Pass!Start, Pass!NextRange, Pass!AllRanges, Places
  <2>2. Distance'[4] = Distance[4] /\ Distance'[5] < Distance[5]
    BY <1>1, <2>1 DEF Distance
  <2>. QED  BY <1>2, <2>2 DEF Nearer
<1>5. CASE Pass!WriteFails \/ Pass!RangeDone
  <2>1. index' = index + 1
    BY <1>5 DEF Pass!WriteFails, Pass!RangeDone
  <2>2. Distance'[4] < Distance[4]
    BY <1>1, <1>3, <2>1 DEF Distance
  <2>. QED  BY <1>2, <2>2 DEF Nearer
<1>6. CASE Pass!WriteChunk
  <2>1. /\ passPc = "chunk" /\ passPc' = "chunk" /\ index' = index
        /\ offset' = offset + Pass!ToWrite /\ Pass!ToWrite # 0
    BY <1>6 DEF Pass!WriteChunk
  <2>2. Pass!ToWrite \in Nat
    BY <1>1, <2>1, ChunkFacts DEF PassInv
  <2>3. RangeTop(index)' = RangeTop(index) /\ RangeTop(index) \in Nat /\ offset \in Nat
    BY <1>1, <2>1, RangeFacts DEF RangeTop, PassInv, CursorInv, Pass!TypeOK
  <2>4. RangeTop(index)' - offset' < RangeTop(index) - offset
    <3>1. \A a, b, n \in Nat : n # 0 => a - (b + n) < a - b
      OBVIOUS
    <3>. HIDE DEF Pass!ToWrite
    <3>. QED  BY <2>1, <2>2, <2>3, <3>1
  <2>5. Distance'[4] = Distance[4] /\ Distance'[5] = Distance[5]
    BY <1>1, <2>1 DEF Distance
  <2>6. Distance'[6] < Distance[6]
    BY <2>1, <2>4 DEF Distance
  <2>. QED  BY <1>2, <2>5, <2>6 DEF Nearer
<1>. QED  BY <1>1, <1>4, <1>5, <1>6 DEF Pass!Step

\* Those of the pool, as PassSpec promises them.
LEMMA PoolNearer ==
  ASSUME TargetInv, PoolWrites \/ PoolReturns
  PROVE  Nearer(Distance', Distance)
<1>1. /\ stage = "pass" /\ Pooled /\ ret = "running" /\ ranges \in Seq(Pass!ByteRange)
      /\ UNCHANGED <<pc, parts, i, stage, ranges, passPc, index, offset>>
  BY DEF PoolWrites, PoolReturns, TargetInv, vars
<1>2. Pooled' /\ PoolBytes' = PoolBytes
  BY <1>1 DEF PoolWrites, PoolReturns, Pooled, PoolBytes
<1>3. \A j \in 1 .. 6 : Distance'[j] = Distance[j]
  <2>1. /\ Distance'[1] = Distance[1] /\ Distance'[2] = Distance[2]
        /\ Distance'[3] = Distance[3] /\ Distance'[4] = Distance[4]
        /\ Distance'[5] = Distance[5] /\ Distance'[6] = Distance[6]
    BY <1>1 DEF Distance, RangeTop
  <2>. QED  BY <2>1
<1>4. IsFiniteSet(PoolBytes \ wiped) /\ Cardinality(PoolBytes \ wiped) \in Nat
  BY <1>1, PoolLeftType, FS_CardinalityType
<1>5. Distance[7] = Cardinality(PoolBytes \ wiped) + 1
  BY <1>1 DEF Distance, PoolLeft
<1>6. CASE PoolReturns
  <2>1. ret' # "running" /\ wiped' = wiped
    BY <1>6 DEF PoolReturns
  <2>2. Distance'[7] = Cardinality(PoolBytes \ wiped) + 0
    BY <1>1, <1>2, <2>1 DEF Distance, PoolLeft
  <2>. QED  BY <1>3, <1>4, <1>5, <2>2 DEF Nearer
<1>7. CASE PoolWrites
  <2>1. PICK b \in PoolBytes \ wiped : wiped' = wiped \cup Bytes(b, b + Sector)
    BY <1>7 DEF PoolWrites
  <2>2. b \in Bytes(b, b + Sector)
    BY PoolByte, <1>1, <2>1
  <2>3. PoolBytes \ wiped' \subseteq PoolBytes \ wiped /\ PoolBytes \ wiped' # PoolBytes \ wiped
    BY <2>1, <2>2
  <2>4. /\ Cardinality(PoolBytes \ wiped') \in Nat
        /\ Cardinality(PoolBytes \ wiped') < Cardinality(PoolBytes \ wiped)
    <3>1. /\ IsFiniteSet(PoolBytes \ wiped')
          /\ Cardinality(PoolBytes \ wiped') <= Cardinality(PoolBytes \ wiped)
          /\ Cardinality(PoolBytes \ wiped') # Cardinality(PoolBytes \ wiped)
      BY <1>4, <2>3, FS_Subset
    <3>2. Cardinality(PoolBytes \ wiped') \in Nat
      BY <3>1, FS_CardinalityType
    <3>. QED  BY <1>4, <3>1, <3>2
  <2>5. Distance'[7] = Cardinality(PoolBytes \ wiped') + 1
    BY <1>1, <1>2, <1>7 DEF Distance, PoolLeft, PoolWrites
  <2>. QED  BY <1>3, <1>4, <1>5, <2>4, <2>5 DEF Nearer
<1>. QED  BY <1>6, <1>7

\* Every step of a wipe, in target_resolve, in the sequential pass or in the
\* thread pool, brings it nearer to its end, in an order in which nothing can
\* go down for ever.
THEOREM WipeIsBounded ==
  TargetSpec => /\ [](\A k \in 1 .. 7 : Distance[k] \in Nat)
                /\ [][Work => Nearer(Distance', Distance)]_targetVars
<1>. DEFINE counts == Work => Nearer(Distance', Distance)
            typed == \A k \in 1 .. 7 : Distance[k] \in Nat
<1>1. TargetInv => typed
  BY DistanceType
<1>2. TargetInv => [counts]_targetVars
  BY ResolveNearer, SequentialNearer, PoolNearer DEF Work
<1>. HIDE DEF counts, typed
<1>3. TargetSpec => []typed /\ [][counts]_targetVars
  BY <1>1, <1>2, TargetInvariance, PTL DEF TargetSpec
<1>. QED  BY <1>3 DEF counts, typed
=============================================================================
