-------------------------- MODULE RngStreamProofs --------------------------
(***************************************************************************)
(* The random streams for any number of threads, pieces, chunk sizes and   *)
(* passes, and for a block counter that wraps anywhere: the places of a    *)
(* pass are filled one by one, and no block is written twice unless one    *)
(* stream puts out more blocks in one pass than the counter has values.    *)
(*                                                                         *)
(* A key or a seed belongs to one thread and one pass (OwnerInv), for it   *)
(* is drawn anew before the first block of the pass.  Within a pass the    *)
(* counters of a key run back from the next one, a step for each block, as *)
(* far as there are blocks (CounterInv); so two of them agree only when    *)
(* they have come round.                                                   *)
(***************************************************************************)
EXTENDS RngStream, FiniteSetTheorems, TLAPS

Sources == {"chacha", "turbo", "os", "zero"} \X Nat \X Nat
Block == [stream : Streams, pass : Nat, at : Nat, source : Sources]

\* The blocks of a stream in a pass, and those of them that ChaCha20 made.
Mine(o, s, p) == { b \in o : b.stream = s /\ b.pass = p }
ChaChaOf(o, s, p) == { c \in o : /\ c.stream = s /\ c.pass = p
                                 /\ c.source[1] = "chacha" }

\* The streams that exist.
Live == { s \in Streams : stage[s] \in {"reseed", "fill", "done"} }

\* Equal as block counters.
Same(x, y) == \E q \in Int : x - y = q * Wrap

OutputInv ==
  /\ output \subseteq Block /\ IsFiniteSet(output)
  /\ \A b \in output : b.pass <= pass /\ b.source[2] <= draws

PlaceInv ==
  /\ FilledOnce
  /\ \A s \in Streams : stage[s] \notin {"fill", "done"} => Mine(output, s, pass) = {}

OwnerInv ==
  /\ \A a, b \in output :
       a.source[1] = "chacha" /\ b.source[1] = "chacha" /\ a.source[2] = b.source[2] =>
         a.stream = b.stream /\ a.pass = b.pass
  /\ \A s \in Live, b \in output :
       b.source[1] = "chacha" =>
         (b.source[2] = chacha[s].key <=> b.stream = s /\ b.pass = pass)
  /\ \A s, t \in Live :
       s # t => chacha[s].key # chacha[t].key /\ turbo[s].seed # turbo[t].seed

CounterInv ==
  /\ \A s \in Live : \A b \in ChaChaOf(output, s, pass) :
       \E j \in 1 .. Cardinality(ChaChaOf(output, s, pass)) :
         Same(chacha[s].counter - j, b.source[3])
  /\ \A a, b \in output :
       a.source[1] = "chacha" /\ a.source = b.source /\ a # b =>
         Cardinality(ChaChaOf(output, a.stream, a.pass)) > Wrap

\* What xoshiro and the system give never comes again.
FreshInv ==
  /\ \A a, b \in output :
       a.source[1] \in {"turbo", "os"} /\ a.source = b.source => a = b
  /\ \A s \in Live, b \in output :
       b.source[1] = "turbo" /\ b.source[2] = turbo[s].seed => b.source[3] < turbo[s].words

StreamInv == TypeOK /\ OutputInv /\ PlaceInv /\ OwnerInv /\ CounterInv /\ FreshInv

-----------------------------------------------------------------------------
\* Counting modulo Wrap.
LEMMA ModSame ==
  ASSUME NEW x \in Nat
  PROVE  x % Wrap \in 0 .. Wrap - 1 /\ Same(x % Wrap, x)
<1>1. Wrap \in Nat \ {0}
  BY RngAssumption
<1>2. x % Wrap \in 0 .. Wrap - 1 /\ x \div Wrap \in Nat /\ x = Wrap * (x \div Wrap) + (x % Wrap)
  BY <1>1
<1>. DEFINE q == x \div Wrap
            r == x % Wrap
<1>3. q \in Nat /\ r \in 0 .. Wrap - 1 /\ x = Wrap * q + r
  BY <1>2
<1>. HIDE DEF q, r
<1>4. r - x = (0 - q) * Wrap /\ 0 - q \in Int
  BY <1>1, <1>3
<1>5. Same(r, x)
  BY <1>4 DEF Same
<1>. QED  BY <1>3, <1>5 DEF r

LEMMA SameSwap ==
  ASSUME NEW x \in Int, NEW y \in Int, Same(x, y)
  PROVE  Same(y, x)
<1>1. Wrap \in Nat \ {0}
  BY RngAssumption
<1>2. PICK q \in Int : x - y = q * Wrap
  BY DEF Same
<1>3. y - x = (0 - q) * Wrap /\ 0 - q \in Int
  BY <1>1, <1>2
<1>. QED  BY <1>3 DEF Same

LEMMA SameChain ==
  ASSUME NEW x \in Int, NEW y \in Int, NEW z \in Int, Same(x, y), Same(y, z)
  PROVE  Same(x, z)
<1>1. Wrap \in Nat \ {0}
  BY RngAssumption
<1>2. PICK q \in Int : x - y = q * Wrap
  BY DEF Same
<1>3. PICK r \in Int : y - z = r * Wrap
  BY DEF Same
<1>4. x - z = (q + r) * Wrap /\ q + r \in Int
  BY <1>1, <1>2, <1>3
<1>. QED  BY <1>4 DEF Same

LEMMA SameShift ==
  ASSUME NEW x \in Int, NEW y \in Int, NEW d \in Int, Same(x, y)
  PROVE  Same(x + d, y + d)
<1>1. PICK q \in Int : x - y = q * Wrap
  BY DEF Same
<1>2. (x + d) - (y + d) = x - y
  OBVIOUS
<1>. QED  BY <1>1, <1>2 DEF Same

\* Two numbers less than Wrap apart agree only if they are one.
LEMMA SameNear ==
  ASSUME NEW x \in Int, NEW y \in Int, Same(x, y), x - y < Wrap, y - x < Wrap
  PROVE  x = y
<1>1. Wrap \in Nat \ {0}
  BY RngAssumption
<1>2. PICK q \in Int : x - y = q * Wrap
  BY DEF Same
<1>3. q < 1
  <2>. SUFFICES ASSUME q >= 1 PROVE FALSE
    OBVIOUS
  <2>1. q * Wrap >= Wrap
    BY <1>1
  <2>. QED  BY <1>1, <1>2, <2>1
<1>4. q > 0 - 1
  <2>. SUFFICES ASSUME q <= 0 - 1 PROVE FALSE
    OBVIOUS
  <2>1. (0 - q) * Wrap >= Wrap
    BY <1>1
  <2>2. y - x = (0 - q) * Wrap
    BY <1>1, <1>2
  <2>. QED  BY <1>1, <2>1, <2>2
<1>5. q = 0
  BY <1>3, <1>4
<1>. QED  BY <1>1, <1>2, <1>5

\* A numbered set has as many elements as numbers.
LEMMA NumberedSet ==
  ASSUME NEW n \in Nat, NEW f, NEW S,
         \A i \in 0 .. n - 1 : f[i] \in S,
         \A x \in S : \E i \in 0 .. n - 1 : x = f[i],
         \A i, j \in 0 .. n - 1 : f[i] = f[j] => i = j
  PROVE  IsFiniteSet(S) /\ Cardinality(S) = n
<1>. DEFINE g == [ i \in 0 .. n - 1 |-> f[i] ]
<1>1. g \in [0 .. n - 1 -> S]
  OBVIOUS
<1>2. \A x \in S : \E i \in 0 .. n - 1 : g[i] = x
  OBVIOUS
<1>3. \A i, j \in 0 .. n - 1 : g[i] = g[j] => i = j
  OBVIOUS
<1>. HIDE DEF g
<1>4. g \in Bijection(0 .. n - 1, S)
  BY <1>1, <1>2, <1>3 DEF Bijection, Injection, Surjection, IsInjective
<1>5. ExistsBijection(0 .. n - 1, S)
  BY <1>4 DEF ExistsBijection
<1>6. 0 \in Int /\ n - 1 \in Int
  OBVIOUS
<1>7. IsFiniteSet(0 .. (n - 1)) /\ Cardinality(0 .. (n - 1)) =
        IF 0 > n - 1 THEN 0 ELSE n - 1 - 0 + 1
  BY <1>6, FS_Interval
<1>8. Cardinality(0 .. (n - 1)) = n
  BY <1>7
<1>. QED  BY <1>5, <1>7, <1>8, FS_Bijection
-----------------------------------------------------------------------------
LEMMA MineFinite ==
  ASSUME OutputInv, NEW s, NEW p
  PROVE  /\ IsFiniteSet(Mine(output, s, p)) /\ Cardinality(Mine(output, s, p)) \in Nat
         /\ IsFiniteSet(ChaChaOf(output, s, p)) /\ Cardinality(ChaChaOf(output, s, p)) \in Nat
<1>1. Mine(output, s, p) \in SUBSET output /\ ChaChaOf(output, s, p) \in SUBSET output
  BY DEF Mine, ChaChaOf
<1>. QED  BY <1>1, FS_Subset, FS_CardinalityType DEF OutputInv

\* A round begins behind the last block.
LEMMA OffsetFacts ==
  ASSUME StreamInv, NEW s \in Streams
  PROVE  /\ Offset(s) = Cardinality(Mine(output, s, pass)) /\ Offset(s) \in Nat
         /\ { b.at : b \in Mine(output, s, pass) } = 0 .. Offset(s) - 1
<1>. DEFINE c == Cardinality(Mine(output, s, pass))
<1>1. pass \in 1 .. pass
  BY RngAssumption DEF StreamInv, TypeOK
<1>2. { b.at : b \in Mine(output, s, pass) } = 0 .. c - 1
  BY <1>1 DEF StreamInv, PlaceInv, FilledOnce, Mine
<1>3. c \in Nat
  BY MineFinite DEF StreamInv
<1>4. Offset(s) = Cardinality(0 .. c - 1)
  BY <1>2 DEF Offset, Written, Mine
<1>. HIDE DEF c
<1>5. 0 \in Int /\ c - 1 \in Int
  BY <1>3
<1>6. Cardinality(0 .. (c - 1)) = IF 0 > c - 1 THEN 0 ELSE c - 1 - 0 + 1
  BY <1>5, FS_Interval
<1>7. Offset(s) = c
  BY <1>3, <1>4, <1>6
<1>. QED  BY <1>2, <1>3, <1>7 DEF c

\* The number of blocks of a round, and what the places of the buffer are
\* filled from.
Round(s, n, src) ==
  /\ stage[s] = "fill" /\ n \in Nat \ {0}
  /\ src \in [0 .. n - 1 -> Sources]
  /\ output' = output \cup Blocks(s, 0, n, src)

\* How far it moves the streams: fc blocks of ChaCha20, the i-th of them at
\* place r[i], and ft blocks of xoshiro.
Moved(s, fc, ft) ==
  /\ fc \in Nat /\ ft \in Nat
  /\ chacha' = [chacha EXCEPT ![s].counter = (@ + fc) % Wrap]
  /\ turbo' = [turbo EXCEPT ![s].words = @ + ft]

ChaChaPlaced(s, n, src, fc, r) ==
  /\ r \in [0 .. fc - 1 -> 0 .. n - 1]
  /\ \A i, j \in 0 .. fc - 1 : r[i] = r[j] => i = j
  /\ \A i \in 0 .. fc - 1 :
       src[r[i]] = <<"chacha", chacha[s].key, (chacha[s].counter + i) % Wrap>>
  /\ \A k \in 0 .. n - 1 : src[k][1] = "chacha" => \E i \in 0 .. fc - 1 : k = r[i]

OthersPlaced(s, n, src, ft) ==
  /\ \A k \in 0 .. n - 1 : src[k][1] = "turbo" =>
       src[k][2] = turbo[s].seed /\ src[k][3] \in turbo[s].words .. turbo[s].words + ft - 1
  /\ \A k \in 0 .. n - 1 : src[k][1] = "os" => src[k][2] = draws + 1
  /\ \A k \in 0 .. n - 1 : src[k][2] <= draws'
  /\ \A k, l \in 0 .. n - 1 : src[k][1] \in {"turbo", "os"} /\ src[k] = src[l] => k = l

FillStep(s, n, src, fc, ft, r) ==
  /\ Round(s, n, src) /\ Moved(s, fc, ft)
  /\ ChaChaPlaced(s, n, src, fc, r) /\ OthersPlaced(s, n, src, ft)
  /\ draws' \in Nat /\ draws' >= draws
  /\ failures' \in 0 .. MaxFailures
  /\ UNCHANGED <<mode, chunk, pass, stage>>

\* The blocks of a round, from what fills them.
LEMMA BlocksFacts ==
  ASSUME NEW s, NEW n \in Nat, NEW src, Offset(s) \in Nat
  PROVE  Blocks(s, 0, n, src) =
           { [stream |-> s, pass |-> pass, at |-> Offset(s) + k, source |-> src[k]] :
               k \in 0 .. n - 1 }
BY DEF Blocks

\* Every round is of this form, whatever the mode.
LEMMA FillForm ==
  ASSUME StreamInv, NEW s \in Streams, Fill(s)
  PROVE  \E n, src, fc, ft, r : FillStep(s, n, src, fc, ft, r)
<1>. DEFINE n == ToWrite(s)
            key == chacha[s].key
            cur == chacha[s].counter
            seed == turbo[s].seed
            words == turbo[s].words
<1>1. /\ draws \in Nat /\ failures \in 0 .. MaxFailures /\ MaxFailures \in Nat
      /\ key \in 0 .. draws /\ cur \in 0 .. Wrap - 1 /\ seed \in 0 .. draws /\ words \in Nat
      /\ Wrap \in Nat \ {0} /\ Edge \in Nat \ {0}
  BY RngAssumption DEF StreamInv, TypeOK
<1>2. n \in Nat \ {0} /\ stage[s] = "fill"
  <2>1. Offset(s) \in Nat /\ chunk \in Nat /\ Piece \in Nat
    BY OffsetFacts, RngAssumption DEF StreamInv, TypeOK
  <2>. QED  BY <2>1 DEF Fill, ToWrite
<1>3. UNCHANGED <<mode, chunk, pass, stage>>
  BY DEF Fill
<1>. HIDE DEF n, key, cur, seed, words
<1>4. CASE /\ mode = "os-chunk" /\ Given /\ draws' = draws + 1
           /\ Put(s, OsBlocks(s, n), 0, 0)
  <2>. DEFINE src == [k \in 0 .. n - 1 |-> <<"os", draws + 1, k>>]
              r == [i \in 0 .. 0 - 1 |-> 0]
  <2>1. src \in [0 .. n - 1 -> Sources]
    BY <1>1, <1>2 DEF Sources
  <2>2. Round(s, n, src) /\ Moved(s, 0, 0)
    BY <1>2, <1>4, <2>1 DEF Round, Moved, Put, OsBlocks
  <2>3. ChaChaPlaced(s, n, src, 0, r)
    BY <1>2 DEF ChaChaPlaced
  <2>4. OthersPlaced(s, n, src, 0)
    BY <1>1, <1>2, <1>4 DEF OthersPlaced
  <2>5. FillStep(s, n, src, 0, 0, r)
    BY <1>1, <1>3, <1>4, <2>2, <2>3, <2>4 DEF FillStep, Given
  <2>. QED  BY <2>5
<1>5. CASE /\ mode = "os-chunk" /\ NotGiven /\ UNCHANGED draws
           /\ Put(s, Zeros(s, n), 0, 0)
  <2>. DEFINE src == [k \in 0 .. n - 1 |-> <<"zero", 0, 0>>]
              r == [i \in 0 .. 0 - 1 |-> 0]
  <2>1. src \in [0 .. n - 1 -> Sources]
    BY <1>1, <1>2 DEF Sources
  <2>2. Round(s, n, src) /\ Moved(s, 0, 0)
    BY <1>2, <1>5, <2>1 DEF Round, Moved, Put, Zeros
  <2>3. ChaChaPlaced(s, n, src, 0, r)
    BY <1>2 DEF ChaChaPlaced
  <2>4. OthersPlaced(s, n, src, 0)
    BY <1>1, <1>2, <1>5 DEF OthersPlaced
  <2>5. FillStep(s, n, src, 0, 0, r)
    BY <1>1, <1>3, <1>5, <2>2, <2>3, <2>4 DEF FillStep, NotGiven
  <2>. QED  BY <2>5
<1>6. CASE mode = "turbo" /\ UNCHANGED <<draws, failures>> /\ Put(s, TurboBlocks(s, 0, n), 0, n)
  <2>. DEFINE src == [k \in 0 .. n - 1 |-> <<"turbo", turbo[s].seed, turbo[s].words + k>>]
              r == [i \in 0 .. 0 - 1 |-> 0]
  <2>0. turbo[s].seed \in Nat /\ turbo[s].words \in Nat /\ turbo[s].seed <= draws
    BY <1>1 DEF seed, words
  <2>1. src \in [0 .. n - 1 -> Sources]
    BY <1>2, <2>0 DEF Sources
  <2>2. Round(s, n, src) /\ Moved(s, 0, n)
    BY <1>2, <1>6, <2>1 DEF Round, Moved, Put, TurboBlocks
  <2>3. ChaChaPlaced(s, n, src, 0, r)
    BY <1>2 DEF ChaChaPlaced
  <2>4. OthersPlaced(s, n, src, n)
    BY <1>1, <1>2, <1>6, <2>0 DEF OthersPlaced
  <2>5. FillStep(s, n, src, 0, n, r)
    BY <1>1, <1>3, <1>6, <2>2, <2>3, <2>4 DEF FillStep
  <2>. QED  BY <2>5
<1>7. CASE UNCHANGED <<draws, failures>> /\ Put(s, ChaChaBlocks(s, 0, n, 0), n, 0)
  <2>. DEFINE src == [k \in 0 .. n - 1 |->
                        <<"chacha", chacha[s].key, (chacha[s].counter + 0 + k) % Wrap>>]
              r == [i \in 0 .. n - 1 |-> i]
  <2>0. /\ chacha[s].key \in Nat /\ chacha[s].key <= draws /\ chacha[s].counter \in Nat
        /\ \A k \in 0 .. n - 1 :
             /\ (chacha[s].counter + 0 + k) % Wrap \in Nat
             /\ chacha[s].counter + 0 + k = chacha[s].counter + k
    BY <1>1, <1>2 DEF key, cur
  <2>1. src \in [0 .. n - 1 -> Sources]
    BY <1>2, <2>0 DEF Sources
  <2>2. Round(s, n, src) /\ Moved(s, n, 0)
    BY <1>2, <1>7, <2>1 DEF Round, Moved, Put, ChaChaBlocks
  <2>3. ChaChaPlaced(s, n, src, n, r)
    BY <1>2, <2>0 DEF ChaChaPlaced
  <2>4. OthersPlaced(s, n, src, 0)
    BY <1>1, <1>2, <1>7, <2>0 DEF OthersPlaced
  <2>5. FillStep(s, n, src, n, 0, r)
    BY <1>1, <1>3, <1>7, <2>2, <2>3, <2>4 DEF FillStep
  <2>. QED  BY <2>5
<1>8. CASE /\ Hybrid(n) /\ UNCHANGED <<draws, failures>>
           /\ Put(s, ChaChaBlocks(s, 0, Edge, 0) \cup TurboBlocks(s, Edge, Middle(n))
                       \cup ChaChaBlocks(s, n - Edge, Edge, Edge),
                  2 * Edge, Middle(n))
  <2>. DEFINE ChaCha(i) == <<"chacha", chacha[s].key, (chacha[s].counter + i) % Wrap>>
              Turbo(i) == <<"turbo", turbo[s].seed, turbo[s].words + i>>
              src == [k \in 0 .. n - 1 |-> IF k < Edge THEN ChaCha(k)
                                           ELSE IF k < n - Edge THEN Turbo(k - Edge)
                                           ELSE ChaCha(k - Middle(n))]
              r == [i \in 0 .. 2 * Edge - 1 |-> IF i < Edge THEN i ELSE i + Middle(n)]
  <2>0. /\ chacha[s].key \in Nat /\ chacha[s].key <= draws /\ chacha[s].counter \in Nat
        /\ turbo[s].seed \in Nat /\ turbo[s].words \in Nat /\ turbo[s].seed <= draws
        /\ Middle(n) \in Nat \ {0} /\ Middle(n) = n - 2 * Edge
        /\ \A i \in Nat : (chacha[s].counter + i) % Wrap \in Nat
    BY <1>1, <1>2, <1>8 DEF key, cur, seed, words, Middle, Hybrid
  <2>1. src \in [0 .. n - 1 -> Sources]
    <3>1. \A i \in Nat : ChaCha(i) \in Sources /\ Turbo(i) \in Sources
      BY <2>0 DEF Sources
    <3>2. \A k \in 0 .. n - 1 : /\ k \in Nat
                                /\ k >= Edge => k - Edge \in Nat
                                /\ k >= n - Edge => k - Middle(n) \in Nat
      BY <1>1, <1>2, <2>0
    <3>. HIDE DEF ChaCha, Turbo
    <3>3. ASSUME NEW k \in 0 .. n - 1
          PROVE  (IF k < Edge THEN ChaCha(k) ELSE IF k < n - Edge THEN Turbo(k - Edge)
                  ELSE ChaCha(k - Middle(n))) \in Sources
      BY <1>1, <1>2, <3>1, <3>2
    <3>. QED  BY <3>3
  <2>2. output' = output \cup Blocks(s, 0, n, src)
    <3>. DEFINE Placed(k, x) == [stream |-> s, pass |-> pass, at |-> Offset(s) + k, source |-> x]
    <3>1. Offset(s) \in Nat
      BY OffsetFacts
    <3>2. Blocks(s, 0, n, src) = { Placed(k, src[k]) : k \in 0 .. n - 1 }
      <4>. HIDE DEF src
      <4>. QED  BY <1>2, <3>1, BlocksFacts
    <3>3. ChaChaBlocks(s, 0, Edge, 0) = { Placed(k, ChaCha(k)) : k \in 0 .. Edge - 1 }
      <4>. DEFINE f == [k \in 0 .. Edge - 1 |->
                          <<"chacha", chacha[s].key, (chacha[s].counter + 0 + k) % Wrap>>]
      <4>1. \A k \in 0 .. Edge - 1 : f[k] = ChaCha(k)
        BY <1>1, <2>0
      <4>2. ChaChaBlocks(s, 0, Edge, 0) = { Placed(k, f[k]) : k \in 0 .. Edge - 1 }
        BY <1>1, <3>1 DEF ChaChaBlocks, Blocks
      <4>. HIDE DEF f, ChaCha, Placed
      <4>. QED  BY <4>1, <4>2
    <3>4. TurboBlocks(s, Edge, Middle(n)) =
            { Placed(Edge + k, Turbo(k)) : k \in 0 .. Middle(n) - 1 }
      <4>. DEFINE f == [k \in 0 .. Middle(n) - 1 |->
                          <<"turbo", turbo[s].seed, turbo[s].words + k>>]
      <4>1. \A k \in 0 .. Middle(n) - 1 : f[k] = Turbo(k)
        OBVIOUS
      <4>2. TurboBlocks(s, Edge, Middle(n)) =
              { [stream |-> s, pass |-> pass, at |-> Offset(s) + Edge + k, source |-> f[k]] :
                  k \in 0 .. Middle(n) - 1 }
        BY DEF TurboBlocks, Blocks
      <4>3. \A k \in 0 .. Middle(n) - 1 : Offset(s) + Edge + k = Offset(s) + (Edge + k)
        BY <1>1, <2>0, <3>1
      <4>. HIDE DEF f, Turbo
      <4>. QED  BY <4>1, <4>2, <4>3
    <3>5. ChaChaBlocks(s, n - Edge, Edge, Edge) =
            { Placed(n - Edge + k, ChaCha(Edge + k)) : k \in 0 .. Edge - 1 }
      <4>. DEFINE f == [k \in 0 .. Edge - 1 |->
                          <<"chacha", chacha[s].key, (chacha[s].counter + Edge + k) % Wrap>>]
      <4>1. \A k \in 0 .. Edge - 1 : f[k] = ChaCha(Edge + k)
        <5>1. \A k \in 0 .. Edge - 1 :
                chacha[s].counter + Edge + k = chacha[s].counter + (Edge + k)
          BY <1>1, <2>0
        <5>. QED  BY <5>1
      <4>2. ChaChaBlocks(s, n - Edge, Edge, Edge) =
              { [stream |-> s, pass |-> pass, at |-> Offset(s) + (n - Edge) + k, source |-> f[k]] :
                  k \in 0 .. Edge - 1 }
        BY DEF ChaChaBlocks, Blocks
      <4>3. \A k \in 0 .. Edge - 1 : Offset(s) + (n - Edge) + k = Offset(s) + (n - Edge + k)
        BY <1>1, <1>2, <3>1
      <4>. HIDE DEF f, ChaCha
      <4>. QED  BY <4>1, <4>2, <4>3
    <3>. DEFINE Three == ChaChaBlocks(s, 0, Edge, 0) \cup TurboBlocks(s, Edge, Middle(n))
                           \cup ChaChaBlocks(s, n - Edge, Edge, Edge)
    <3>6. Blocks(s, 0, n, src) \subseteq Three
      <4>. SUFFICES ASSUME NEW k \in 0 .. n - 1 PROVE Placed(k, src[k]) \in Three
        BY <3>2
      <4>. HIDE DEF Placed, ChaCha, Turbo
      <4>1. CASE k < Edge
        <5>1. k \in 0 .. Edge - 1 /\ src[k] = ChaCha(k)
          BY <1>1, <4>1
        <5>. QED  BY <3>3, <5>1
      <4>2. CASE k >= Edge /\ k < n - Edge
        <5>1. /\ k - Edge \in 0 .. Middle(n) - 1 /\ src[k] = Turbo(k - Edge)
              /\ Edge + (k - Edge) = k
          BY <1>1, <1>2, <2>0, <4>2
        <5>. QED  BY <3>4, <5>1
      <4>3. CASE k >= n - Edge
        <5>1. /\ k - (n - Edge) \in 0 .. Edge - 1 /\ src[k] = ChaCha(k - Middle(n))
              /\ Edge + (k - (n - Edge)) = k - Middle(n) /\ n - Edge + (k - (n - Edge)) = k
          BY <1>1, <1>2, <2>0, <4>3
        <5>. QED  BY <3>5, <5>1
      <4>. QED  BY <1>1, <1>2, <4>1, <4>2, <4>3
    <3>7. Three \subseteq Blocks(s, 0, n, src)
      <4>. HIDE DEF Placed, ChaCha, Turbo
      <4>1. ASSUME NEW k \in 0 .. Edge - 1 PROVE Placed(k, ChaCha(k)) \in Blocks(s, 0, n, src)
        <5>1. k \in 0 .. n - 1 /\ src[k] = ChaCha(k)
          BY <1>1, <1>2, <2>0
        <5>. QED  BY <3>2, <5>1
      <4>2. ASSUME NEW k \in 0 .. Middle(n) - 1
            PROVE  Placed(Edge + k, Turbo(k)) \in Blocks(s, 0, n, src)
        <5>1. /\ Edge + k \in 0 .. n - 1 /\ ~(Edge + k < Edge) /\ Edge + k < n - Edge
              /\ (Edge + k) - Edge = k
          BY <1>1, <1>2, <2>0
        <5>2. src[Edge + k] = Turbo((Edge + k) - Edge)
          BY <5>1
        <5>. QED  BY <3>2, <5>1, <5>2
      <4>3. ASSUME NEW k \in 0 .. Edge - 1
            PROVE  Placed(n - Edge + k, ChaCha(Edge + k)) \in Blocks(s, 0, n, src)
        <5>1. /\ n - Edge + k \in 0 .. n - 1
              /\ src[n - Edge + k] = ChaCha((n - Edge + k) - Middle(n))
              /\ (n - Edge + k) - Middle(n) = Edge + k
          BY <1>1, <1>2, <2>0
        <5>. QED  BY <3>2, <5>1
      <4>. QED  BY <3>3, <3>4, <3>5, <4>1, <4>2, <4>3
    <3>8. output' = output \cup Three
      BY <1>8 DEF Put
    <3>. QED  BY <3>6, <3>7, <3>8
  <2>3. Round(s, n, src) /\ Moved(s, 2 * Edge, Middle(n))
    <3>. HIDE DEF src
    <3>1. Round(s, n, src)
      BY <1>2, <2>1, <2>2 DEF Round
    <3>2. 2 * Edge \in Nat /\ Middle(n) \in Nat
      BY <1>1, <2>0
    <3>. QED  BY <1>8, <3>1, <3>2 DEF Moved, Put
  <2>4. ChaChaPlaced(s, n, src, 2 * Edge, r)
    <3>. HIDE DEF ChaCha, Turbo
    <3>1. \A i \in 0 .. 2 * Edge - 1 :
            /\ r[i] \in 0 .. n - 1
            /\ i < Edge => r[i] = i /\ r[i] < Edge
            /\ i >= Edge => r[i] = i + Middle(n) /\ r[i] >= n - Edge /\ r[i] - Middle(n) = i
      BY <1>1, <1>2, <2>0
    <3>2. r \in [0 .. 2 * Edge - 1 -> 0 .. n - 1]
      BY <3>1
    <3>3. \A i, j \in 0 .. 2 * Edge - 1 : r[i] = r[j] => i = j
      <4>. SUFFICES ASSUME NEW i \in 0 .. 2 * Edge - 1, NEW j \in 0 .. 2 * Edge - 1, r[i] = r[j]
                    PROVE  i = j
        OBVIOUS
      <4>1. /\ i < Edge => r[i] = i /\ r[i] < Edge
            /\ i >= Edge => r[i] >= n - Edge /\ r[i] - Middle(n) = i
            /\ j < Edge => r[j] = j /\ r[j] < Edge
            /\ j >= Edge => r[j] >= n - Edge /\ r[j] - Middle(n) = j
            /\ r[i] \in Int
        BY <3>1
      <4>2. n - Edge > Edge
        BY <1>1, <1>2, <2>0
      <4>. HIDE DEF r
      <4>. QED  BY <1>1, <1>2, <4>1, <4>2
    <3>4. ASSUME NEW i \in 0 .. 2 * Edge - 1 PROVE src[r[i]] = ChaCha(i)
      <4>1. CASE i < Edge
        <5>1. r[i] = i /\ i \in 0 .. n - 1
          BY <3>1, <4>1
        <5>2. src[i] = ChaCha(i)
          BY <4>1, <5>1
        <5>. QED  BY <5>1, <5>2
      <4>2. CASE i >= Edge
        <5>1. r[i] \in 0 .. n - 1 /\ r[i] >= n - Edge /\ r[i] - Middle(n) = i
          BY <3>1, <4>2
        <5>. HIDE DEF r
        <5>2. ~(r[i] < Edge) /\ ~(r[i] < n - Edge)
          BY <1>1, <1>2, <2>0, <5>1
        <5>3. src[r[i]] = ChaCha(r[i] - Middle(n))
          BY <5>1, <5>2
        <5>. QED  BY <5>1, <5>3
      <4>. QED  BY <1>1, <4>1, <4>2
    <3>5. ASSUME NEW k \in 0 .. n - 1, src[k][1] = "chacha"
          PROVE  \E i \in 0 .. 2 * Edge - 1 : k = r[i]
      <4>1. k < Edge \/ k >= n - Edge
        <5>1. k >= Edge /\ k < n - Edge => src[k] = Turbo(k - Edge)
          BY <1>1, <1>2
        <5>2. Turbo(k - Edge)[1] = "turbo"
          BY DEF Turbo
        <5>. QED  BY <1>1, <1>2, <3>5, <5>1, <5>2
      <4>2. CASE k < Edge
        BY <1>1, <4>2
      <4>3. CASE k >= n - Edge
        <5>1. k - Middle(n) \in 0 .. 2 * Edge - 1 /\ k - Middle(n) >= Edge
          BY <1>1, <1>2, <2>0, <4>3
        <5>2. r[k - Middle(n)] = (k - Middle(n)) + Middle(n)
          BY <3>1, <5>1
        <5>3. (k - Middle(n)) + Middle(n) = k
          BY <2>0
        <5>. QED  BY <5>1, <5>2, <5>3
      <4>. QED  BY <4>1, <4>2, <4>3
    <3>. QED  BY <3>2, <3>3, <3>4, <3>5 DEF ChaChaPlaced, ChaCha
  <2>5. OthersPlaced(s, n, src, Middle(n))
    <3>1. \A k \in 0 .. n - 1 :
            \/ src[k][1] = "chacha" /\ src[k][2] = chacha[s].key
            \/ k >= Edge /\ k < n - Edge /\ src[k] = Turbo(k - Edge)
      BY <1>1, <1>2
    <3>. HIDE DEF src
    <3>2. \A k \in 0 .. n - 1 : src[k][1] = "turbo" =>
            /\ k >= Edge /\ k < n - Edge /\ src[k][2] = turbo[s].seed
            /\ src[k][3] = turbo[s].words + (k - Edge)
      BY <3>1
    <3>3. \A k \in 0 .. n - 1 : src[k][1] # "os" /\ src[k][2] <= draws
      BY <2>0, <3>1
    <3>4. \A k, l \in 0 .. n - 1 : src[k][1] = "turbo" /\ src[k] = src[l] => k = l
      <4>. SUFFICES ASSUME NEW k \in 0 .. n - 1, NEW l \in 0 .. n - 1,
                           src[k][1] = "turbo", src[k] = src[l]
                    PROVE  k = l
        OBVIOUS
      <4>1. turbo[s].words + (k - Edge) = turbo[s].words + (l - Edge)
        BY <3>2
      <4>2. k \in Int /\ l \in Int
        BY <1>2
      <4>. QED  BY <1>1, <2>0, <4>1, <4>2
    <3>5. \A k \in 0 .. n - 1 : src[k][1] = "turbo" =>
            src[k][3] \in turbo[s].words .. turbo[s].words + Middle(n) - 1
      BY <1>1, <1>2, <2>0, <3>2
    <3>. QED  BY <1>8, <3>2, <3>3, <3>4, <3>5 DEF OthersPlaced
  <2>6. FillStep(s, n, src, 2 * Edge, Middle(n), r)
    BY <1>1, <1>3, <1>8, <2>3, <2>4, <2>5 DEF FillStep
  <2>. QED  BY <2>6
<1>. QED  BY <1>4, <1>5, <1>6, <1>7, <1>8 DEF Fill, n
-----------------------------------------------------------------------------
\* The blocks that a round adds.
LEMMA NewBlocks ==
  ASSUME StreamInv, NEW s \in Streams, NEW n, NEW src, NEW fc, NEW ft, NEW r,
         FillStep(s, n, src, fc, ft, r)
  PROVE  LET new == Blocks(s, 0, n, src) IN
         /\ Offset(s) \in Nat /\ n \in Nat /\ output' = output \cup new
         /\ \A k \in 0 .. n - 1 :
              [stream |-> s, pass |-> pass, at |-> Offset(s) + k, source |-> src[k]] \in new
         /\ \A b \in new : /\ b \in Block /\ b.stream = s /\ b.pass = pass
                           /\ b.at - Offset(s) \in 0 .. n - 1
                           /\ b.source = src[b.at - Offset(s)]
         /\ \A b, c \in new : b.at = c.at => b = c
         /\ IsFiniteSet(new) /\ Cardinality(new) = n
<1>. DEFINE new == Blocks(s, 0, n, src)
            f == [k \in 0 .. n - 1 |->
                    [stream |-> s, pass |-> pass, at |-> Offset(s) + k, source |-> src[k]]]
<1>1. Offset(s) \in Nat /\ n \in Nat /\ src \in [0 .. n - 1 -> Sources]
  BY OffsetFacts DEF FillStep, Round
<1>2. pass \in Nat
  BY DEF StreamInv, TypeOK
<1>3. new = { f[k] : k \in 0 .. n - 1 }
  BY <1>1, BlocksFacts
<1>4. output' = output \cup new
  BY DEF FillStep, Round
<1>5. \A k \in 0 .. n - 1 :
        /\ f[k] = [stream |-> s, pass |-> pass, at |-> Offset(s) + k, source |-> src[k]]
        /\ f[k] \in Block /\ f[k].stream = s /\ f[k].pass = pass
        /\ f[k].at = Offset(s) + k /\ f[k].source = src[k]
  BY <1>1, <1>2 DEF Block
<1>. HIDE DEF f, new
<1>6. ASSUME NEW b \in new
      PROVE  /\ b \in Block /\ b.stream = s /\ b.pass = pass
             /\ b.at - Offset(s) \in 0 .. n - 1
             /\ b = f[b.at - Offset(s)]
             /\ b.source = src[b.at - Offset(s)]
  <2>1. PICK k \in 0 .. n - 1 : b = f[k]
    BY <1>3
  <2>2. b.at = Offset(s) + k /\ k \in Int
    <3>1. f[k].at = Offset(s) + k
      BY <1>5
    <3>2. k \in Int
      BY <1>1
    <3>. QED  BY <2>1, <3>1, <3>2
  <2>3. b.at - Offset(s) = k
    BY <1>1, <2>2
  <2>. QED  BY <1>5, <2>1, <2>3
<1>7. \A b, c \in new : b.at = c.at => b = c
  BY <1>6
<1>8. \A i, j \in 0 .. n - 1 : f[i] = f[j] => i = j
  <2>. SUFFICES ASSUME NEW i \in 0 .. n - 1, NEW j \in 0 .. n - 1, f[i] = f[j] PROVE i = j
    OBVIOUS
  <2>1. Offset(s) + i = Offset(s) + j
    BY <1>5
  <2>. QED  BY <1>1, <2>1
<1>9. IsFiniteSet(new) /\ Cardinality(new) = n
  <2>1. \A k \in 0 .. n - 1 : f[k] \in new
    BY <1>3
  <2>2. \A x \in new : \E k \in 0 .. n - 1 : x = f[k]
    BY <1>3
  <2>. QED  BY <1>1, <1>8, <2>1, <2>2, NumberedSet
<1>10. \A k \in 0 .. n - 1 :
         [stream |-> s, pass |-> pass, at |-> Offset(s) + k, source |-> src[k]] \in new
  BY <1>3, <1>5
<1>. QED  BY <1>1, <1>4, <1>6, <1>7, <1>9, <1>10 DEF new

\* fc of them are from ChaCha20.
LEMMA NewChaCha ==
  ASSUME StreamInv, NEW s \in Streams, NEW n, NEW src, NEW fc, NEW ft, NEW r,
         FillStep(s, n, src, fc, ft, r)
  PROVE  LET new == { b \in Blocks(s, 0, n, src) : b.source[1] = "chacha" } IN
         IsFiniteSet(new) /\ Cardinality(new) = fc
<1>. DEFINE all == Blocks(s, 0, n, src)
            new == { b \in all : b.source[1] = "chacha" }
            Placed(k) == [stream |-> s, pass |-> pass, at |-> Offset(s) + k, source |-> src[k]]
            f == [i \in 0 .. fc - 1 |-> Placed(r[i])]
<1>1. /\ Offset(s) \in Nat /\ n \in Nat
      /\ \A k \in 0 .. n - 1 : Placed(k) \in all
      /\ \A b \in all : /\ b.at - Offset(s) \in 0 .. n - 1 /\ b \in Block
                        /\ b.source = src[b.at - Offset(s)]
      /\ \A b, c \in all : b.at = c.at => b = c
  BY NewBlocks
<1>2. /\ fc \in Nat /\ r \in [0 .. fc - 1 -> 0 .. n - 1]
      /\ \A i, j \in 0 .. fc - 1 : r[i] = r[j] => i = j
      /\ \A i \in 0 .. fc - 1 : src[r[i]][1] = "chacha"
      /\ \A k \in 0 .. n - 1 : src[k][1] = "chacha" => \E i \in 0 .. fc - 1 : k = r[i]
  BY DEF FillStep, Moved, ChaChaPlaced
<1>3. \A k : Placed(k).at = Offset(s) + k /\ Placed(k).source = src[k]
  OBVIOUS
<1>. HIDE DEF all, Placed
<1>4. ASSUME NEW i \in 0 .. fc - 1 PROVE f[i] \in new /\ f[i].at = Offset(s) + r[i]
  <2>1. f[i] = Placed(r[i]) /\ r[i] \in 0 .. n - 1
    BY <1>2
  <2>. QED  BY <1>1, <1>2, <1>3, <2>1
<1>5. ASSUME NEW b \in new PROVE \E i \in 0 .. fc - 1 : b = f[i]
  <2>1. b \in all /\ src[b.at - Offset(s)][1] = "chacha" /\ b.at - Offset(s) \in 0 .. n - 1
    BY <1>1
  <2>2. PICK i \in 0 .. fc - 1 : b.at - Offset(s) = r[i]
    BY <1>2, <2>1
  <2>3. f[i] \in all /\ f[i].at = Offset(s) + r[i]
    BY <1>4
  <2>4. b.at \in Nat
    BY <1>1, <2>1 DEF Block
  <2>5. f[i].at = b.at
    BY <1>1, <1>2, <2>2, <2>3, <2>4
  <2>. QED  BY <1>1, <2>1, <2>3, <2>5
<1>6. ASSUME NEW i \in 0 .. fc - 1, NEW j \in 0 .. fc - 1, f[i] = f[j] PROVE i = j
  <2>1. Offset(s) + r[i] = Offset(s) + r[j]
    BY <1>4, <1>6
  <2>2. r[i] \in Int /\ r[j] \in Int
    BY <1>2
  <2>. QED  BY <1>1, <1>2, <2>1, <2>2
<1>. HIDE DEF f, new
<1>7. IsFiniteSet(new) /\ Cardinality(new) = fc
  <2>1. \A i \in 0 .. fc - 1 : f[i] \in new
    BY <1>4
  <2>2. \A x \in new : \E i \in 0 .. fc - 1 : x = f[i]
    BY <1>5
  <2>3. \A i, j \in 0 .. fc - 1 : f[i] = f[j] => i = j
    BY <1>6
  <2>4. fc \in Nat
    BY <1>2
  <2>. QED  BY <2>1, <2>2, <2>3, <2>4, NumberedSet
<1>. QED  BY <1>7 DEF new, all

\* What a round leaves of each stream and pass.
LEMMA FillSets ==
  ASSUME StreamInv, NEW s \in Streams, NEW n, NEW src, NEW fc, NEW ft, NEW r,
         FillStep(s, n, src, fc, ft, r), NEW t, NEW p
  PROVE  LET new == Blocks(s, 0, n, src) IN
         /\ t # s \/ p # pass => Mine(output', t, p) = Mine(output, t, p) /\ ChaChaOf(output', t, p) = ChaChaOf(output, t, p)
         /\ t = s /\ p = pass =>
              /\ Mine(output', t, p) = Mine(output, t, p) \cup new
              /\ ChaChaOf(output', t, p) = ChaChaOf(output, t, p) \cup { b \in new : b.source[1] = "chacha" }
         /\ \A b \in new, c \in Mine(output, s, pass) : b.at # c.at
<1>. DEFINE new == Blocks(s, 0, n, src)
<1>1. /\ output' = output \cup new /\ Offset(s) \in Nat /\ n \in Nat
      /\ \A b \in new : /\ b.stream = s /\ b.pass = pass /\ b \in Block
                        /\ b.at - Offset(s) \in 0 .. n - 1
  BY NewBlocks
<1>. HIDE DEF new
<1>2. t # s \/ p # pass => Mine(output', t, p) = Mine(output, t, p) /\ ChaChaOf(output', t, p) = ChaChaOf(output, t, p)
  BY <1>1 DEF Mine, ChaChaOf
<1>3. t = s /\ p = pass =>
        /\ Mine(output', t, p) = Mine(output, t, p) \cup new
        /\ ChaChaOf(output', t, p) = ChaChaOf(output, t, p) \cup { b \in new : b.source[1] = "chacha" }
  BY <1>1 DEF Mine, ChaChaOf
<1>4. ASSUME NEW b \in new, NEW c \in Mine(output, s, pass) PROVE b.at # c.at
  <2>1. { d.at : d \in Mine(output, s, pass) } = 0 .. Offset(s) - 1
    BY OffsetFacts
  <2>2. c.at \in 0 .. Offset(s) - 1
    BY <2>1
  <2>3. b.at - Offset(s) \in 0 .. n - 1 /\ b.at \in Nat
    BY <1>1 DEF Block
  <2>. QED  BY <1>1, <2>2, <2>3
<1>. QED  BY <1>2, <1>3, <1>4 DEF new
-----------------------------------------------------------------------------
\* The parts of the invariant after a round.
LEMMA FillTypes ==
  ASSUME StreamInv, NEW s \in Streams, NEW n, NEW src, NEW fc, NEW ft, NEW r,
         FillStep(s, n, src, fc, ft, r)
  PROVE  TypeOK' /\ OutputInv'
<1>. DEFINE new == Blocks(s, 0, n, src)
<1>1. /\ n \in Nat /\ output' = output \cup new /\ IsFiniteSet(new)
      /\ \A b \in new : /\ b \in Block /\ b.pass = pass /\ b.at - Offset(s) \in 0 .. n - 1
                        /\ b.source = src[b.at - Offset(s)]
  BY NewBlocks
<1>. HIDE DEF new
<1>2. /\ pass' = pass /\ mode' = mode /\ chunk' = chunk /\ stage' = stage
      /\ draws' \in Nat /\ draws' >= draws /\ failures' \in 0 .. MaxFailures
      /\ \A k \in 0 .. n - 1 : src[k][2] <= draws'
  BY DEF FillStep, OthersPlaced
<1>3. Wrap \in Nat \ {0}
  BY RngAssumption
<1>4. /\ fc \in Nat /\ ft \in Nat
      /\ chacha' = [chacha EXCEPT ![s].counter = (@ + fc) % Wrap]
      /\ turbo' = [turbo EXCEPT ![s].words = @ + ft]
  BY DEF FillStep, Moved
<1>5. /\ chacha \in [Streams -> [key : 0 .. draws, counter : 0 .. Wrap - 1]]
      /\ turbo \in [Streams -> [seed : 0 .. draws, words : Nat]]
      /\ draws \in Nat /\ pass \in 1 .. LastPass
  BY DEF StreamInv, TypeOK
<1>6. chacha' \in [Streams -> [key : 0 .. draws', counter : 0 .. Wrap - 1]]
  <2>1. (chacha[s].counter + fc) % Wrap \in 0 .. Wrap - 1
    <3>1. chacha[s].counter \in Nat
      BY <1>3, <1>5
    <3>2. chacha[s].counter + fc \in Nat
      BY <1>4, <3>1
    <3>. QED  BY <3>2, ModSame
  <2>2. ASSUME NEW t \in Streams
        PROVE  [chacha[t] EXCEPT !.counter = (chacha[s].counter + fc) % Wrap]
                 \in [key : 0 .. draws', counter : 0 .. Wrap - 1]
               /\ chacha[t] \in [key : 0 .. draws', counter : 0 .. Wrap - 1]
    BY <1>2, <1>5, <2>1
  <2>. QED  BY <1>4, <1>5, <2>2
<1>7. turbo' \in [Streams -> [seed : 0 .. draws', words : Nat]]
  <2>1. turbo[s].words + ft \in Nat
    BY <1>4, <1>5
  <2>2. ASSUME NEW t \in Streams
        PROVE  [turbo[t] EXCEPT !.words = turbo[s].words + ft] \in [seed : 0 .. draws', words : Nat]
               /\ turbo[t] \in [seed : 0 .. draws', words : Nat]
    BY <1>2, <1>5, <2>1
  <2>. QED  BY <1>4, <1>5, <2>2
<1>8. TypeOK'
  BY <1>2, <1>6, <1>7 DEF StreamInv, TypeOK
<1>9. output' \subseteq Block /\ IsFiniteSet(output')
  BY <1>1, FS_Union DEF StreamInv, OutputInv
<1>10. ASSUME NEW b \in output' PROVE b.pass <= pass' /\ b.source[2] <= draws'
  <2>1. CASE b \in new
    BY <1>1, <1>2, <1>5, <2>1
  <2>2. CASE b \in output
    <3>1. b.pass <= pass /\ b.source[2] <= draws /\ b.source[2] \in Nat
      BY <2>2 DEF StreamInv, OutputInv, Block, Sources
    <3>. QED  BY <1>2, <1>5, <3>1
  <2>. QED  BY <1>1, <2>1, <2>2
<1>. QED  BY <1>8, <1>9, <1>10 DEF OutputInv

LEMMA FillPlaces ==
  ASSUME StreamInv, NEW s \in Streams, NEW n, NEW src, NEW fc, NEW ft, NEW r,
         FillStep(s, n, src, fc, ft, r)
  PROVE  PlaceInv'
<1>. DEFINE new == Blocks(s, 0, n, src)
            c == Offset(s)
<1>1. /\ c \in Nat /\ n \in Nat /\ IsFiniteSet(new) /\ Cardinality(new) = n
      /\ \A k \in 0 .. n - 1 :
           [stream |-> s, pass |-> pass, at |-> c + k, source |-> src[k]] \in new
      /\ \A b \in new : b.at - c \in 0 .. n - 1 /\ b \in Block
  BY NewBlocks
<1>2. /\ c = Cardinality(Mine(output, s, pass)) /\ { b.at : b \in Mine(output, s, pass) } = 0 .. c - 1
  BY OffsetFacts
<1>3. /\ Mine(output', s, pass) = Mine(output, s, pass) \cup new
      /\ \A b \in new, d \in Mine(output, s, pass) : b.at # d.at
  BY FillSets
<1>4. \A t, p : t # s \/ p # pass => Mine(output', t, p) = Mine(output, t, p)
  BY FillSets
<1>. HIDE DEF new, c
<1>5. pass' = pass /\ stage' = stage /\ stage[s] = "fill"
  BY DEF FillStep, Round
<1>6. Cardinality(Mine(output', s, pass)) = c + n
  <2>1. Mine(output, s, pass) \cap new = {}
    BY <1>3
  <2>2. /\ IsFiniteSet(Mine(output, s, pass)) /\ Cardinality(Mine(output, s, pass)) = c
    BY <1>2, MineFinite DEF StreamInv
  <2>3. Cardinality(Mine(output, s, pass) \cup new) = c + n - Cardinality(Mine(output, s, pass) \cap new)
    BY <1>1, <2>2, FS_Union
  <2>4. Cardinality(Mine(output, s, pass) \cap new) = 0
    BY <2>1, FS_EmptySet
  <2>. QED  BY <1>1, <1>3, <2>3, <2>4
<1>7. { b.at : b \in Mine(output', s, pass) } = 0 .. (c + n) - 1
  <2>1. ASSUME NEW b \in Mine(output', s, pass) PROVE b.at \in 0 .. (c + n) - 1
    <3>1. CASE b \in new
      <4>1. b.at - c \in 0 .. n - 1 /\ b.at \in Nat
        BY <1>1, <3>1 DEF Block
      <4>. QED  BY <1>1, <4>1
    <3>2. CASE b \in Mine(output, s, pass)
      <4>1. b.at \in 0 .. c - 1
        BY <1>2, <3>2
      <4>. QED  BY <1>1, <4>1
    <3>. QED  BY <1>3, <3>1, <3>2
  <2>2. ASSUME NEW a \in 0 .. (c + n) - 1 PROVE \E b \in Mine(output', s, pass) : b.at = a
    <3>1. CASE a < c
      <4>1. a \in 0 .. c - 1
        BY <1>1, <3>1
      <4>2. PICK b \in Mine(output, s, pass) : b.at = a
        BY <1>2, <4>1
      <4>. QED  BY <1>3, <4>2
    <3>2. CASE a >= c
      <4>1. a - c \in 0 .. n - 1 /\ c + (a - c) = a
        BY <1>1, <3>2
      <4>2. [stream |-> s, pass |-> pass, at |-> c + (a - c), source |-> src[a - c]] \in new
        BY <1>1, <4>1
      <4>. QED  BY <1>3, <4>1, <4>2
    <3>. QED  BY <1>1, <3>1, <3>2
  <2>. QED  BY <2>1, <2>2
<1>8. FilledOnce'
  <2>. SUFFICES ASSUME NEW t \in Streams, NEW p \in 1 .. pass
                PROVE  { b.at : b \in Mine(output', t, p) } = 0 .. Cardinality(Mine(output', t, p)) - 1
    BY <1>5 DEF FilledOnce, Mine
  <2>1. CASE t = s /\ p = pass
    BY <1>6, <1>7, <2>1
  <2>2. CASE t # s \/ p # pass
    <3>1. { b.at : b \in Mine(output, t, p) } = 0 .. Cardinality(Mine(output, t, p)) - 1
      BY DEF StreamInv, PlaceInv, FilledOnce, Mine
    <3>2. Mine(output', t, p) = Mine(output, t, p)
      BY <1>4, <2>2
    <3>. QED  BY <3>1, <3>2
  <2>. QED  BY <2>1, <2>2
<1>9. ASSUME NEW t \in Streams, stage'[t] \notin {"fill", "done"} PROVE Mine(output', t, pass) = {}
  <2>1. t # s /\ stage[t] \notin {"fill", "done"}
    BY <1>5, <1>9
  <2>. QED  BY <1>4, <2>1 DEF StreamInv, PlaceInv
<1>. QED  BY <1>5, <1>8, <1>9 DEF PlaceInv

\* A live stream, its key and its seed, before and after the round.
LEMMA FillLive ==
  ASSUME StreamInv, NEW s \in Streams, NEW n, NEW src, NEW fc, NEW ft, NEW r,
         FillStep(s, n, src, fc, ft, r)
  PROVE  /\ Live' = Live /\ s \in Live /\ pass' = pass
         /\ \A t \in Live : chacha'[t].key = chacha[t].key /\ turbo'[t].seed = turbo[t].seed
         /\ \A t \in Live \ {s} : chacha'[t] = chacha[t] /\ turbo'[t] = turbo[t]
         /\ chacha'[s].counter = (chacha[s].counter + fc) % Wrap
         /\ turbo'[s].words = turbo[s].words + ft
<1>1. /\ stage' = stage /\ pass' = pass /\ stage[s] = "fill"
      /\ chacha' = [chacha EXCEPT ![s].counter = (@ + fc) % Wrap]
      /\ turbo' = [turbo EXCEPT ![s].words = @ + ft]
  BY DEF FillStep, Round, Moved
<1>2. Live' = Live /\ s \in Live
  BY <1>1 DEF Live
<1>3. /\ chacha \in [Streams -> [key : 0 .. draws, counter : 0 .. Wrap - 1]]
      /\ turbo \in [Streams -> [seed : 0 .. draws, words : Nat]]
  BY DEF StreamInv, TypeOK
<1>4. \A t \in Live : t \in Streams
  BY DEF Live
<1>5. chacha'[s] = [chacha[s] EXCEPT !.counter = (chacha[s].counter + fc) % Wrap]
      /\ turbo'[s] = [turbo[s] EXCEPT !.words = turbo[s].words + ft]
  BY <1>1, <1>3
<1>6. /\ chacha'[s].key = chacha[s].key /\ turbo'[s].seed = turbo[s].seed
      /\ chacha'[s].counter = (chacha[s].counter + fc) % Wrap
      /\ turbo'[s].words = turbo[s].words + ft
  BY <1>3, <1>5
<1>7. \A t \in Live \ {s} : chacha'[t] = chacha[t] /\ turbo'[t] = turbo[t]
  BY <1>1, <1>3, <1>4
<1>. QED  BY <1>1, <1>2, <1>6, <1>7

\* What the blocks of a round are made from.
LEMMA NewSources ==
  ASSUME StreamInv, NEW s \in Streams, NEW n, NEW src, NEW fc, NEW ft, NEW r,
         FillStep(s, n, src, fc, ft, r), NEW b \in Blocks(s, 0, n, src)
  PROVE  /\ b.stream = s /\ b.pass = pass
         /\ b.source[1] = "chacha" => b.source[2] = chacha[s].key
         /\ b.source[1] = "turbo" =>
              /\ b.source[2] = turbo[s].seed
              /\ b.source[3] \in turbo[s].words .. turbo[s].words + ft - 1
         /\ b.source[1] = "os" => b.source[2] = draws + 1
<1>. DEFINE k == b.at - Offset(s)
<1>1. k \in 0 .. n - 1 /\ b.source = src[k] /\ b.stream = s /\ b.pass = pass
  BY NewBlocks
<1>. HIDE DEF k
<1>2. src[k][1] = "chacha" => src[k][2] = chacha[s].key
  <2>. SUFFICES ASSUME src[k][1] = "chacha" PROVE src[k][2] = chacha[s].key
    OBVIOUS
  <2>1. PICK i \in 0 .. fc - 1 : k = r[i]
    BY <1>1 DEF FillStep, ChaChaPlaced
  <2>. QED  BY <2>1 DEF FillStep, ChaChaPlaced
<1>3. /\ src[k][1] = "turbo" =>
           src[k][2] = turbo[s].seed /\ src[k][3] \in turbo[s].words .. turbo[s].words + ft - 1
      /\ src[k][1] = "os" => src[k][2] = draws + 1
  BY <1>1 DEF FillStep, OthersPlaced
<1>. QED  BY <1>1, <1>2, <1>3

LEMMA FillOwners ==
  ASSUME StreamInv, NEW s \in Streams, NEW n, NEW src, NEW fc, NEW ft, NEW r,
         FillStep(s, n, src, fc, ft, r)
  PROVE  OwnerInv'
<1>. DEFINE new == Blocks(s, 0, n, src)
<1>1. /\ Live' = Live /\ s \in Live /\ pass' = pass
      /\ \A t \in Live : chacha'[t].key = chacha[t].key /\ turbo'[t].seed = turbo[t].seed
  BY FillLive
<1>2. output' = output \cup new
  BY NewBlocks
<1>3. \A b \in new : /\ b.stream = s /\ b.pass = pass
                     /\ b.source[1] = "chacha" => b.source[2] = chacha[s].key
  BY NewSources
<1>. HIDE DEF new
<1>4. /\ \A a, b \in output :
           a.source[1] = "chacha" /\ b.source[1] = "chacha" /\ a.source[2] = b.source[2] =>
             a.stream = b.stream /\ a.pass = b.pass
      /\ \A t \in Live, b \in output :
           b.source[1] = "chacha" =>
             (b.source[2] = chacha[t].key <=> b.stream = t /\ b.pass = pass)
      /\ \A t, u \in Live :
           t # u => chacha[t].key # chacha[u].key /\ turbo[t].seed # turbo[u].seed
  BY DEF StreamInv, OwnerInv
<1>5. ASSUME NEW t \in Live, NEW b \in output', b.source[1] = "chacha"
      PROVE  b.source[2] = chacha'[t].key <=> b.stream = t /\ b.pass = pass'
  BY <1>1, <1>2, <1>3, <1>4, <1>5
<1>6. ASSUME NEW a \in output', NEW b \in output',
             a.source[1] = "chacha", b.source[1] = "chacha", a.source[2] = b.source[2]
      PROVE  a.stream = b.stream /\ a.pass = b.pass
  BY <1>1, <1>2, <1>3, <1>4, <1>6
<1>. QED  BY <1>1, <1>4, <1>5, <1>6 DEF OwnerInv

LEMMA FillFresh ==
  ASSUME StreamInv, NEW s \in Streams, NEW n, NEW src, NEW fc, NEW ft, NEW r,
         FillStep(s, n, src, fc, ft, r)
  PROVE  FreshInv'
<1>. DEFINE new == Blocks(s, 0, n, src)
<1>1. /\ Live' = Live /\ s \in Live /\ pass' = pass
      /\ \A t \in Live : turbo'[t].seed = turbo[t].seed
      /\ \A t \in Live \ {s} : turbo'[t] = turbo[t]
      /\ turbo'[s].words = turbo[s].words + ft
  BY FillLive
<1>2. /\ output' = output \cup new
      /\ \A b \in new : b.at - Offset(s) \in 0 .. n - 1 /\ b.source = src[b.at - Offset(s)]
                        /\ b \in Block
      /\ \A b, c \in new : b.at = c.at => b = c
      /\ Offset(s) \in Nat
  BY NewBlocks
<1>3. \A b \in new :
        /\ b.source[1] = "turbo" =>
             /\ b.source[2] = turbo[s].seed
             /\ b.source[3] \in turbo[s].words .. turbo[s].words + ft - 1
        /\ b.source[1] = "os" => b.source[2] = draws + 1
  BY NewSources
<1>4. \A k, l \in 0 .. n - 1 : src[k][1] \in {"turbo", "os"} /\ src[k] = src[l] => k = l
  BY DEF FillStep, OthersPlaced
<1>. HIDE DEF new
<1>5. /\ \A a, b \in output :
           a.source[1] \in {"turbo", "os"} /\ a.source = b.source => a = b
      /\ \A t \in Live, b \in output :
           b.source[1] = "turbo" /\ b.source[2] = turbo[t].seed => b.source[3] < turbo[t].words
      /\ \A t, u \in Live : t # u => turbo[t].seed # turbo[u].seed
  BY DEF StreamInv, FreshInv, OwnerInv
<1>6. \A b \in output : b.source[2] <= draws /\ b.source \in Sources
  BY DEF StreamInv, OutputInv, Block
<1>7. draws \in Nat /\ ft \in Nat /\ \A t \in Live : turbo[t].words \in Nat
  BY DEF StreamInv, TypeOK, FillStep, Moved, Live
<1>8. ASSUME NEW a \in new, NEW b \in new, a.source[1] \in {"turbo", "os"}, a.source = b.source
      PROVE  a = b
  <2>1. a.at - Offset(s) = b.at - Offset(s)
    BY <1>2, <1>4, <1>8
  <2>2. a.at \in Nat /\ b.at \in Nat
    BY <1>2 DEF Block
  <2>3. a.at = b.at
    BY <1>2, <2>1, <2>2
  <2>. QED  BY <1>2, <2>3
<1>9. ASSUME NEW a \in new, NEW b \in output, a.source[1] \in {"turbo", "os"} PROVE a.source # b.source
  <2>1. CASE a.source[1] = "turbo"
    <3>. SUFFICES ASSUME a.source = b.source PROVE FALSE
      OBVIOUS
    <3>1. b.source[2] = turbo[s].seed /\ b.source[1] = "turbo"
      BY <1>3, <2>1
    <3>2. b.source[3] < turbo[s].words
      BY <1>1, <1>5, <3>1
    <3>3. b.source[3] \in turbo[s].words .. turbo[s].words + ft - 1
      BY <1>3, <2>1
    <3>. QED  BY <1>1, <1>7, <3>2, <3>3
  <2>2. CASE a.source[1] = "os"
    <3>1. a.source[2] = draws + 1 /\ b.source[2] <= draws /\ b.source[2] \in Nat
      BY <1>3, <1>6, <2>2 DEF Sources
    <3>. QED  BY <1>7, <3>1
  <2>. QED  BY <1>9, <2>1, <2>2
<1>10. ASSUME NEW a \in output', NEW b \in output',
              a.source[1] \in {"turbo", "os"}, a.source = b.source
       PROVE  a = b
  <2>1. b.source[1] \in {"turbo", "os"}
    BY <1>10
  <2>2. CASE a \in output /\ b \in output
    BY <1>5, <1>10, <2>2
  <2>3. CASE a \in new /\ b \in new
    BY <1>8, <1>10, <2>3
  <2>4. CASE a \in new /\ b \in output
    BY <1>9, <1>10, <2>4
  <2>5. CASE a \in output /\ b \in new
    BY <1>9, <1>10, <2>1, <2>5
  <2>. QED  BY <1>2, <2>2, <2>3, <2>4, <2>5
<1>11. ASSUME NEW t \in Live, NEW b \in output',
              b.source[1] = "turbo", b.source[2] = turbo'[t].seed
       PROVE  b.source[3] < turbo'[t].words
  <2>1. b.source[2] = turbo[t].seed
    BY <1>1, <1>11
  <2>2. CASE b \in output
    <3>1. b.source[3] < turbo[t].words /\ b.source[3] \in Nat
      BY <1>5, <1>6, <1>11, <2>1, <2>2 DEF Sources
    <3>2. CASE t = s
      BY <1>1, <1>7, <3>1, <3>2
    <3>3. CASE t # s
      BY <1>1, <3>1, <3>3
    <3>. QED  BY <3>2, <3>3
  <2>3. CASE b \in new
    <3>1. /\ b.source[2] = turbo[s].seed
          /\ b.source[3] \in turbo[s].words .. turbo[s].words + ft - 1
      BY <1>3, <1>11, <2>3
    <3>2. t = s
      BY <1>1, <1>5, <2>1, <3>1
    <3>. QED  BY <1>1, <1>7, <3>1, <3>2
  <2>. QED  BY <1>2, <2>2, <2>3
<1>. QED  BY <1>1, <1>10, <1>11 DEF FreshInv
\* The new blocks of ChaCha20, one by one.
LEMMA NewCounters ==
  ASSUME StreamInv, NEW s \in Streams, NEW n, NEW src, NEW fc, NEW ft, NEW r,
         FillStep(s, n, src, fc, ft, r),
         NEW b \in Blocks(s, 0, n, src), b.source[1] = "chacha"
  PROVE  \E i \in 0 .. fc - 1 :
           /\ b.at - Offset(s) = r[i]
           /\ b.source = <<"chacha", chacha[s].key, (chacha[s].counter + i) % Wrap>>
<1>. DEFINE k == b.at - Offset(s)
<1>1. k \in 0 .. n - 1 /\ b.source = src[k]
  BY NewBlocks
<1>. HIDE DEF k
<1>2. PICK i \in 0 .. fc - 1 : k = r[i]
  BY <1>1 DEF FillStep, ChaChaPlaced
<1>3. src[r[i]] = <<"chacha", chacha[s].key, (chacha[s].counter + i) % Wrap>>
  BY DEF FillStep, ChaChaPlaced
<1>. QED  BY <1>1, <1>2, <1>3 DEF k

\* After a round there are fc more blocks of ChaCha20 than before.
LEMMA MoreChaCha ==
  ASSUME StreamInv, NEW s \in Streams, NEW n, NEW src, NEW fc, NEW ft, NEW r,
         FillStep(s, n, src, fc, ft, r)
  PROVE  Cardinality(ChaChaOf(output', s, pass)) = Cardinality(ChaChaOf(output, s, pass)) + fc
<1>. DEFINE old == ChaChaOf(output, s, pass)
            new == { b \in Blocks(s, 0, n, src) : b.source[1] = "chacha" }
<1>1. IsFiniteSet(new) /\ Cardinality(new) = fc
  BY NewChaCha
<1>2. IsFiniteSet(old) /\ Cardinality(old) \in Nat
  BY MineFinite DEF StreamInv
<1>3. ChaChaOf(output', s, pass) = old \cup new
  BY FillSets
<1>4. \A b \in Blocks(s, 0, n, src), c \in Mine(output, s, pass) : b.at # c.at
  BY FillSets
<1>5. old \cap new = {}
  BY <1>4 DEF ChaChaOf, Mine
<1>6. fc \in Nat
  BY DEF FillStep, Moved
<1>. HIDE DEF old, new
<1>7. Cardinality(old \cup new) = Cardinality(old) + fc - Cardinality(old \cap new)
  BY <1>1, <1>2, FS_Union
<1>8. Cardinality(old \cap new) = 0
  BY <1>5, FS_EmptySet
<1>9. Cardinality(old \cup new) = Cardinality(old) + fc
  BY <1>2, <1>6, <1>7, <1>8
<1>. QED  BY <1>3, <1>9 DEF old

\* The counter after the round is as far on as there are new blocks.
LEMMA CounterMoves ==
  ASSUME StreamInv, NEW s \in Streams, NEW n, NEW src, NEW fc, NEW ft, NEW r,
         FillStep(s, n, src, fc, ft, r), NEW d \in Int
  PROVE  /\ chacha[s].counter \in Nat /\ chacha'[s].counter \in Nat /\ fc \in Nat
         /\ Same(chacha'[s].counter - d, chacha[s].counter + fc - d)
<1>. DEFINE cur == chacha[s].counter
            next == chacha'[s].counter
<1>1. cur \in 0 .. Wrap - 1 /\ Wrap \in Nat /\ fc \in Nat
  BY RngAssumption DEF StreamInv, TypeOK, FillStep, Moved
<1>2. cur + fc \in Nat /\ next = (cur + fc) % Wrap
  BY <1>1, FillLive
<1>. HIDE DEF cur, next
<1>3. next \in 0 .. Wrap - 1 /\ Same(next, cur + fc)
  BY <1>2, ModSame
<1>4. next \in Int /\ cur + fc \in Int /\ 0 - d \in Int
  BY <1>1, <1>3
<1>5. Same(next + (0 - d), (cur + fc) + (0 - d))
  BY <1>3, <1>4, SameShift
<1>6. next + (0 - d) = next - d /\ (cur + fc) + (0 - d) = cur + fc - d
  BY <1>1, <1>4
<1>7. Same(next - d, cur + fc - d)
  BY <1>5, <1>6
<1>. QED  BY <1>1, <1>3, <1>7 DEF cur, next

\* A new block that equals an old one, or another new one, says that the
\* counter has come round.
LEMMA ComesRound ==
  ASSUME StreamInv, NEW s \in Streams, NEW n, NEW src, NEW fc, NEW ft, NEW r,
         FillStep(s, n, src, fc, ft, r),
         NEW a \in Blocks(s, 0, n, src), NEW b \in output', a # b,
         a.source[1] = "chacha", a.source = b.source
  PROVE  /\ b.stream = s /\ b.pass = pass
         /\ Cardinality(ChaChaOf(output', s, pass)) > Wrap
<1>. DEFINE new == Blocks(s, 0, n, src)
            cur == chacha[s].counter
            m == Cardinality(ChaChaOf(output, s, pass))
<1>1. cur \in Nat /\ fc \in Nat /\ Wrap \in Nat \ {0}
  <2>1. 0 \in Int
    OBVIOUS
  <2>. QED  BY <2>1, CounterMoves, RngAssumption
<1>2. m \in Nat /\ Cardinality(ChaChaOf(output', s, pass)) = m + fc
  BY MineFinite, MoreChaCha DEF StreamInv
<1>3. /\ output' = output \cup new /\ Offset(s) \in Nat
      /\ \A x \in new : x \in Block /\ x.stream = s /\ x.pass = pass
      /\ \A x, y \in new : x.at = y.at => x = y
  BY NewBlocks
<1>4. PICK i \in 0 .. fc - 1 :
        /\ a.at - Offset(s) = r[i]
        /\ a.source = <<"chacha", chacha[s].key, (cur + i) % Wrap>>
  BY NewCounters
<1>. HIDE DEF new, cur, m
<1>5. i \in Nat /\ cur + i \in Nat /\ a.source[3] = (cur + i) % Wrap /\ a.source[2] = chacha[s].key
  BY <1>1, <1>4
<1>6. a.source[3] \in Nat /\ Same(a.source[3], cur + i)
  BY <1>5, ModSame
<1>7. CASE b \in output
  <2>1. b.source[1] = "chacha" /\ b.source[2] = chacha[s].key
    BY <1>5
  <2>2. b.stream = s /\ b.pass = pass
    BY <1>7, <2>1, FillLive DEF StreamInv, OwnerInv
  <2>3. b \in ChaChaOf(output, s, pass)
    BY <1>7, <2>1, <2>2 DEF ChaChaOf
  <2>4. PICK j \in 1 .. m : Same(cur - j, b.source[3])
    BY <2>3, FillLive DEF StreamInv, CounterInv, m, cur
  <2>5. Same(cur - j, a.source[3]) /\ cur - j \in Int /\ j \in Int
    BY <1>1, <1>2, <2>4
  <2>6. Same(cur - j, cur + i)
    BY <1>5, <1>6, <2>5, SameChain
  <2>7. m + fc > Wrap
    <3>. SUFFICES ASSUME m + fc <= Wrap PROVE FALSE
      BY <1>1, <1>2
    <3>1. (cur - j) - (cur + i) < Wrap /\ (cur + i) - (cur - j) < Wrap
      BY <1>1, <1>2, <1>5
    <3>2. cur - j = cur + i
      BY <1>5, <2>5, <2>6, <3>1, SameNear
    <3>. QED  BY <1>1, <1>2, <1>5, <3>2
  <2>. QED  BY <1>2, <2>2, <2>7
<1>8. CASE b \in new
  <2>1. b.stream = s /\ b.pass = pass /\ b.source[1] = "chacha"
    BY <1>3, <1>8
  <2>2. PICK j \in 0 .. fc - 1 :
          /\ b.at - Offset(s) = r[j]
          /\ b.source = <<"chacha", chacha[s].key, (cur + j) % Wrap>>
    BY <1>8, <2>1, NewCounters DEF new, cur
  <2>3. j \in Nat /\ cur + j \in Nat /\ b.source[3] = (cur + j) % Wrap
    BY <1>1, <2>2
  <2>4. Same(a.source[3], cur + j)
    BY <2>3, ModSame
  <2>5. Same(cur + i, cur + j)
    BY <1>5, <1>6, <2>3, <2>4, SameSwap, SameChain
  <2>6. i # j
    <3>. SUFFICES ASSUME i = j PROVE FALSE
      OBVIOUS
    <3>1. a.at - Offset(s) = b.at - Offset(s)
      BY <1>4, <2>2
    <3>2. a \in new /\ a.at \in Nat /\ b.at \in Nat
      BY <1>3, <1>8 DEF new, Block
    <3>3. a.at = b.at
      BY <1>3, <3>1, <3>2
    <3>. QED  BY <1>3, <1>8, <3>2, <3>3
  <2>7. fc > Wrap
    <3>. SUFFICES ASSUME fc <= Wrap PROVE FALSE
      BY <1>1
    <3>1. (cur + i) - (cur + j) < Wrap /\ (cur + j) - (cur + i) < Wrap
      BY <1>1, <1>5, <2>3
    <3>2. cur + i = cur + j
      BY <1>5, <2>3, <2>5, <3>1, SameNear
    <3>. QED  BY <1>1, <1>5, <2>3, <2>6, <3>2
  <2>. QED  BY <1>1, <1>2, <2>1, <2>7
<1>. QED  BY <1>3, <1>7, <1>8

LEMMA FillCounters ==
  ASSUME StreamInv, NEW s \in Streams, NEW n, NEW src, NEW fc, NEW ft, NEW r,
         FillStep(s, n, src, fc, ft, r), OutputInv'
  PROVE  CounterInv'
<1>. DEFINE new == Blocks(s, 0, n, src)
            cur == chacha[s].counter
            next == chacha'[s].counter
            m == Cardinality(ChaChaOf(output, s, pass))
<1>1. /\ Live' = Live /\ s \in Live /\ pass' = pass
      /\ \A t \in Live \ {s} : chacha'[t] = chacha[t]
  BY FillLive
<1>2. cur \in Nat /\ next \in Nat /\ fc \in Nat /\ \A d \in Int : Same(next - d, cur + fc - d)
  BY CounterMoves
<1>3. m \in Nat /\ Cardinality(ChaChaOf(output', s, pass)) = m + fc
  BY MineFinite, MoreChaCha DEF StreamInv
<1>4. /\ output' = output \cup new
      /\ \A b \in new : b.stream = s /\ b.pass = pass
  BY NewBlocks
<1>5. \A b \in output : b.source[3] \in Nat
  BY DEF StreamInv, OutputInv, Block, Sources
<1>6. /\ \A t \in Live : \A b \in ChaChaOf(output, t, pass) :
           \E j \in 1 .. Cardinality(ChaChaOf(output, t, pass)) :
             Same(chacha[t].counter - j, b.source[3])
      /\ \A a, b \in output :
           a.source[1] = "chacha" /\ a.source = b.source /\ a # b =>
             Cardinality(ChaChaOf(output, a.stream, a.pass)) > Wrap
  BY DEF StreamInv, CounterInv
<1>7. ASSUME NEW b \in ChaChaOf(output', s, pass)
      PROVE  \E j \in 1 .. m + fc : Same(next - j, b.source[3])
  <2>1. CASE b \in output
    <3>1. b \in ChaChaOf(output, s, pass)
      BY <1>7, <2>1 DEF ChaChaOf
    <3>2. PICK j \in 1 .. m : Same(cur - j, b.source[3])
      BY <1>1, <1>6, <3>1
    <3>. HIDE DEF cur, next, m
    <3>3. j + fc \in 1 .. m + fc /\ j + fc \in Int /\ cur + fc - (j + fc) = cur - j
      BY <1>2, <1>3
    <3>4. Same(next - (j + fc), cur - j)
      BY <1>2, <3>3
    <3>5. next - (j + fc) \in Int /\ cur - j \in Int /\ b.source[3] \in Int
      BY <1>2, <1>3, <1>5, <2>1
    <3>6. Same(next - (j + fc), b.source[3])
      BY <3>2, <3>4, <3>5, SameChain
    <3>. QED  BY <3>3, <3>6
  <2>2. CASE b \in new
    <3>1. b.source[1] = "chacha"
      BY <1>7 DEF ChaChaOf
    <3>2. PICK i \in 0 .. fc - 1 :
            b.source = <<"chacha", chacha[s].key, (chacha[s].counter + i) % Wrap>>
      BY <2>2, <3>1, NewCounters
    <3>3. b.source[3] = (cur + i) % Wrap
      BY <3>2
    <3>. HIDE DEF cur, next, m
    <3>4. /\ fc - i \in 1 .. m + fc /\ fc - i \in Int /\ cur + fc - (fc - i) = cur + i
          /\ cur + i \in Nat
      BY <1>2, <1>3
    <3>5. Same(next - (fc - i), cur + i)
      BY <1>2, <3>4
    <3>6. b.source[3] \in Nat /\ Same(b.source[3], cur + i)
      BY <3>3, <3>4, RngAssumption, ModSame
    <3>7. next - (fc - i) \in Int /\ cur + i \in Int /\ b.source[3] \in Int
      BY <1>2, <3>4, <3>6
    <3>8. Same(next - (fc - i), b.source[3])
      BY <3>5, <3>6, <3>7, SameSwap, SameChain
    <3>. QED  BY <3>4, <3>8
  <2>. QED  BY <1>4, <1>7, <2>1, <2>2 DEF ChaChaOf
<1>8. ASSUME NEW t \in Live, NEW b \in ChaChaOf(output', t, pass)
      PROVE  \E j \in 1 .. Cardinality(ChaChaOf(output', t, pass)) :
               Same(chacha'[t].counter - j, b.source[3])
  <2>1. CASE t = s
    BY <1>3, <1>7, <1>8, <2>1
  <2>2. CASE t # s
    <3>1. ChaChaOf(output', t, pass) = ChaChaOf(output, t, pass)
      BY <2>2, FillSets
    <3>2. chacha'[t] = chacha[t]
      BY <1>1, <2>2
    <3>. QED  BY <1>6, <1>8, <3>1, <3>2
  <2>. QED  BY <2>1, <2>2
<1>9. ASSUME NEW a \in output', NEW b \in output',
             a.source[1] = "chacha", a.source = b.source, a # b
      PROVE  Cardinality(ChaChaOf(output', a.stream, a.pass)) > Wrap
  <2>1. CASE a \in output /\ b \in output
    <3>1. Cardinality(ChaChaOf(output, a.stream, a.pass)) > Wrap
      BY <1>6, <1>9, <2>1
    <3>2. ChaChaOf(output, a.stream, a.pass) \in SUBSET ChaChaOf(output', a.stream, a.pass)
      BY <1>4 DEF ChaChaOf
    <3>3. /\ IsFiniteSet(ChaChaOf(output', a.stream, a.pass))
          /\ Cardinality(ChaChaOf(output', a.stream, a.pass)) \in Nat
      <4>1. ChaChaOf(output', a.stream, a.pass) \in SUBSET output' /\ IsFiniteSet(output')
        BY DEF ChaChaOf, OutputInv
      <4>. QED  BY <4>1, FS_Subset, FS_CardinalityType
    <3>4. Cardinality(ChaChaOf(output, a.stream, a.pass)) <= Cardinality(ChaChaOf(output', a.stream, a.pass))
      BY <3>2, <3>3, FS_Subset
    <3>5. Cardinality(ChaChaOf(output, a.stream, a.pass)) \in Nat /\ Wrap \in Nat
      BY MineFinite, RngAssumption DEF StreamInv
    <3>. QED  BY <3>1, <3>3, <3>4, <3>5
  <2>2. CASE a \in new
    <3>1. a.stream = s /\ a.pass = pass
      BY <1>4, <2>2
    <3>2. Cardinality(ChaChaOf(output', s, pass)) > Wrap
      BY <1>9, <2>2, ComesRound
    <3>. QED  BY <3>1, <3>2
  <2>3. CASE b \in new
    <3>1. b.source[1] = "chacha"
      BY <1>9
    <3>2. a.stream = s /\ a.pass = pass /\ Cardinality(ChaChaOf(output', s, pass)) > Wrap
      BY <1>9, <2>3, <3>1, ComesRound
    <3>. QED  BY <3>2
  <2>. QED  BY <1>4, <2>1, <2>2, <2>3
<1>. QED  BY <1>1, <1>8, <1>9 DEF CounterInv
-----------------------------------------------------------------------------
LEMMA StreamInit ==
  Init => StreamInv
<1>. SUFFICES ASSUME Init PROVE StreamInv
  OBVIOUS
<1>1. /\ Wrap \in Nat \ {0} /\ LastPass \in Nat \ {0} /\ MaxFailures \in Nat
      /\ output = {} /\ draws = 0
  BY RngAssumption DEF Init
<1>2. TypeOK
  BY <1>1 DEF Init, TypeOK
<1>3. OutputInv
  BY <1>1, FS_EmptySet DEF OutputInv
<1>4. PlaceInv
  <2>1. \A s, p : Mine(output, s, p) = {}
    BY <1>1 DEF Mine
  <2>2. FilledOnce
    <3>. SUFFICES ASSUME NEW s \in Streams, NEW p \in 1 .. pass
                  PROVE  { b.at : b \in Mine(output, s, p) } =
                           0 .. Cardinality(Mine(output, s, p)) - 1
      BY DEF FilledOnce, Mine
    <3>1. Cardinality(Mine(output, s, p)) = 0
      BY <2>1, FS_EmptySet
    <3>. QED  BY <2>1, <3>1
  <2>. QED  BY <2>1, <2>2 DEF PlaceInv
<1>5. Live = {}
  BY DEF Init, Live
<1>6. OwnerInv /\ CounterInv /\ FreshInv
  BY <1>1, <1>5 DEF OwnerInv, CounterInv, FreshInv
<1>. QED  BY <1>2, <1>3, <1>4, <1>6 DEF StreamInv

\* A step that writes nothing, draws for one stream at most, and leaves the
\* others alone.
LEMMA DrawStep ==
  ASSUME StreamInv, NEW s \in Streams,
         UNCHANGED <<pass, output>>, TypeOK', draws' >= draws,
         stage' = [stage EXCEPT ![s] = stage'[s]],
         stage[s] \in {"create", "reseed"}, stage'[s] \in {"reseed", "fill", "failed"},
         chacha' = [chacha EXCEPT ![s] = chacha'[s]],
         turbo' = [turbo EXCEPT ![s] = turbo'[s]],
         stage'[s] # "failed" =>
           /\ \/ chacha'[s].key > draws
              \/ s \in Live /\ chacha'[s] = chacha[s]
           /\ \/ turbo'[s].seed > draws
              \/ s \in Live /\ turbo'[s] = turbo[s]
  PROVE  StreamInv'
<1>1. /\ stage \in [Streams -> {"create", "reseed", "fill", "done", "failed"}]
      /\ chacha \in [Streams -> [key : 0 .. draws, counter : 0 .. Wrap - 1]]
      /\ turbo \in [Streams -> [seed : 0 .. draws, words : Nat]]
      /\ draws \in Nat /\ draws' \in Nat
      /\ chacha' \in [Streams -> [key : 0 .. draws', counter : 0 .. Wrap - 1]]
      /\ turbo' \in [Streams -> [seed : 0 .. draws', words : Nat]]
  BY DEF StreamInv, TypeOK
<1>2. \A t \in Streams \ {s} : stage'[t] = stage[t] /\ chacha'[t] = chacha[t] /\ turbo'[t] = turbo[t]
  BY <1>1
<1>3. Live' \ {s} = Live \ {s} /\ (s \in Live' => stage'[s] # "failed")
  BY <1>2 DEF Live
<1>4. Mine(output, s, pass) = {} /\ \A b \in output : ~(b.stream = s /\ b.pass = pass)
  <2>1. Mine(output, s, pass) = {}
    BY DEF StreamInv, PlaceInv
  <2>. QED  BY <2>1 DEF Mine
<1>5. \A b \in output : b.source[2] <= draws /\ b.source \in Sources
  BY DEF StreamInv, OutputInv, Block
<1>6. OutputInv'
  <2>1. \A b \in output : b.pass <= pass /\ b.source[2] <= draws'
    <3>1. \A b \in output : b.source[2] \in Nat
      BY <1>5 DEF Sources
    <3>. QED  BY <1>1, <1>5, <3>1 DEF StreamInv, OutputInv
  <2>. QED  BY <2>1 DEF StreamInv, OutputInv
<1>7. PlaceInv'
  <2>1. FilledOnce'
    BY DEF StreamInv, PlaceInv, FilledOnce
  <2>2. ASSUME NEW t \in Streams, stage'[t] \notin {"fill", "done"} PROVE Mine(output, t, pass) = {}
    <3>1. CASE t = s
      BY <1>4, <3>1
    <3>2. CASE t # s
      BY <1>2, <2>2, <3>2 DEF StreamInv, PlaceInv
    <3>. QED  BY <3>1, <3>2
  <2>. QED  BY <2>1, <2>2 DEF PlaceInv
<1>8. OwnerInv'
  <2>1. ASSUME NEW t \in Live', NEW b \in output, b.source[1] = "chacha"
        PROVE  b.source[2] = chacha'[t].key <=> b.stream = t /\ b.pass = pass
    <3>1. CASE t # s
      BY <1>2, <1>3, <2>1, <3>1 DEF StreamInv, OwnerInv, Live
    <3>2. CASE t = s /\ s \in Live /\ chacha'[s] = chacha[s]
      BY <2>1, <3>2 DEF StreamInv, OwnerInv
    <3>3. CASE t = s /\ chacha'[s].key > draws
      <4>1. b.source[2] # chacha'[s].key
        <5>1. b.source[2] <= draws /\ b.source[2] \in Nat /\ chacha'[s].key \in Nat
          BY <1>1, <1>5 DEF Sources
        <5>. QED  BY <1>1, <3>3, <5>1
      <4>. QED  BY <1>4, <3>3, <4>1
    <3>. QED  BY <1>3, <2>1, <3>1, <3>2, <3>3
  <2>2. ASSUME NEW t \in Live', NEW u \in Live', t # u, u # s
        PROVE  chacha'[t].key # chacha'[u].key /\ turbo'[t].seed # turbo'[u].seed
    <3>1. u \in Live /\ chacha'[u] = chacha[u] /\ turbo'[u] = turbo[u]
          /\ chacha[u].key <= draws /\ chacha[u].key \in Nat
          /\ turbo[u].seed <= draws /\ turbo[u].seed \in Nat
      BY <1>1, <1>2, <1>3, <2>2 DEF Live
    <3>2. CASE t # s
      <4>1. t \in Live /\ chacha'[t] = chacha[t] /\ turbo'[t] = turbo[t]
        BY <1>2, <1>3, <3>2 DEF Live
      <4>. QED  BY <2>2, <3>1, <4>1 DEF StreamInv, OwnerInv
    <3>3. CASE t = s
      <4>1. chacha'[s].key > draws \/ (s \in Live /\ chacha'[s] = chacha[s])
        BY <1>3, <2>2, <3>3
      <4>2. turbo'[s].seed > draws \/ (s \in Live /\ turbo'[s] = turbo[s])
        BY <1>3, <2>2, <3>3
      <4>3. chacha'[s].key # chacha'[u].key
        <5>1. CASE chacha'[s].key > draws
          BY <1>1, <3>1, <5>1
        <5>2. CASE s \in Live /\ chacha'[s] = chacha[s]
          BY <2>2, <3>1, <3>3, <5>2 DEF StreamInv, OwnerInv
        <5>. QED  BY <4>1, <5>1, <5>2
      <4>4. turbo'[s].seed # turbo'[u].seed
        <5>1. CASE turbo'[s].seed > draws
          BY <1>1, <3>1, <5>1
        <5>2. CASE s \in Live /\ turbo'[s] = turbo[s]
          BY <2>2, <3>1, <3>3, <5>2 DEF StreamInv, OwnerInv
        <5>. QED  BY <4>2, <5>1, <5>2
      <4>. QED  BY <3>3, <4>3, <4>4
    <3>. QED  BY <3>2, <3>3
  <2>3. \A a, b \in output :
          a.source[1] = "chacha" /\ b.source[1] = "chacha" /\ a.source[2] = b.source[2] =>
            a.stream = b.stream /\ a.pass = b.pass
    BY DEF StreamInv, OwnerInv
  <2>4. \A t, u \in Live' :
          t # u => chacha'[t].key # chacha'[u].key /\ turbo'[t].seed # turbo'[u].seed
    <3>. SUFFICES ASSUME NEW t \in Live', NEW u \in Live', t # u
                  PROVE  chacha'[t].key # chacha'[u].key /\ turbo'[t].seed # turbo'[u].seed
      OBVIOUS
    <3>1. CASE u # s
      BY <2>2, <3>1
    <3>2. CASE t # s
      BY <2>2, <3>2
    <3>. QED  BY <3>1, <3>2
  <2>. QED  BY <2>1, <2>3, <2>4 DEF OwnerInv
<1>9. CounterInv'
  <2>1. ASSUME NEW t \in Live', NEW b \in ChaChaOf(output, t, pass)
        PROVE  \E j \in 1 .. Cardinality(ChaChaOf(output, t, pass)) :
                 Same(chacha'[t].counter - j, b.source[3])
    <3>1. t # s
      BY <1>4, <2>1 DEF ChaChaOf
    <3>2. t \in Live /\ chacha'[t] = chacha[t]
      BY <1>2, <1>3, <3>1 DEF Live
    <3>. QED  BY <2>1, <3>2 DEF StreamInv, CounterInv
  <2>. QED  BY <2>1 DEF StreamInv, CounterInv
<1>10. FreshInv'
  <2>1. ASSUME NEW t \in Live', NEW b \in output,
               b.source[1] = "turbo", b.source[2] = turbo'[t].seed
        PROVE  b.source[3] < turbo'[t].words
    <3>1. CASE t # s
      <4>1. t \in Live /\ turbo'[t] = turbo[t]
        BY <1>2, <1>3, <3>1 DEF Live
      <4>. QED  BY <2>1, <4>1 DEF StreamInv, FreshInv
    <3>2. CASE t = s /\ s \in Live /\ turbo'[s] = turbo[s]
      BY <2>1, <3>2 DEF StreamInv, FreshInv
    <3>3. CASE t = s /\ turbo'[s].seed > draws
      <4>1. b.source[2] <= draws /\ b.source[2] \in Nat
        BY <1>5 DEF Sources
      <4>. QED  BY <1>1, <2>1, <3>3, <4>1
    <3>. QED  BY <1>3, <3>1, <3>2, <3>3
  <2>. QED  BY <2>1 DEF StreamInv, FreshInv
<1>. QED  BY <1>6, <1>7, <1>8, <1>9, <1>10 DEF StreamInv

LEMMA CreateKeeps ==
  ASSUME StreamInv, NEW s \in Streams, Create(s)
  PROVE  StreamInv'
<1>1. /\ stage \in [Streams -> {"create", "reseed", "fill", "done", "failed"}]
      /\ chacha \in [Streams -> [key : 0 .. draws, counter : 0 .. Wrap - 1]]
      /\ turbo \in [Streams -> [seed : 0 .. draws, words : Nat]]
      /\ draws \in Nat /\ failures \in 0 .. MaxFailures /\ MaxFailures \in Nat
  BY RngAssumption DEF StreamInv, TypeOK
<1>2. UNCHANGED <<mode, chunk, pass, output>> /\ stage[s] = "create"
  BY DEF Create, Goto
<1>3. CASE /\ Goto(s, "create", "reseed")
           /\ chacha' = [chacha EXCEPT ![s] = Keyed(draws + 1, 1)]
           /\ turbo' = [turbo EXCEPT ![s] = [seed |-> draws + 2, words |-> 0]]
           /\ draws' = draws + 2 /\ Given
  <2>1. Keyed(draws + 1, 1) \in [key : 0 .. draws + 2, counter : 0 .. Wrap - 1]
        /\ Keyed(draws + 1, 1).key = draws + 1
    <3>1. 1 % Wrap \in 0 .. Wrap - 1
      BY ModSame
    <3>. QED  BY <1>1, <3>1 DEF Keyed
  <2>2. /\ stage' = [stage EXCEPT ![s] = "reseed"] /\ stage'[s] = "reseed"
        /\ chacha'[s] = Keyed(draws + 1, 1) /\ turbo'[s] = [seed |-> draws + 2, words |-> 0]
    BY <1>1, <1>3 DEF Goto
  <2>3. chacha' \in [Streams -> [key : 0 .. draws', counter : 0 .. Wrap - 1]]
    <3>1. \A t \in Streams : chacha[t] \in [key : 0 .. draws', counter : 0 .. Wrap - 1]
      BY <1>1, <1>3
    <3>. QED  BY <1>1, <1>3, <2>1, <3>1
  <2>4. turbo' \in [Streams -> [seed : 0 .. draws', words : Nat]]
    <3>1. \A t \in Streams : turbo[t] \in [seed : 0 .. draws', words : Nat]
      BY <1>1, <1>3
    <3>. QED  BY <1>1, <1>3, <3>1
  <2>5. TypeOK'
    BY <1>1, <1>2, <1>3, <2>2, <2>3, <2>4 DEF StreamInv, TypeOK, Given
  <2>6. chacha'[s].key > draws /\ turbo'[s].seed > draws /\ draws' >= draws
    BY <1>1, <1>3, <2>1, <2>2
  <2>. QED  BY <1>2, <1>3, <2>2, <2>5, <2>6, DrawStep
<1>4. CASE Goto(s, "create", "failed") /\ NotGiven /\ UNCHANGED <<chacha, turbo, draws>>
  <2>1. /\ stage' = [stage EXCEPT ![s] = "failed"] /\ stage'[s] = "failed"
        /\ chacha' = [chacha EXCEPT ![s] = chacha'[s]] /\ turbo' = [turbo EXCEPT ![s] = turbo'[s]]
    BY <1>1, <1>4 DEF Goto
  <2>2. TypeOK'
    BY <1>1, <1>2, <1>4, <2>1 DEF StreamInv, TypeOK, NotGiven
  <2>3. draws' >= draws
    BY <1>1, <1>4
  <2>. QED  BY <1>2, <2>1, <2>2, <2>3, DrawStep
<1>. QED  BY <1>3, <1>4 DEF Create

LEMMA ReseedKeeps ==
  ASSUME StreamInv, NEW s \in Streams, Reseed(s)
  PROVE  StreamInv'
<1>1. /\ stage \in [Streams -> {"create", "reseed", "fill", "done", "failed"}]
      /\ chacha \in [Streams -> [key : 0 .. draws, counter : 0 .. Wrap - 1]]
      /\ turbo \in [Streams -> [seed : 0 .. draws, words : Nat]]
      /\ draws \in Nat /\ failures \in 0 .. MaxFailures /\ MaxFailures \in Nat
      /\ pass \in Nat
  BY RngAssumption DEF StreamInv, TypeOK
<1>2. /\ UNCHANGED <<mode, chunk, pass, output>> /\ stage[s] = "reseed"
      /\ stage' = [stage EXCEPT ![s] = "fill"]
  BY DEF Reseed, Goto
<1>3. stage'[s] = "fill" /\ s \in Live /\ stage' = [stage EXCEPT ![s] = stage'[s]]
  BY <1>1, <1>2 DEF Live
<1>4. Keyed(draws + 1, pass + 1) \in [key : {draws + 1}, counter : 0 .. Wrap - 1]
  <2>1. (pass + 1) % Wrap \in 0 .. Wrap - 1
    BY <1>1, ModSame
  <2>. QED  BY <2>1 DEF Keyed
<1>5. CASE NotGiven /\ UNCHANGED <<chacha, turbo, draws>>
  <2>1. chacha' = [chacha EXCEPT ![s] = chacha'[s]] /\ turbo' = [turbo EXCEPT ![s] = turbo'[s]]
    BY <1>1, <1>5
  <2>2. TypeOK'
    BY <1>1, <1>2, <1>5 DEF StreamInv, TypeOK, NotGiven
  <2>3. draws' >= draws
    BY <1>1, <1>5
  <2>. QED  BY <1>2, <1>3, <1>5, <2>1, <2>2, <2>3, DrawStep
<1>6. CASE /\ chacha' = [chacha EXCEPT ![s] = Keyed(draws + 1, pass + 1)]
           /\ NotGiven /\ draws' = draws + 1 /\ UNCHANGED turbo
  <2>1. chacha'[s] = Keyed(draws + 1, pass + 1) /\ chacha'[s].key = draws + 1
    BY <1>1, <1>4, <1>6
  <2>2. \A t \in Streams : /\ chacha[t] \in [key : 0 .. draws', counter : 0 .. Wrap - 1]
                           /\ turbo[t] \in [seed : 0 .. draws', words : Nat]
    BY <1>1, <1>6
  <2>3. Keyed(draws + 1, pass + 1) \in [key : 0 .. draws', counter : 0 .. Wrap - 1]
    BY <1>1, <1>4, <1>6
  <2>4. /\ chacha' \in [Streams -> [key : 0 .. draws', counter : 0 .. Wrap - 1]]
        /\ turbo' \in [Streams -> [seed : 0 .. draws', words : Nat]]
    BY <1>1, <1>6, <2>2, <2>3
  <2>5. TypeOK'
    BY <1>1, <1>2, <1>6, <2>4 DEF StreamInv, TypeOK, NotGiven
  <2>6. turbo' = [turbo EXCEPT ![s] = turbo'[s]] /\ chacha' = [chacha EXCEPT ![s] = chacha'[s]]
    BY <1>1, <1>6, <2>1
  <2>7. chacha'[s].key > draws /\ draws' >= draws /\ turbo'[s] = turbo[s]
    BY <1>1, <1>6, <2>1
  <2>. QED  BY <1>2, <1>3, <2>5, <2>6, <2>7, DrawStep
<1>7. CASE /\ chacha' = [chacha EXCEPT ![s] = Keyed(draws + 1, pass + 1)]
           /\ Given /\ draws' = draws + 2
           /\ turbo' = [turbo EXCEPT ![s] = [seed |-> draws + 2, words |-> 0]]
  <2>1. /\ chacha'[s] = Keyed(draws + 1, pass + 1) /\ chacha'[s].key = draws + 1
        /\ turbo'[s] = [seed |-> draws + 2, words |-> 0] /\ turbo'[s].seed = draws + 2
    BY <1>1, <1>4, <1>7
  <2>2. \A t \in Streams : /\ chacha[t] \in [key : 0 .. draws', counter : 0 .. Wrap - 1]
                           /\ turbo[t] \in [seed : 0 .. draws', words : Nat]
    BY <1>1, <1>7
  <2>3. /\ Keyed(draws + 1, pass + 1) \in [key : 0 .. draws', counter : 0 .. Wrap - 1]
        /\ [seed |-> draws + 2, words |-> 0] \in [seed : 0 .. draws', words : Nat]
    BY <1>1, <1>4, <1>7
  <2>4. /\ chacha' \in [Streams -> [key : 0 .. draws', counter : 0 .. Wrap - 1]]
        /\ turbo' \in [Streams -> [seed : 0 .. draws', words : Nat]]
    BY <1>1, <1>7, <2>2, <2>3
  <2>5. TypeOK'
    BY <1>1, <1>2, <1>7, <2>4 DEF StreamInv, TypeOK, Given
  <2>6. turbo' = [turbo EXCEPT ![s] = turbo'[s]] /\ chacha' = [chacha EXCEPT ![s] = chacha'[s]]
    BY <1>7, <2>1
  <2>7. chacha'[s].key > draws /\ draws' >= draws /\ turbo'[s].seed > draws
    BY <1>1, <1>7, <2>1
  <2>. QED  BY <1>2, <1>3, <2>5, <2>6, <2>7, DrawStep
<1>. QED  BY <1>5, <1>6, <1>7 DEF Reseed

LEMMA FillKeeps ==
  ASSUME StreamInv, NEW s \in Streams, Fill(s)
  PROVE  StreamInv'
<1>1. PICK n, src, fc, ft, r : FillStep(s, n, src, fc, ft, r)
  BY FillForm
<1>2. TypeOK' /\ OutputInv'
  BY <1>1, FillTypes
<1>. QED  BY <1>1, <1>2, FillPlaces, FillOwners, FillCounters, FillFresh DEF StreamInv

\* The end of a stream, and a step that does nothing.
LEMMA DoneKeeps ==
  ASSUME StreamInv, (\E s \in Streams : Done(s)) \/ UNCHANGED vars
  PROVE  StreamInv'
<1>1. /\ UNCHANGED <<mode, chunk, pass, chacha, turbo, failures, draws, output>>
      /\ \/ stage' = stage
         \/ \E s \in Streams : stage[s] = "fill" /\ stage' = [stage EXCEPT ![s] = "done"]
  BY DEF Done, Goto, vars
<1>2. stage \in [Streams -> {"create", "reseed", "fill", "done", "failed"}]
  BY DEF StreamInv, TypeOK
<1>3. stage' \in [Streams -> {"create", "reseed", "fill", "done", "failed"}]
  BY <1>1, <1>2
<1>4. /\ Live' = Live
      /\ \A t \in Streams : stage'[t] \notin {"fill", "done"} => stage[t] \notin {"fill", "done"}
  BY <1>1, <1>2 DEF Live
<1>5. TypeOK' /\ OutputInv'
  BY <1>1, <1>3 DEF StreamInv, TypeOK, OutputInv
<1>6. PlaceInv'
  BY <1>1, <1>4 DEF StreamInv, PlaceInv, FilledOnce
<1>7. OwnerInv' /\ CounterInv' /\ FreshInv'
  BY <1>1, <1>4 DEF StreamInv, OwnerInv, CounterInv, FreshInv
<1>. QED  BY <1>5, <1>6, <1>7 DEF StreamInv

\* The next pass begins without a stream and without a block.
LEMMA NextPassKeeps ==
  ASSUME StreamInv, NextPass
  PROVE  StreamInv'
<1>1. /\ pass < LastPass /\ pass' = pass + 1 /\ stage' = [s \in Streams |-> "create"]
      /\ UNCHANGED <<mode, chunk, chacha, turbo, failures, draws, output>>
      /\ pass \in 1 .. LastPass /\ LastPass \in Nat
  BY RngAssumption DEF NextPass, StreamInv, TypeOK
<1>2. TypeOK'
  BY <1>1 DEF StreamInv, TypeOK
<1>3. Live' = {}
  BY <1>1 DEF Live
<1>4. \A b \in output : b.pass <= pass /\ b.pass \in Nat
  BY DEF StreamInv, OutputInv, Block
<1>5. \A s : Mine(output, s, pass + 1) = {}
  <2>1. \A b \in output : b.pass # pass + 1
    BY <1>1, <1>4
  <2>. QED  BY <2>1 DEF Mine
<1>6. OutputInv'
  <2>1. \A b \in output : b.pass <= pass + 1
    BY <1>1, <1>4
  <2>. QED  BY <1>1, <2>1 DEF StreamInv, OutputInv
<1>7. PlaceInv'
  <2>1. FilledOnce'
    <3>. SUFFICES ASSUME NEW s \in Streams, NEW p \in 1 .. pass + 1
                  PROVE  { b.at : b \in Mine(output, s, p) } =
                           0 .. Cardinality(Mine(output, s, p)) - 1
      BY <1>1 DEF FilledOnce, Mine
    <3>1. CASE p = pass + 1
      <4>1. Mine(output, s, p) = {} /\ Cardinality(Mine(output, s, p)) = 0
        BY <1>5, <3>1, FS_EmptySet
      <4>. QED  BY <4>1
    <3>2. CASE p # pass + 1
      <4>1. p \in 1 .. pass
        BY <1>1, <3>2
      <4>. QED  BY <4>1 DEF StreamInv, PlaceInv, FilledOnce, Mine
    <3>. QED  BY <3>1, <3>2
  <2>. QED  BY <1>1, <1>5, <2>1 DEF PlaceInv
<1>8. OwnerInv' /\ CounterInv' /\ FreshInv'
  BY <1>1, <1>3 DEF StreamInv, OwnerInv, CounterInv, FreshInv
<1>. QED  BY <1>2, <1>6, <1>7, <1>8 DEF StreamInv

\* The invariant holds of every run.
THEOREM StreamInvariance ==
  Spec => []StreamInv
<1>1. StreamInv /\ [Next]_vars => StreamInv'
  BY CreateKeeps, ReseedKeeps, FillKeeps, DoneKeeps, NextPassKeeps DEF Next
<1>. QED  BY <1>1, StreamInit, PTL DEF Spec

-----------------------------------------------------------------------------
\* Each worker fills its piece from the front, block by block, each place once
\* in a pass, whatever the chunk size leaves for the last round (worker_thread
\* of wipe.c with rng_fill of rng.c).
THEOREM PiecesFilled ==
  Spec => []FilledOnce
<1>1. StreamInv => FilledOnce
  BY DEF StreamInv, PlaceInv
<1>. QED  BY <1>1, StreamInvariance, PTL

\* Two blocks of the same bytes come only from a stream that has put out more
\* blocks of ChaCha20 in one pass than its counter has values; and os-chunk's
\* zeros are the other exception (rng_create, rng_reseed_pass and rng_fill of
\* rng.c, chacha20.c).
THEOREM BlocksDiffer ==
  Spec => []NoBlockTwice
<1>1. StreamInv => NoBlockTwice
  <2>. SUFFICES ASSUME StreamInv, NEW a \in output, NEW b \in output,
                       a # b, a.source = b.source, a.source[1] # "zero"
                PROVE  Cardinality(ChaChaOf(output, a.stream, a.pass)) > Wrap
    BY DEF NoBlockTwice, ChaChaOf
  <2>1. a.source[1] \in {"chacha", "turbo", "os"}
    <3>1. a.source \in Sources
      BY DEF StreamInv, OutputInv, Block
    <3>. QED  BY <3>1 DEF Sources
  <2>2. a.source[1] \notin {"turbo", "os"}
    BY DEF StreamInv, FreshInv
  <2>. QED  BY <2>1, <2>2 DEF StreamInv, CounterInv
<1>. QED  BY <1>1, StreamInvariance, PTL
=============================================================================
