------------------------------ MODULE RngStream ------------------------------
(***************************************************************************)
(* Where the bytes of a pass come from: rng.c, the block counter of        *)
(* chacha20.c, and their use by the engines of wipe.c.  Every thread has a *)
(* stream of its own, which each pass creates and reseeds; each chunk is   *)
(* filled and written, and a failure of the system's random source is      *)
(* never noticed by the engine once a stream exists.                       *)
(*                                                                         *)
(* Output is counted in blocks of ChaCha20 (64 bytes; sectors, and so      *)
(* chunks, are whole blocks).  A key or seed is symbolic: the number of    *)
(* the draw it comes from, for what mix_key adds to a fresh key leaves it  *)
(* fresh.  A block is known by what it is computed from.                   *)
(***************************************************************************)
EXTENDS Integers, FiniteSets

CONSTANTS
  Streams,    \* the threads
  Piece,      \* blocks that each of them writes in a pass
  ChunkSizes, \* cfg.chunk_size may be
  Edge,       \* what hybrid takes from ChaCha20 at either end: 4096 bytes
  Wrap,       \* where state[12] wraps: 2^32 blocks
  LastPass,
  MaxFailures \* bound: how often the system's random source fails in a run

ASSUME RngAssumption ==
  /\ Streams \subseteq Nat /\ Piece \in Nat /\ ChunkSizes \subseteq Nat \ {0}
  /\ {Edge, Wrap, LastPass} \subseteq Nat \ {0}
  /\ MaxFailures \in Nat

VARIABLES
  mode,    \* cfg.rng; never changes
  chunk,   \* cfg.chunk_size; never changes
  pass,    \* from 1 on
  stage,   \* of each stream: "create", "reseed", "fill", "done", "failed"
  chacha,  \* its chacha_state: [key, counter]
  turbo,   \* its turbo_s: [seed, words], words being what it has put out
  failures, \* times it has not
  draws,   \* keys, seeds and chunks that the system's random source has given
  output   \* history: what has been written, block by block

vars == <<mode, chunk, pass, stage, chacha, turbo, failures, draws, output>>

Modes == {"turbo", "vault", "hybrid", "os-chunk"}

Init ==
  /\ mode \in Modes /\ chunk \in ChunkSizes /\ pass = 1
  /\ stage = [s \in Streams |-> "create"]
  /\ chacha = [s \in Streams |-> [key |-> 0, counter |-> 0]]
  /\ turbo = [s \in Streams |-> [seed |-> 0, words |-> 0]]
  /\ draws = 0 /\ failures = 0 /\ output = {}

\* The system's random source gives what it is asked for, or does not.
Given == UNCHANGED failures
NotGiven == failures < MaxFailures /\ failures' = failures + 1

Goto(s, from, to) == stage[s] = from /\ stage' = [stage EXCEPT ![s] = to]

\* The state that chacha20_init leaves, with the key of the n-th draw.
Keyed(n, counter) == [key |-> n, counter |-> counter % Wrap]

\* rng_create: a key and a seed, or no stream, and the pass fails.  The streams
\* are created in the order of the threads, which start at once.
Create(s) ==
  /\ \A t \in Streams : t < s => stage[t] \in {"fill", "done"}
  /\ \/ /\ Goto(s, "create", "reseed")
        /\ chacha' = [chacha EXCEPT ![s] = Keyed(draws + 1, 1)]
        /\ turbo' = [turbo EXCEPT ![s] = [seed |-> draws + 2, words |-> 0]]
        /\ draws' = draws + 2 /\ Given
     \/ Goto(s, "create", "failed") /\ NotGiven /\ UNCHANGED <<chacha, turbo, draws>>
  /\ UNCHANGED <<mode, chunk, pass, output>>

\* Mutant of Reseed: one key for all streams.
ReseedSameKey(s) ==
  /\ Goto(s, "reseed", "fill")
  /\ chacha' = [chacha EXCEPT ![s] = Keyed(1, pass + 1)]
  /\ UNCHANGED <<mode, chunk, pass, turbo, failures, draws, output>>

\* rng_reseed_pass, whose result nobody looks at: if the system fails at once,
\* the stream stays what it was; if it fails later, only the seed does.
Reseed(s) ==
  /\ Goto(s, "reseed", "fill")
  /\ \/ NotGiven /\ UNCHANGED <<chacha, turbo, draws>>
     \/ /\ chacha' = [chacha EXCEPT ![s] = Keyed(draws + 1, pass + 1)]
        /\ \/ NotGiven /\ draws' = draws + 1 /\ UNCHANGED turbo
           \/ Given /\ draws' = draws + 2
              /\ turbo' = [turbo EXCEPT ![s] = [seed |-> draws + 2, words |-> 0]]
  /\ UNCHANGED <<mode, chunk, pass, output>>

Written(s) == { b \in output : b.stream = s /\ b.pass = pass }
Offset(s) == Cardinality({ b.at : b \in Written(s) })

\* n blocks of a source, put at a place of the buffer.
Blocks(s, place, n, source) ==
  { [stream |-> s, pass |-> pass, at |-> Offset(s) + place + k, source |-> source[k]] :
      k \in 0 .. n - 1 }

\* chacha20_xor, from its i-th block in this call on; and turbo_fill.
ChaChaBlocks(s, place, n, i) ==
  Blocks(s, place, n,
         [k \in 0 .. n - 1 |-> <<"chacha", chacha[s].key, (chacha[s].counter + i + k) % Wrap>>])
TurboBlocks(s, place, n) ==
  Blocks(s, place, n, [k \in 0 .. n - 1 |-> <<"turbo", turbo[s].seed, turbo[s].words + k>>])
OsBlocks(s, n) == Blocks(s, 0, n, [k \in 0 .. n - 1 |-> <<"os", draws + 1, k>>])
Zeros(s, n) == Blocks(s, 0, n, [k \in 0 .. n - 1 |-> <<"zero", 0, 0>>])

\* Whether rng_fill, with hybrid, takes the middle of n blocks from xoshiro.
Hybrid(n) == n > 2 * Edge
\* Mutant of Middle: only one of the edges is left out.
MiddleToEnd(n) == n - Edge
Middle(n) == n - 2 * Edge

ToWrite(s) == IF Piece - Offset(s) < chunk THEN Piece - Offset(s) ELSE chunk

Put(s, blocks, fromChaCha, fromTurbo) ==
  /\ output' = output \cup blocks
  /\ chacha' = [chacha EXCEPT ![s].counter = (@ + fromChaCha) % Wrap]
  /\ turbo' = [turbo EXCEPT ![s].words = @ + fromTurbo]

\* One round of a worker's loop: rng_fill and a write.
Fill(s) ==
  LET n == ToWrite(s) IN
  /\ stage[s] = "fill" /\ n > 0
  /\ \/ /\ mode = "os-chunk" /\ Given /\ draws' = draws + 1
        /\ Put(s, OsBlocks(s, n), 0, 0)
     \/ /\ mode = "os-chunk" /\ NotGiven /\ UNCHANGED draws
        /\ Put(s, Zeros(s, n), 0, 0)
     \/ /\ mode = "turbo" /\ UNCHANGED <<draws, failures>>
        /\ Put(s, TurboBlocks(s, 0, n), 0, n)
     \/ /\ mode = "vault" \/ (mode = "hybrid" /\ ~Hybrid(n))
        /\ UNCHANGED <<draws, failures>>
        /\ Put(s, ChaChaBlocks(s, 0, n, 0), n, 0)
     \/ /\ mode = "hybrid" /\ Hybrid(n) /\ UNCHANGED <<draws, failures>>
        /\ Put(s, ChaChaBlocks(s, 0, Edge, 0) \cup TurboBlocks(s, Edge, Middle(n))
                    \cup ChaChaBlocks(s, n - Edge, Edge, Edge),
               2 * Edge, Middle(n))
  /\ UNCHANGED <<mode, chunk, pass, stage>>

\* rng_destroy, after the last chunk.
Done(s) ==
  /\ ToWrite(s) = 0 /\ Goto(s, "fill", "done")
  /\ UNCHANGED <<mode, chunk, pass, chacha, turbo, failures, draws, output>>

\* The next pass creates its streams anew.
NextPass ==
  /\ pass < LastPass /\ \A s \in Streams : stage[s] = "done"
  /\ pass' = pass + 1 /\ stage' = [s \in Streams |-> "create"]
  /\ UNCHANGED <<mode, chunk, chacha, turbo, failures, draws, output>>

Next == (\E s \in Streams : Create(s) \/ Reseed(s) \/ Fill(s) \/ Done(s)) \/ NextPass

Spec == Init /\ [][Next]_vars
-----------------------------------------------------------------------------
TypeOK ==
  /\ mode \in Modes /\ chunk \in ChunkSizes /\ pass \in 1 .. LastPass
  /\ stage \in [Streams -> {"create", "reseed", "fill", "done", "failed"}]
  /\ chacha \in [Streams -> [key : 0 .. draws, counter : 0 .. Wrap - 1]]
  /\ turbo \in [Streams -> [seed : 0 .. draws, words : Nat]]
  /\ draws \in Nat /\ failures \in 0 .. MaxFailures

\* What is written has been filled to the last block, and no block twice: for
\* each place on the target and each pass there is one source, and no gap.
FilledOnce ==
  \A s \in Streams :
    \A p \in 1 .. pass :
      LET mine == { b \in output : b.stream = s /\ b.pass = p }
      IN  { b.at : b \in mine } = 0 .. Cardinality(mine) - 1

\* No two blocks on the target, nor one block in two passes, are the same bytes
\* by construction, whatever calls to the system's random source fail: streams
\* share no key, a reseed leaves none behind, and the block counter, which
\* wraps, does not come round.  (Left out: a stream that puts out more blocks
\* in one pass than the counter has values, and what os-chunk fills with zeros.)
NoBlockTwice ==
  \A a, b \in output :
    /\ a # b /\ a.source = b.source
    /\ a.source[1] # "zero"
    => Cardinality({ c \in output : /\ c.stream = a.stream /\ c.pass = a.pass
                                    /\ c.source[1] = "chacha" }) > Wrap

(***************************************************************************)
(* What the documentation says and the code does not do.                   *)
(***************************************************************************)

\* "os-chunk - OS CSPRNG per chunk": no chunk holds anything else.
OsChunkIsRandom == \A b \in output : b.source[1] # "zero"

\* What was written over never comes from the same stream twice, however long
\* the stream is.
NeverTwice ==
  \A a, b \in output : a # b /\ a.source = b.source => a.source[1] = "zero"
=============================================================================
