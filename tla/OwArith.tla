------------------------------- MODULE OwArith -------------------------------
(***************************************************************************)
(* The integer helpers of common.c that the wipe engine is built from.     *)
(* Quantities are byte counts; none of the callers gets near 2^64, so the  *)
(* operators are over Nat.  C's unsigned subtraction "a - b" is written as *)
(* it stands, and the modules that use it check that a >= b.               *)
(***************************************************************************)
EXTENDS Integers

\* ow_min_u64
OwMin(a, b) == IF a < b THEN a ELSE b

\* ow_align_down: the largest multiple of alignment not above value; an
\* alignment of 0 leaves the value alone.
AlignDown(value, alignment) ==
  IF alignment = 0 THEN value ELSE value - (value % alignment)

\* ow_align_up
AlignUp(value, alignment) ==
  IF alignment = 0 \/ (value % alignment) = 0 THEN value
  ELSE value + (alignment - (value % alignment))

\* ow_is_power_of_two
IsPowerOfTwo(value) == \E k \in 0 .. value : value = 2 ^ k

\* The bytes of the half-open range [first, last).
Bytes(first, last) == first .. (last - 1)
=============================================================================
