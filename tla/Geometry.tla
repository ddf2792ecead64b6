------------------------------ MODULE Geometry ------------------------------
(***************************************************************************)
(* The two sizes that the ranges of a target and the chunks of a pass are  *)
(* cut by.                                                                 *)
(***************************************************************************)
EXTENDS OwArith

CONSTANTS
  Sector,   \* geo.logical_sector_size, which target_resolve never leaves at 0
  Chunk     \* cfg.chunk_size

ASSUME GeometryAssumption == Sector \in Nat \ {0} /\ Chunk \in Nat
=============================================================================
