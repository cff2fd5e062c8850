--------------------------- MODULE MCMemoryHandler ---------------------------
(***************************************************************************)
(* TLC instances of MemoryHandler: the symmetry of its model values, all   *)
(* of which are only ever compared for equality.                           *)
(***************************************************************************)
EXTENDS MemoryHandler, TLC

Symmetry == Permutations(Requests) \cup Permutations(Ids)
=============================================================================
