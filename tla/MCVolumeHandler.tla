--------------------------- MODULE MCVolumeHandler ---------------------------
(***************************************************************************)
(* TLC instances of VolumeHandler: the symmetry of its model values, all   *)
(* of which are only ever compared for equality.                           *)
(***************************************************************************)
EXTENDS VolumeHandler, TLC

Symmetry == Permutations(Requests) \cup Permutations(Ids) \cup Permutations(Names)
            \cup Permutations(Nodes) \cup Permutations(TargetPaths)
=============================================================================
