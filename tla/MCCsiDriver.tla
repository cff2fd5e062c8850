----------------------------- MODULE MCCsiDriver -----------------------------
(***************************************************************************)
(* TLC instances of CsiDriver.  All volumes share one source path, as      *)
(* nothing depends on which; NoNode is the one node without a plugin.      *)
(***************************************************************************)
EXTENDS CsiDriver, TLC

CONSTANT p1

MCDefaultPath == [n \in Names |-> p1]

Symmetry == Permutations(Requests) \cup Permutations(Ids) \cup Permutations(Names)
            \cup Permutations(Hosts) \cup Permutations(TargetPaths)
=============================================================================
