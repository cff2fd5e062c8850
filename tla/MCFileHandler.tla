---------------------------- MODULE MCFileHandler ----------------------------
(***************************************************************************)
(* TLC instances of FileHandler: a directory, and a file in it.            *)
(***************************************************************************)
EXTENDS FileHandler, TLC

CONSTANTS dir, file

MCAncestors == (dir :> {}) @@ (file :> {dir})

Symmetry == Permutations(Readers) \cup Permutations(Requests \ Readers)
=============================================================================
