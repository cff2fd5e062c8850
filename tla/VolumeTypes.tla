----------------------------- MODULE VolumeTypes -----------------------------
(***************************************************************************)
(* The shared types of pkg/types/types.go: the volume record and the       *)
(* status values it may carry.  Names, paths and node IDs are opaque; the  *)
(* two timestamps and the backend's name (always "local", the only one     *)
(* registered) are left out.                                               *)
(***************************************************************************)
EXTENDS Sequences

CONSTANTS
  Ids,          \* volume IDs (uuid.New())
  Names,        \* volume names
  SourcePaths,  \* values of a volume's parameter "path"
  TargetPaths,  \* staging and target paths that requests carry
  Nodes,        \* node IDs that stage and publish requests carry
  NULL          \* an absent key, an unset local variable, no answer yet

VolumeStatus == {"created", "staging", "staged", "published", "failed"}

Volume == [name        : Names,
           path        : SourcePaths,
           status      : VolumeStatus,
           stagedOn    : Seq(Nodes),
           publishedOn : Seq(Nodes)]

\* NULL is none of the values it stands in for.
ASSUME NullAssumption ==
  NULL \notin Ids \cup Names \cup SourcePaths \cup TargetPaths \cup Nodes \cup Volume
=============================================================================
