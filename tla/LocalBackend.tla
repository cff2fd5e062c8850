---------------------------- MODULE LocalBackend ----------------------------
(***************************************************************************)
(* The "local" storage backend of pkg/storage/local/backend.go, as the     *)
(* host's filesystem sees it: which directories exist, and which target    *)
(* directories hold the .volume-mount marker that stands for a bind mount  *)
(* (with the source path written in it).                                   *)
(***************************************************************************)
EXTENDS VolumeTypes

VARIABLES
  dirs,         \* directories that exist
  markers       \* markers[t]: the source named in t/.volume-mount, or NULL

backendVars == <<dirs, markers>>

BackendTypeOK ==
  /\ dirs \subseteq SourcePaths \cup TargetPaths
  /\ markers \in [TargetPaths -> SourcePaths \cup {NULL}]

BackendInit ==
  /\ dirs = {}
  /\ markers = [t \in TargetPaths |-> NULL]

-----------------------------------------------------------------------------
\* A plausible bug, used by the mutation checks only: the marker is written
\* and the result of writing it is not looked at.
PublishIgnoringMarker(v, target) ==
  /\ dirs' = dirs \cup {target}
  /\ UNCHANGED markers

-----------------------------------------------------------------------------
\* MkdirAll of the source, then of the staging path.
Stage(v, staging) ==
  /\ dirs' = dirs \cup {v.path, staging}
  /\ UNCHANGED markers

\* One of the two MkdirAll fails: nothing is made, or the source alone.
StageFails(v, staging) ==
  /\ dirs' \in {dirs, dirs \cup {v.path}}
  /\ UNCHANGED markers

\* MkdirAll of the target, then the marker (which replaces an older one).
\* The source directory is neither made nor looked at.
Publish(v, target) ==
  /\ dirs' = dirs \cup {target}
  /\ markers' = [markers EXCEPT ![target] = v.path]

\* MkdirAll fails, or it succeeds and the marker cannot be written.  WriteFile
\* may have truncated an older marker then: it is still there, and nothing in
\* the code reads what a marker says.
PublishFails(v, target) ==
  /\ dirs' \in {dirs, dirs \cup {target}}
  /\ UNCHANGED markers
=============================================================================
