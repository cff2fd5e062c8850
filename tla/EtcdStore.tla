------------------------------ MODULE EtcdStore ------------------------------
(***************************************************************************)
(* The metadata store of pkg/store/etcd.go: two families of etcd keys,     *)
(*   /volumes/<id>           the volume's JSON record     (volumes)        *)
(*   /volume-names/<name>    the ID the name belongs to   (names)          *)
(* A key that is not there is NULL.  Every operator below is ONE request   *)
(* to etcd, which etcd executes atomically (its reads are linearizable, so *)
(* several managers over one cluster see the same keys).  A method of      *)
(* EtcdStore is two such requests; the modules that use this one say what  *)
(* happens between them.                                                   *)
(***************************************************************************)
EXTENDS VolumeTypes

VARIABLES
  volumes,      \* volumes[id]: the value of key /volumes/<id>
  names         \* names[n]: the value of key /volume-names/<n>

storeVars == <<volumes, names>>

StoreTypeOK ==
  /\ volumes \in [Ids -> Volume \cup {NULL}]
  /\ names \in [Names -> Ids \cup {NULL}]

StoreInit ==
  /\ volumes = [id \in Ids |-> NULL]
  /\ names = [n \in Names |-> NULL]

-----------------------------------------------------------------------------
\* Plausible bugs of the store, used by the mutation checks only.

\* The transaction trusts the Get that preceded it and drops the If().
CommitCreateBlind(id, v) ==
  /\ volumes' = [volumes EXCEPT ![id] = v]
  /\ names' = [names EXCEPT ![v.name] = id]

\* The name mapping is forgotten: only the volume's key is deleted.
CommitDeleteKeepsName(id, n) ==
  /\ volumes' = [volumes EXCEPT ![id] = NULL]
  /\ UNCHANGED names

\* The volume's key is forgotten: only the name mapping is deleted.
CommitDeleteKeepsVolume(id, n) ==
  /\ names' = [names EXCEPT ![n] = NULL]
  /\ UNCHANGED volumes

\* The transaction deletes the volume the NAME maps to.
CommitDeleteByName(id, n) ==
  /\ volumes' = [i \in Ids |-> IF i = names[n] THEN NULL ELSE volumes[i]]
  /\ names' = [names EXCEPT ![n] = NULL]

-----------------------------------------------------------------------------
\* Txn.If(Version(nameKey) = 0).Then(Put volumeKey, Put nameKey)
NameIsFree(n) == names[n] = NULL

CommitCreate(id, v) ==
  IF NameIsFree(v.name)
    THEN /\ volumes' = [volumes EXCEPT ![id] = v]
         /\ names' = [names EXCEPT ![v.name] = id]
    ELSE UNCHANGED storeVars

\* Txn.Then(Delete volumeKey, Delete nameKey): no If(), so it deletes
\* whatever the two keys hold by then.
CommitDelete(id, n) ==
  /\ volumes' = [volumes EXCEPT ![id] = NULL]
  /\ names' = [names EXCEPT ![n] = NULL]

\* Put volumeKey: an upsert, whether or not the key is still there.
PutVolume(id, v) ==
  /\ volumes' = [volumes EXCEPT ![id] = v]
  /\ UNCHANGED names
=============================================================================
