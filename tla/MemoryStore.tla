----------------------------- MODULE MemoryStore -----------------------------
(***************************************************************************)
(* The in-memory metadata store of pkg/store/memory.go: a map from IDs to  *)
(* pointers and a map from names to IDs, under one lock.  Each operator is *)
(* a method of the store, atomic because it holds the lock to its end.     *)
(*                                                                         *)
(* The store hands out the pointer it keeps, and nothing ever copies a     *)
(* volume: there is one object per ID, it outlives its deletion in the     *)
(* goroutines that hold it, and whoever holds it reads and writes it       *)
(* without the lock.                                                       *)
(***************************************************************************)
EXTENDS Naturals, Sequences

CONSTANTS
  Requests,   \* the requests that ever arrive: bounds a behaviour
  Ids,        \* volume IDs (uuid.New())
  Names,      \* volume names
  NULL        \* a nil pointer, a missing key, no value yet

VARIABLES
  stored,     \* the IDs that are keys of the map `volumes`
  names,      \* names[n]: the ID that name n maps to, or NULL
  object      \* object[id]: the volume on the heap, NULL before it is made

storeVars == <<stored, names, object>>

\* A slice is three words: the array of a request's append, or nil, the
\* length and the capacity.
Words == {"ptr", "len", "cap"}
EmptyList == [ptr |-> NULL, len |-> 0, cap |-> 0]

Slice == [ptr : Requests \cup {NULL}, len : Nat, cap : Nat]

\* StagedOn is to HandleStage what PublishedOn is to HandlePublish, and the
\* two have no word in common: one of them will do.  Status, UpdatedAt and
\* what never changes are left out, too.
Object == [name : Names, publishedOn : Slice]

StoreTypeOK ==
  /\ stored \subseteq Ids
  /\ names \in [Names -> Ids \cup {NULL}]
  /\ object \in [Ids -> Object \cup {NULL}]

StoreInit ==
  /\ stored = {}
  /\ names = [n \in Names |-> NULL]
  /\ object = [id \in Ids |-> NULL]

-----------------------------------------------------------------------------
\* NewVolume's object, which only its handler knows until it is stored.
NewObject(n) == [name |-> n, publishedOn |-> EmptyList]

\* CreateVolume: ErrAlreadyExists unless both the ID and the name are free.
Creatable(id, n) == id \notin stored /\ names[n] = NULL

CreateVolume(id, n) ==
  IF Creatable(id, n)
    THEN /\ stored' = stored \cup {id}
         /\ names' = [names EXCEPT ![n] = id]
         /\ object' = [object EXCEPT ![id] = NewObject(n)]
    ELSE UNCHANGED storeVars

\* A bug for the mutation checks: the volume is put whether it is there or not.
UpdateVolumeBlind(id) ==
  /\ stored' = stored \cup {id}
  /\ UNCHANGED <<names, object>>

\* UpdateVolume: ErrNotFound, or the pointer replaces itself.
UpdateVolume(id) == UNCHANGED storeVars

\* DeleteVolume: ErrNotFound, or both keys go; the object stays with those
\* who hold it.
DeleteVolume(id) ==
  /\ stored' = stored \ {id}
  /\ names' = IF id \in stored THEN [names EXCEPT ![object[id].name] = NULL] ELSE names
  /\ UNCHANGED object
=============================================================================
