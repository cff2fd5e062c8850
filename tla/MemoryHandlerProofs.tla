-------------------------- MODULE MemoryHandlerProofs --------------------------
(***************************************************************************)
(* Theorems about the handlers over the in-memory store, for any number of *)
(* requests, IDs, names and nodes.                                         *)
(*                                                                         *)
(* They keep their types, and implement VolumeCatalog, the live volumes    *)
(* being those that the map of volumes holds: HandleCreate draws an ID,    *)
(* CreateStep registers or refuses it, DeleteStep removes it or finds it   *)
(* gone; no other step, whatever words of a volume it loads or stores,     *)
(* changes what the catalogue sees.                                        *)
(*                                                                         *)
(* A publication that was acknowledged protects its volume, although the   *)
(* lists race: what is ever stored as a length is positive, so that a      *)
(* length never goes back to 0, and the check of a delete that arrives     *)
(* later finds it so.                                                      *)
(***************************************************************************)
EXTENDS MemoryHandler, SequenceTheorems, TLAPS

\* The steps at which a handler holds a pointer to a volume, and those of
\* them that are a publication's.
Holding == Steps \ {"idle", "done", "CreateVolume"}
Publishing == {"Append", "StorePtr", "StoreLen", "StoreEntry"}

\* A request under way has its parameters, and points to a volume that was
\* made, stored or not.
LocalOK(r) ==
  /\ pc[r] \notin {"idle", "done"} => req[r] \in Request /\ drawnFor[Id(r)] \in Names
  /\ pc[r] \in Holding => object[Id(r)] # NULL
  /\ pc[r] \in Publishing => req[r].node \in Nodes

Locals == \A r \in Requests : LocalOK(r)

\* A create under way is the only one for its ID, which is not stored yet.
PendingOK ==
  \A r \in Requests :
    pc[r] = "CreateVolume" =>
      /\ Id(r) \notin stored
      /\ \A q \in Requests : pc[q] = "CreateVolume" /\ Id(q) = Id(r) => q = r

\* The two maps agree: each stored volume has the name its ID was drawn for,
\* and this name leads to it; and names lead to stored volumes only.
MapsAgree ==
  /\ \A id \in stored :
       /\ object[id] # NULL /\ drawnFor[id] \in Names
       /\ object[id].name = drawnFor[id]
       /\ names[drawnFor[id]] = id
  /\ \A n \in Names : names[n] # NULL => names[n] \in stored /\ drawnFor[names[n]] = n

IndInv == TypeOK /\ Locals /\ PendingOK /\ MapsAgree

\* A step of request r that the catalogue does not see: at most words of a
\* slice change in the volumes.
Quiet(r) ==
  /\ UNCHANGED <<stored, names, drawnFor>>
  /\ \A q \in Requests \ {r} : pc'[q] = pc[q] /\ req'[q] = req[q]
  /\ pc[r] # "CreateVolume" /\ pc'[r] # "CreateVolume"
  /\ \A id \in Ids : object[id] # NULL => object'[id] # NULL /\ object'[id].name = object[id].name

QuietStep(r) ==
  \/ \E id \in Ids : HandleGet(r, id) \/ HandleDelete(r, id)
  \/ \E id \in Ids, node \in Nodes : HandlePublish(r, id, node)
  \/ Check(r)
  \/ Load(r)
  \/ AppendEntry(r)
  \/ StorePtr(r)
  \/ StoreLen(r)
  \/ StoreEntry(r)
  \/ UpdateStep(r)
  \/ Encode(r)

-----------------------------------------------------------------------------
LEMMA EmptyListType == EmptyList \in Slice
BY DEF EmptyList, Slice

LEMMA GrownCapType ==
  ASSUME NEW s \in Slice
  PROVE  GrownCap(s) \in Nat
BY DEF GrownCap, Slice

\* What a handler under way holds.
LEMMA Held ==
  ASSUME IndInv, NEW r \in Requests, pc[r] \in Holding
  PROVE  /\ req[r] \in Request /\ Id(r) \in Ids /\ drawnFor[Id(r)] \in Names
         /\ object[Id(r)] \in Object
         /\ Shared(r) \in Slice
<1>1. req[r] \in Request /\ Id(r) \in Ids /\ drawnFor[Id(r)] \in Names
  BY DEF IndInv, Locals, LocalOK, Holding, Request, Id
<1>2. object[Id(r)] \in Object
  BY <1>1 DEF IndInv, Locals, LocalOK, TypeOK, StoreTypeOK
<1> QED
  BY <1>1, <1>2 DEF Shared, Object

\* The store of a word into a volume keeps the volumes' types and names.
LEMMA StoreKeeps ==
  ASSUME IndInv, NEW r \in Requests, pc[r] \in Holding,
         NEW w \in Words, NEW value,
         w = "ptr" => value \in Requests \cup {NULL},
         w # "ptr" => value \in Nat,
         Store(r, w, value)
  PROVE  /\ object' \in [Ids -> Object \cup {NULL}]
         /\ \A id \in Ids : object[id] # NULL =>
              object'[id] # NULL /\ object'[id].name = object[id].name
<1> DEFINE id == Id(r)
           o  == object[id]
           s  == [o.publishedOn EXCEPT ![w] = value]
<1>1. id \in Ids /\ o \in Object
  BY Held
<1>2. s \in Slice
  <2>1. o.publishedOn \in Slice
    BY <1>1 DEF Object
  <2>2. CASE w = "ptr"
    BY <2>1, <2>2 DEF Slice
  <2>3. CASE w = "len"
    BY <2>1, <2>3 DEF Slice
  <2>4. CASE w = "cap"
    BY <2>1, <2>4 DEF Slice
  <2> QED
    BY <2>2, <2>3, <2>4 DEF Words
<1>3. object' = [object EXCEPT ![id] = [o EXCEPT !.publishedOn = s]]
  BY DEF Store
<1>4. [o EXCEPT !.publishedOn = s] \in Object /\ [o EXCEPT !.publishedOn = s].name = o.name
  BY <1>1, <1>2 DEF Object
<1>5. NULL \notin Object
  BY MemoryAssumption
<1> QED
  BY <1>1, <1>3, <1>4, <1>5 DEF IndInv, TypeOK, StoreTypeOK

\* Finish and ToEncode leave the locals well typed.
LEMMA FinishType ==
  ASSUME TypeOK, NEW r \in Requests, NEW code \in Replies, Finish(r, code)
  PROVE  /\ pc' \in [Requests -> Steps] /\ pc'[r] = "done"
         /\ reply' \in [Requests -> Replies \cup {NULL}]
         /\ slice' \in [Requests -> Slice]
         /\ \A q \in Requests \ {r} : pc'[q] = pc[q]
BY EmptyListType DEF TypeOK, Finish, Goto, LookAt, Steps

LEMMA ToEncodeType ==
  ASSUME TypeOK, NEW r \in Requests, NEW o \in Object, ToEncode(r, o)
  PROVE  /\ pc' \in [Requests -> Steps] /\ pc'[r] = "Encode"
         /\ slice' \in [Requests -> Slice]
         /\ \A q \in Requests \ {r} : pc'[q] = pc[q]
<1>1. [o.publishedOn EXCEPT !.cap = 0] \in Slice
  BY DEF Object, Slice
<1> QED
  BY <1>1 DEF TypeOK, ToEncode, Goto, LookAt, Steps

LEMMA GotoType ==
  ASSUME TypeOK, NEW r \in Requests, NEW step \in Steps, Goto(r, step)
  PROVE  /\ pc' \in [Requests -> Steps] /\ pc'[r] = step
         /\ \A q \in Requests \ {r} : pc'[q] = pc[q]
BY DEF TypeOK, Goto

\* An arrival records its request and leaves the store alone.
LEMMA ArriveType ==
  ASSUME TypeOK, NEW r \in Requests,
         NEW op \in {"create", "get", "delete", "publish"}, NEW id \in Ids,
         NEW node \in Nodes \cup {NULL}, Arrive(r, op, id, node)
  PROVE  /\ req' \in [Requests -> Request \cup {NULL}]
         /\ req'[r] \in Request /\ req'[r].id = id /\ req'[r].node = node
         /\ before' \in [Requests -> SUBSET Requests]
         /\ \A q \in Requests \ {r} : req'[q] = req[q]
         /\ pc[r] = "idle"
         /\ UNCHANGED <<stored, names, object, array, wild>>
<1> DEFINE x == [op |-> op, id |-> id, node |-> node]
<1>1. x \in Request
  BY DEF Request
<1>2. req' = [req EXCEPT ![r] = x]
  BY DEF Arrive
<1>3. before' \in [Requests -> SUBSET Requests]
  BY DEF Arrive, TypeOK
<1> QED
  BY <1>1, <1>2, <1>3 DEF Arrive, TypeOK, heapVars, storeVars

-----------------------------------------------------------------------------
\* What a quiet step of r leaves in order.
Kept(r) == TypeOK' /\ LocalOK(r)' /\ Quiet(r)

LEMMA HandleGetKeeps ==
  ASSUME IndInv, NEW r \in Requests, NEW id \in Ids, HandleGet(r, id)
  PROVE  Kept(r)
<1> USE DEF Kept, TypeOK, StoreTypeOK, LocalOK, Quiet, Holding, Publishing, Replies, Id
<1>1. TypeOK /\ MapsAgree
  BY DEF IndInv
<1>2. Arrive(r, "get", id, NULL) /\ drawnFor[id] \in Names /\ UNCHANGED drawnFor
  BY <1>1 DEF HandleGet, Known
<1>3. CASE Finish(r, "NotFound")
  BY <1>1, <1>2, <1>3, FinishType, ArriveType
<1>4. CASE id \in stored /\ ToEncode(r, object[id]) /\ UNCHANGED reply
  <2>1. object[id] # NULL /\ object[id] \in Object
    BY <1>1, <1>4 DEF MapsAgree
  <2> QED
    BY <1>1, <1>2, <1>4, <2>1, ToEncodeType, ArriveType
<1> QED
  BY <1>3, <1>4 DEF HandleGet

LEMMA HandleDeleteKeeps ==
  ASSUME IndInv, NEW r \in Requests, NEW id \in Ids, HandleDelete(r, id)
  PROVE  Kept(r)
<1> USE DEF Kept, TypeOK, StoreTypeOK, LocalOK, Quiet, Holding, Publishing, Replies, Id
<1>1. TypeOK /\ MapsAgree
  BY DEF IndInv
<1>2. Arrive(r, "delete", id, NULL) /\ drawnFor[id] \in Names /\ UNCHANGED drawnFor
  BY <1>1 DEF HandleDelete, Known
<1>3. CASE Finish(r, "NotFound")
  BY <1>1, <1>2, <1>3, FinishType, ArriveType
<1>4. CASE id \in stored /\ Goto(r, "Check") /\ UNCHANGED <<slice, reply>>
  <2>1. object[id] # NULL
    BY <1>1, <1>4 DEF MapsAgree
  <2> QED
    BY <1>1, <1>2, <1>4, <2>1, GotoType, ArriveType DEF Steps
<1> QED
  BY <1>3, <1>4 DEF HandleDelete

LEMMA HandlePublishKeeps ==
  ASSUME IndInv, NEW r \in Requests, NEW id \in Ids, NEW node \in Nodes,
         HandlePublish(r, id, node)
  PROVE  Kept(r)
<1> USE DEF Kept, TypeOK, StoreTypeOK, LocalOK, Quiet, Holding, Publishing, Replies, Id
<1>1. TypeOK /\ MapsAgree
  BY DEF IndInv
<1>2. Arrive(r, "publish", id, node) /\ drawnFor[id] \in Names /\ UNCHANGED drawnFor
  BY <1>1 DEF HandlePublish, Known
<1>3. CASE Finish(r, "NotFound") \/ Finish(r, "InternalError")
  BY <1>1, <1>2, <1>3, FinishType, ArriveType
<1>4. CASE /\ id \in stored /\ LookAt(r, object[id].publishedOn)
           /\ Goto(r, "Append") /\ UNCHANGED reply
  <2>1. object[id] # NULL /\ object[id].publishedOn \in Slice
    BY <1>1, <1>4 DEF MapsAgree, Object
  <2>2. slice' \in [Requests -> Slice]
    BY <1>1, <1>4, <2>1 DEF LookAt
  <2> QED
    BY <1>1, <1>2, <1>4, <2>1, <2>2, GotoType, ArriveType DEF Steps
<1> QED
  BY <1>3, <1>4 DEF HandlePublish

LEMMA CheckKeeps ==
  ASSUME IndInv, NEW r \in Requests, Check(r)
  PROVE  Kept(r)
<1> USE DEF Kept, TypeOK, StoreTypeOK, LocalOK, Quiet, Holding, Publishing, Replies,
            Id, heapVars, storeVars, arrival
<1>1. TypeOK /\ LocalOK(r) /\ pc[r] = "Check" /\ UNCHANGED <<heapVars, arrival, wild>>
  BY DEF IndInv, Locals, Check
<1>2. CASE Finish(r, "Conflict")
  BY <1>1, <1>2, FinishType
<1>3. CASE Goto(r, "DeleteVolume") /\ UNCHANGED <<slice, reply>>
  BY <1>1, <1>3, GotoType DEF Steps
<1> QED
  BY <1>2, <1>3 DEF Check

LEMMA LoadKeeps ==
  ASSUME IndInv, NEW r \in Requests, Load(r)
  PROVE  Kept(r)
<1>1. PICK w \in Words :
        /\ pc[r] = "Append" \/ pc[r] = "Encode"
        /\ slice' = [slice EXCEPT ![r] = [@ EXCEPT ![w] = Shared(r)[w]]]
  BY DEF Load
<1>2. slice[r] \in Slice /\ Shared(r) \in Slice
  BY <1>1, Held DEF IndInv, TypeOK, Holding, Steps
<1>3. [slice[r] EXCEPT ![w] = Shared(r)[w]] \in Slice
  <2>1. CASE w = "ptr"
    BY <1>2, <2>1 DEF Slice
  <2>2. CASE w = "len"
    BY <1>2, <2>2 DEF Slice
  <2>3. CASE w = "cap"
    BY <1>2, <2>3 DEF Slice
  <2> QED
    BY <2>1, <2>2, <2>3 DEF Words
<1>4. slice' \in [Requests -> Slice]
  BY <1>1, <1>3 DEF IndInv, TypeOK
<1>5. UNCHANGED <<stored, names, object, array, pc, reply, req, before, drawnFor, wild>>
  BY DEF Load, heapVars, storeVars, arrival
<1> QED
  BY <1>1, <1>4, <1>5
  DEF Kept, IndInv, TypeOK, StoreTypeOK, Locals, LocalOK, Quiet, Id

\* After an access outside an array nothing but the flag has changed.
LEMMA GoWildKeeps ==
  ASSUME IndInv, NEW r \in Requests, GoWild, UNCHANGED arrival, pc[r] \in Holding
  PROVE  Kept(r)
BY DEF Kept, IndInv, TypeOK, StoreTypeOK, Locals, LocalOK, Quiet, Id, GoWild,
       heapVars, storeVars, arrival, Holding

\* A panic ends the request.
LEMMA PanicKeeps ==
  ASSUME IndInv, NEW r \in Requests, pc[r] \in Holding, NEW code \in Replies,
         Finish(r, code), UNCHANGED <<heapVars, wild, arrival>>
  PROVE  Kept(r)
<1>1. TypeOK
  BY DEF IndInv
<1> QED
  BY <1>1, FinishType
  DEF Kept, TypeOK, StoreTypeOK, LocalOK, Quiet, Id, heapVars, storeVars, arrival,
      Holding, Publishing

\* The array a grown slice gets: the old entries and blanks.
LEMMA GrownArrayType ==
  ASSUME IndInv, NEW s \in Slice, ~Dangling(s), ~Overlong(s)
  PROVE  GrownArray(s) \in Array
<1>1. GrownCap(s) \in Nat
  BY GrownCapType
<1>2. ASSUME NEW k \in 1..GrownCap(s), k <= s.len
      PROVE  array[s.ptr][k] \in Nodes \cup {"blank"}
  <2>1. s.ptr \in Requests /\ s.len \in Nat /\ s.len <= Len(array[s.ptr])
    <3>1. s.len \in Nat /\ s.len > 0 /\ s.ptr \in Requests
      BY <1>1, <1>2 DEF Slice, Dangling
    <3>2. array[s.ptr] \in Array
      BY <3>1 DEF IndInv, TypeOK
    <3>3. Len(array[s.ptr]) \in Nat
      BY <3>2 DEF Array
    <3> QED
      BY <3>1, <3>3, MemoryAssumption DEF Overlong
  <2>2. array[s.ptr] \in Seq(Nodes \cup {"blank"})
    BY <2>1 DEF IndInv, TypeOK, Array
  <2>3. k \in 1..Len(array[s.ptr])
    BY <1>1, <1>2, <2>1, <2>2
  <2> QED
    BY <2>2, <2>3
<1> QED
  BY <1>1, <1>2 DEF GrownArray, Array

LEMMA AppendKeeps ==
  ASSUME IndInv, NEW r \in Requests, AppendEntry(r)
  PROVE  Kept(r)
<1> DEFINE s == slice[r]
<1>1. /\ TypeOK /\ LocalOK(r) /\ pc[r] = "Append" /\ pc[r] \in Holding
      /\ s \in Slice /\ UNCHANGED arrival
  BY DEF IndInv, Locals, TypeOK, AppendEntry, Holding, Steps
<1>2. CASE Goto(r, "StoreLen") /\ UNCHANGED <<heapVars, slice, reply, wild>>
  BY <1>1, <1>2, GotoType
  DEF Kept, TypeOK, StoreTypeOK, LocalOK, Quiet, Id, heapVars, storeVars, arrival,
      Holding, Publishing, Steps
<1>3. CASE Finish(r, "Panic") /\ UNCHANGED <<heapVars, wild>>
  BY <1>1, <1>3, PanicKeeps DEF Replies
<1>4. CASE GoWild
  BY <1>1, <1>4, GoWildKeeps
<1>5. CASE /\ ~Dangling(s) /\ ~Overlong(s)
           /\ array' = [array EXCEPT ![r] = GrownArray(s)]
           /\ Store(r, "cap", GrownCap(s))
           /\ slice' = [slice EXCEPT ![r] = [ptr |-> r, len |-> s.len, cap |-> GrownCap(s)]]
           /\ Goto(r, "StorePtr")
           /\ UNCHANGED <<stored, names, reply, wild>>
  <2>1. GrownCap(s) \in Nat /\ GrownArray(s) \in Array
    BY <1>1, <1>5, GrownCapType, GrownArrayType
  <2>2. array' \in [Requests -> Array]
    BY <1>1, <1>5, <2>1 DEF TypeOK
  <2>3. slice' \in [Requests -> Slice]
    BY <1>1, <1>5, <2>1 DEF TypeOK, Slice
  <2>4. /\ object' \in [Ids -> Object \cup {NULL}]
        /\ \A id \in Ids : object[id] # NULL =>
              object'[id] # NULL /\ object'[id].name = object[id].name
    BY <1>1, <1>5, <2>1, StoreKeeps DEF Words
  <2>5. Id(r) \in Ids
    BY <1>1, Held
  <2> QED
    BY <1>1, <1>5, <2>2, <2>3, <2>4, <2>5, GotoType
    DEF Kept, TypeOK, StoreTypeOK, LocalOK, Quiet, Id, arrival, Holding, Publishing, Steps
<1> QED
  BY <1>2, <1>3, <1>4, <1>5 DEF AppendEntry

LEMMA StorePtrKeeps ==
  ASSUME IndInv, NEW r \in Requests, StorePtr(r)
  PROVE  Kept(r)
<1>1. /\ TypeOK /\ LocalOK(r) /\ pc[r] = "StorePtr" /\ pc[r] \in Holding
      /\ slice[r].ptr \in Requests \cup {NULL} /\ Id(r) \in Ids
  BY Held DEF IndInv, Locals, TypeOK, StorePtr, Holding, Steps, Slice
<1>2. /\ object' \in [Ids -> Object \cup {NULL}]
      /\ \A id \in Ids : object[id] # NULL =>
            object'[id] # NULL /\ object'[id].name = object[id].name
  BY <1>1, StoreKeeps DEF Words, StorePtr
<1>3. Goto(r, "StoreLen")
      /\ UNCHANGED <<stored, names, array, slice, reply, req, before, drawnFor, wild>>
  BY DEF StorePtr, arrival
<1> QED
  BY <1>1, <1>2, <1>3, GotoType
  DEF Kept, TypeOK, StoreTypeOK, LocalOK, Quiet, Id, Holding, Publishing, Steps

LEMMA StoreLenKeeps ==
  ASSUME IndInv, NEW r \in Requests, StoreLen(r)
  PROVE  Kept(r)
<1>1. /\ TypeOK /\ LocalOK(r) /\ pc[r] = "StoreLen" /\ pc[r] \in Holding
      /\ slice[r].len + 1 \in Nat /\ Id(r) \in Ids
  BY Held DEF IndInv, Locals, TypeOK, StoreLen, Holding, Steps, Slice
<1>2. /\ object' \in [Ids -> Object \cup {NULL}]
      /\ \A id \in Ids : object[id] # NULL =>
            object'[id] # NULL /\ object'[id].name = object[id].name
  BY <1>1, StoreKeeps DEF Words, StoreLen
<1>3. Goto(r, "StoreEntry")
      /\ UNCHANGED <<stored, names, array, slice, reply, req, before, drawnFor, wild>>
  BY DEF StoreLen, arrival
<1> QED
  BY <1>1, <1>2, <1>3, GotoType
  DEF Kept, TypeOK, StoreTypeOK, LocalOK, Quiet, Id, Holding, Publishing, Steps

LEMMA StoreEntryKeeps ==
  ASSUME IndInv, NEW r \in Requests, StoreEntry(r)
  PROVE  Kept(r)
<1> DEFINE s == slice[r]
<1>1. /\ TypeOK /\ LocalOK(r) /\ pc[r] = "StoreEntry" /\ pc[r] \in Holding
      /\ s \in Slice /\ UNCHANGED arrival /\ Entry(r) \in Nodes
  BY DEF IndInv, Locals, LocalOK, TypeOK, StoreEntry, Holding, Publishing, Steps, Entry
<1>2. CASE Finish(r, "Panic") /\ UNCHANGED <<heapVars, wild>>
  BY <1>1, <1>2, PanicKeeps DEF Replies
<1>3. CASE GoWild
  BY <1>1, <1>3, GoWildKeeps
<1>4. CASE /\ s.ptr # NULL /\ s.len < Len(array[s.ptr])
           /\ array' = [array EXCEPT ![s.ptr][s.len + 1] = Entry(r)]
           /\ Goto(r, "UpdateVolume")
           /\ UNCHANGED <<storeVars, slice, reply, wild>>
  <2>1. s.ptr \in Requests /\ array[s.ptr] \in Seq(Nodes \cup {"blank"})
    BY <1>1, <1>4 DEF Slice, TypeOK, Array
  <2>2. [array[s.ptr] EXCEPT ![s.len + 1] = Entry(r)] \in Seq(Nodes \cup {"blank"})
    <3>1. s.len \in Nat /\ s.len + 1 \in 1..Len(array[s.ptr])
      BY <1>1, <1>4, <2>1 DEF Slice
    <3> QED
      BY <1>1, <2>1, <3>1, ExceptSeq
  <2>3. array' \in [Requests -> Array]
    BY <1>1, <1>4, <2>1, <2>2 DEF TypeOK, Array
  <2> QED
    BY <1>1, <1>4, <2>3, GotoType
    DEF Kept, TypeOK, StoreTypeOK, LocalOK, Quiet, Id, storeVars, arrival, Holding,
        Publishing, Steps
<1> QED
  BY <1>2, <1>3, <1>4 DEF StoreEntry

LEMMA UpdateKeeps ==
  ASSUME IndInv, NEW r \in Requests, UpdateStep(r)
  PROVE  Kept(r)
<1>1. /\ TypeOK /\ LocalOK(r) /\ pc[r] = "UpdateVolume" /\ pc[r] \in Holding
      /\ object[Id(r)] \in Object
  BY Held DEF IndInv, Locals, UpdateStep, Holding, Steps
<1>2. ToEncode(r, object[Id(r)])
      /\ UNCHANGED <<stored, names, object, array, reply, req, before, drawnFor, wild>>
  BY DEF UpdateStep, UpdateVolume, storeVars, arrival
<1> QED
  BY <1>1, <1>2, ToEncodeType
  DEF Kept, TypeOK, StoreTypeOK, LocalOK, Quiet, Id, Holding, Publishing

LEMMA EncodeKeeps ==
  ASSUME IndInv, NEW r \in Requests, Encode(r)
  PROVE  Kept(r)
<1>1. pc[r] \in Holding /\ UNCHANGED arrival
  BY DEF Encode, Holding, Steps
<1>2. CASE GoWild
  BY <1>1, <1>2, GoWildKeeps
<1>3. CASE ~GoWild
  <2>1. PICK code \in Replies : Finish(r, code) /\ UNCHANGED <<heapVars, wild>>
    BY <1>3 DEF Encode, SuccessCode, Replies
  <2> QED
    BY <1>1, <2>1, PanicKeeps
<1> QED
  BY <1>2, <1>3

LEMMA QuietStepKeeps ==
  ASSUME IndInv, NEW r \in Requests, QuietStep(r)
  PROVE  Kept(r)
BY HandleGetKeeps, HandleDeleteKeeps, HandlePublishKeeps, CheckKeeps, LoadKeeps,
   AppendKeeps, StorePtrKeeps, StoreLenKeeps, StoreEntryKeeps, UpdateKeeps,
   EncodeKeeps
DEF QuietStep

-----------------------------------------------------------------------------
LEMMA InitIndInv == Init => IndInv
<1>1. Init => TypeOK
  <2>1. <<>> \in Array
    BY DEF Array
  <2>2. Init => StoreTypeOK
    BY DEF Init, StoreInit, StoreTypeOK
  <2> QED
    BY <2>1, <2>2, EmptyListType DEF Init, TypeOK, Steps
<1>2. Init => Locals /\ PendingOK /\ MapsAgree
  BY DEF Init, StoreInit, Locals, LocalOK, Holding, Publishing, PendingOK, MapsAgree
<1> QED
  BY <1>1, <1>2 DEF IndInv

LEMMA KeptIndInv ==
  ASSUME IndInv, NEW r \in Requests, Kept(r)
  PROVE  IndInv'
<1> USE DEF Kept, IndInv, Quiet
<1>1. Locals'
  <2> SUFFICES ASSUME NEW q \in Requests PROVE LocalOK(q)'
    BY DEF Locals
  <2>1. CASE q = r
    BY <2>1
  <2>2. CASE q # r
    <3>1. LocalOK(q) /\ pc'[q] = pc[q] /\ req'[q] = req[q]
      BY <2>2 DEF Locals
    <3>2. req[q] \in Request => req[q].id \in Ids
      BY DEF Request
    <3> QED
      BY <3>1, <3>2 DEF LocalOK, Id, Holding
  <2> QED
    BY <2>1, <2>2
<1>2. PendingOK'
  BY DEF PendingOK, Id
<1>3. MapsAgree'
  <2>1. stored \subseteq Ids
    BY DEF TypeOK, StoreTypeOK
  <2> QED
    BY <2>1 DEF MapsAgree
<1> QED
  BY <1>1, <1>2, <1>3

\* HandleCreate draws an ID nobody uses.
LEMMA HandleCreateKeeps ==
  ASSUME IndInv, NEW r \in Requests, NEW n \in Names, HandleCreate(r, n)
  PROVE  IndInv'
<1>1. PICK id \in Ids :
        /\ drawnFor[id] = NULL
        /\ drawnFor' = [drawnFor EXCEPT ![id] = n]
        /\ Arrive(r, "create", id, NULL)
        /\ Goto(r, "CreateVolume")
        /\ UNCHANGED <<slice, reply>>
  BY DEF HandleCreate
<1>2. TypeOK /\ "CreateVolume" \in Steps
  BY DEF IndInv, Steps
<1>3. /\ req' \in [Requests -> Request \cup {NULL}]
      /\ req'[r] \in Request /\ req'[r].id = id
      /\ before' \in [Requests -> SUBSET Requests]
      /\ \A q \in Requests \ {r} : req'[q] = req[q] /\ pc'[q] = pc[q]
      /\ pc' \in [Requests -> Steps] /\ pc'[r] = "CreateVolume"
      /\ UNCHANGED <<stored, names, object, array, wild, slice, reply>>
  BY <1>1, <1>2, ArriveType, GotoType
<1>4. n # NULL /\ drawnFor'[id] = n
  BY <1>1, <1>2, MemoryAssumption DEF TypeOK
<1>5. TypeOK'
  BY <1>1, <1>2, <1>3 DEF TypeOK, StoreTypeOK
<1>6. \A q \in Requests : pc[q] \notin {"idle", "done"} => Id(q) \in Ids /\ Id(q) # id
  BY <1>1, MemoryAssumption DEF IndInv, Locals, LocalOK, Id, Request
<1>7. Locals'
  <2> SUFFICES ASSUME NEW q \in Requests PROVE LocalOK(q)'
    BY DEF Locals
  <2>1. CASE q = r
    BY <1>3, <1>4, <2>1 DEF LocalOK, Id, Holding, Publishing
  <2>2. CASE q # r
    <3>1. LocalOK(q) /\ pc'[q] = pc[q] /\ req'[q] = req[q]
      BY <1>3, <2>2 DEF IndInv, Locals
    <3>2. pc[q] \notin {"idle", "done"} => drawnFor'[Id(q)] = drawnFor[Id(q)]
      BY <1>1, <1>2, <1>6 DEF TypeOK
    <3> QED
      BY <1>3, <3>1, <3>2 DEF LocalOK, Id, Holding
  <2> QED
    BY <2>1, <2>2
<1>8. id \notin stored
  BY <1>1, MemoryAssumption DEF IndInv, MapsAgree
<1>9. PendingOK'
  BY <1>3, <1>6, <1>8 DEF IndInv, PendingOK, Id
<1>10. MapsAgree'
  <2>1. \A i \in stored : drawnFor'[i] = drawnFor[i]
    BY <1>1, <1>2, <1>8 DEF TypeOK, StoreTypeOK
  <2> QED
    BY <1>3, <2>1 DEF IndInv, MapsAgree
<1> QED
  BY <1>5, <1>7, <1>9, <1>10 DEF IndInv

\* What a create about to reach the store knows.
LEMMA PendingFacts ==
  ASSUME IndInv, NEW r \in Requests, pc[r] = "CreateVolume"
  PROVE  /\ Id(r) \in Ids /\ req[r] \in Request
         /\ drawnFor[Id(r)] \in Names
         /\ Id(r) \notin stored
         /\ \A n \in Names : names[n] # Id(r)
<1>1. req[r] \in Request /\ Id(r) \in Ids /\ drawnFor[Id(r)] \in Names
  BY DEF IndInv, Locals, LocalOK, Request, Id
<1>2. Id(r) \notin stored
  BY DEF IndInv, PendingOK
<1>3. Id(r) # NULL
  BY <1>1, MemoryAssumption
<1> QED
  BY <1>1, <1>2, <1>3 DEF IndInv, MapsAgree

LEMMA NewObjectType ==
  ASSUME NEW n \in Names
  PROVE  NewObject(n) \in Object /\ NewObject(n).name = n
BY EmptyListType DEF NewObject, Object

LEMMA CreateStepKeeps ==
  ASSUME IndInv, NEW r \in Requests, CreateStep(r)
  PROVE  IndInv'
<1> DEFINE id == Id(r)
           n  == drawnFor[id]
<1>1. /\ TypeOK /\ pc[r] = "CreateVolume"
      /\ UNCHANGED <<array, req, before, drawnFor, wild>>
  BY DEF CreateStep, IndInv, arrival
<1>2. /\ id \in Ids /\ req[r] \in Request /\ n \in Names /\ n # NULL
      /\ id \notin stored /\ \A m \in Names : names[m] # id
  BY <1>1, PendingFacts, MemoryAssumption
<1>3. NewObject(n) \in Object /\ NewObject(n).name = n /\ NewObject(n) # NULL
  BY <1>2, NewObjectType, MemoryAssumption
<1>4. CASE Creatable(id, n)
  <2>1. /\ stored' = stored \cup {id}
        /\ names' = [names EXCEPT ![n] = id]
        /\ object' = [object EXCEPT ![id] = NewObject(n)]
    BY <1>4 DEF CreateStep, CreateVolume
  <2>2. ToEncode(r, NewObject(n)) /\ UNCHANGED reply
    BY <1>4 DEF CreateStep
  <2>3. /\ pc' \in [Requests -> Steps] /\ pc'[r] = "Encode"
        /\ slice' \in [Requests -> Slice]
        /\ \A q \in Requests \ {r} : pc'[q] = pc[q]
    BY <1>1, <1>3, <2>2, ToEncodeType
  <2>4. TypeOK'
    BY <1>1, <1>2, <1>3, <2>1, <2>2, <2>3 DEF TypeOK, StoreTypeOK
  <2>5. \A i \in Ids : object[i] # NULL => object'[i] # NULL
    BY <1>1, <1>3, <2>1 DEF TypeOK, StoreTypeOK
  <2>6. Locals'
    <3> SUFFICES ASSUME NEW q \in Requests PROVE LocalOK(q)'
      BY DEF Locals
    <3>1. CASE q = r
      BY <1>1, <1>2, <1>3, <2>1, <2>3, <3>1
      DEF LocalOK, Id, Publishing, TypeOK, StoreTypeOK
    <3>2. CASE q # r
      <4>1. LocalOK(q) /\ pc'[q] = pc[q]
        BY <2>3, <3>2 DEF IndInv, Locals
      <4>2. req[q] \in Request => req[q].id \in Ids
        BY DEF Request
      <4> QED
        BY <1>1, <2>5, <4>1, <4>2 DEF LocalOK, Id, Holding
    <3> QED
      BY <3>1, <3>2
  <2>7. PendingOK'
    BY <1>1, <2>1, <2>3 DEF IndInv, PendingOK, Id
  <2>8. MapsAgree'
    <3>1. names[n] = NULL
      BY <1>4 DEF Creatable
    <3>2. \A i \in stored : i \in Ids /\ i # id /\ drawnFor[i] # n
      BY <1>1, <1>2, <3>1, MemoryAssumption DEF IndInv, MapsAgree, TypeOK, StoreTypeOK
    <3>3. \A i \in stored : object'[i] = object[i] /\ names'[drawnFor[i]] = names[drawnFor[i]]
      BY <1>1, <2>1, <3>2 DEF TypeOK, StoreTypeOK
    <3>4. object'[id] = NewObject(n) /\ names'[n] = id
      BY <1>1, <1>2, <2>1 DEF TypeOK, StoreTypeOK
    <3>5. \A m \in Names \ {n} : names'[m] = names[m]
      BY <1>1, <2>1 DEF TypeOK, StoreTypeOK
    <3> QED
      BY <1>1, <1>2, <1>3, <2>1, <3>3, <3>4, <3>5 DEF IndInv, MapsAgree
  <2> QED
    BY <2>4, <2>6, <2>7, <2>8 DEF IndInv
<1>5. CASE ~Creatable(id, n)
  <2>1. Finish(r, "Conflict") /\ UNCHANGED <<stored, names, object>>
    BY <1>5 DEF CreateStep, CreateVolume, storeVars
  <2>2. /\ pc' \in [Requests -> Steps] /\ pc'[r] = "done"
        /\ reply' \in [Requests -> Replies \cup {NULL}]
        /\ slice' \in [Requests -> Slice]
        /\ \A q \in Requests \ {r} : pc'[q] = pc[q]
    BY <1>1, <2>1, FinishType DEF Replies
  <2>3. TypeOK'
    BY <1>1, <2>1, <2>2 DEF TypeOK, StoreTypeOK
  <2> QED
    BY <1>1, <2>1, <2>2, <2>3
    DEF IndInv, Locals, LocalOK, Id, Holding, Publishing, PendingOK, MapsAgree
<1> QED
  BY <1>4, <1>5

LEMMA DeleteStepKeeps ==
  ASSUME IndInv, NEW r \in Requests, DeleteStep(r)
  PROVE  IndInv'
<1> DEFINE id == Id(r)
<1>1. /\ TypeOK /\ pc[r] = "DeleteVolume"
      /\ UNCHANGED <<array, req, before, drawnFor, wild, object>>
      /\ stored' = stored \ {id}
      /\ names' = IF id \in stored THEN [names EXCEPT ![object[id].name] = NULL] ELSE names
  BY DEF DeleteStep, DeleteVolume, IndInv, arrival
<1>2. /\ pc' \in [Requests -> Steps] /\ pc'[r] = "done"
      /\ reply' \in [Requests -> Replies \cup {NULL}]
      /\ slice' \in [Requests -> Slice]
      /\ \A q \in Requests \ {r} : pc'[q] = pc[q]
  <2>1. PICK code \in Replies : Finish(r, code)
    BY DEF DeleteStep, Replies
  <2> QED
    BY <1>1, <2>1, FinishType
<1>3. id \in stored => object[id].name = drawnFor[id] /\ names[drawnFor[id]] = id
  BY DEF IndInv, MapsAgree
<1>4. TypeOK'
  <2>1. names' \in [Names -> Ids \cup {NULL}]
    BY <1>1 DEF TypeOK, StoreTypeOK
  <2> QED
    BY <1>1, <1>2, <2>1 DEF TypeOK, StoreTypeOK
<1>5. Locals' /\ PendingOK'
  BY <1>1, <1>2 DEF IndInv, Locals, LocalOK, Id, Holding, Publishing, PendingOK
<1>6. MapsAgree'
  <2>1. CASE id \notin stored
    BY <1>1, <2>1 DEF IndInv, MapsAgree
  <2>2. CASE id \in stored
    <3>1. names' = [names EXCEPT ![drawnFor[id]] = NULL]
      BY <1>1, <1>3, <2>2
    <3>2. drawnFor[id] \in Names
      BY <2>2 DEF IndInv, MapsAgree
    <3>3. \A i \in stored \ {id} : drawnFor[i] # drawnFor[id]
      BY <1>3, <2>2 DEF IndInv, MapsAgree
    <3>4. \A m \in Names : names'[m] = IF m = drawnFor[id] THEN NULL ELSE names[m]
      BY <1>1, <3>1 DEF TypeOK, StoreTypeOK
    <3>5. \A m \in Names : names[m] = id => m = drawnFor[id]
      BY <1>1, <2>2, MemoryAssumption DEF IndInv, MapsAgree, TypeOK, StoreTypeOK
    <3> QED
      BY <1>1, <3>2, <3>3, <3>4, <3>5 DEF IndInv, MapsAgree
  <2> QED
    BY <2>1, <2>2
<1> QED
  BY <1>4, <1>5, <1>6 DEF IndInv

\* Next, by what the catalogue sees of it.
LEMMA NextByCatalog ==
  ASSUME IndInv, [Next]_vars
  PROVE  \/ UNCHANGED vars
         \/ \E r \in Requests : \/ Kept(r)
                                \/ \E n \in Names : HandleCreate(r, n)
                                \/ CreateStep(r)
                                \/ DeleteStep(r)
<1>1. CASE Terminated
  BY <1>1 DEF Terminated
<1>2. ASSUME NEW r \in Requests, QuietStep(r)
      PROVE  Kept(r)
  BY <1>2, QuietStepKeeps
<1> QED
  BY <1>1, <1>2 DEF Next, Begin, Advance, QuietStep

LEMMA InvarianceStep ==
  ASSUME IndInv, [Next]_vars
  PROVE  IndInv'
<1>1. CASE UNCHANGED vars
  BY <1>1
  DEF vars, heapVars, storeVars, arrival, IndInv, TypeOK, StoreTypeOK, Locals, LocalOK,
      Id, PendingOK, MapsAgree
<1>2. ASSUME NEW r \in Requests, Kept(r) PROVE IndInv'
  BY <1>2, KeptIndInv
<1>3. ASSUME NEW r \in Requests, NEW n \in Names, HandleCreate(r, n) PROVE IndInv'
  BY <1>3, HandleCreateKeeps
<1>4. ASSUME NEW r \in Requests, CreateStep(r) PROVE IndInv'
  BY <1>4, CreateStepKeeps
<1>5. ASSUME NEW r \in Requests, DeleteStep(r) PROVE IndInv'
  BY <1>5, DeleteStepKeeps
<1> QED
  BY <1>1, <1>2, <1>3, <1>4, <1>5, NextByCatalog

LEMMA MemoryInvariance == Spec => []IndInv
BY InitIndInv, InvarianceStep, PTL DEF Spec

\* Every variable keeps its type: whatever words of slices are mixed, each
\* word that is stored is one that some append computed (pkg/store/memory.go,
\* HandlePublish).
THEOREM MemoryTypeCorrect == Spec => []TypeOK
<1>1. IndInv => TypeOK
  BY DEF IndInv
<1> QED
  BY <1>1, MemoryInvariance, PTL

-----------------------------------------------------------------------------
\* The refinement: Phases is the phase of the catalogue.
Pending(id) == \E r \in Requests : pc[r] = "CreateVolume" /\ Id(r) = id

LEMMA PhaseOf ==
  ASSUME NEW id \in Ids
  PROVE  Phases[id] = IF drawnFor[id] = NULL THEN "unused"
                      ELSE IF Pending(id) THEN "pending"
                      ELSE IF id \in stored THEN "live" ELSE "gone"
BY DEF Phases, Pending

LEMMA PhaseOfNext ==
  ASSUME NEW id \in Ids
  PROVE  Phases'[id] = IF drawnFor'[id] = NULL THEN "unused"
                       ELSE IF Pending(id)' THEN "pending"
                       ELSE IF id \in stored' THEN "live" ELSE "gone"
BY DEF Phases, Pending

LEMMA QuietStutters ==
  ASSUME NEW r \in Requests, Quiet(r)
  PROVE  UNCHANGED <<Phases, drawnFor>>
<1>1. ASSUME NEW id \in Ids PROVE Pending(id)' <=> Pending(id)
  BY DEF Quiet, Pending, Id
<1> QED
  BY <1>1 DEF Quiet, Phases, Pending

LEMMA CatalogInit ==
  ASSUME Init
  PROVE  Catalog!Init
BY DEF Init, Catalog!Init, Phases

\* When only the phase of one ID changes.
LEMMA OnePhaseChanges ==
  ASSUME NEW id \in Ids, NEW p, Phases'[id] = p,
         \A i \in Ids \ {id} : Phases'[i] = Phases[i]
  PROVE  Phases' = [Phases EXCEPT ![id] = p]
<1>1. Phases = [i \in Ids |-> Phases[i]]
  BY DEF Phases
<1>2. Phases' = [i \in Ids |-> Phases'[i]]
  BY DEF Phases
<1> QED
  BY <1>1, <1>2

LEMMA CreateIsDraw ==
  ASSUME IndInv, NEW r \in Requests, NEW n \in Names, HandleCreate(r, n)
  PROVE  \E id \in Ids : Catalog!Draw(id, n)
<1>1. PICK id \in Ids :
        /\ drawnFor[id] = NULL
        /\ drawnFor' = [drawnFor EXCEPT ![id] = n]
        /\ Arrive(r, "create", id, NULL)
        /\ Goto(r, "CreateVolume")
  BY DEF HandleCreate
<1>2. /\ req'[r].id = id /\ pc[r] = "idle" /\ pc'[r] = "CreateVolume"
      /\ \A q \in Requests \ {r} : req'[q] = req[q] /\ pc'[q] = pc[q]
      /\ UNCHANGED stored
  BY <1>1, ArriveType, GotoType DEF IndInv, Steps
<1>3. drawnFor'[id] = n /\ n # NULL
      /\ \A i \in Ids \ {id} : drawnFor'[i] = drawnFor[i]
  BY <1>1, MemoryAssumption DEF IndInv, TypeOK
<1>4. Pending(id)'
  BY <1>2 DEF Pending, Id
<1>5. ASSUME NEW i \in Ids \ {id} PROVE Pending(i)' <=> Pending(i)
  BY <1>2 DEF Pending, Id
<1>6. Phases[id] = "unused"
  BY <1>1, PhaseOf
<1>7. Phases'[id] = "pending"
  BY <1>3, <1>4 DEF Phases, Pending
<1>8. ASSUME NEW i \in Ids \ {id} PROVE Phases'[i] = Phases[i]
  BY <1>2, <1>3, <1>5 DEF Phases, Pending
<1> QED
  BY <1>1, <1>6, <1>7, <1>8, OnePhaseChanges DEF Catalog!Draw

\* A volume is live in the catalogue when it is stored.
LEMMA StoredIsLive ==
  ASSUME IndInv, NEW id \in Ids
  PROVE  id \in stored <=> Phases[id] = "live"
<1>1. id \in stored => drawnFor[id] # NULL /\ ~Pending(id)
  BY MemoryAssumption DEF IndInv, MapsAgree, PendingOK, Pending
<1> QED
  BY <1>1, PhaseOf

LEMMA StepRegistersOrRefuses ==
  ASSUME IndInv, NEW r \in Requests, CreateStep(r)
  PROVE  \E id \in Ids : Catalog!Register(id) \/ Catalog!Refuse(id)
<1>1. pc[r] = "CreateVolume" /\ UNCHANGED <<req, drawnFor>>
  BY DEF CreateStep, arrival
<1>2. PICK id \in Ids, n \in Names :
        id = Id(r) /\ n = drawnFor[id] /\ n # NULL /\ id \notin stored
  BY <1>1, PendingFacts, MemoryAssumption
<1>3. Pending(id) /\ Phases[id] = "pending"
  BY <1>1, <1>2, PhaseOf DEF Pending
<1>4. pc'[r] # "CreateVolume" /\ \A q \in Requests \ {r} : pc'[q] = pc[q]
  <2>1. Goto(r, "Encode") \/ Goto(r, "done")
    BY DEF CreateStep, ToEncode, Finish
  <2> QED
    BY <2>1 DEF Goto, IndInv, TypeOK
<1>5. ~Pending(id)'
  BY <1>1, <1>2, <1>4 DEF IndInv, PendingOK, Pending, Id
<1>6. ASSUME NEW i \in Ids \ {id} PROVE Pending(i)' <=> Pending(i)
  BY <1>1, <1>2, <1>4 DEF Pending, Id
<1>7. CASE Creatable(id, n)
  <2>1. stored' = stored \cup {id} /\ names[n] = NULL
    BY <1>2, <1>7 DEF CreateStep, CreateVolume, Creatable
  <2>2. Catalog!Live(n) = {}
    BY <1>2, <2>1, StoredIsLive, MemoryAssumption DEF Catalog!Live, IndInv, MapsAgree
  <2>3. Phases'[id] = "live"
    BY <1>1, <1>2, <1>5, <2>1, PhaseOfNext
  <2>4. ASSUME NEW i \in Ids \ {id} PROVE Phases'[i] = Phases[i]
    BY <1>1, <1>6, <2>1 DEF Phases, Pending
  <2> QED
    BY <1>1, <1>2, <1>3, <2>2, <2>3, <2>4, OnePhaseChanges DEF Catalog!Register
<1>8. CASE ~Creatable(id, n)
  <2>1. UNCHANGED stored
    BY <1>2, <1>8 DEF CreateStep, CreateVolume, storeVars
  <2>2. names[n] \in Catalog!Live(n)
    <3>1. names[n] \in stored /\ drawnFor[names[n]] = n
      BY <1>2, <1>8 DEF Creatable, IndInv, MapsAgree
    <3>2. names[n] \in Ids
      BY <3>1 DEF IndInv, TypeOK, StoreTypeOK
    <3> QED
      BY <3>1, <3>2, StoredIsLive DEF Catalog!Live
  <2>3. Phases'[id] = "gone"
    BY <1>1, <1>2, <1>5, <2>1, PhaseOfNext
  <2>4. ASSUME NEW i \in Ids \ {id} PROVE Phases'[i] = Phases[i]
    BY <1>1, <1>6, <2>1 DEF Phases, Pending
  <2> QED
    BY <1>1, <1>2, <1>3, <2>2, <2>3, <2>4, OnePhaseChanges DEF Catalog!Refuse
<1> QED
  BY <1>2, <1>7, <1>8

LEMMA StepRemoves ==
  ASSUME IndInv, NEW r \in Requests, DeleteStep(r)
  PROVE  \/ UNCHANGED <<Phases, drawnFor>>
         \/ \E id \in Ids : Catalog!Remove(id)
<1> DEFINE id == Id(r)
<1>1. pc[r] = "DeleteVolume" /\ UNCHANGED <<req, drawnFor>> /\ stored' = stored \ {id}
  BY DEF DeleteStep, DeleteVolume, arrival
<1>2. pc'[r] # "CreateVolume" /\ \A q \in Requests \ {r} : pc'[q] = pc[q]
  BY DEF DeleteStep, Finish, Goto, IndInv, TypeOK
<1>3. ASSUME NEW i \in Ids PROVE Pending(i)' <=> Pending(i)
  BY <1>1, <1>2 DEF Pending, Id
<1>4. id \in Ids
  BY <1>1, Held DEF Holding, Steps
<1>5. CASE id \notin stored
  BY <1>1, <1>3, <1>5 DEF Phases, Pending
<1>6. CASE id \in stored
  <2>1. Phases[id] = "live"
    BY <1>4, <1>6, StoredIsLive
  <2>2. drawnFor[id] # NULL /\ ~Pending(id)
    BY <1>4, <2>1, PhaseOf
  <2>3. Phases'[id] = "gone"
    BY <1>1, <1>3, <1>4, <2>2 DEF Phases, Pending
  <2>4. ASSUME NEW i \in Ids \ {id} PROVE Phases'[i] = Phases[i]
    BY <1>1, <1>3 DEF Phases, Pending
  <2> QED
    BY <1>1, <1>4, <2>1, <2>3, <2>4, OnePhaseChanges DEF Catalog!Remove
<1> QED
  BY <1>5, <1>6

LEMMA CatalogStep ==
  ASSUME IndInv, [Next]_vars
  PROVE  [Catalog!Next]_(Catalog!vars)
<1>1. UNCHANGED <<Phases, drawnFor>> => UNCHANGED Catalog!vars
  BY DEF Catalog!vars
<1>2. CASE UNCHANGED vars
  BY <1>1, <1>2 DEF vars, heapVars, storeVars, arrival, Phases, Id
<1>3. ASSUME NEW r \in Requests, Kept(r)
      PROVE  UNCHANGED Catalog!vars
  BY <1>1, <1>3, QuietStutters DEF Kept
<1>4. ASSUME NEW r \in Requests, NEW n \in Names, HandleCreate(r, n)
      PROVE  Catalog!Next
  BY <1>4, CreateIsDraw DEF Catalog!Next
<1>5. ASSUME NEW r \in Requests, CreateStep(r)
      PROVE  Catalog!Next
  BY <1>5, StepRegistersOrRefuses DEF Catalog!Next
<1>6. ASSUME NEW r \in Requests, DeleteStep(r)
      PROVE  [Catalog!Next]_(Catalog!vars)
  BY <1>1, <1>6, StepRemoves DEF Catalog!Next
<1> QED
  BY <1>1, <1>2, <1>3, <1>4, <1>5, <1>6, NextByCatalog

\* The memory store under its handlers is a catalogue: a name belongs to one
\* volume at a time, and what was deleted stays deleted, whatever goroutines
\* still hold it (CreateVolume, DeleteVolume and UpdateVolume of
\* pkg/store/memory.go).
THEOREM MemoryRefinesCatalog == Spec => RefinesCatalog
<1>1. Init => Catalog!Init
  BY CatalogInit
<1>2. IndInv /\ [Next]_vars => [Catalog!Next]_(Catalog!vars)
  BY CatalogStep
<1> QED
  BY <1>1, <1>2, MemoryInvariance, PTL DEF Spec, RefinesCatalog, Catalog!Spec

-----------------------------------------------------------------------------
\* The steps of each kind of request, as far as they matter here.
StepsOK(r) ==
  /\ pc[r] = "CreateVolume" => req[r].op = "create"
  /\ pc[r] \in {"Check", "DeleteVolume"} => req[r].op = "delete"
  /\ pc[r] \in Publishing \cup {"UpdateVolume"} => req[r].op = "publish"
  /\ pc[r] = "Encode" => req[r].op # "delete"
  /\ pc[r] # "done" => reply[r] = NULL

\* Request r has stored a length, and did not fail after that.
Published(r) ==
  /\ req[r] \in Request /\ req[r].op = "publish"
  /\ pc[r] \in {"StoreEntry", "UpdateVolume", "Encode"} \/ reply[r] = "OK"

LengthOK(r) ==
  Published(r) => object[Id(r)] # NULL /\ object[Id(r)].publishedOn.len > 0

\* The volume of an ID that is not drawn, or is being created, is not made.
FreshOK == \A id \in Ids : drawnFor[id] = NULL => object[id] = NULL
UnmadeOK(r) == pc[r] = "CreateVolume" => object[Id(r)] = NULL

\* The requests that were over when a delete arrived are over; if one of
\* them published its volume, the delete never gets past its check.
RefusedOK(d) ==
  \A q \in before[d] :
    /\ pc[q] = "done"
    /\ req[d] \in Request /\ req[d].op = "delete" /\ Id(q) = Id(d) /\ Published(q) =>
         pc[d] # "DeleteVolume" /\ reply[d] # "OK"

LocalsProtect(r) == StepsOK(r) /\ LengthOK(r) /\ UnmadeOK(r) /\ RefusedOK(r)

Protection == FreshOK /\ \A r \in Requests : LocalsProtect(r)

-----------------------------------------------------------------------------
\* Volumes are not made, and positive lengths stay positive.
LengthsStay ==
  \A id \in Ids :
    /\ object[id] = NULL => object'[id] = NULL
    /\ object[id] # NULL =>
         /\ object'[id] # NULL
         /\ object[id].publishedOn.len > 0 => object'[id].publishedOn.len > 0

\* A step of r concerns r only.
Own(r) ==
  /\ pc[r] # "done"
  /\ \A q \in Requests \ {r} :
       pc'[q] = pc[q] /\ req'[q] = req[q] /\ reply'[q] = reply[q] /\ before'[q] = before[q]

\* A step that goes on with request r.
GoesOn(r) ==
  /\ Own(r)
  /\ pc[r] # "idle" /\ pc'[r] \notin {"idle", "CreateVolume"}
  /\ req'[r] = req[r] /\ before'[r] = before[r] /\ drawnFor' = drawnFor

\* ... and passes no check that it should not.
PassesCheck(r) ==
  req[r].op = "delete" /\ (pc'[r] = "DeleteVolume" \/ reply'[r] = "OK") =>
    pc[r] = "DeleteVolume" \/ ~(object[Id(r)].publishedOn.len > 0)

LEMMA OthersProtect ==
  ASSUME IndInv, Protection, NEW r \in Requests, Own(r), LengthsStay,
         NEW q \in Requests \ {r}
  PROVE  LocalsProtect(q)'
<1>1. LocalsProtect(q) /\ q # r
  BY DEF Protection
<1>2. pc'[q] = pc[q] /\ req'[q] = req[q] /\ reply'[q] = reply[q] /\ before'[q] = before[q]
  BY DEF Own
<1>3. StepsOK(q)'
  BY <1>1, <1>2 DEF LocalsProtect, StepsOK
<1>4. LengthOK(q)'
  <2>1. req[q] \in Request => Id(q) \in Ids
    BY DEF Request, Id
  <2> QED
    BY <1>1, <1>2, <2>1 DEF LocalsProtect, LengthOK, Published, LengthsStay, Id
<1>5. UnmadeOK(q)'
  <2>1. pc[q] = "CreateVolume" => Id(q) \in Ids
    BY PendingFacts
  <2> QED
    BY <1>1, <1>2, <2>1 DEF LocalsProtect, UnmadeOK, LengthsStay, Id
<1>6. RefusedOK(q)'
  <2> SUFFICES ASSUME NEW p \in before[q]
               PROVE  /\ pc'[p] = "done"
                      /\ req[q] \in Request /\ req[q].op = "delete" /\ Id(p)' = Id(q)
                           /\ Published(p)' =>
                           pc[q] # "DeleteVolume" /\ reply[q] # "OK"
    BY <1>2 DEF RefusedOK, Id
  <2>1. p \in Requests /\ pc[p] = "done" /\ p # r
    BY <1>1 DEF LocalsProtect, RefusedOK, Own, IndInv, TypeOK
  <2>2. pc'[p] = pc[p] /\ req'[p] = req[p] /\ reply'[p] = reply[p]
    BY <2>1 DEF Own
  <2> QED
    BY <1>1, <2>1, <2>2 DEF LocalsProtect, RefusedOK, Published, Id
<1> QED
  BY <1>3, <1>4, <1>5, <1>6 DEF LocalsProtect

\* What is left to show of a step that goes on with r.
LEMMA GoesOnProtects ==
  ASSUME IndInv, Protection, NEW r \in Requests, GoesOn(r), LengthsStay,
         StepsOK(r)', LengthOK(r)', PassesCheck(r)
  PROVE  Protection'
<1>1. FreshOK'
  BY DEF Protection, FreshOK, LengthsStay, GoesOn
<1>2. \A q \in Requests \ {r} : LocalsProtect(q)'
  BY OthersProtect DEF GoesOn
<1>3. UnmadeOK(r)'
  BY DEF UnmadeOK, GoesOn
<1>4. RefusedOK(r)'
  <2> SUFFICES ASSUME NEW q \in before[r]
               PROVE  /\ pc'[q] = "done"
                      /\ req[r] \in Request /\ req[r].op = "delete" /\ Id(q)' = Id(r)
                           /\ Published(q)' =>
                           pc'[r] # "DeleteVolume" /\ reply'[r] # "OK"
    BY DEF RefusedOK, Id, GoesOn
  <2>1. LocalsProtect(r)
    BY DEF Protection
  <2>2. q \in Requests /\ pc[q] = "done" /\ q # r
    BY <2>1 DEF LocalsProtect, RefusedOK, GoesOn, Own, IndInv, TypeOK
  <2>3. pc'[q] = pc[q] /\ req'[q] = req[q] /\ reply'[q] = reply[q]
    BY <2>2 DEF GoesOn, Own
  <2>4. LengthOK(q)
    BY <2>2 DEF Protection, LocalsProtect
  <2>5. Published(q)' => Published(q)
    BY <2>3 DEF Published
  <2>6. ASSUME req[r] \in Request, req[r].op = "delete", Id(q)' = Id(r), Published(q)'
        PROVE  pc'[r] # "DeleteVolume" /\ reply'[r] # "OK"
    <3>1. Id(q) = Id(r) /\ Published(q)
      BY <2>3, <2>5, <2>6 DEF Id
    <3>2. object[Id(r)].publishedOn.len > 0
      BY <2>4, <3>1 DEF LengthOK
    <3>3. pc[r] # "DeleteVolume"
      BY <2>1, <2>6, <3>1 DEF LocalsProtect, RefusedOK
    <3> QED
      BY <2>6, <3>2, <3>3 DEF PassesCheck
  <2> QED
    BY <2>2, <2>3, <2>6
<1> QED
  BY <1>1, <1>2, <1>3, <1>4 DEF Protection, LocalsProtect

\* ... and of an arrival.
LEMMA ArrivalProtects ==
  ASSUME IndInv, Protection, NEW r \in Requests,
         NEW op \in {"create", "get", "delete", "publish"}, NEW id \in Ids,
         NEW node \in Nodes \cup {NULL}, Arrive(r, op, id, node),
         \A q \in Requests \ {r} : pc'[q] = pc[q] /\ reply'[q] = reply[q],
         StepsOK(r)', UnmadeOK(r)', FreshOK',
         pc'[r] \notin {"StoreEntry", "UpdateVolume", "DeleteVolume"},
         op = "publish" => pc'[r] # "Encode",
         reply'[r] # "OK"
  PROVE  Protection'
<1>1. /\ req'[r].id = id /\ req'[r].op = op /\ pc[r] = "idle"
      /\ \A q \in Requests \ {r} : req'[q] = req[q] /\ before'[q] = before[q]
      /\ before'[r] = {q \in Requests : pc[q] = "done" /\ Id(q) = id}
      /\ UNCHANGED object
  BY DEF Arrive, IndInv, TypeOK, heapVars, storeVars
<1>2. Own(r) /\ LengthsStay
  BY <1>1 DEF Own, LengthsStay
<1>3. \A q \in Requests \ {r} : LocalsProtect(q)'
  BY <1>2, OthersProtect
<1>4. LengthOK(r)'
  BY <1>1 DEF LengthOK, Published
<1>5. RefusedOK(r)'
  BY <1>1 DEF RefusedOK
<1> QED
  BY <1>3, <1>4, <1>5 DEF Protection, LocalsProtect

-----------------------------------------------------------------------------
\* What Finish, ToEncode and Goto do to the steps and the answers.
LEMMA FinishDoes ==
  ASSUME IndInv, NEW r \in Requests, NEW code, Finish(r, code)
  PROVE  /\ pc'[r] = "done" /\ reply'[r] = code
         /\ \A q \in Requests \ {r} : pc'[q] = pc[q] /\ reply'[q] = reply[q]
BY DEF Finish, Goto, IndInv, TypeOK

LEMMA GotoDoes ==
  ASSUME IndInv, NEW r \in Requests, NEW step, Goto(r, step)
  PROVE  pc'[r] = step /\ \A q \in Requests \ {r} : pc'[q] = pc[q]
BY DEF Goto, IndInv, TypeOK

LEMMA ToEncodeDoes ==
  ASSUME IndInv, NEW r \in Requests, NEW o, ToEncode(r, o)
  PROVE  pc'[r] = "Encode" /\ \A q \in Requests \ {r} : pc'[q] = pc[q]
BY DEF ToEncode, Goto, IndInv, TypeOK

LEMMA HandleCreateProtects ==
  ASSUME IndInv, Protection, NEW r \in Requests, NEW n \in Names, HandleCreate(r, n)
  PROVE  Protection'
<1>1. PICK id \in Ids :
        /\ drawnFor[id] = NULL
        /\ drawnFor' = [drawnFor EXCEPT ![id] = n]
        /\ Arrive(r, "create", id, NULL)
        /\ Goto(r, "CreateVolume")
        /\ UNCHANGED reply
  BY DEF HandleCreate
<1>2. /\ pc'[r] = "CreateVolume" /\ \A q \in Requests \ {r} : pc'[q] = pc[q]
      /\ req'[r].id = id /\ req'[r].op = "create" /\ pc[r] = "idle"
      /\ UNCHANGED <<object, reply>>
  BY <1>1, GotoDoes DEF Arrive, IndInv, TypeOK, heapVars, storeVars
<1>3. reply'[r] = NULL
  BY <1>1, <1>2 DEF Protection, LocalsProtect, StepsOK
<1>4. object[id] = NULL /\ UnmadeOK(r)'
  BY <1>1, <1>2 DEF Protection, FreshOK, UnmadeOK, Id
<1>5. FreshOK'
  BY <1>1, <1>2 DEF Protection, FreshOK, IndInv, TypeOK
<1>6. StepsOK(r)'
  BY <1>2, <1>3 DEF StepsOK, Publishing
<1>7. reply'[r] # "OK"
  BY <1>3, MemoryAssumption DEF Replies
<1> QED
  BY <1>1, <1>2, <1>4, <1>5, <1>6, <1>7, ArrivalProtects

\* A request that has not begun has no answer.
LEMMA NotAnswered ==
  ASSUME Protection, NEW r \in Requests, pc[r] # "done"
  PROVE  reply[r] = NULL /\ reply[r] # "OK"
BY MemoryAssumption DEF Protection, LocalsProtect, StepsOK, Replies

LEMMA HandleGetProtects ==
  ASSUME IndInv, Protection, NEW r \in Requests, NEW id \in Ids, HandleGet(r, id)
  PROVE  Protection'
<1>1. Arrive(r, "get", id, NULL) /\ UNCHANGED drawnFor
  BY DEF HandleGet
<1>2. req'[r].op = "get" /\ pc[r] = "idle" /\ UNCHANGED object
  BY <1>1 DEF Arrive, IndInv, TypeOK, heapVars, storeVars
<1>3. FreshOK'
  BY <1>1, <1>2 DEF Protection, FreshOK
<1>4. reply[r] = NULL /\ reply[r] # "OK"
  BY <1>2, NotAnswered
<1>5. CASE Finish(r, "NotFound")
  <2>1. pc'[r] = "done" /\ reply'[r] = "NotFound"
        /\ \A q \in Requests \ {r} : pc'[q] = pc[q] /\ reply'[q] = reply[q]
    BY <1>5, FinishDoes
  <2>2. StepsOK(r)' /\ UnmadeOK(r)'
    BY <2>1 DEF StepsOK, UnmadeOK, Publishing
  <2> QED
    BY <1>1, <1>3, <2>1, <2>2, ArrivalProtects
<1>6. CASE ToEncode(r, object[id]) /\ UNCHANGED reply
  <2>1. pc'[r] = "Encode" /\ \A q \in Requests \ {r} : pc'[q] = pc[q]
    BY <1>6, ToEncodeDoes
  <2>2. StepsOK(r)' /\ UnmadeOK(r)'
    BY <1>2, <1>4, <1>6, <2>1 DEF StepsOK, UnmadeOK, Publishing
  <2> QED
    BY <1>1, <1>3, <1>4, <1>6, <2>1, <2>2, ArrivalProtects
<1> QED
  BY <1>5, <1>6 DEF HandleGet

LEMMA HandleDeleteProtects ==
  ASSUME IndInv, Protection, NEW r \in Requests, NEW id \in Ids, HandleDelete(r, id)
  PROVE  Protection'
<1>1. Arrive(r, "delete", id, NULL) /\ UNCHANGED drawnFor
  BY DEF HandleDelete
<1>2. req'[r].op = "delete" /\ pc[r] = "idle" /\ UNCHANGED object
  BY <1>1 DEF Arrive, IndInv, TypeOK, heapVars, storeVars
<1>3. FreshOK'
  BY <1>1, <1>2 DEF Protection, FreshOK
<1>4. reply[r] = NULL /\ reply[r] # "OK"
  BY <1>2, NotAnswered
<1>5. CASE Finish(r, "NotFound")
  <2>1. pc'[r] = "done" /\ reply'[r] = "NotFound"
        /\ \A q \in Requests \ {r} : pc'[q] = pc[q] /\ reply'[q] = reply[q]
    BY <1>5, FinishDoes
  <2>2. StepsOK(r)' /\ UnmadeOK(r)'
    BY <2>1 DEF StepsOK, UnmadeOK, Publishing
  <2> QED
    BY <1>1, <1>3, <2>1, <2>2, ArrivalProtects
<1>6. CASE Goto(r, "Check") /\ UNCHANGED reply
  <2>1. pc'[r] = "Check" /\ \A q \in Requests \ {r} : pc'[q] = pc[q]
    BY <1>6, GotoDoes
  <2>2. StepsOK(r)' /\ UnmadeOK(r)'
    BY <1>2, <1>4, <1>6, <2>1 DEF StepsOK, UnmadeOK, Publishing
  <2> QED
    BY <1>1, <1>3, <1>4, <1>6, <2>1, <2>2, ArrivalProtects
<1> QED
  BY <1>5, <1>6 DEF HandleDelete

LEMMA HandlePublishProtects ==
  ASSUME IndInv, Protection, NEW r \in Requests, NEW id \in Ids, NEW node \in Nodes,
         HandlePublish(r, id, node)
  PROVE  Protection'
<1>1. Arrive(r, "publish", id, node) /\ UNCHANGED drawnFor
  BY DEF HandlePublish
<1>2. req'[r].op = "publish" /\ pc[r] = "idle" /\ UNCHANGED object
  BY <1>1 DEF Arrive, IndInv, TypeOK, heapVars, storeVars
<1>3. FreshOK'
  BY <1>1, <1>2 DEF Protection, FreshOK
<1>4. reply[r] = NULL /\ reply[r] # "OK"
  BY <1>2, NotAnswered
<1>5. ASSUME NEW code \in {"NotFound", "InternalError"}, Finish(r, code)
      PROVE  Protection'
  <2>1. pc'[r] = "done" /\ reply'[r] = code
        /\ \A q \in Requests \ {r} : pc'[q] = pc[q] /\ reply'[q] = reply[q]
    BY <1>5, FinishDoes
  <2>2. StepsOK(r)' /\ UnmadeOK(r)'
    BY <2>1 DEF StepsOK, UnmadeOK, Publishing
  <2> QED
    BY <1>1, <1>3, <1>5, <2>1, <2>2, ArrivalProtects
<1>6. CASE Goto(r, "Append") /\ UNCHANGED reply
  <2>1. pc'[r] = "Append" /\ \A q \in Requests \ {r} : pc'[q] = pc[q]
    BY <1>6, GotoDoes
  <2>2. StepsOK(r)' /\ UnmadeOK(r)'
    BY <1>2, <1>4, <1>6, <2>1 DEF StepsOK, UnmadeOK, Publishing
  <2> QED
    BY <1>1, <1>3, <1>4, <1>6, <2>1, <2>2, ArrivalProtects
<1> QED
  BY <1>5, <1>6 DEF HandlePublish

-----------------------------------------------------------------------------
\* A step that leaves the volumes alone and ends request r, or goes on to a
\* step at which r has stored no new length.
LEMMA PlainStepProtects ==
  ASSUME IndInv, Protection, NEW r \in Requests, pc[r] \notin {"idle", "done"},
         UNCHANGED <<object, arrival>>,
         \A q \in Requests \ {r} : pc'[q] = pc[q] /\ reply'[q] = reply[q],
         pc'[r] \notin {"idle", "CreateVolume"},
         StepsOK(r)', Published(r)' => Published(r), PassesCheck(r)
  PROVE  Protection'
<1>1. GoesOn(r) /\ LengthsStay
  BY DEF GoesOn, Own, LengthsStay, arrival
<1>2. LengthOK(r)'
  BY DEF Protection, LocalsProtect, LengthOK, Id, arrival
<1> QED
  BY <1>1, <1>2, GoesOnProtects

LEMMA FinishProtects ==
  ASSUME IndInv, Protection, NEW r \in Requests, pc[r] \notin {"idle", "done"},
         UNCHANGED <<object, arrival>>, NEW code, Finish(r, code),
         code = "OK" => pc[r] = "DeleteVolume" \/ (pc[r] = "Encode" /\ req[r].op # "create")
  PROVE  Protection'
<1>1. pc'[r] = "done" /\ reply'[r] = code
      /\ \A q \in Requests \ {r} : pc'[q] = pc[q] /\ reply'[q] = reply[q]
  BY FinishDoes
<1>2. StepsOK(r)
  BY DEF Protection, LocalsProtect
<1>3. StepsOK(r)'
  BY <1>1 DEF StepsOK, Publishing
<1>4. Published(r)' => Published(r)
  BY <1>1, <1>2 DEF Published, StepsOK, arrival
<1>5. PassesCheck(r)
  BY <1>1, <1>2 DEF PassesCheck, StepsOK
<1> QED
  BY <1>1, <1>3, <1>4, <1>5, PlainStepProtects

LEMMA GoWildProtects ==
  ASSUME IndInv, Protection, NEW r \in Requests, GoWild, UNCHANGED arrival,
         pc[r] \in Holding
  PROVE  Protection'
<1>1. UNCHANGED <<object, pc, reply, arrival>>
  BY DEF GoWild, heapVars, storeVars
<1>2. LocalsProtect(r)
  BY DEF Protection
<1>3. StepsOK(r)' /\ (Published(r)' => Published(r))
  BY <1>1, <1>2 DEF LocalsProtect, StepsOK, Published, arrival
<1>4. PassesCheck(r)
  BY <1>1, NotAnswered DEF PassesCheck, Holding
<1> QED
  BY <1>1, <1>3, <1>4, PlainStepProtects DEF Holding

\* The store of a word into the volume of r.
LEMMA StoreDoes ==
  ASSUME IndInv, Protection, NEW r \in Requests, pc[r] \in Holding,
         NEW w \in Words, NEW value, Store(r, w, value),
         w = "len" => value > 0,
         w = "ptr" => value \in Requests \cup {NULL},
         w # "ptr" => value \in Nat
  PROVE  /\ LengthsStay
         /\ w = "len" => object'[Id(r)] # NULL /\ object'[Id(r)].publishedOn.len > 0
<1> DEFINE o == object[Id(r)]
           s == [o.publishedOn EXCEPT ![w] = value]
<1>1. Id(r) \in Ids /\ o \in Object /\ o.publishedOn \in Slice /\ o # NULL
  BY Held, MemoryAssumption DEF Object
<1>2. object' = [object EXCEPT ![Id(r)] = [o EXCEPT !.publishedOn = s]]
  BY DEF Store
<1>3. s.len = IF w = "len" THEN value ELSE o.publishedOn.len
  BY <1>1 DEF Slice, Words
<1>4. [o EXCEPT !.publishedOn = s].publishedOn = s
  BY <1>1 DEF Object
<1>5. object'[Id(r)].publishedOn.len = s.len
      /\ \A id \in Ids \ {Id(r)} : object'[id] = object[id]
  BY <1>1, <1>2, <1>4 DEF IndInv, TypeOK, StoreTypeOK
<1>6. \A id \in Ids : object[id] # NULL => object'[id] # NULL
  BY StoreKeeps
<1> QED
  BY <1>1, <1>3, <1>5, <1>6 DEF LengthsStay

LEMMA CheckProtects ==
  ASSUME IndInv, Protection, NEW r \in Requests, Check(r)
  PROVE  Protection'
<1>1. pc[r] = "Check" /\ UNCHANGED <<object, arrival>>
  BY DEF Check, heapVars, storeVars
<1>2. CASE Finish(r, "Conflict")
  BY <1>1, <1>2, FinishProtects
<1>3. CASE ~InUse(object[Id(r)]) /\ Goto(r, "DeleteVolume") /\ UNCHANGED reply
  <2>1. pc'[r] = "DeleteVolume" /\ \A q \in Requests \ {r} : pc'[q] = pc[q]
    BY <1>3, GotoDoes
  <2>2. StepsOK(r) /\ reply[r] # "OK"
    BY <1>1, NotAnswered DEF Protection, LocalsProtect
  <2>3. StepsOK(r)' /\ (Published(r)' => Published(r))
    BY <1>1, <1>3, <2>1, <2>2 DEF StepsOK, Publishing, Published, arrival
  <2>4. PassesCheck(r)
    BY <1>3 DEF PassesCheck, InUse
  <2> QED
    BY <1>1, <1>3, <2>1, <2>3, <2>4, PlainStepProtects
<1> QED
  BY <1>2, <1>3 DEF Check

LEMMA LoadProtects ==
  ASSUME IndInv, Protection, NEW r \in Requests, Load(r)
  PROVE  Protection'
<1>1. UNCHANGED <<object, pc, reply, arrival>> /\ pc[r] \in {"Append", "Encode"}
  BY DEF Load, heapVars, storeVars
<1>2. LocalsProtect(r) /\ reply[r] # "OK"
  BY <1>1, NotAnswered DEF Protection
<1>3. StepsOK(r)' /\ (Published(r)' => Published(r)) /\ PassesCheck(r)
  BY <1>1, <1>2 DEF LocalsProtect, StepsOK, Published, PassesCheck, arrival
<1> QED
  BY <1>1, <1>3, PlainStepProtects

LEMMA DeleteStepProtects ==
  ASSUME IndInv, Protection, NEW r \in Requests, DeleteStep(r)
  PROVE  Protection'
<1>1. pc[r] = "DeleteVolume" /\ UNCHANGED <<object, arrival>>
  BY DEF DeleteStep, DeleteVolume
<1>2. PICK code : Finish(r, code)
  BY DEF DeleteStep
<1> QED
  BY <1>1, <1>2, FinishProtects

LEMMA EncodeProtects ==
  ASSUME IndInv, Protection, NEW r \in Requests, Encode(r)
  PROVE  Protection'
<1>1. pc[r] = "Encode" /\ pc[r] \in Holding /\ UNCHANGED arrival
  BY DEF Encode, Holding, Steps
<1>2. CASE GoWild
  BY <1>1, <1>2, GoWildProtects
<1>3. CASE ~GoWild
  <2>1. PICK code \in {"Panic", "Garbled", SuccessCode(r)} :
          Finish(r, code) /\ UNCHANGED object
    BY <1>3 DEF Encode, heapVars, storeVars
  <2>2. code = "OK" => req[r].op # "create"
    BY <2>1 DEF SuccessCode
  <2> QED
    BY <1>1, <2>1, <2>2, FinishProtects
<1> QED
  BY <1>2, <1>3

LEMMA UpdateProtects ==
  ASSUME IndInv, Protection, NEW r \in Requests, UpdateStep(r)
  PROVE  Protection'
<1>1. pc[r] = "UpdateVolume" /\ UNCHANGED <<object, reply, arrival>>
  BY DEF UpdateStep, UpdateVolume, storeVars
<1>2. pc'[r] = "Encode" /\ \A q \in Requests \ {r} : pc'[q] = pc[q]
  BY ToEncodeDoes DEF UpdateStep
<1>3. StepsOK(r) /\ reply[r] # "OK"
  BY <1>1, NotAnswered DEF Protection, LocalsProtect
<1>4. StepsOK(r)' /\ (Published(r)' => Published(r)) /\ PassesCheck(r)
  BY <1>1, <1>2, <1>3 DEF StepsOK, Publishing, Published, PassesCheck, arrival
<1> QED
  BY <1>1, <1>2, <1>4, PlainStepProtects

\* The steps of the append store positive lengths, if any.
LEMMA AppendProtects ==
  ASSUME IndInv, Protection, NEW r \in Requests, AppendEntry(r)
  PROVE  Protection'
<1> DEFINE s == slice[r]
<1>1. pc[r] = "Append" /\ pc[r] \in Holding /\ UNCHANGED arrival /\ s \in Slice
  BY DEF AppendEntry, Holding, Steps, IndInv, TypeOK
<1>2. StepsOK(r) /\ reply[r] = NULL /\ reply[r] # "OK"
  BY <1>1, NotAnswered DEF Protection, LocalsProtect
<1>3. CASE Goto(r, "StoreLen") /\ UNCHANGED <<heapVars, reply>>
  <2>1. pc'[r] = "StoreLen" /\ \A q \in Requests \ {r} : pc'[q] = pc[q]
    BY <1>3, GotoDoes
  <2>2. StepsOK(r)' /\ (Published(r)' => Published(r)) /\ PassesCheck(r)
    BY <1>1, <1>2, <1>3, <2>1 DEF StepsOK, Publishing, Published, PassesCheck, arrival
  <2> QED
    BY <1>1, <1>3, <2>1, <2>2, PlainStepProtects DEF heapVars, storeVars
<1>4. CASE Finish(r, "Panic") /\ UNCHANGED heapVars
  BY <1>1, <1>4, FinishProtects DEF heapVars, storeVars
<1>5. CASE GoWild
  BY <1>1, <1>5, GoWildProtects
<1>6. CASE Store(r, "cap", GrownCap(s)) /\ Goto(r, "StorePtr") /\ UNCHANGED reply
  <2>1. LengthsStay
    BY <1>1, <1>6, GrownCapType, StoreDoes DEF Words
  <2>2. pc'[r] = "StorePtr" /\ \A q \in Requests \ {r} : pc'[q] = pc[q]
    BY <1>6, GotoDoes
  <2>3. GoesOn(r)
    BY <1>1, <1>6, <2>2 DEF GoesOn, Own, arrival
  <2>4. StepsOK(r)' /\ LengthOK(r)' /\ PassesCheck(r)
    BY <1>1, <1>2, <1>6, <2>2
    DEF StepsOK, Publishing, LengthOK, Published, PassesCheck, arrival
  <2> QED
    BY <2>1, <2>3, <2>4, GoesOnProtects
<1> QED
  BY <1>3, <1>4, <1>5, <1>6 DEF AppendEntry

LEMMA StorePtrProtects ==
  ASSUME IndInv, Protection, NEW r \in Requests, StorePtr(r)
  PROVE  Protection'
<1>1. /\ pc[r] = "StorePtr" /\ pc[r] \in Holding /\ UNCHANGED <<reply, arrival>>
      /\ slice[r].ptr \in Requests \cup {NULL}
  BY DEF StorePtr, Holding, Steps, IndInv, TypeOK, Slice
<1>2. StepsOK(r) /\ reply[r] = NULL /\ reply[r] # "OK"
  BY <1>1, NotAnswered DEF Protection, LocalsProtect
<1>3. LengthsStay
  BY <1>1, StoreDoes DEF Words, StorePtr
<1>4. pc'[r] = "StoreLen" /\ \A q \in Requests \ {r} : pc'[q] = pc[q]
  BY GotoDoes DEF StorePtr
<1>5. GoesOn(r)
  BY <1>1, <1>4 DEF GoesOn, Own, arrival
<1>6. StepsOK(r)' /\ LengthOK(r)' /\ PassesCheck(r)
  BY <1>1, <1>2, <1>4 DEF StepsOK, Publishing, LengthOK, Published, PassesCheck, arrival
<1> QED
  BY <1>3, <1>5, <1>6, GoesOnProtects

LEMMA StoreLenProtects ==
  ASSUME IndInv, Protection, NEW r \in Requests, StoreLen(r)
  PROVE  Protection'
<1>1. /\ pc[r] = "StoreLen" /\ pc[r] \in Holding /\ UNCHANGED <<reply, arrival>>
      /\ slice[r].len + 1 \in Nat /\ slice[r].len + 1 > 0
  BY DEF StoreLen, Holding, Steps, IndInv, TypeOK, Slice
<1>2. StepsOK(r) /\ reply[r] = NULL /\ reply[r] # "OK"
  BY <1>1, NotAnswered DEF Protection, LocalsProtect
<1>3. LengthsStay /\ object'[Id(r)] # NULL /\ object'[Id(r)].publishedOn.len > 0
  BY <1>1, StoreDoes DEF Words, StoreLen
<1>4. pc'[r] = "StoreEntry" /\ \A q \in Requests \ {r} : pc'[q] = pc[q]
  BY GotoDoes DEF StoreLen
<1>5. GoesOn(r)
  BY <1>1, <1>4 DEF GoesOn, Own, arrival
<1>6. StepsOK(r)' /\ LengthOK(r)' /\ PassesCheck(r)
  BY <1>1, <1>2, <1>3, <1>4 DEF StepsOK, Publishing, LengthOK, PassesCheck, arrival, Id
<1> QED
  BY <1>3, <1>5, <1>6, GoesOnProtects

LEMMA StoreEntryProtects ==
  ASSUME IndInv, Protection, NEW r \in Requests, StoreEntry(r)
  PROVE  Protection'
<1>1. pc[r] = "StoreEntry" /\ pc[r] \in Holding /\ UNCHANGED arrival
  BY DEF StoreEntry, Holding, Steps
<1>2. StepsOK(r) /\ reply[r] = NULL /\ reply[r] # "OK"
  BY <1>1, NotAnswered DEF Protection, LocalsProtect
<1>3. CASE Finish(r, "Panic") /\ UNCHANGED heapVars
  BY <1>1, <1>3, FinishProtects DEF heapVars, storeVars
<1>4. CASE GoWild
  BY <1>1, <1>4, GoWildProtects
<1>5. CASE Goto(r, "UpdateVolume") /\ UNCHANGED <<storeVars, reply>>
  <2>1. pc'[r] = "UpdateVolume" /\ \A q \in Requests \ {r} : pc'[q] = pc[q]
    BY <1>5, GotoDoes
  <2>2. StepsOK(r)' /\ (Published(r)' => Published(r)) /\ PassesCheck(r)
    BY <1>1, <1>2, <1>5, <2>1 DEF StepsOK, Publishing, Published, PassesCheck, arrival
  <2> QED
    BY <1>1, <1>5, <2>1, <2>2, PlainStepProtects DEF storeVars
<1> QED
  BY <1>3, <1>4, <1>5 DEF StoreEntry

\* The one step that makes a volume.
LEMMA CreateStepProtects ==
  ASSUME IndInv, Protection, NEW r \in Requests, CreateStep(r)
  PROVE  Protection'
<1>1. pc[r] = "CreateVolume" /\ UNCHANGED arrival
  BY DEF CreateStep
<1>2. StepsOK(r) /\ reply[r] = NULL /\ reply[r] # "OK"
  BY <1>1, NotAnswered DEF Protection, LocalsProtect
<1>3. CASE Creatable(Id(r), drawnFor[Id(r)])
  <2>1. PICK id \in Ids, n \in Names : id = Id(r) /\ n = drawnFor[id] /\ n # NULL
    BY <1>1, PendingFacts, MemoryAssumption
  <2>2. /\ object' = [object EXCEPT ![id] = NewObject(n)]
        /\ ToEncode(r, NewObject(n)) /\ UNCHANGED reply
    BY <1>3, <2>1 DEF CreateStep, CreateVolume
  <2>3. /\ pc'[r] = "Encode" /\ \A q \in Requests \ {r} : pc'[q] = pc[q]
        /\ \A i \in Ids \ {id} : object'[i] = object[i]
    BY <2>2, ToEncodeDoes DEF IndInv, TypeOK, StoreTypeOK
  <2>4. FreshOK'
    BY <1>1, <2>1, <2>3 DEF Protection, FreshOK, arrival
  <2>5. object[id] = NULL
    BY <1>1, <2>1 DEF Protection, LocalsProtect, UnmadeOK
  <2>6. StepsOK(r)' /\ UnmadeOK(r)'
    BY <1>1, <1>2, <2>2, <2>3 DEF StepsOK, Publishing, UnmadeOK, arrival
  <2>7. ~Published(r)' /\ req[r].op = "create"
    BY <1>1, <1>2 DEF Published, StepsOK, arrival
  <2>8. RefusedOK(r)'
    <3>1. \A q \in before[r] : q \in Requests /\ pc[q] = "done" /\ pc'[q] = "done"
      BY <1>1, <2>3 DEF Protection, LocalsProtect, RefusedOK, IndInv, TypeOK
    <3> QED
      BY <1>1, <2>7, <3>1 DEF RefusedOK, arrival
  <2>9. ASSUME NEW q \in Requests \ {r}
        PROVE  LocalsProtect(q)'
    <3>1. LocalsProtect(q) /\ pc'[q] = pc[q]
      BY <2>3 DEF Protection
    <3>2. StepsOK(q)'
      BY <1>1, <2>2, <3>1 DEF LocalsProtect, StepsOK, arrival
    <3>3. LengthOK(q)'
      <4>1. Published(q)' => Published(q) /\ Id(q) \in Ids
        BY <1>1, <2>2, <3>1 DEF Published, arrival, Request, Id
      <4> QED
        BY <1>1, <2>3, <2>5, <3>1, <4>1 DEF LocalsProtect, LengthOK, arrival, Id
    <3>4. UnmadeOK(q)'
      <4>1. pc[q] = "CreateVolume" => Id(q) \in Ids /\ Id(q) # id
        BY <1>1, <2>1, PendingFacts DEF IndInv, PendingOK
      <4> QED
        BY <1>1, <2>3, <3>1, <4>1 DEF LocalsProtect, UnmadeOK, arrival, Id
    <3>5. RefusedOK(q)'
      <4>1. \A p \in before[q] : p \in Requests /\ pc[p] = "done" /\ p # r
        BY <1>1, <3>1 DEF LocalsProtect, RefusedOK, IndInv, TypeOK
      <4>2. \A p \in before[q] : pc'[p] = pc[p] /\ (Published(p)' => Published(p))
        BY <1>1, <2>2, <2>3, <4>1 DEF Published, arrival
      <4> QED
        BY <1>1, <2>2, <3>1, <4>1, <4>2 DEF LocalsProtect, RefusedOK, arrival, Id
    <3> QED
      BY <3>2, <3>3, <3>4, <3>5 DEF LocalsProtect
  <2> QED
    BY <2>4, <2>6, <2>7, <2>8, <2>9 DEF Protection, LocalsProtect, LengthOK
<1>4. CASE ~Creatable(Id(r), drawnFor[Id(r)])
  BY <1>1, <1>4, FinishProtects DEF CreateStep, CreateVolume, storeVars
<1> QED
  BY <1>3, <1>4

-----------------------------------------------------------------------------
LEMMA ProtectionInit == Init => Protection
<1> SUFFICES ASSUME Init PROVE Protection
  OBVIOUS
<1>1. \A r \in Requests : pc[r] = "idle" /\ reply[r] = NULL /\ before[r] = {} /\ NULL # "OK"
  BY MemoryAssumption DEF Init, Replies
<1>2. FreshOK
  BY DEF Init, StoreInit, FreshOK
<1> QED
  BY <1>1, <1>2
  DEF Protection, LocalsProtect, StepsOK, LengthOK, Published, UnmadeOK, RefusedOK, Publishing

LEMMA ProtectionStep ==
  ASSUME IndInv, Protection, [Next]_vars
  PROVE  Protection'
<1>1. CASE UNCHANGED vars
  BY <1>1
  DEF vars, heapVars, storeVars, arrival, Protection, FreshOK, LocalsProtect, StepsOK,
      LengthOK, Published, UnmadeOK, RefusedOK, Id
<1>2. CASE Terminated
  BY <1>1, <1>2 DEF Terminated
<1>3. ASSUME NEW r \in Requests, Begin(r)
      PROVE  Protection'
  BY <1>3, HandleCreateProtects, HandleGetProtects, HandleDeleteProtects,
     HandlePublishProtects DEF Begin
<1>4. ASSUME NEW r \in Requests, Advance(r)
      PROVE  Protection'
  BY <1>4, CreateStepProtects, CheckProtects, DeleteStepProtects, LoadProtects,
     AppendProtects, StorePtrProtects, StoreLenProtects, StoreEntryProtects,
     UpdateProtects, EncodeProtects DEF Advance
<1> QED
  BY <1>1, <1>2, <1>3, <1>4 DEF Next

\* Once a publication was answered 200, no delete that arrives later
\* succeeds, whatever other publications race with it (HandlePublish's
\* append and HandleDelete's check of PublishedOn).
THEOREM PublicationProtects == Spec => []PublishedIsProtected
<1>1. IndInv /\ Protection => PublishedIsProtected
  <2> SUFFICES ASSUME IndInv, Protection, NEW r \in Requests, NEW d \in Requests,
                      NEW id \in Ids, On(r, "publish", id), reply[r] = "OK",
                      On(d, "delete", id), reply[d] = "OK", r \in before[d]
               PROVE  FALSE
    BY DEF PublishedIsProtected
  <2>1. req[r] \in Request /\ req[d] \in Request
    BY DEF On, IndInv, TypeOK
  <2>2. Published(r) /\ Id(r) = Id(d) /\ req[d].op = "delete"
    BY <2>1 DEF On, Published
  <2> QED
    BY <2>1, <2>2 DEF Protection, LocalsProtect, RefusedOK
<1>2. IndInv /\ Protection /\ [Next]_vars => Protection'
  BY ProtectionStep
<1> QED
  BY <1>1, <1>2, ProtectionInit, MemoryInvariance, PTL DEF Spec
=============================================================================
