--------------------------- MODULE MemoryRaceProofs ---------------------------
(***************************************************************************)
(* What the races of the handlers over the in-memory store can do, and     *)
(* what they cannot: an entry is only lost to a race of its own, and       *)
(* nothing is damaged without a race.                                      *)
(*                                                                         *)
(* Arrays are owned: whatever pointer is in a volume or in hand, it leads  *)
(* to an array that an append to the same volume has allocated (OwnersOK). *)
(* An append that is alone on its volume has in hand what is in the        *)
(* volume, but for the words it has still to store (HandsOK).  What it     *)
(* entered is then in every array that later appends go on with, at an     *)
(* index that no length goes below, races or not (EntriesStay).  Where     *)
(* nothing races at all, the three words of the slice fit together, and    *)
(* its entries are written (Soundness).                                    *)
(***************************************************************************)
EXTENDS MemoryHandlerProofs

\* The pointer p of a slice of volume id is nil, or the array of a request on
\* id whose append has allocated it.
OwnPtr(p, id) ==
  p = NULL \/ (p \in Requests /\ pc[p] \notin {"idle", "Append"} /\ Id(p) = id)

\* Only requests that arrived have parameters; the pointers in the volumes,
\* and those that appends have in hand, lead to arrays of their own volume.
OwnersOK ==
  /\ \A r \in Requests :
       /\ pc[r] = "idle" => req[r] = NULL
       /\ pc[r] # "idle" => req[r] \in Request
       /\ pc[r] \in Publishing => OwnPtr(slice[r].ptr, Id(r))
  /\ \A id \in Ids : object[id] # NULL => OwnPtr(object[id].publishedOn.ptr, id)

\* No other publication of its volume was under way together with r.
Alone(r) == \A q \in Requests : On(q, "publish", Id(r)) => ~Overlap(q, r)

\* What an append has in hand is what is in the volume, word by word, but for
\* the words that it has still to store.
InHand(r) ==
  /\ pc[r] \in {"Append", "StoreLen"} => slice[r] = Shared(r)
  /\ pc[r] = "StorePtr" =>
       /\ slice[r].ptr = r
       /\ slice[r].len = Shared(r).len /\ slice[r].cap = Shared(r).cap
  /\ pc[r] = "StoreEntry" =>
       /\ slice[r].ptr = Shared(r).ptr /\ slice[r].cap = Shared(r).cap
       /\ Shared(r).len = slice[r].len + 1

HandsOK == \A r \in Requests : pc[r] \in Publishing /\ Alone(r) => InHand(r)

\* Request r has stored its entry, and did not fail after that.
Entered(r) ==
  /\ req[r] \in Request /\ req[r].op = "publish"
  /\ pc[r] \in {"UpdateVolume", "Encode"} \/ reply[r] = "OK"

\* The slice s shows node at index k.
HasAt(s, k, node) ==
  /\ s.ptr # NULL /\ k <= s.len
  /\ k \in 1..Len(array[s.ptr]) /\ array[s.ptr][k] = node

\* The entry of r is at index k, in the volume and in every append to come.
EntryStays(r, k) ==
  /\ object[Id(r)] # NULL /\ HasAt(Shared(r), k, req[r].node)
  /\ \A q \in Requests :
       pc[q] \in Publishing /\ Id(q) = Id(r) => HasAt(slice[q], k, req[r].node)

EntriesStay == \A r \in Requests : Entered(r) /\ Alone(r) => \E k \in Nat \ {0} : EntryStays(r, k)

-----------------------------------------------------------------------------
\* A step of request r, which has arrived.
Goes(r) ==
  /\ pc[r] \notin {"idle", "done"} /\ pc'[r] \notin {"idle", "CreateVolume"}
  /\ pc'[r] = "Append" => pc[r] = "Append"
  /\ UNCHANGED <<req, before>>
  /\ \A q \in Requests \ {r} : pc'[q] = pc[q] /\ reply'[q] = reply[q] /\ slice'[q] = slice[q]

\* The kinds of steps, by what they do to the slices and arrays.  A request
\* arrives, and looks at its volume if it is to answer or append.
Arrives(r) ==
  /\ \E op \in {"create", "get", "delete", "publish"}, id \in Ids, node \in Nodes \cup {NULL} :
       /\ Arrive(r, op, id, node)
       /\ pc'[r] \in Publishing =>
            /\ pc'[r] = "Append" /\ op = "publish" /\ object[id] # NULL
            /\ slice'[r] = object[id].publishedOn
       /\ pc'[r] = "Encode" =>
            /\ op # "publish" /\ object[id] # NULL
            /\ slice'[r] = [object[id].publishedOn EXCEPT !.cap = 0]
  /\ pc'[r] \notin {"idle", "UpdateVolume"}
  /\ reply'[r] \notin {"OK", "Panic", "Garbled"}
  /\ \A q \in Requests \ {r} : pc'[q] = pc[q] /\ reply'[q] = reply[q] /\ slice'[q] = slice[q]

\* The volume is made.
Makes(r) ==
  /\ Goes(r) /\ pc[r] = "CreateVolume" /\ pc'[r] = "Encode"
  /\ object[Id(r)] = NULL /\ req[r].op = "create"
  /\ object' = [object EXCEPT ![Id(r)] = NewObject(drawnFor[Id(r)])]
  /\ slice'[r] = EmptyList
  /\ UNCHANGED <<array, reply, wild>>

\* An encoder can show the slice s as it is.
Readable(s) ==
  /\ ~Dangling(s) /\ ~Overlong(s)
  /\ \A k \in 1..s.len : array[s.ptr][k] # "blank"

\* An append that ends early has nowhere to read from or to write to.
Stumbles(r) ==
  /\ pc[r] \notin {"StorePtr", "StoreLen"}
  /\ pc[r] = "Append" => Dangling(slice[r])
  /\ pc[r] = "StoreEntry" => slice[r].ptr = NULL

\* r has nothing in hand after the step but, maybe, an answer.
Leaves(r) ==
  /\ Goes(r) /\ pc'[r] \notin Publishing /\ UNCHANGED <<object, array, wild>>
  /\ pc'[r] = "Encode" =>
       /\ pc[r] = "UpdateVolume"
       /\ slice'[r] = [Shared(r) EXCEPT !.cap = 0]
  /\ pc'[r] # "UpdateVolume"
  /\ reply'[r] = "OK" => pc[r] = "Encode" \/ req[r].op = "delete"
  /\ Stumbles(r)
  /\ reply'[r] \in {"Panic", "Garbled"} =>
       pc[r] \in Publishing \/ (pc[r] = "Encode" /\ ~Readable(slice[r]))

\* Nothing more can be said.
EndsWild(r) ==
  /\ Goes(r) /\ pc[r] \in {"Append", "StoreEntry", "Encode"}
  /\ pc[r] \in {"Append", "Encode"} => Overlong(slice[r])
  /\ pc[r] = "StoreEntry" => slice[r].ptr # NULL /\ slice[r].len >= Len(array[slice[r].ptr])
  /\ UNCHANGED <<object, array, pc, slice, reply>>

Loads(r) ==
  /\ Goes(r) /\ pc[r] \in {"Append", "Encode"}
  /\ \E w \in Words : slice' = [slice EXCEPT ![r] = [@ EXCEPT ![w] = Shared(r)[w]]]
  /\ slice[r] # Shared(r) /\ (pc[r] = "Encode" => \E w \in {"ptr", "len"} : slice[r][w] # Shared(r)[w])
  /\ UNCHANGED <<object, array, pc, reply, wild>>

Skips(r) ==
  /\ Goes(r) /\ pc[r] = "Append" /\ pc'[r] = "StoreLen"
  /\ slice[r].len < slice[r].cap
  /\ UNCHANGED <<object, array, slice, reply, wild>>

Grows(r) ==
  LET s == slice[r]
  IN  /\ Goes(r) /\ pc[r] = "Append" /\ pc'[r] = "StorePtr"
      /\ ~Dangling(s) /\ ~Overlong(s)
      /\ array' = [array EXCEPT ![r] = GrownArray(s)]
      /\ Store(r, "cap", GrownCap(s))
      /\ slice'[r] = [ptr |-> r, len |-> s.len, cap |-> GrownCap(s)]
      /\ UNCHANGED <<reply, wild>>

StoresPtr(r) ==
  /\ Goes(r) /\ pc[r] = "StorePtr" /\ pc'[r] = "StoreLen"
  /\ Store(r, "ptr", slice[r].ptr)
  /\ UNCHANGED <<array, slice, reply, wild>>

StoresLen(r) ==
  /\ Goes(r) /\ pc[r] = "StoreLen" /\ pc'[r] = "StoreEntry"
  /\ Store(r, "len", slice[r].len + 1)
  /\ UNCHANGED <<array, slice, reply, wild>>

Enters(r) ==
  LET s == slice[r]
  IN  /\ Goes(r) /\ pc[r] = "StoreEntry" /\ pc'[r] = "UpdateVolume"
      /\ s.ptr # NULL /\ s.len < Len(array[s.ptr])
      /\ array' = [array EXCEPT ![s.ptr][s.len + 1] = req[r].node]
      /\ UNCHANGED <<object, slice, reply, wild>>

OneOfAKind(r) ==
  \/ Arrives(r)
  \/ Makes(r)
  \/ Leaves(r)
  \/ EndsWild(r)
  \/ Loads(r)
  \/ Skips(r)
  \/ Grows(r)
  \/ StoresPtr(r)
  \/ StoresLen(r)
  \/ Enters(r)

-----------------------------------------------------------------------------
\* The slices after Finish and ToEncode.
LEMMA FinishShows ==
  ASSUME IndInv, NEW r \in Requests, NEW code, Finish(r, code)
  PROVE  \A q \in Requests \ {r} : slice'[q] = slice[q]
BY DEF Finish, LookAt, IndInv, TypeOK

LEMMA ToEncodeShows ==
  ASSUME IndInv, NEW r \in Requests, NEW o, ToEncode(r, o)
  PROVE  /\ slice'[r] = [o.publishedOn EXCEPT !.cap = 0]
         /\ \A q \in Requests \ {r} : slice'[q] = slice[q]
BY DEF ToEncode, LookAt, IndInv, TypeOK

LEMMA FinishLeaves ==
  ASSUME IndInv, NEW r \in Requests, pc[r] \notin {"idle", "done"}, NEW code, Finish(r, code),
         UNCHANGED <<object, array, req, before, wild>>,
         code = "OK" => pc[r] = "Encode" \/ req[r].op = "delete",
         Stumbles(r),
         code \in {"Panic", "Garbled"} =>
           pc[r] \in Publishing \/ (pc[r] = "Encode" /\ ~Readable(slice[r]))
  PROVE  Leaves(r)
BY FinishDoes, FinishShows DEF Leaves, Goes, Publishing

LEMMA BeginArrives ==
  ASSUME IndInv, Protection, NEW r \in Requests, Begin(r)
  PROVE  Arrives(r)
<1> USE DEF Arrives, Publishing
<1>1. ASSUME NEW n \in Names, HandleCreate(r, n) PROVE Arrives(r)
  <2>1. PICK id \in Ids : Arrive(r, "create", id, NULL) /\ Goto(r, "CreateVolume")
                          /\ UNCHANGED <<slice, reply>>
    BY <1>1 DEF HandleCreate
  <2>2. pc[r] = "idle"
    BY <2>1 DEF Arrive
  <2>3. pc'[r] = "CreateVolume" /\ \A q \in Requests \ {r} : pc'[q] = pc[q]
    BY <2>1, GotoDoes
  <2>4. reply'[r] \notin {"OK", "Panic", "Garbled"}
    BY <2>1, <2>2, NotAnswered, MemoryAssumption DEF Replies
  <2> QED
    BY <2>1, <2>3, <2>4
<1>2. ASSUME NEW id \in Ids, HandleGet(r, id) PROVE Arrives(r)
  <2>1. Arrive(r, "get", id, NULL) /\ pc[r] = "idle" /\ reply[r] \notin {"OK", "Panic", "Garbled"}
    BY <1>2, NotAnswered, MemoryAssumption DEF HandleGet, Arrive, Replies
  <2>2. CASE Finish(r, "NotFound")
    BY <2>1, <2>2, FinishDoes, FinishShows
  <2>3. CASE id \in stored /\ ToEncode(r, object[id]) /\ UNCHANGED reply
    <3>1. object[id] # NULL
      BY <2>3 DEF IndInv, MapsAgree
    <3> QED
      BY <2>1, <2>3, <3>1, ToEncodeDoes, ToEncodeShows
  <2> QED
    BY <1>2, <2>2, <2>3 DEF HandleGet
<1>3. ASSUME NEW id \in Ids, HandleDelete(r, id) PROVE Arrives(r)
  <2>1. Arrive(r, "delete", id, NULL) /\ pc[r] = "idle" /\ reply[r] \notin {"OK", "Panic", "Garbled"}
    BY <1>3, NotAnswered, MemoryAssumption DEF HandleDelete, Arrive, Replies
  <2>2. CASE Finish(r, "NotFound")
    BY <2>1, <2>2, FinishDoes, FinishShows
  <2>3. CASE Goto(r, "Check") /\ UNCHANGED <<slice, reply>>
    BY <2>1, <2>3, GotoDoes
  <2> QED
    BY <1>3, <2>2, <2>3 DEF HandleDelete
<1>4. ASSUME NEW id \in Ids, NEW node \in Nodes, HandlePublish(r, id, node) PROVE Arrives(r)
  <2>1. Arrive(r, "publish", id, node) /\ pc[r] = "idle" /\ reply[r] \notin {"OK", "Panic", "Garbled"}
    BY <1>4, NotAnswered, MemoryAssumption DEF HandlePublish, Arrive, Replies
  <2>2. ASSUME NEW code \in {"NotFound", "InternalError"}, Finish(r, code) PROVE Arrives(r)
    BY <2>1, <2>2, FinishDoes, FinishShows
  <2>3. CASE id \in stored /\ LookAt(r, object[id].publishedOn) /\ Goto(r, "Append") /\ UNCHANGED reply
    <3>1. object[id] # NULL
      BY <2>3 DEF IndInv, MapsAgree
    <3>2. slice'[r] = object[id].publishedOn /\ \A q \in Requests \ {r} : slice'[q] = slice[q]
      BY <2>3 DEF LookAt, IndInv, TypeOK
    <3> QED
      BY <2>1, <2>3, <3>1, <3>2, GotoDoes
  <2> QED
    BY <1>4, <2>2, <2>3 DEF HandlePublish
<1> QED
  BY <1>1, <1>2, <1>3, <1>4 DEF Begin

LEMMA AdvanceIsOfAKind ==
  ASSUME IndInv, Protection, NEW r \in Requests, Advance(r)
  PROVE  OneOfAKind(r)
<1> USE DEF OneOfAKind
<1>1. UNCHANGED <<req, before>> /\ StepsOK(r) /\ slice[r] \in Slice
  BY DEF Advance, CreateStep, Check, DeleteStep, Load, AppendEntry, StorePtr, StoreLen,
         StoreEntry, UpdateStep, Encode, arrival, Protection, LocalsProtect, IndInv, TypeOK
<1>2. ASSUME CreateStep(r) PROVE OneOfAKind(r)
  <2>1. pc[r] = "CreateVolume" /\ req[r].op = "create" /\ object[Id(r)] = NULL
    BY <1>1, <1>2 DEF CreateStep, Protection, LocalsProtect, UnmadeOK, StepsOK
  <2>2. CASE Creatable(Id(r), drawnFor[Id(r)])
    <3>1. /\ object' = [object EXCEPT ![Id(r)] = NewObject(drawnFor[Id(r)])]
          /\ ToEncode(r, NewObject(drawnFor[Id(r)])) /\ UNCHANGED <<array, reply, wild>>
      BY <1>2, <2>2 DEF CreateStep, CreateVolume
    <3>2. slice'[r] = EmptyList /\ \A q \in Requests \ {r} : slice'[q] = slice[q]
      BY <3>1, ToEncodeShows DEF NewObject, EmptyList
    <3> QED
      BY <1>1, <2>1, <3>1, <3>2, ToEncodeDoes DEF Makes, Goes
  <2>3. CASE ~Creatable(Id(r), drawnFor[Id(r)])
    BY <1>1, <1>2, <2>1, <2>3, FinishLeaves DEF CreateStep, CreateVolume, storeVars, Stumbles
  <2> QED
    BY <2>2, <2>3
<1>3. ASSUME Check(r) PROVE OneOfAKind(r)
  <2>1. pc[r] = "Check" /\ UNCHANGED <<object, array, wild>> /\ Stumbles(r)
    BY <1>3 DEF Check, heapVars, storeVars, Stumbles
  <2>2. CASE Finish(r, "Conflict")
    BY <1>1, <2>1, <2>2, FinishLeaves
  <2>3. CASE Goto(r, "DeleteVolume") /\ UNCHANGED <<slice, reply>>
    <3>1. reply[r] \notin {"OK", "Panic", "Garbled"}
      BY <2>1, NotAnswered, MemoryAssumption DEF Replies
    <3> QED
      BY <1>1, <2>1, <2>3, <3>1, GotoDoes DEF Leaves, Goes, Publishing
  <2> QED
    BY <1>3, <2>2, <2>3 DEF Check
<1>4. ASSUME DeleteStep(r) PROVE OneOfAKind(r)
  <2>1. /\ pc[r] = "DeleteVolume" /\ req[r].op = "delete" /\ Stumbles(r)
        /\ UNCHANGED <<object, array, wild>>
    BY <1>1, <1>4 DEF DeleteStep, DeleteVolume, StepsOK, Stumbles
  <2>2. PICK code \in {"OK", "InternalError"} : Finish(r, code)
    BY <1>4 DEF DeleteStep
  <2> QED
    BY <1>1, <2>1, <2>2, FinishLeaves
<1>5. ASSUME Load(r) PROVE OneOfAKind(r)
  <2>1. PICK w \in Words :
          /\ pc[r] = "Append" \/ (pc[r] = "Encode" /\ w # "cap")
          /\ slice[r][w] # Shared(r)[w]
          /\ slice' = [slice EXCEPT ![r] = [@ EXCEPT ![w] = Shared(r)[w]]]
    BY <1>5 DEF Load
  <2>2. UNCHANGED <<object, array, pc, reply, wild>>
    BY <1>5 DEF Load, heapVars, storeVars
  <2>3. \A q \in Requests \ {r} : slice'[q] = slice[q]
    BY <2>1 DEF IndInv, TypeOK
  <2>4. slice[r] # Shared(r)
    BY <2>1
  <2>5. pc[r] = "Encode" => w \in {"ptr", "len"}
    BY <2>1 DEF Words
  <2> QED
    BY <1>1, <2>1, <2>2, <2>3, <2>4, <2>5 DEF Loads, Goes
<1>6. ASSUME AppendEntry(r) PROVE OneOfAKind(r)
  <2> DEFINE s == slice[r]
  <2>1. pc[r] = "Append"
    BY <1>6 DEF AppendEntry
  <2>2. CASE s.len < s.cap /\ Goto(r, "StoreLen") /\ UNCHANGED <<heapVars, slice, reply, wild>>
    BY <1>1, <2>1, <2>2, GotoDoes DEF Skips, Goes, heapVars, storeVars
  <2>3. CASE Dangling(s) /\ Finish(r, "Panic") /\ UNCHANGED <<heapVars, wild>>
    BY <1>1, <2>1, <2>3, FinishLeaves DEF heapVars, storeVars, Stumbles, Publishing
  <2>4. CASE Overlong(s) /\ GoWild
    BY <1>1, <2>1, <2>4 DEF EndsWild, Goes, GoWild, heapVars, storeVars
  <2>5. CASE /\ ~Dangling(s) /\ ~Overlong(s)
             /\ array' = [array EXCEPT ![r] = GrownArray(s)]
             /\ Store(r, "cap", GrownCap(s))
             /\ slice' = [slice EXCEPT ![r] = [ptr |-> r, len |-> s.len, cap |-> GrownCap(s)]]
             /\ Goto(r, "StorePtr")
             /\ UNCHANGED <<reply, wild>>
    <3>1. /\ slice'[r] = [ptr |-> r, len |-> s.len, cap |-> GrownCap(s)]
          /\ \A q \in Requests \ {r} : slice'[q] = slice[q]
      BY <2>5 DEF IndInv, TypeOK
    <3> QED
      BY <1>1, <2>1, <2>5, <3>1, GotoDoes DEF Grows, Goes
  <2> QED
    BY <1>6, <2>2, <2>3, <2>4, <2>5 DEF AppendEntry
<1>7. ASSUME StorePtr(r) PROVE OneOfAKind(r)
  BY <1>1, <1>7, GotoDoes DEF StorePtr, StoresPtr, Goes
<1>8. ASSUME StoreLen(r) PROVE OneOfAKind(r)
  BY <1>1, <1>8, GotoDoes DEF StoreLen, StoresLen, Goes
<1>9. ASSUME StoreEntry(r) PROVE OneOfAKind(r)
  <2> DEFINE s == slice[r]
  <2>1. pc[r] = "StoreEntry"
    BY <1>9 DEF StoreEntry
  <2>2. CASE s.ptr = NULL /\ Finish(r, "Panic") /\ UNCHANGED <<heapVars, wild>>
    BY <1>1, <2>1, <2>2, FinishLeaves DEF heapVars, storeVars, Stumbles, Publishing
  <2>3. CASE s.ptr # NULL /\ s.len >= Len(array[s.ptr]) /\ GoWild
    BY <1>1, <2>1, <2>3 DEF EndsWild, Goes, GoWild, heapVars, storeVars
  <2>4. CASE /\ s.ptr # NULL /\ s.len < Len(array[s.ptr])
             /\ array' = [array EXCEPT ![s.ptr][s.len + 1] = Entry(r)]
             /\ Goto(r, "UpdateVolume")
             /\ UNCHANGED <<storeVars, slice, reply, wild>>
    BY <1>1, <2>1, <2>4, GotoDoes DEF Enters, Goes, Entry, storeVars
  <2> QED
    BY <1>9, <2>2, <2>3, <2>4 DEF StoreEntry
<1>10. ASSUME UpdateStep(r) PROVE OneOfAKind(r)
  <2>1. /\ pc[r] = "UpdateVolume" /\ UNCHANGED <<object, array, reply, wild>>
        /\ ToEncode(r, object[Id(r)]) /\ Stumbles(r)
    BY <1>10 DEF UpdateStep, UpdateVolume, storeVars, Stumbles
  <2>2. reply[r] \notin {"OK", "Panic", "Garbled"}
    BY <2>1, NotAnswered, MemoryAssumption DEF Replies
  <2> QED
    BY <1>1, <2>1, <2>2, ToEncodeDoes, ToEncodeShows DEF Leaves, Goes, Publishing, Shared
<1>11. ASSUME Encode(r) PROVE OneOfAKind(r)
  <2> DEFINE s == slice[r]
  <2>1. pc[r] = "Encode" /\ Stumbles(r)
    BY <1>11 DEF Encode, Stumbles
  <2>2. CASE Overlong(s) /\ GoWild
    BY <1>1, <2>1, <2>2 DEF EndsWild, Goes, GoWild, heapVars, storeVars
  <2>3. CASE Dangling(s) /\ Finish(r, "Panic") /\ UNCHANGED <<heapVars, wild>>
    BY <1>1, <2>1, <2>3, FinishLeaves DEF Readable, heapVars, storeVars
  <2>4. CASE /\ \E code \in IF \E k \in 1..s.len : array[s.ptr][k] = "blank"
                             THEN {"Garbled", "Panic"} ELSE {SuccessCode(r)} :
                  Finish(r, code)
             /\ UNCHANGED <<heapVars, wild>>
    <3>1. PICK code : /\ Finish(r, code)
                      /\ code \in {"Panic", "Garbled"} => ~Readable(s)
      BY <2>4 DEF Readable, SuccessCode
    <3> QED
      BY <1>1, <2>1, <2>4, <3>1, FinishLeaves DEF heapVars, storeVars
  <2> QED
    BY <1>11, <2>2, <2>3, <2>4 DEF Encode
<1> QED
  BY <1>2, <1>3, <1>4, <1>5, <1>6, <1>7, <1>8, <1>9, <1>10, <1>11 DEF Advance

-----------------------------------------------------------------------------
\* The volume of r after the store of a word; the other volumes stay.
LEMMA StoreShows ==
  ASSUME IndInv, NEW r \in Requests, pc[r] \in Holding, NEW w \in Words, NEW value,
         w = "ptr" => value \in Requests \cup {NULL},
         w # "ptr" => value \in Nat,
         Store(r, w, value)
  PROVE  /\ Id(r) \in Ids /\ object[Id(r)] # NULL /\ object'[Id(r)] # NULL
         /\ \A x \in Words : object'[Id(r)].publishedOn[x] =
                               IF x = w THEN value ELSE object[Id(r)].publishedOn[x]
         /\ \A id \in Ids \ {Id(r)} : object'[id] = object[id]
<1> DEFINE o == object[Id(r)]
           s == [o.publishedOn EXCEPT ![w] = value]
<1>1. Id(r) \in Ids /\ o \in Object /\ o.publishedOn \in Slice /\ o # NULL
  BY Held, MemoryAssumption DEF Object
<1>2. object' = [object EXCEPT ![Id(r)] = [o EXCEPT !.publishedOn = s]]
  BY DEF Store
<1>3. \A x \in Words : s[x] = IF x = w THEN value ELSE o.publishedOn[x]
  BY <1>1 DEF Slice, Words
<1>4. [o EXCEPT !.publishedOn = s].publishedOn = s
  BY <1>1 DEF Object
<1>5. object'[Id(r)] = [o EXCEPT !.publishedOn = s]
      /\ \A id \in Ids \ {Id(r)} : object'[id] = object[id]
  BY <1>1, <1>2 DEF IndInv, TypeOK, StoreTypeOK
<1>6. object'[Id(r)] # NULL
  BY <1>1, StoreKeeps
<1> HIDE DEF s
<1> QED
  BY <1>1, <1>3, <1>4, <1>5, <1>6

\* What the stores of an append leave of its volume.
LEMMA AppendStores ==
  ASSUME IndInv, NEW r \in Requests, Grows(r) \/ StoresPtr(r) \/ StoresLen(r)
  PROVE  /\ Id(r) \in Ids /\ object[Id(r)] # NULL /\ object'[Id(r)] # NULL
         /\ \A id \in Ids \ {Id(r)} : object'[id] = object[id]
         /\ Grows(r) =>
              /\ object'[Id(r)].publishedOn.ptr = object[Id(r)].publishedOn.ptr
              /\ object'[Id(r)].publishedOn.len = object[Id(r)].publishedOn.len
              /\ object'[Id(r)].publishedOn.cap = GrownCap(slice[r])
         /\ StoresPtr(r) =>
              /\ object'[Id(r)].publishedOn.ptr = slice[r].ptr
              /\ object'[Id(r)].publishedOn.len = object[Id(r)].publishedOn.len
              /\ object'[Id(r)].publishedOn.cap = object[Id(r)].publishedOn.cap
         /\ StoresLen(r) =>
              /\ object'[Id(r)].publishedOn.ptr = object[Id(r)].publishedOn.ptr
              /\ object'[Id(r)].publishedOn.len = slice[r].len + 1
              /\ object'[Id(r)].publishedOn.cap = object[Id(r)].publishedOn.cap
<1>1. slice[r] \in Slice /\ "ptr" \in Words /\ "len" \in Words /\ "cap" \in Words
  BY DEF IndInv, TypeOK, Words
<1>2. slice[r].ptr \in Requests \cup {NULL} /\ slice[r].len + 1 \in Nat /\ GrownCap(slice[r]) \in Nat
  BY <1>1, GrownCapType DEF Slice
<1>3. CASE Grows(r)
  <2>1. pc[r] \in Holding /\ pc[r] = "Append" /\ Store(r, "cap", GrownCap(slice[r]))
    BY <1>3 DEF Grows, Holding, Steps
  <2> QED
    BY <1>1, <1>2, <2>1, StoreShows DEF StoresPtr, StoresLen
<1>4. CASE StoresPtr(r)
  <2>1. pc[r] \in Holding /\ pc[r] = "StorePtr" /\ Store(r, "ptr", slice[r].ptr)
    BY <1>4 DEF StoresPtr, Holding, Steps
  <2> QED
    BY <1>1, <1>2, <2>1, StoreShows DEF Grows, StoresLen
<1>5. CASE StoresLen(r)
  <2>1. pc[r] \in Holding /\ pc[r] = "StoreLen" /\ Store(r, "len", slice[r].len + 1)
    BY <1>5 DEF StoresLen, Holding, Steps
  <2> QED
    BY <1>1, <1>2, <2>1, StoreShows DEF Grows, StoresPtr
<1> QED
  BY <1>3, <1>4, <1>5

\* What a step does to the volumes: it makes one, or changes that of an append.
LEMMA VolumesChange ==
  ASSUME IndInv, NEW r \in Requests, OneOfAKind(r), NEW id \in Ids, object'[id] # object[id]
  PROVE  /\ id = Id(r) /\ object'[id] # NULL
         /\ \/ Makes(r) /\ object[id] = NULL /\ object'[id].publishedOn = EmptyList
            \/ (Grows(r) \/ StoresPtr(r) \/ StoresLen(r)) /\ object[id] # NULL
<1>1. CASE Makes(r)
  <2>1. Id(r) \in Ids /\ drawnFor[Id(r)] \in Names /\ object[Id(r)] = NULL
    BY <1>1, PendingFacts DEF Makes
  <2>2. /\ object' = [object EXCEPT ![Id(r)] = NewObject(drawnFor[Id(r)])]
        /\ NewObject(drawnFor[Id(r)]) # NULL
        /\ NewObject(drawnFor[Id(r)]).publishedOn = EmptyList
    BY <1>1, <2>1, NewObjectType, MemoryAssumption DEF Makes, NewObject
  <2> QED
    BY <1>1, <2>1, <2>2 DEF IndInv, TypeOK, StoreTypeOK
<1>2. CASE Grows(r) \/ StoresPtr(r) \/ StoresLen(r)
  BY <1>2, AppendStores
<1>3. CASE UNCHANGED object
  BY <1>3
<1> QED
  BY <1>1, <1>2, <1>3
  DEF OneOfAKind, Arrives, Arrive, Leaves, EndsWild, Loads, Skips, Enters, heapVars, storeVars

\* Nothing is unmade.
LEMMA VolumesStay ==
  ASSUME IndInv, NEW r \in Requests, OneOfAKind(r), NEW id \in Ids, object[id] # NULL
  PROVE  object'[id] # NULL
BY VolumesChange

\* The requests that a step does not concern.
LEMMA OthersStay ==
  ASSUME IndInv, NEW r \in Requests, OneOfAKind(r)
  PROVE  /\ \A q \in Requests \ {r} :
              /\ pc'[q] = pc[q] /\ reply'[q] = reply[q] /\ slice'[q] = slice[q]
              /\ req'[q] = req[q] /\ before'[q] = before[q] /\ Id(q)' = Id(q)
         /\ pc[r] # "done" /\ pc'[r] # "idle"
         /\ pc[r] # "idle" => Goes(r) /\ UNCHANGED <<req, before>> /\ Id(r)' = Id(r)
         /\ pc[r] = "idle" => Arrives(r)
<1>1. CASE Arrives(r)
  BY <1>1 DEF Arrives, Arrive, Id, IndInv, TypeOK
<1>2. CASE Goes(r)
  <2>1. UNCHANGED <<req, before>>
    BY <1>2 DEF Goes
  <2> QED
    BY <1>2, <2>1 DEF Goes, Id
<1> QED
  BY <1>1, <1>2
  DEF OneOfAKind, Makes, Leaves, EndsWild, Loads, Skips, Grows, StoresPtr, StoresLen, Enters

LEMMA OwnPtrStays ==
  ASSUME IndInv, NEW r \in Requests, OneOfAKind(r), NEW p, NEW id, OwnPtr(p, id)
  PROVE  OwnPtr(p, id)'
<1>1. CASE p = NULL
  BY <1>1 DEF OwnPtr
<1>2. CASE p # NULL /\ p # r
  BY <1>2, OthersStay DEF OwnPtr
<1>3. CASE p # NULL /\ p = r
  BY <1>3, OthersStay DEF OwnPtr, Goes
<1> QED
  BY <1>1, <1>2, <1>3

\* The slice r has in hand after its step.
LEMMA InHandAfter ==
  ASSUME IndInv, OwnersOK, NEW r \in Requests, OneOfAKind(r), pc'[r] \in Publishing,
         NEW p, p = slice'[r].ptr, NEW id, id = Id(r)'
  PROVE  OwnPtr(p, id)'
<1>1. CASE Arrives(r)
  <2>1. id \in Ids /\ object[id] # NULL /\ slice'[r] = object[id].publishedOn
    BY <1>1 DEF Arrives, Arrive, IndInv, TypeOK, Id
  <2>2. OwnPtr(p, id)
    BY <2>1 DEF OwnersOK
  <2> QED
    BY <2>2, OwnPtrStays
<1>2. CASE Goes(r)
  <2>1. id = Id(r) /\ pc[r] # "idle"
    BY <1>2, OthersStay DEF Goes
  <2>2. CASE Grows(r)
    BY <2>1, <2>2 DEF Grows, OwnPtr, Goes, Id
  <2>3. CASE Loads(r)
    <3>1. PICK w \in Words : slice' = [slice EXCEPT ![r] = [@ EXCEPT ![w] = Shared(r)[w]]]
      BY <2>3 DEF Loads
    <3>2. pc[r] \in Publishing /\ pc[r] \in Holding
      BY <2>3 DEF Loads, Publishing, Holding, Steps
    <3>3. Shared(r) \in Slice /\ slice[r] \in Slice /\ Id(r) \in Ids /\ object[Id(r)] # NULL
      BY <3>2, Held, MemoryAssumption DEF IndInv, TypeOK
    <3>4. slice'[r] = [slice[r] EXCEPT ![w] = Shared(r)[w]]
      BY <3>1 DEF IndInv, TypeOK
    <3>5. p \in {slice[r].ptr, Shared(r).ptr}
      BY <3>3, <3>4 DEF Slice, Words
    <3>6. OwnPtr(slice[r].ptr, Id(r)) /\ OwnPtr(Shared(r).ptr, Id(r))
      BY <3>2, <3>3 DEF OwnersOK, Shared
    <3> QED
      BY <2>1, <3>5, <3>6, OwnPtrStays
  <2>4. CASE slice'[r] = slice[r] /\ pc[r] \in Publishing
    BY <2>1, <2>4, OwnPtrStays DEF OwnersOK
  <2> QED
    BY <1>2, <2>2, <2>3, <2>4
    DEF OneOfAKind, Goes, Arrives, Arrive, Makes, Leaves, EndsWild, Skips, StoresPtr,
        StoresLen, Enters, Publishing
<1> QED
  BY <1>1, <1>2, OthersStay

LEMMA OwnersStep ==
  ASSUME IndInv, OwnersOK, NEW r \in Requests, OneOfAKind(r)
  PROVE  OwnersOK'
<1>1. ASSUME NEW q \in Requests
      PROVE  /\ pc'[q] = "idle" => req'[q] = NULL
             /\ pc'[q] # "idle" => req'[q] \in Request
  <2>1. req'[r] \in Request
    <3>1. CASE pc[r] = "idle"
      <4>1. PICK op \in {"create", "get", "delete", "publish"}, id \in Ids,
                 node \in Nodes \cup {NULL} : Arrive(r, op, id, node)
        BY <3>1, OthersStay DEF Arrives
      <4> QED
        BY <4>1, ArriveType DEF IndInv
    <3>2. CASE pc[r] # "idle"
      BY <3>2, OthersStay DEF OwnersOK
    <3> QED
      BY <3>1, <3>2
  <2> QED
    BY <2>1, OthersStay DEF OwnersOK
<1>2. ASSUME NEW q \in Requests, pc'[q] \in Publishing, NEW p, p = slice'[q].ptr,
             NEW id, id = Id(q)'
      PROVE  OwnPtr(p, id)'
  <2>1. CASE q = r
    BY <1>2, <2>1, InHandAfter
  <2>2. CASE q # r
    BY <1>2, <2>2, OthersStay, OwnPtrStays DEF OwnersOK
  <2> QED
    BY <2>1, <2>2
<1>3. ASSUME NEW id \in Ids, object'[id] # NULL, NEW p, p = object'[id].publishedOn.ptr
      PROVE  OwnPtr(p, id)'
  <2>1. CASE object'[id] = object[id]
    <3>1. OwnPtr(p, id)
      BY <1>3, <2>1 DEF OwnersOK
    <3> QED
      BY <3>1, OwnPtrStays
  <2>2. CASE object'[id] # object[id] /\ Makes(r)
    <3>1. ~Grows(r) /\ ~StoresPtr(r) /\ ~StoresLen(r)
      BY <2>2 DEF Makes, Grows, StoresPtr, StoresLen
    <3>2. object'[id].publishedOn = EmptyList
      BY <2>2, <3>1, VolumesChange
    <3> QED
      BY <1>3, <3>2 DEF OwnPtr, EmptyList
  <2>3. CASE object'[id] # object[id] /\ ~Makes(r)
    <3>1. /\ id = Id(r) /\ (Grows(r) \/ StoresPtr(r) \/ StoresLen(r))
          /\ object[id] # NULL
      BY <2>3, VolumesChange
    <3>2. p \in {object[id].publishedOn.ptr, slice[r].ptr}
      BY <1>3, <3>1, AppendStores
    <3>3. pc[r] \in Publishing
      BY <3>1 DEF Grows, StoresPtr, StoresLen, Publishing
    <3>4. OwnPtr(object[id].publishedOn.ptr, id) /\ OwnPtr(slice[r].ptr, id)
      BY <3>1, <3>3 DEF OwnersOK
    <3> QED
      BY <3>2, <3>4, OwnPtrStays
  <2> QED
    BY <2>1, <2>2, <2>3
<1> QED
  BY <1>1, <1>2, <1>3 DEF OwnersOK, OwnPtr

LEMMA AloneStays ==
  ASSUME IndInv, OwnersOK, NEW r \in Requests, OneOfAKind(r),
         NEW q \in Requests, pc[q] # "idle", Alone(q)'
  PROVE  Alone(q)
<1>1. req'[q] = req[q] /\ before'[q] = before[q]
  BY OthersStay
<1>2. ASSUME NEW p \in Requests, On(p, "publish", Id(q))
      PROVE  ~Overlap(p, q)
  <2>1. pc[p] # "idle"
    BY <1>2 DEF On, OwnersOK
  <2>2. req'[p] = req[p] /\ before'[p] = before[p]
    BY <2>1, OthersStay
  <2>3. On(p, "publish", Id(q))'
    BY <1>1, <1>2, <2>2 DEF On, Id
  <2>4. ~Overlap(p, q)'
    BY <2>3 DEF Alone
  <2> QED
    BY <1>1, <2>2, <2>4 DEF Overlap
<1> QED
  BY <1>2 DEF Alone

\* While r is at work alone, nobody else appends to its volume.
LEMMA AloneMeans ==
  ASSUME IndInv, Protection, OwnersOK, NEW r \in Requests, Alone(r),
         NEW q \in Requests \ {r}, pc[q] \in Publishing, Id(q) = Id(r)
  PROVE  pc[r] = "done"
<1>1. On(q, "publish", Id(r))
  <2>1. req[q] # NULL
    BY MemoryAssumption DEF IndInv, Locals, LocalOK, TypeOK, OwnersOK, Publishing, Request
  <2> QED
    BY <2>1 DEF On, Protection, LocalsProtect, StepsOK
<1>2. q \in before[r] \/ r \in before[q]
  BY <1>1 DEF Alone, Overlap
<1>3. (q \in before[r] => pc[q] = "done") /\ (r \in before[q] => pc[r] = "done")
  BY DEF Protection, LocalsProtect, RefusedOK
<1> QED
  BY <1>2, <1>3 DEF Publishing

\* ... so that its volume stays as it is in others' steps.
LEMMA AloneUnchanged ==
  ASSUME IndInv, Protection, OwnersOK, NEW r \in Requests, OneOfAKind(r),
         NEW q \in Requests \ {r}, Alone(q), pc[q] \in Publishing
  PROVE  object'[Id(q)] = object[Id(q)]
<1> SUFFICES ASSUME object'[Id(q)] # object[Id(q)] PROVE FALSE
  OBVIOUS
<1>1. pc[q] \in Holding /\ pc[q] # "done"
  BY DEF Publishing, Holding, Steps
<1>2. Id(q) \in Ids /\ object[Id(q)] # NULL
  BY <1>1, Held, MemoryAssumption
<1>3. Id(q) = Id(r) /\ (Grows(r) \/ StoresPtr(r) \/ StoresLen(r))
  BY <1>2, VolumesChange
<1>4. pc[r] \in Publishing
  BY <1>3 DEF Grows, StoresPtr, StoresLen, Publishing
<1> QED
  BY <1>1, <1>3, <1>4, AloneMeans

LEMMA HandsStep ==
  ASSUME IndInv, IndInv', Protection, OwnersOK, HandsOK, NEW r \in Requests, OneOfAKind(r)
  PROVE  HandsOK'
<1> SUFFICES ASSUME NEW q \in Requests, pc'[q] \in Publishing, Alone(q)'
             PROVE  InHand(q)'
  BY DEF HandsOK
<1>1. CASE q # r
  <2>1. pc'[q] = pc[q] /\ slice'[q] = slice[q] /\ req'[q] = req[q] /\ pc[q] # "idle"
    BY <1>1, OthersStay DEF Publishing
  <2>2. Alone(q) /\ InHand(q)
    BY <2>1, AloneStays DEF HandsOK
  <2>3. object'[Id(q)] = object[Id(q)]
    BY <1>1, <2>1, <2>2, AloneUnchanged
  <2> QED
    BY <2>1, <2>2, <2>3 DEF InHand, Shared, Id
<1>2. CASE q = r /\ pc[r] = "idle"
  <2>1. Arrives(r)
    BY <1>2, OthersStay
  <2>2. PICK id \in Ids : /\ Arrive(r, "publish", id, req'[r].node)
                          /\ pc'[r] = "Append" /\ slice'[r] = object[id].publishedOn
    <3>1. PICK op \in {"create", "get", "delete", "publish"}, id \in Ids,
               node \in Nodes \cup {NULL} :
            /\ Arrive(r, op, id, node)
            /\ pc'[r] = "Append" /\ op = "publish"
            /\ slice'[r] = object[id].publishedOn
      BY <1>2, <2>1 DEF Arrives
    <3>2. req'[r].node = node
      BY <3>1, ArriveType DEF IndInv
    <3> QED
      BY <3>1, <3>2
  <2>3. req'[r].id = id /\ UNCHANGED object
    BY <2>2 DEF Arrive, IndInv, TypeOK, heapVars, storeVars
  <2> QED
    BY <1>2, <2>2, <2>3 DEF InHand, Shared, Id
<1>3. CASE q = r /\ pc[r] # "idle"
  <2>1. Goes(r) /\ UNCHANGED req /\ Alone(r)
    BY <1>3, OthersStay, AloneStays
  <2>2. pc[r] \in Publishing => InHand(r)
    BY <2>1 DEF HandsOK
  <2>3. CASE EndsWild(r)
    BY <1>3, <2>1, <2>2, <2>3 DEF EndsWild, InHand, Shared, Id
  <2>4. CASE Loads(r)
    BY <1>3, <2>2, <2>4 DEF Loads, InHand, Publishing
  <2>5. CASE Skips(r)
    BY <1>3, <2>1, <2>2, <2>5 DEF Skips, InHand, Publishing, Shared, Id
  <2>6. CASE Grows(r)
    <3>1. slice[r] = object[Id(r)].publishedOn
      BY <2>2, <2>6 DEF Grows, InHand, Publishing, Shared
    <3>2. /\ pc'[r] = "StorePtr" /\ slice'[r].ptr = r
          /\ slice'[r].len = slice[r].len /\ slice'[r].cap = GrownCap(slice[r])
      BY <2>6 DEF Grows
    <3>3. /\ object'[Id(r)].publishedOn.len = object[Id(r)].publishedOn.len
          /\ object'[Id(r)].publishedOn.cap = GrownCap(slice[r])
      BY <2>6, AppendStores
    <3> QED
      BY <1>3, <2>1, <3>1, <3>2, <3>3 DEF InHand, Shared, Id
  <2>7. CASE StoresPtr(r)
    <3>1. /\ slice[r].len = object[Id(r)].publishedOn.len
          /\ slice[r].cap = object[Id(r)].publishedOn.cap
          /\ pc'[r] = "StoreLen" /\ UNCHANGED slice
      BY <2>2, <2>7 DEF StoresPtr, InHand, Publishing, Shared
    <3>2. /\ Id(r) \in Ids /\ object'[Id(r)] # NULL
          /\ object'[Id(r)].publishedOn.ptr = slice[r].ptr
          /\ object'[Id(r)].publishedOn.len = slice[r].len
          /\ object'[Id(r)].publishedOn.cap = slice[r].cap
      BY <2>7, <3>1, AppendStores
    <3>3. object'[Id(r)].publishedOn \in Slice /\ slice[r] \in Slice
      BY <3>2 DEF IndInv, TypeOK, StoreTypeOK, Object
    <3>4. slice[r] = object'[Id(r)].publishedOn
      BY <3>2, <3>3 DEF Slice
    <3> QED
      BY <1>3, <2>1, <3>1, <3>4 DEF InHand, Shared, Id
  <2>8. CASE StoresLen(r)
    <3>1. /\ slice[r] = object[Id(r)].publishedOn
          /\ pc'[r] = "StoreEntry" /\ UNCHANGED slice
      BY <2>2, <2>8 DEF StoresLen, InHand, Publishing, Shared
    <3>2. /\ object'[Id(r)].publishedOn.ptr = slice[r].ptr
          /\ object'[Id(r)].publishedOn.len = slice[r].len + 1
          /\ object'[Id(r)].publishedOn.cap = slice[r].cap
      BY <2>8, <3>1, AppendStores
    <3> QED
      BY <1>3, <2>1, <3>1, <3>2 DEF InHand, Shared, Id
  <2> QED
    BY <1>3, <2>1, <2>3, <2>4, <2>5, <2>6, <2>7, <2>8
    DEF OneOfAKind, Arrives, Arrive, Makes, Leaves, Enters, Publishing
<1> QED
  BY <1>1, <1>2, <1>3

-----------------------------------------------------------------------------
\* The arrays: one is allocated, or gets an entry behind those in hand.
LEMMA ArraysChange ==
  ASSUME IndInv, OwnersOK, NEW r \in Requests, OneOfAKind(r),
         NEW p \in Requests, array'[p] # array[p]
  PROVE  \/ Grows(r) /\ p = r /\ array'[p] = GrownArray(slice[r])
         \/ /\ Enters(r) /\ p = slice[r].ptr /\ Id(p) = Id(r)
            /\ array'[p] = [array[p] EXCEPT ![slice[r].len + 1] = req[r].node]
            /\ array[p] \in Seq(Nodes \cup {"blank"})
            /\ slice[r].len \in Nat /\ slice[r].len < Len(array[p])
            /\ req[r].node \in Nodes
<1>1. array[p] \in Seq(Nodes \cup {"blank"})
  BY DEF IndInv, TypeOK, Array
<1>2. CASE Grows(r)
  BY <1>2 DEF Grows, IndInv, TypeOK
<1>3. CASE Enters(r)
  <2>1. pc[r] = "StoreEntry" /\ slice[r] \in Slice /\ slice[r].ptr # NULL
    BY <1>3 DEF Enters, IndInv, TypeOK
  <2>2. slice[r].ptr \in Requests /\ Id(slice[r].ptr) = Id(r)
    BY <2>1 DEF OwnersOK, OwnPtr, Publishing
  <2>3. p = slice[r].ptr /\ slice[r].len < Len(array[p])
        /\ array'[p] = [array[p] EXCEPT ![slice[r].len + 1] = req[r].node]
    BY <1>3, <2>2 DEF Enters, IndInv, TypeOK
  <2>4. req[r].node \in Nodes /\ slice[r].len \in Nat
    BY <2>1 DEF IndInv, Locals, LocalOK, Publishing, Slice
  <2> QED
    BY <1>1, <1>3, <2>2, <2>3, <2>4
<1>4. CASE UNCHANGED array
  BY <1>4
<1> QED
  BY <1>2, <1>3, <1>4
  DEF OneOfAKind, Arrives, Arrive, Makes, Leaves, EndsWild, Loads, Skips, StoresPtr,
      StoresLen, heapVars

\* An entry stays in a slice, if the append that stores one behind it knows it.
LEMMA HasAtStays ==
  ASSUME IndInv, OwnersOK, NEW r \in Requests, OneOfAKind(r),
         NEW id, NEW s \in Slice, OwnPtr(s.ptr, id), NEW k \in Nat, NEW node,
         HasAt(s, k, node),
         id = Id(r) /\ pc[r] = "StoreEntry" => HasAt(slice[r], k, node)
  PROVE  HasAt(s, k, node)'
<1>1. PICK p \in Requests : p = s.ptr /\ p # NULL /\ pc[p] # "Append" /\ Id(p) = id
  BY DEF OwnPtr, HasAt
<1>2. CASE array'[p] = array[p]
  BY <1>1, <1>2 DEF HasAt
<1>3. CASE array'[p] # array[p]
  <2>1. /\ Enters(r) /\ p = slice[r].ptr /\ Id(p) = Id(r)
        /\ array'[p] = [array[p] EXCEPT ![slice[r].len + 1] = req[r].node]
        /\ array[p] \in Seq(Nodes \cup {"blank"})
        /\ slice[r].len \in Nat /\ slice[r].len < Len(array[p])
    <3>1. ~(Grows(r) /\ p = r)
      BY <1>1 DEF Grows
    <3> QED
      BY <1>3, <3>1, ArraysChange
  <2>2. HasAt(slice[r], k, node)
    BY <1>1, <2>1 DEF Enters
  <2>3. k <= slice[r].len
    BY <2>2 DEF HasAt
  <2>4. Len(array'[p]) = Len(array[p]) /\ array'[p][k] = array[p][k]
    BY <1>1, <2>1, <2>3 DEF HasAt
  <2> QED
    BY <1>1, <2>4 DEF HasAt
<1> QED
  BY <1>2, <1>3

\* The slice that r has in hand after its step shows the entry, if the volume
\* and r did before.
LEMMA InHandShows ==
  ASSUME IndInv, IndInv', OwnersOK, NEW r \in Requests, OneOfAKind(r), pc'[r] \in Publishing,
         NEW id, id = Id(r)', NEW k \in Nat \ {0}, NEW node,
         HasAt(object[id].publishedOn, k, node),
         pc[r] \in Publishing => HasAt(slice[r], k, node)
  PROVE  HasAt(slice[r], k, node)'
<1> DEFINE old == slice[r]
           new == slice'[r]
<1>1. new \in Slice /\ old \in Slice
  BY DEF IndInv, TypeOK
<1>2. CASE Arrives(r)
  <2>1. id \in Ids /\ object[id] # NULL /\ new = object[id].publishedOn /\ pc[r] = "idle"
    BY <1>2 DEF Arrives, Arrive, IndInv, TypeOK, Id
  <2>2. OwnPtr(new.ptr, id)
    BY <2>1 DEF OwnersOK
  <2>3. PICK s \in Slice : s = new
    BY <1>1
  <2>4. HasAt(s, k, node)'
    BY <2>1, <2>2, <2>3, HasAtStays
  <2> QED
    BY <2>3, <2>4 DEF HasAt
<1>3. CASE Goes(r)
  <2>1. id = Id(r) /\ pc[r] # "idle"
    BY <1>3, OthersStay DEF Goes
  <2>2. CASE Grows(r)
    <3>1. /\ HasAt(old, k, node) /\ old.len \in Nat
          /\ array'[r] = GrownArray(old) /\ new = [ptr |-> r, len |-> old.len, cap |-> GrownCap(old)]
      BY <1>1, <2>2 DEF Grows, Publishing, IndInv, TypeOK, Slice
    <3>2. GrownCap(old) \in Nat /\ k <= old.len /\ old.len + 1 <= GrownCap(old) /\ r # NULL
      BY <1>1, <3>1, MemoryAssumption DEF HasAt, GrownCap, Slice
    <3>3. k \in 1..GrownCap(old)
      BY <3>1, <3>2
    <3>4. array'[r][k] = array[old.ptr][k] /\ Len(array'[r]) = GrownCap(old)
      BY <3>1, <3>2, <3>3 DEF GrownArray
    <3> QED
      BY <3>1, <3>2, <3>3, <3>4 DEF HasAt
  <2>3. CASE Loads(r)
    <3>1. PICK w \in Words : slice' = [slice EXCEPT ![r] = [@ EXCEPT ![w] = Shared(r)[w]]]
      BY <2>3 DEF Loads
    <3>2. pc[r] \in Publishing /\ pc[r] \in Holding /\ UNCHANGED array
      BY <2>3 DEF Loads, Publishing, Holding, Steps
    <3>3. Shared(r) \in Slice
      BY <3>2, Held
    <3>4. new = [old EXCEPT ![w] = Shared(r)[w]]
      BY <3>1 DEF IndInv, TypeOK
    <3>5. new.ptr \in {old.ptr, Shared(r).ptr} /\ new.len \in {old.len, Shared(r).len}
      BY <1>1, <3>3, <3>4 DEF Slice, Words
    <3>6. HasAt(old, k, node) /\ HasAt(Shared(r), k, node)
      BY <2>1, <3>2 DEF Shared
    <3> QED
      BY <3>2, <3>5, <3>6 DEF HasAt
  <2>4. CASE new = old /\ pc[r] \in Publishing
    <3>1. OwnPtr(old.ptr, id) /\ HasAt(old, k, node)
      BY <2>1, <2>4 DEF OwnersOK
    <3>2. PICK s \in Slice : s = new
      BY <1>1
    <3>3. HasAt(s, k, node)'
      BY <2>4, <3>1, <3>2, HasAtStays
    <3> QED
      BY <3>2, <3>3 DEF HasAt
  <2> QED
    BY <1>3, <2>2, <2>3, <2>4
    DEF OneOfAKind, Goes, Arrives, Arrive, Makes, Leaves, EndsWild, Skips, StoresPtr,
        StoresLen, Enters, Publishing
<1> QED
  BY <1>2, <1>3, OthersStay

\* ... and so does the volume.
LEMMA VolumeShows ==
  ASSUME IndInv, IndInv', OwnersOK, NEW r \in Requests, OneOfAKind(r),
         NEW id \in Ids, object[id] # NULL, NEW k \in Nat \ {0}, NEW node,
         HasAt(object[id].publishedOn, k, node),
         pc[r] \in Publishing /\ id = Id(r) => HasAt(slice[r], k, node)
  PROVE  HasAt(object[id].publishedOn, k, node)'
<1>1. PICK s \in Slice : s = object[id].publishedOn
  BY DEF IndInv, TypeOK, StoreTypeOK, Object
<1>2. HasAt(s, k, node)'
  <2>1. OwnPtr(s.ptr, id)
    BY <1>1 DEF OwnersOK
  <2> QED
    BY <1>1, <2>1, HasAtStays DEF Publishing
<1>3. CASE object'[id] = object[id]
  BY <1>1, <1>2, <1>3 DEF HasAt
<1>4. CASE object'[id] # object[id]
  <2>1. id = Id(r) /\ (Grows(r) \/ StoresPtr(r) \/ StoresLen(r))
    BY <1>4, VolumesChange
  <2>2. HasAt(slice[r], k, node) /\ slice[r] \in Slice
    BY <2>1 DEF Grows, StoresPtr, StoresLen, Publishing, IndInv, TypeOK
  <2>3. CASE Grows(r)
    BY <1>1, <1>2, <2>1, <2>3, AppendStores DEF HasAt
  <2>4. CASE StoresPtr(r)
    BY <1>1, <1>2, <2>1, <2>2, <2>4, AppendStores DEF HasAt, StoresPtr
  <2>5. CASE StoresLen(r)
    <3>1. /\ object'[id].publishedOn.ptr = s.ptr
          /\ object'[id].publishedOn.len = slice[r].len + 1
          /\ UNCHANGED array
      BY <1>1, <2>1, <2>5, AppendStores DEF StoresLen
    <3>2. k <= slice[r].len + 1
      BY <2>2 DEF HasAt, Slice
    <3> QED
      BY <1>1, <1>2, <3>1, <3>2 DEF HasAt
  <2> QED
    BY <2>1, <2>3, <2>4, <2>5
<1> QED
  BY <1>3, <1>4

LEMMA EntryStaysKept ==
  ASSUME IndInv, IndInv', OwnersOK, NEW r \in Requests, OneOfAKind(r),
         NEW e \in Requests, Entered(e), NEW k \in Nat \ {0}, EntryStays(e, k)
  PROVE  EntryStays(e, k)'
<1>1. PICK id \in Ids, node \in Nodes \cup {NULL} : id = Id(e) /\ node = req[e].node
  BY DEF Entered, Id, Request
<1>2. pc[e] # "idle"
  BY MemoryAssumption DEF Entered, OwnersOK
<1>3. Id(e)' = id /\ req'[e].node = node
  BY <1>1, <1>2, OthersStay
<1>4. object[id] # NULL /\ HasAt(object[id].publishedOn, k, node)
  BY <1>1 DEF EntryStays, Shared
<1>5. ASSUME NEW q \in Requests, pc[q] \in Publishing, Id(q) = id
      PROVE  HasAt(slice[q], k, node)
  BY <1>1, <1>5 DEF EntryStays
<1>6. object'[id] # NULL /\ HasAt(object[id].publishedOn, k, node)'
  BY <1>4, <1>5, VolumesStay, VolumeShows
<1>7. ASSUME NEW q \in Requests, pc'[q] \in Publishing, Id(q)' = id
      PROVE  HasAt(slice[q], k, node)'
  <2>1. CASE q = r
    <3>1. pc[r] \in Publishing => HasAt(slice[r], k, node)
      <4>1. pc[r] \in Publishing => Id(r) = id
        BY <1>7, <2>1, OthersStay DEF Publishing
      <4> QED
        BY <1>5, <4>1
    <3> QED
      BY <1>4, <1>7, <2>1, <3>1, InHandShows
  <2>2. CASE q # r
    <3>1. pc[q] \in Publishing /\ Id(q) = id /\ slice'[q] = slice[q]
      BY <1>7, <2>2, OthersStay
    <3>2. PICK s \in Slice : s = slice[q]
      BY DEF IndInv, TypeOK
    <3>3. OwnPtr(s.ptr, id) /\ HasAt(s, k, node)
      BY <1>5, <3>1, <3>2 DEF OwnersOK
    <3>4. HasAt(s, k, node)'
      BY <1>5, <3>2, <3>3, HasAtStays DEF Publishing
    <3> QED
      BY <3>1, <3>2, <3>4 DEF HasAt
  <2> QED
    BY <2>1, <2>2
<1> QED
  BY <1>3, <1>6, <1>7 DEF EntryStays, Shared, HasAt

\* A request that was alone when it stored its entry finds it in the volume.
LEMMA EntersShows ==
  ASSUME IndInv, IndInv', Protection, OwnersOK, HandsOK, NEW r \in Requests, OneOfAKind(r),
         Enters(r), Alone(r)
  PROVE  \E k \in Nat \ {0} : EntryStays(r, k)'
<1> DEFINE s == slice[r]
<1>1. /\ pc[r] = "StoreEntry" /\ pc'[r] = "UpdateVolume" /\ UNCHANGED <<object, req>>
      /\ s.ptr # NULL /\ s.len < Len(array[s.ptr])
      /\ array' = [array EXCEPT ![s.ptr][s.len + 1] = req[r].node]
  BY DEF Enters, Goes
<1>2. InHand(r) /\ pc[r] \in Holding
  BY <1>1 DEF HandsOK, Publishing, Holding, Steps
<1>3. s \in Slice /\ Id(r) \in Ids /\ object[Id(r)] # NULL /\ req[r] \in Request
  BY <1>2, Held, MemoryAssumption DEF IndInv, TypeOK
<1>4. PICK p \in Requests, k \in Nat \ {0}, node \in Nodes \cup {NULL}, id \in Ids :
        p = s.ptr /\ k = s.len + 1 /\ node = req[r].node /\ id = Id(r)
  BY <1>1, <1>3 DEF Slice, Request
<1>5. object[id].publishedOn.ptr = p /\ object[id].publishedOn.len = k
  BY <1>1, <1>2, <1>4 DEF InHand, Shared
<1>6. array[p] \in Seq(Nodes \cup {"blank"})
  BY DEF IndInv, TypeOK, Array
<1>7. k \in 1..Len(array[p])
  BY <1>1, <1>3, <1>4, <1>6 DEF Slice
<1>8. array'[p] = [array[p] EXCEPT ![k] = node]
  BY <1>1, <1>4 DEF IndInv, TypeOK
<1>9. Len(array'[p]) = Len(array[p]) /\ array'[p][k] = node
  BY <1>6, <1>7, <1>8
<1>10. \A q \in Requests : pc'[q] \in Publishing => Id(q)' # id
  <2>1. ASSUME NEW q \in Requests \ {r}, pc[q] \in Publishing PROVE Id(q) # Id(r)
    BY <1>1, <2>1, AloneMeans
  <2> QED
    BY <1>1, <1>4, <2>1, OthersStay DEF Publishing
<1>11. HasAt(object[id].publishedOn, k, node)'
  BY <1>1, <1>4, <1>5, <1>7, <1>9 DEF HasAt
<1>12. Id(r)' = id /\ req'[r].node = node /\ object'[id] # NULL
  BY <1>1, <1>3, <1>4 DEF Id
<1>13. EntryStays(r, k)'
  BY <1>10, <1>11, <1>12 DEF EntryStays, Shared, HasAt
<1> QED
  BY <1>13

\* A request that says it has entered its entry has just stored it, or had
\* done so before.
LEMMA EnteredByEntering ==
  ASSUME IndInv, Protection, OwnersOK, NEW r \in Requests, OneOfAKind(r),
         NEW e \in Requests, Entered(e)'
  PROVE  Entered(e) \/ (e = r /\ Enters(r))
<1>1. CASE e # r
  BY <1>1, OthersStay DEF Entered
<1>2. CASE e = r /\ pc[r] = "idle"
  <2>1. PICK op \in {"create", "get", "delete", "publish"}, id \in Ids, node \in Nodes \cup {NULL} :
          /\ Arrive(r, op, id, node)
          /\ pc'[r] = "Encode" => op # "publish"
    BY <1>2, OthersStay DEF Arrives
  <2>2. req'[r].op = op
    BY <2>1 DEF Arrive, IndInv, TypeOK
  <2> QED
    BY <1>2, <2>1, <2>2, OthersStay DEF Arrives, Entered
<1>3. CASE e = r /\ pc[r] # "idle"
  <2>1. req' = req
    BY <1>3, OthersStay
  <2>2. ~Arrives(r)
    BY <1>3 DEF Arrives, Arrive
  <2> QED
    BY <1>3, <2>1, <2>2
    DEF Entered, OneOfAKind, Makes, Leaves, EndsWild, Loads, Skips, Grows, StoresPtr, StoresLen
<1> QED
  BY <1>1, <1>2, <1>3

LEMMA EntriesStep ==
  ASSUME IndInv, IndInv', Protection, OwnersOK, HandsOK, EntriesStay,
         NEW r \in Requests, OneOfAKind(r)
  PROVE  EntriesStay'
<1> SUFFICES ASSUME NEW e \in Requests, Entered(e)', Alone(e)'
             PROVE  \E k \in Nat \ {0} : EntryStays(e, k)'
  BY DEF EntriesStay
<1>1. CASE Entered(e)
  <2>1. pc[e] # "idle"
    BY <1>1, MemoryAssumption DEF Entered, OwnersOK
  <2>2. PICK k \in Nat \ {0} : EntryStays(e, k)
    BY <1>1, <2>1, AloneStays DEF EntriesStay
  <2> QED
    BY <1>1, <2>2, EntryStaysKept
<1>2. CASE e = r /\ Enters(r)
  <2>1. Alone(r)
    BY <1>2, AloneStays DEF Enters
  <2> QED
    BY <1>2, <2>1, EntersShows
<1> QED
  BY <1>1, <1>2, EnteredByEntering

-----------------------------------------------------------------------------
\* A step leaves all as it is, or is one of the kinds.
LEMMA NextByKind ==
  ASSUME IndInv, Protection, [Next]_vars
  PROVE  UNCHANGED vars \/ \E r \in Requests : OneOfAKind(r) /\ (Begin(r) \/ Advance(r))
<1>1. CASE Terminated
  BY <1>1 DEF Terminated
<1>2. ASSUME NEW r \in Requests, Begin(r) PROVE OneOfAKind(r)
  BY <1>2, BeginArrives DEF OneOfAKind
<1> QED
  BY <1>1, <1>2, AdvanceIsOfAKind DEF Next

EntriesInv == OwnersOK /\ HandsOK /\ EntriesStay

LEMMA EntriesInit == Init => EntriesInv
BY MemoryAssumption
DEF Init, StoreInit, EntriesInv, OwnersOK, HandsOK, EntriesStay, Entered, Publishing, Request

LEMMA EntriesInvStep ==
  ASSUME IndInv, IndInv', Protection, EntriesInv, [Next]_vars
  PROVE  EntriesInv'
<1>1. CASE UNCHANGED vars
  <2>1. OwnersOK' /\ HandsOK'
    BY <1>1
    DEF vars, heapVars, storeVars, arrival, EntriesInv, OwnersOK, OwnPtr, HandsOK, InHand,
        Alone, On, Overlap, Shared, Id
  <2>2. EntriesStay'
    BY <1>1
    DEF vars, heapVars, storeVars, arrival, EntriesInv, EntriesStay, Entered, Alone, On,
        Overlap, EntryStays, HasAt, Shared, Id
  <2> QED
    BY <2>1, <2>2 DEF EntriesInv
<1>2. ASSUME NEW r \in Requests, OneOfAKind(r) PROVE EntriesInv'
  BY <1>2, OwnersStep, HandsStep, EntriesStep DEF EntriesInv
<1> QED
  BY <1>1, <1>2, NextByKind

LEMMA EntriesInvariance == Spec => [](IndInv /\ Protection /\ EntriesInv)
<1>1. IndInv /\ Protection /\ [Next]_vars => Protection'
  BY ProtectionStep
<1>2. IndInv /\ IndInv' /\ Protection /\ EntriesInv /\ [Next]_vars => EntriesInv'
  BY EntriesInvStep
<1> QED
  BY <1>1, <1>2, ProtectionInit, EntriesInit, MemoryInvariance, PTL DEF Spec

\* An entry is only lost to a race of its own: what an append stored while it
\* was the only one on its volume is in the array of every later append, at an
\* index that no length goes below (HandlePublish's append).
THEOREM UnracedEntriesStay == Spec => []EntriesKept
<1>1. IndInv /\ Protection /\ EntriesInv => EntriesKept
  <2> SUFFICES ASSUME IndInv, EntriesInv, NEW r \in Requests, NEW id \in Ids,
                      On(r, "publish", id), reply[r] = "OK",
                      \A q \in Requests : On(q, "publish", id) => ~Overlap(q, r)
               PROVE  req[r].node \in Entries(object[id].publishedOn)
    BY DEF EntriesKept
  <2>1. Entered(r) /\ Alone(r) /\ id = Id(r)
    BY DEF On, Entered, Alone, IndInv, TypeOK
  <2>2. PICK k \in Nat \ {0} : HasAt(object[id].publishedOn, k, req[r].node)
    BY <2>1 DEF EntriesInv, EntriesStay, EntryStays, Shared
  <2>3. object[id].publishedOn \in Slice
    BY <2>1 DEF EntriesInv, EntriesStay, EntryStays, IndInv, TypeOK, StoreTypeOK, Object
  <2> DEFINE s == object[id].publishedOn
  <2>4. s.ptr \in Requests /\ s.len \in Nat
    BY <2>2, <2>3 DEF HasAt, Slice
  <2>5. array[s.ptr] \in Seq(Nodes \cup {"blank"})
    BY <2>4 DEF IndInv, TypeOK, Array
  <2>6. k \in DOMAIN array[s.ptr] \cap 1..s.len
    BY <2>2, <2>4, <2>5 DEF HasAt
  <2> QED
    BY <2>2, <2>6 DEF Entries, HasAt
<1> QED
  BY <1>1, EntriesInvariance, PTL

-----------------------------------------------------------------------------
\* The words of the slice s fit together, and its entries are written.
Whole(s) ==
  /\ s.ptr = NULL => s.len = 0 /\ s.cap = 0
  /\ s.ptr # NULL =>
       /\ Len(array[s.ptr]) = s.cap /\ s.len <= s.cap
       /\ \A k \in 1..s.len : array[s.ptr][k] # "blank"

\* The volume id, and what the requests on it have in hand, without a race.
SoundAt(id) ==
  /\ \A r \in Requests :
       /\ pc[r] \in Publishing /\ Id(r) = id =>
            Whole(slice[r]) /\ (pc[r] # "Append" => slice[r].len < slice[r].cap)
       /\ pc[r] = "Encode" /\ Id(r) = id =>
            slice[r].ptr = Shared(r).ptr /\ slice[r].len = Shared(r).len
  /\ object[id] # NULL /\ (\A r \in Requests : pc[r] \in Publishing => Id(r) # id) =>
       Whole(object[id].publishedOn)

Soundness == \A id \in Ids : ~Raced(id) => SoundAt(id)

LEMMA RacedStays ==
  ASSUME IndInv, OwnersOK, NEW r \in Requests, OneOfAKind(r), NEW id \in Ids, Raced(id)
  PROVE  Raced(id)'
<1>1. PICK p \in Requests, q \in Requests :
        On(p, "publish", id) /\ req[q] # NULL /\ Id(q) = id /\ Overlap(p, q)
  BY DEF Raced
<1>2. pc[p] # "idle" /\ pc[q] # "idle"
  BY <1>1 DEF OwnersOK, On
<1>3. /\ req'[p] = req[p] /\ before'[p] = before[p]
      /\ req'[q] = req[q] /\ before'[q] = before[q]
  BY <1>2, OthersStay
<1> QED
  BY <1>1, <1>3 DEF Raced, On, Overlap, Id

\* While an append is at work on a volume without a race, the other requests
\* on it are over.
LEMMA UnracedMeans ==
  ASSUME IndInv, Protection, OwnersOK, NEW id \in Ids, ~Raced(id),
         NEW q \in Requests, pc[q] \in Publishing, Id(q) = id
  PROVE  /\ Alone(q)
         /\ \A r \in Requests \ {q} : Id(r) = id /\ pc[r] # "idle" => pc[r] = "done"
<1>1. req[q] # NULL /\ On(q, "publish", id)
  <2>1. req[q] # NULL
    BY MemoryAssumption DEF OwnersOK, Publishing
  <2> QED
    BY <2>1 DEF On, Protection, LocalsProtect, StepsOK
<1>2. Alone(q)
  BY <1>1 DEF Alone, Raced
<1>3. ASSUME NEW r \in Requests \ {q}, Id(r) = id, pc[r] # "idle"
      PROVE  pc[r] = "done"
  <2>1. req[r] # NULL
    BY <1>3, MemoryAssumption DEF OwnersOK
  <2>2. q \in before[r] \/ r \in before[q]
    BY <1>1, <1>3, <2>1 DEF Raced, Overlap
  <2>3. (q \in before[r] => pc[q] = "done") /\ (r \in before[q] => pc[r] = "done")
    BY DEF Protection, LocalsProtect, RefusedOK
  <2> QED
    BY <2>2, <2>3 DEF Publishing
<1> QED
  BY <1>2, <1>3

\* A request that arrives while an append is at work races with it.
LEMMA ArrivalRaces ==
  ASSUME IndInv, Protection, OwnersOK, NEW r \in Requests, Arrives(r), NEW id, Id(r)' = id,
         NEW q \in Requests, pc[q] \in Publishing, Id(q) = id
  PROVE  Raced(id)'
<1>1. pc[r] = "idle" /\ q # r /\ pc[q] # "done" /\ pc[q] # "idle"
  BY DEF Arrives, Arrive, Publishing
<1>2. PICK op \in {"create", "get", "delete", "publish"}, i \in Ids, node \in Nodes \cup {NULL} :
        Arrive(r, op, i, node)
  BY DEF Arrives
<1>3. req'[r] \in Request /\ req'[q] = req[q] /\ req'[r] # NULL
  BY <1>1, <1>2, ArriveType, MemoryAssumption DEF IndInv
<1>4. q \notin before'[r] /\ before'[q] = before[q]
  BY <1>1, <1>2 DEF Arrive, IndInv, TypeOK
<1>5. r \notin before[q]
  BY <1>1 DEF Protection, LocalsProtect, RefusedOK
<1>6. req[q] # NULL /\ req[q].op = "publish"
  BY <1>1, MemoryAssumption DEF OwnersOK, Protection, LocalsProtect, StepsOK
<1> QED
  BY <1>1, <1>3, <1>4, <1>5, <1>6 DEF Raced, On, Overlap, Id

\* A slice stays whole, but for the entry that its own append writes.
LEMMA WholeStays ==
  ASSUME IndInv, OwnersOK, NEW r \in Requests, OneOfAKind(r),
         NEW id, NEW s \in Slice, OwnPtr(s.ptr, id), Whole(s), ~(Enters(r) /\ Id(r) = id)
  PROVE  Whole(s)'
<1>1. CASE s.ptr = NULL
  BY <1>1 DEF Whole
<1>2. CASE s.ptr # NULL
  <2>1. s.ptr \in Requests /\ pc[s.ptr] # "Append" /\ Id(s.ptr) = id
    BY <1>2 DEF OwnPtr
  <2>2. array'[s.ptr] = array[s.ptr]
    BY <2>1, ArraysChange DEF Grows
  <2> QED
    BY <1>2, <2>2 DEF Whole
<1> QED
  BY <1>1, <1>2

LEMMA GrownIsWhole ==
  ASSUME NEW s \in Slice, Whole(s), NEW r \in Requests, array'[r] = GrownArray(s),
         NEW t \in Slice, t = [ptr |-> r, len |-> s.len, cap |-> GrownCap(s)]
  PROVE  Whole(t)' /\ t.len < t.cap
<1>1. s.len \in Nat /\ GrownCap(s) \in Nat /\ s.len < GrownCap(s)
  BY GrownCapType DEF Slice, GrownCap
<1>2. Len(array'[r]) = GrownCap(s)
  BY <1>1 DEF GrownArray
<1>3. ASSUME NEW k \in 1..s.len PROVE array'[r][k] # "blank"
  <2>1. s.ptr # NULL /\ k \in 1..GrownCap(s) /\ k <= s.len
    BY <1>1 DEF Whole
  <2> QED
    BY <2>1 DEF GrownArray, Whole
<1>4. r # NULL
  BY MemoryAssumption
<1> QED
  BY <1>1, <1>2, <1>3, <1>4 DEF Whole

\* What a request that appends has in hand stays whole.
LEMMA SoundHands ==
  ASSUME IndInv, IndInv', Protection, OwnersOK, HandsOK, NEW r \in Requests, OneOfAKind(r),
         NEW id \in Ids, ~Raced(id), ~Raced(id)', SoundAt(id),
         NEW q \in Requests, pc'[q] \in Publishing, Id(q)' = id
  PROVE  Whole(slice[q])' /\ (pc'[q] # "Append" => slice'[q].len < slice'[q].cap)
<1>1. PICK s \in Slice : s = slice'[q]
  BY DEF IndInv, TypeOK
<1>2. ASSUME OwnPtr(s.ptr, id), Whole(s), ~(Enters(r) /\ Id(r) = id)
      PROVE  Whole(slice[q])'
  <2>1. Whole(s)'
    BY <1>2, WholeStays
  <2> QED
    BY <1>1, <2>1 DEF Whole
<1>3. CASE q # r
  <2>1. pc[q] \in Publishing /\ Id(q) = id /\ s = slice[q] /\ pc'[q] = pc[q]
    BY <1>1, <1>3, OthersStay
  <2>2. OwnPtr(s.ptr, id) /\ Whole(s) /\ (pc[q] # "Append" => s.len < s.cap)
    BY <2>1 DEF OwnersOK, SoundAt
  <2>3. ~(Enters(r) /\ Id(r) = id)
    BY <1>3, <2>1, UnracedMeans DEF Enters
  <2> QED
    BY <1>1, <1>2, <2>1, <2>2, <2>3
<1>4. CASE q = r /\ pc[r] = "idle"
  <2>1. Arrives(r)
    BY <1>4, OthersStay
  <2>2. /\ object[id] # NULL /\ s = object[id].publishedOn /\ pc'[r] = "Append"
        /\ ~Enters(r)
    BY <1>1, <1>4, <2>1 DEF Arrives, Arrive, IndInv, TypeOK, Id, Enters
  <2>3. \A p \in Requests : pc[p] \in Publishing => Id(p) # id
    BY <1>4, <2>1, ArrivalRaces
  <2>4. OwnPtr(s.ptr, id) /\ Whole(s)
    BY <2>2, <2>3 DEF OwnersOK, SoundAt
  <2> QED
    BY <1>2, <1>4, <2>2, <2>4
<1>5. CASE q = r /\ pc[r] # "idle"
  <2>1. Goes(r) /\ Id(r) = id
    BY <1>5, OthersStay
  <2>2. pc[r] \in Publishing => Alone(r) /\ InHand(r)
    BY <2>1, UnracedMeans DEF HandsOK
  <2>3. pc[r] \in Publishing =>
          Whole(slice[r]) /\ (pc[r] # "Append" => slice[r].len < slice[r].cap)
    BY <2>1 DEF SoundAt
  <2>4. CASE Grows(r)
    <3>1. /\ pc[r] \in Publishing /\ array'[r] = GrownArray(slice[r])
          /\ s = [ptr |-> r, len |-> slice[r].len, cap |-> GrownCap(slice[r])]
      BY <1>1, <1>5, <2>4 DEF Grows, Publishing, IndInv, TypeOK
    <3>2. PICK old \in Slice : old = slice[r]
      BY DEF IndInv, TypeOK
    <3>3. Whole(s)' /\ s.len < s.cap
      BY <2>3, <3>1, <3>2, GrownIsWhole
    <3> QED
      BY <1>1, <1>5, <3>3 DEF Whole
  <2>5. CASE Loads(r)
    BY <1>5, <2>2, <2>5 DEF Loads, InHand, Publishing
  <2>6. CASE s = slice[r] /\ pc[r] \in Publishing /\ ~Enters(r)
            /\ (pc'[r] # "Append" => slice[r].len < slice[r].cap)
    BY <1>1, <1>2, <1>5, <2>1, <2>3, <2>6 DEF OwnersOK
  <2> QED
    <3>1. EndsWild(r) \/ Skips(r) \/ StoresPtr(r) \/ StoresLen(r) \/ Grows(r) \/ Loads(r)
      BY <1>5, <2>1 DEF OneOfAKind, Arrives, Arrive, Makes, Leaves, Enters, Publishing
    <3>2. Skips(r) \/ StoresPtr(r) \/ StoresLen(r) =>
            UNCHANGED slice /\ pc[r] \in Publishing /\ ~Enters(r)
              /\ slice[r].len < slice[r].cap
      BY <2>3 DEF Skips, StoresPtr, StoresLen, Enters, Publishing
    <3>3. EndsWild(r) =>
            UNCHANGED slice /\ pc[r] \in Publishing /\ ~Enters(r)
              /\ (pc'[r] # "Append" => slice[r].len < slice[r].cap)
      BY <1>5, <2>3 DEF EndsWild, Enters, Publishing
    <3> QED
      BY <1>1, <1>5, <2>4, <2>5, <2>6, <3>1, <3>2, <3>3
<1> QED
  BY <1>3, <1>4, <1>5

\* What is to be shown of a volume is what is in it.
LEMMA SoundAnswers ==
  ASSUME IndInv, IndInv', Protection, OwnersOK, NEW r \in Requests, OneOfAKind(r),
         NEW id \in Ids, ~Raced(id), SoundAt(id),
         NEW q \in Requests, pc'[q] = "Encode", Id(q)' = id
  PROVE  /\ slice'[q].ptr = object'[id].publishedOn.ptr
         /\ slice'[q].len = object'[id].publishedOn.len
<1>1. CASE q # r
  <2>1. pc[q] = "Encode" /\ Id(q) = id /\ slice'[q] = slice[q]
    BY <1>1, OthersStay
  <2>2. object[id] # NULL
    BY <2>1, Held, MemoryAssumption DEF Holding, Steps
  <2>3. object'[id] = object[id]
    <3> SUFFICES ASSUME object'[id] # object[id] PROVE FALSE
      OBVIOUS
    <3>1. id = Id(r) /\ (Grows(r) \/ StoresPtr(r) \/ StoresLen(r))
      BY <2>2, VolumesChange
    <3>2. pc[r] \in Publishing
      BY <3>1 DEF Grows, StoresPtr, StoresLen, Publishing
    <3> QED
      BY <1>1, <2>1, <3>1, <3>2, UnracedMeans
  <2> QED
    BY <2>1, <2>3 DEF SoundAt, Shared
<1>2. CASE q = r /\ pc[r] = "idle"
  <2>1. PICK s \in Slice : s = object[id].publishedOn /\ slice'[r] = [s EXCEPT !.cap = 0]
                           /\ object' = object
    <3>1. /\ object[id] # NULL /\ slice'[r] = [object[id].publishedOn EXCEPT !.cap = 0]
          /\ object' = object
      BY <1>2, OthersStay DEF Arrives, Arrive, IndInv, TypeOK, Id, heapVars, storeVars
    <3> QED
      BY <3>1 DEF IndInv, TypeOK, StoreTypeOK, Object
  <2> QED
    BY <1>2, <2>1 DEF Slice
<1>3. CASE q = r /\ pc[r] # "idle"
  <2>1. Goes(r) /\ Id(r) = id
    BY <1>3, OthersStay
  <2>2. CASE Makes(r)
    <3>1. drawnFor[id] \in Names
      BY <2>1, <2>2, PendingFacts DEF Makes
    <3>2. object'[id].publishedOn = EmptyList
      BY <2>1, <2>2, <3>1 DEF Makes, NewObject, IndInv, TypeOK, StoreTypeOK
    <3> QED
      BY <1>3, <2>2, <3>2 DEF Makes
  <2>3. CASE Leaves(r)
    <3>1. pc[r] \in Holding /\ slice'[r] = [Shared(r) EXCEPT !.cap = 0] /\ object' = object
      BY <1>3, <2>3 DEF Leaves, Holding, Steps
    <3>2. Shared(r) \in Slice
      BY <3>1, Held
    <3> QED
      BY <1>3, <2>1, <3>1, <3>2 DEF Slice, Shared
  <2>4. CASE EndsWild(r)
    BY <1>3, <2>1, <2>4 DEF EndsWild, SoundAt, Shared
  <2>5. CASE Loads(r)
    BY <1>3, <2>1, <2>5 DEF Loads, SoundAt
  <2> QED
    BY <1>3, <2>1, <2>2, <2>3, <2>4, <2>5
    DEF OneOfAKind, Arrives, Arrive, Skips, Grows, StoresPtr, StoresLen, Enters
<1> QED
  BY <1>1, <1>2, <1>3

\* An entry is written where the length says.
LEMMA EntersWhole ==
  ASSUME IndInv, NEW r \in Requests, Enters(r), InHand(r), Whole(slice[r]),
         slice[r].len < slice[r].cap, NEW t \in Slice, t = Shared(r)
  PROVE  Whole(t)'
<1> DEFINE s == slice[r]
<1>1. /\ pc[r] = "StoreEntry" /\ s.ptr # NULL /\ s \in Slice
      /\ array' = [array EXCEPT ![s.ptr][s.len + 1] = req[r].node]
      /\ req[r].node \in Nodes
  BY DEF Enters, IndInv, TypeOK, Locals, LocalOK, Publishing
<1>2. t.ptr = s.ptr /\ t.cap = s.cap /\ t.len = s.len + 1
  BY <1>1 DEF InHand
<1>3. PICK p \in Requests, n \in Nat, c \in Nat, node \in Nodes :
        p = s.ptr /\ n = s.len /\ c = s.cap /\ node = req[r].node
  BY <1>1 DEF Slice
<1>4. array[p] \in Seq(Nodes \cup {"blank"}) /\ Len(array[p]) = c /\ n < c
  BY <1>1, <1>3 DEF IndInv, TypeOK, Array, Whole
<1>5. array'[p] = [array[p] EXCEPT ![n + 1] = node]
  BY <1>1, <1>3 DEF IndInv, TypeOK
<1>6. Len(array'[p]) = c
  BY <1>4, <1>5
<1>7. ASSUME NEW k \in 1..(n + 1)
      PROVE  array'[p][k] # "blank"
  <2>1. CASE k = n + 1
    BY <1>4, <1>5, <2>1, MemoryAssumption
  <2>2. CASE k # n + 1
    <3>1. k \in 1..n /\ array'[p][k] = array[p][k]
      BY <1>4, <1>5, <2>2
    <3> QED
      BY <1>1, <1>3, <3>1 DEF Whole
  <2> QED
    BY <2>1, <2>2
<1> QED
  BY <1>1, <1>2, <1>3, <1>4, <1>6, <1>7 DEF Whole

\* A volume that nobody appends to is whole.
LEMMA SoundVolume ==
  ASSUME IndInv, IndInv', Protection, OwnersOK, HandsOK, NEW r \in Requests, OneOfAKind(r),
         NEW id \in Ids, ~Raced(id), SoundAt(id), object'[id] # NULL,
         \A q \in Requests : pc'[q] \in Publishing => Id(q)' # id
  PROVE  Whole(object[id].publishedOn)'
<1>1. PICK t \in Slice : t = object'[id].publishedOn
  BY DEF IndInv, TypeOK, StoreTypeOK, Object
<1> SUFFICES Whole(t)'
  BY <1>1 DEF Whole
<1>2. CASE object'[id] # object[id]
  <2>1. ~Grows(r) /\ ~StoresPtr(r) /\ ~StoresLen(r)
    <3>1. id = Id(r)
      BY <1>2, VolumesChange
    <3> QED
      BY <3>1, OthersStay DEF Grows, StoresPtr, StoresLen, Publishing
  <2>2. t = EmptyList
    BY <1>1, <1>2, <2>1, VolumesChange
  <2> QED
    BY <2>2 DEF Whole, EmptyList
<1>3. CASE object'[id] = object[id] /\ \A q \in Requests : pc[q] \in Publishing => Id(q) # id
  <2>1. OwnPtr(t.ptr, id) /\ Whole(t)
    BY <1>1, <1>3 DEF OwnersOK, SoundAt
  <2>2. ~(Enters(r) /\ Id(r) = id)
    BY <1>3 DEF Enters, Publishing
  <2> QED
    BY <2>1, <2>2, WholeStays
<1>4. ASSUME object'[id] = object[id],
             NEW q \in Requests, pc[q] \in Publishing, Id(q) = id
      PROVE  Whole(t)'
  <2>1. q = r
    BY <1>4, OthersStay
  <2>2. Goes(r) /\ pc'[r] \notin Publishing
    BY <1>4, <2>1, OthersStay DEF Publishing
  <2>3. Alone(r) /\ InHand(r) /\ Whole(slice[r]) /\ (pc[r] # "Append" => slice[r].len < slice[r].cap)
    BY <1>4, <2>1, UnracedMeans DEF HandsOK, SoundAt
  <2>4. CASE Leaves(r)
    <3>1. slice[r] \in Slice
      BY DEF IndInv, TypeOK
    <3>2. FALSE
      BY <1>4, <2>1, <2>3, <2>4, <3>1
      DEF Leaves, Stumbles, Publishing, Dangling, Whole, Slice
    <3> QED
      BY <3>2
  <2>5. CASE Enters(r)
    <3>1. t = Shared(r) /\ slice[r].len < slice[r].cap
      BY <1>1, <1>4, <2>1, <2>3, <2>5 DEF Shared, Enters
    <3> QED
      BY <2>3, <2>5, <3>1, EntersWhole
  <2> QED
    BY <1>4, <2>1, <2>2, <2>4, <2>5
    DEF OneOfAKind, Goes, Arrives, Arrive, Makes, EndsWild, Loads, Skips, Grows, StoresPtr,
        StoresLen, Publishing
<1> QED
  BY <1>2, <1>3, <1>4

LEMMA SoundStep ==
  ASSUME IndInv, IndInv', Protection, OwnersOK, HandsOK, Soundness,
         NEW r \in Requests, OneOfAKind(r)
  PROVE  Soundness'
<1> SUFFICES ASSUME NEW id \in Ids, ~Raced(id)'
             PROVE  SoundAt(id)'
  BY DEF Soundness
<1>1. ~Raced(id) /\ SoundAt(id)
  BY RacedStays DEF Soundness
<1>2. ASSUME NEW q \in Requests, pc'[q] \in Publishing, Id(q)' = id
      PROVE  Whole(slice[q])' /\ (pc'[q] # "Append" => slice'[q].len < slice'[q].cap)
  BY <1>1, <1>2, SoundHands
<1>3. ASSUME NEW q \in Requests, pc'[q] = "Encode", Id(q)' = id
      PROVE  slice'[q].ptr = Shared(q).ptr' /\ slice'[q].len = Shared(q).len'
  <2>1. /\ slice'[q].ptr = object'[id].publishedOn.ptr
        /\ slice'[q].len = object'[id].publishedOn.len
    BY <1>1, <1>3, SoundAnswers
  <2> QED
    BY <1>3, <2>1 DEF Shared
<1>4. ASSUME object'[id] # NULL, \A q \in Requests : pc'[q] \in Publishing => Id(q)' # id
      PROVE  Whole(object[id].publishedOn)'
  BY <1>1, <1>4, SoundVolume
<1> QED
  BY <1>2, <1>3, <1>4 DEF SoundAt

-----------------------------------------------------------------------------
\* Without a race, no append stumbles, and what is shown can be read.
LEMMA NoStumble ==
  ASSUME IndInv, Protection, OwnersOK, NEW r \in Requests, NEW id \in Ids, Id(r) = id,
         ~Raced(id), SoundAt(id)
  PROVE  /\ ~EndsWild(r)
         /\ Leaves(r) => reply'[r] \notin {"Panic", "Garbled"}
<1>1. slice[r] \in Slice
  BY DEF IndInv, TypeOK
<1>2. CASE pc[r] \in Publishing
  <2>1. Whole(slice[r]) /\ (pc[r] # "Append" => slice[r].len < slice[r].cap)
    BY <1>2 DEF SoundAt
  <2>2. ~EndsWild(r)
    BY <1>1, <1>2, <2>1 DEF EndsWild, Overlong, Whole, Slice, Publishing
  <2>3. ~Leaves(r)
    BY <1>1, <1>2, <2>1 DEF Leaves, Stumbles, Dangling, Whole, Slice, Publishing
  <2> QED
    BY <2>2, <2>3
<1>3. CASE pc[r] = "Encode"
  <2>1. \A q \in Requests : pc[q] \in Publishing => Id(q) # id
    BY <1>3, UnracedMeans DEF Publishing
  <2>2. object[id] # NULL
    BY <1>3, Held, MemoryAssumption DEF Holding, Steps
  <2>3. PICK s \in Slice : s = object[id].publishedOn
    BY <2>2 DEF IndInv, TypeOK, StoreTypeOK, Object
  <2>4. Whole(s) /\ slice[r].ptr = s.ptr /\ slice[r].len = s.len
    BY <1>3, <2>1, <2>2, <2>3 DEF SoundAt, Shared
  <2>5. Readable(slice[r])
    BY <1>1, <2>3, <2>4 DEF Readable, Dangling, Overlong, Whole, Slice
  <2> QED
    BY <1>3, <2>5 DEF EndsWild, Leaves, Readable, Publishing
<1> QED
  BY <1>2, <1>3 DEF EndsWild, Leaves, Publishing

LEMMA DamageStep ==
  ASSUME IndInv, Protection, OwnersOK, HandsOK, Soundness, DamageOnlyByRaces,
         NEW r \in Requests, OneOfAKind(r)
  PROVE  DamageOnlyByRaces'
<1>1. ASSUME NEW q \in Requests, reply'[q] \in {"Panic", "Garbled"}
      PROVE  Raced(Id(q))'
  <2>1. CASE reply[q] \in {"Panic", "Garbled"}
    <3>1. pc[q] # "idle"
      BY <2>1, NotAnswered, MemoryAssumption DEF Replies
    <3>2. PICK id \in Ids : id = Id(q) /\ id = Id(q)'
      BY <3>1, OthersStay DEF OwnersOK, Id, Request
    <3>3. Raced(id)'
      BY <2>1, <3>2, RacedStays DEF DamageOnlyByRaces
    <3> QED
      BY <3>2, <3>3 DEF Raced
  <2>2. CASE reply[q] \notin {"Panic", "Garbled"}
    <3>1. q = r /\ Leaves(r) /\ pc[r] # "idle"
      BY <1>1, <2>2, OthersStay
      DEF OneOfAKind, Goes, Arrives, Makes, Leaves, EndsWild, Loads, Skips, Grows, StoresPtr,
          StoresLen, Enters
    <3>2. PICK id \in Ids : id = Id(r) /\ id = Id(r)'
      BY <3>1, OthersStay DEF OwnersOK, Id, Request
    <3>3. Raced(id)
      BY <1>1, <3>1, <3>2, NoStumble DEF Soundness
    <3>4. Raced(id)'
      BY <3>3, RacedStays
    <3> QED
      BY <3>1, <3>2, <3>4 DEF Raced
  <2> QED
    BY <2>1, <2>2
<1>2. ASSUME wild'
      PROVE  \E id \in Ids : Raced(id)'
  <2>1. CASE wild
    BY <2>1, RacedStays DEF DamageOnlyByRaces
  <2>2. CASE ~wild
    <3>1. EndsWild(r)
      BY <1>2, <2>2
      DEF OneOfAKind, Arrives, Arrive, Makes, Leaves, Loads, Skips, Grows, StoresPtr,
          StoresLen, Enters
    <3>2. PICK id \in Ids : id = Id(r)
      BY <3>1 DEF EndsWild, Goes, OwnersOK, Id, Request
    <3>3. Raced(id)
      BY <3>1, <3>2, NoStumble DEF Soundness
    <3> QED
      BY <3>3, RacedStays
  <2> QED
    BY <2>1, <2>2
<1> QED
  BY <1>1, <1>2 DEF DamageOnlyByRaces

LEMMA SoundInit == Init => Soundness /\ DamageOnlyByRaces
BY MemoryAssumption
DEF Init, StoreInit, Soundness, SoundAt, DamageOnlyByRaces, Publishing, Replies

LEMMA SoundnessStep ==
  ASSUME IndInv, IndInv', Protection, EntriesInv, Soundness, DamageOnlyByRaces, [Next]_vars
  PROVE  Soundness' /\ DamageOnlyByRaces'
<1>1. CASE UNCHANGED vars
  <2>1. Soundness'
    BY <1>1
    DEF vars, heapVars, storeVars, arrival, Soundness, SoundAt, Whole, Raced, On, Overlap,
        Shared, Id
  <2>2. DamageOnlyByRaces'
    BY <1>1
    DEF vars, heapVars, storeVars, arrival, DamageOnlyByRaces, Raced, On, Overlap, Id
  <2> QED
    BY <2>1, <2>2
<1>2. ASSUME NEW r \in Requests, OneOfAKind(r) PROVE Soundness' /\ DamageOnlyByRaces'
  BY <1>2, SoundStep, DamageStep DEF EntriesInv
<1> QED
  BY <1>1, <1>2, NextByKind

\* Nothing is damaged without a race: as long as no publication overlaps with
\* another request on its volume, the words of the slice fit together, and
\* every append and every answer finds what they say (HandlePublish's append,
\* and c.JSON, outside the lock).
THEOREM OnlyRacesDamage == Spec => []DamageOnlyByRaces
<1>1. IndInv /\ IndInv' /\ Protection /\ EntriesInv /\ Soundness /\ DamageOnlyByRaces
        /\ [Next]_vars => Soundness' /\ DamageOnlyByRaces'
  BY SoundnessStep
<1> QED
  BY <1>1, SoundInit, EntriesInvariance, PTL DEF Spec
=============================================================================
