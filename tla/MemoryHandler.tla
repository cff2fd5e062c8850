---------------------------- MODULE MemoryHandler ----------------------------
(***************************************************************************)
(* The volume handlers of pkg/api/handlers/volumes.go over the in-memory   *)
(* store: HandleCreate, HandleGet, HandleDelete and HandlePublish, each    *)
(* request in a goroutine of its own (HandleStage is HandlePublish on a    *)
(* list of its own).  A step of a request is a call of the store, which is *)
(* atomic, or one access to a word of a volume that other goroutines may   *)
(* access too.                                                             *)
(*                                                                         *)
(* These accesses race.  `volume.PublishedOn = append(...)' loads the      *)
(* three words of the slice one by one; then, if the capacity is used up,  *)
(* it copies the entries to a new array and stores capacity and pointer;   *)
(* then it stores the length, and the new entry last.  c.JSON loads the    *)
(* words one by one as well.  Whoever loads while another stores may see a *)
(* mixture.  A nil pointer with a length is a panic, which the Recovery    *)
(* middleware makes a 500; a length beyond the end of the array is an      *)
(* access to memory of something else, after which nothing can be said.    *)
(*                                                                         *)
(* Neither the store nor the backend looks at the context: a request that  *)
(* times out runs on to its end, and only its answer is another.  A crash  *)
(* leaves nothing of the store.  Both are left out.                        *)
(***************************************************************************)
EXTENDS MemoryStore

CONSTANT Nodes   \* node IDs that publish requests carry

VARIABLES
  array,      \* array[r]: the array that the append of request r allocated
  pc,         \* pc[r]: the step request r is about to take
  req,        \* req[r]: the parameters of request r
  slice,      \* slice[r]: the slice PublishedOn, as r has loaded its words
  reply,      \* reply[r]: what the caller got, NULL while it waits
  before,     \* before[r]: the requests on its volume that were over when r arrived
  drawnFor,   \* drawnFor[id]: the name uuid.New() drew id for, or NULL
  wild        \* memory outside an array was accessed

heapVars == <<storeVars, array>>
arrival == <<req, before, drawnFor>>
vars == <<heapVars, pc, slice, reply, arrival, wild>>

Steps == {"idle", "CreateVolume", "Check", "DeleteVolume", "Append", "StorePtr",
          "StoreLen", "StoreEntry", "UpdateVolume", "Encode", "done"}

\* http.Status...; "Panic" is a 500 too, "Garbled" a 200 with an entry that
\* no request sent.
Replies == {"Created", "OK", "NotFound", "Conflict", "InternalError",
            "Panic", "Garbled"}

Request == [op   : {"create", "get", "delete", "publish"},
            id   : Ids,
            node : Nodes \cup {NULL}]

ASSUME MemoryAssumption ==
  /\ NULL \notin Requests \cup Ids \cup Names \cup Nodes \cup Object \cup Request \cup Replies
  /\ "blank" \notin Nodes

\* An array's entries; "blank" is the empty string of fresh memory.
Array == Seq(Nodes \cup {"blank"})

TypeOK ==
  /\ StoreTypeOK
  /\ array \in [Requests -> Array]
  /\ pc \in [Requests -> Steps]
  /\ req \in [Requests -> Request \cup {NULL}]
  /\ slice \in [Requests -> Slice]
  /\ reply \in [Requests -> Replies \cup {NULL}]
  /\ before \in [Requests -> SUBSET Requests]
  /\ drawnFor \in [Ids -> Names \cup {NULL}]
  /\ wild \in BOOLEAN

Init ==
  /\ StoreInit
  /\ array = [r \in Requests |-> <<>>]
  /\ pc = [r \in Requests |-> "idle"]
  /\ req = [r \in Requests |-> NULL]
  /\ slice = [r \in Requests |-> EmptyList]
  /\ reply = [r \in Requests |-> NULL]
  /\ before = [r \in Requests |-> {}]
  /\ drawnFor = [id \in Ids |-> NULL]
  /\ wild = FALSE

-----------------------------------------------------------------------------
Goto(r, step) == pc' = [pc EXCEPT ![r] = step]

\* r begins to load the slice; what it does not load yet: see Load.
LookAt(r, s) == slice' = [slice EXCEPT ![r] = s]

\* c.JSON(code, ...)
Finish(r, code) ==
  /\ Goto(r, "done")
  /\ reply' = [reply EXCEPT ![r] = code]
  /\ LookAt(r, EmptyList)

\* Memory outside an array is read or written: the behaviour ends here.
GoWild ==
  /\ wild' = TRUE
  /\ UNCHANGED <<heapVars, pc, slice, reply>>

\* c.JSON(code, volume) loads pointer and length of the slice.
ToEncode(r, volume) ==
  /\ Goto(r, "Encode")
  /\ LookAt(r, [volume.publishedOn EXCEPT !.cap = 0])

\* The volume r is about, and its slice as it is now.
Id(r) == req[r].id
Shared(r) == object[Id(r)].publishedOn

\* Request r comes in and fits (Bind and Validate change nothing).
Arrive(r, op, id, node) ==
  /\ pc[r] = "idle"
  /\ req' = [req EXCEPT ![r] = [op |-> op, id |-> id, node |-> node]]
  /\ before' = [before EXCEPT ![r] = {q \in Requests : pc[q] = "done" /\ Id(q) = id}]
  /\ UNCHANGED <<heapVars, wild>>

\* An ID a caller can name.
Known(id) == drawnFor[id] # NULL

-----------------------------------------------------------------------------
\* HandleCreate up to CreateVolume: nobody else knows the object.
HandleCreate(r, n) ==
  \E id \in Ids :
    /\ drawnFor[id] = NULL
    /\ drawnFor' = [drawnFor EXCEPT ![id] = n]
    /\ Arrive(r, "create", id, NULL)
    /\ Goto(r, "CreateVolume")
    /\ UNCHANGED <<slice, reply>>

CreateStep(r) ==
  /\ pc[r] = "CreateVolume"
  /\ CreateVolume(Id(r), drawnFor[Id(r)])
  /\ \/ /\ Creatable(Id(r), drawnFor[Id(r)])
        /\ ToEncode(r, NewObject(drawnFor[Id(r)]))
        /\ UNCHANGED reply
     \/ /\ ~Creatable(Id(r), drawnFor[Id(r)])
        /\ Finish(r, "Conflict")
  /\ UNCHANGED <<array, arrival, wild>>

\* HandleGet: GetVolume; what it answers is read outside the lock.
HandleGet(r, id) ==
  /\ Arrive(r, "get", id, NULL)
  /\ Known(id)
  /\ \/ id \notin stored /\ Finish(r, "NotFound")
     \/ id \in stored /\ ToEncode(r, object[id]) /\ UNCHANGED reply
  /\ UNCHANGED drawnFor

HandleDelete(r, id) ==
  /\ Arrive(r, "delete", id, NULL)
  /\ Known(id)
  /\ \/ id \notin stored /\ Finish(r, "NotFound")
     \/ id \in stored /\ Goto(r, "Check") /\ UNCHANGED <<slice, reply>>
  /\ UNCHANGED drawnFor

\* A bug for the mutation checks: off by one.
InUseTwice(volume) == volume.publishedOn.len > 1

\* len(volume.PublishedOn) > 0
InUse(volume) == volume.publishedOn.len > 0

\* The check of PublishedOn, of the object as it is by now.
Check(r) ==
  /\ pc[r] = "Check"
  /\ \/ /\ InUse(object[Id(r)])
        /\ Finish(r, "Conflict")
     \/ /\ ~InUse(object[Id(r)])
        /\ Goto(r, "DeleteVolume")
        /\ UNCHANGED <<slice, reply>>
  /\ UNCHANGED <<heapVars, arrival, wild>>

DeleteStep(r) ==
  /\ pc[r] = "DeleteVolume"
  /\ DeleteVolume(Id(r))
  /\ Finish(r, IF Id(r) \in stored THEN "OK" ELSE "InternalError")
  /\ UNCHANGED <<array, arrival, wild>>

-----------------------------------------------------------------------------
\* HandlePublish: GetVolume, then the backend, which may fail and looks at
\* nothing that others change, then append begins to load the slice.
HandlePublish(r, id, node) ==
  /\ Arrive(r, "publish", id, node)
  /\ Known(id)
  /\ \/ /\ id \notin stored
        /\ Finish(r, "NotFound")
     \/ /\ id \in stored
        /\ Finish(r, "InternalError")
     \/ /\ id \in stored
        /\ LookAt(r, object[id].publishedOn)
        /\ Goto(r, "Append")
        /\ UNCHANGED reply
  /\ UNCHANGED drawnFor

\* A word of the slice, for the append or for the answer, was not loaded
\* when the step began but only now.
Load(r) ==
  /\ \E w \in Words :
       /\ pc[r] = "Append" \/ (pc[r] = "Encode" /\ w # "cap")
       /\ slice[r][w] # Shared(r)[w]
       /\ slice' = [slice EXCEPT ![r][w] = Shared(r)[w]]
  /\ UNCHANGED <<heapVars, pc, reply, arrival, wild>>

\* What is behind the slice s: no array at all, or fewer entries than it says.
Dangling(s) == s.ptr = NULL /\ s.len > 0
Overlong(s) == s.ptr # NULL /\ s.len > Len(array[s.ptr])

\* runtime.growslice: twice the capacity, or what is needed if that is more.
GrownCap(s) == IF s.len + 1 > 2 * s.cap THEN s.len + 1 ELSE 2 * s.cap

\* The array it allocates: the old entries, and fresh memory.
GrownArray(s) ==
  [k \in 1..GrownCap(s) |-> IF k <= s.len THEN array[s.ptr][k] ELSE "blank"]

\* A word of the volume is stored.
Store(r, w, value) == object' = [object EXCEPT ![Id(r)].publishedOn[w] = value]

\* append with the capacity used up: a new array, and its capacity stored.
\* With capacity to spare the next store is the length.
AppendEntry(r) ==
  LET s == slice[r]
  IN  /\ pc[r] = "Append"
      /\ \/ /\ s.len < s.cap
            /\ Goto(r, "StoreLen")
            /\ UNCHANGED <<heapVars, slice, reply, wild>>
         \/ /\ s.len >= s.cap /\ Dangling(s)
            /\ Finish(r, "Panic")
            /\ UNCHANGED <<heapVars, wild>>
         \/ /\ s.len >= s.cap /\ Overlong(s)
            /\ GoWild
         \/ /\ s.len >= s.cap /\ ~Dangling(s) /\ ~Overlong(s)
            /\ array' = [array EXCEPT ![r] = GrownArray(s)]
            /\ Store(r, "cap", GrownCap(s))
            /\ slice' = [slice EXCEPT ![r] = [ptr |-> r, len |-> s.len, cap |-> GrownCap(s)]]
            /\ Goto(r, "StorePtr")
            /\ UNCHANGED <<stored, names, reply, wild>>
      /\ UNCHANGED arrival

StorePtr(r) ==
  /\ pc[r] = "StorePtr"
  /\ Store(r, "ptr", slice[r].ptr)
  /\ Goto(r, "StoreLen")
  /\ UNCHANGED <<stored, names, array, slice, reply, arrival, wild>>

\* A bug for the mutation checks: the length is one too many.
StoreLenTooLong(r) ==
  /\ pc[r] = "StoreLen"
  /\ Store(r, "len", slice[r].len + 2)
  /\ Goto(r, "StoreEntry")
  /\ UNCHANGED <<stored, names, array, slice, reply, arrival, wild>>

\* A bug for the mutation checks: the length is not stored.
StoreLenForgotten(r) ==
  /\ pc[r] = "StoreLen"
  /\ Goto(r, "StoreEntry")
  /\ UNCHANGED <<heapVars, slice, reply, arrival, wild>>

StoreLen(r) ==
  /\ pc[r] = "StoreLen"
  /\ Store(r, "len", slice[r].len + 1)
  /\ Goto(r, "StoreEntry")
  /\ UNCHANGED <<stored, names, array, slice, reply, arrival, wild>>

\* A bug for the mutation checks: the node ID is not the request's.
EntryUnset(r) == NULL

Entry(r) == req[r].node

\* The new entry goes behind the old ones, in the array r has in hand.
StoreEntry(r) ==
  LET s == slice[r]
  IN  /\ pc[r] = "StoreEntry"
      /\ \/ /\ s.ptr = NULL
            /\ Finish(r, "Panic")
            /\ UNCHANGED <<heapVars, wild>>
         \/ /\ s.ptr # NULL /\ s.len >= Len(array[s.ptr])
            /\ GoWild
         \/ /\ s.ptr # NULL /\ s.len < Len(array[s.ptr])
            /\ array' = [array EXCEPT ![s.ptr][s.len + 1] = Entry(r)]
            /\ Goto(r, "UpdateVolume")
            /\ UNCHANGED <<storeVars, slice, reply, wild>>
      /\ UNCHANGED arrival

\* UpdateVolume; its error is logged, and the handler answers 200.
UpdateStep(r) ==
  /\ pc[r] = "UpdateVolume"
  /\ UpdateVolume(Id(r))
  /\ ToEncode(r, object[Id(r)])
  /\ UNCHANGED <<array, reply, arrival, wild>>

-----------------------------------------------------------------------------
SuccessCode(r) == IF req[r].op = "create" THEN "Created" ELSE "OK"

\* The encoder goes through the entries.  One that is still blank is shown
\* empty, or is half written: a length without a pointer.
Encode(r) ==
  LET s == slice[r]
  IN  /\ pc[r] = "Encode"
      /\ \/ /\ Dangling(s)
            /\ Finish(r, "Panic")
            /\ UNCHANGED <<heapVars, wild>>
         \/ /\ Overlong(s)
            /\ GoWild
         \/ /\ ~Dangling(s) /\ ~Overlong(s)
            /\ \E code \in IF \E k \in 1..s.len : array[s.ptr][k] = "blank"
                            THEN {"Garbled", "Panic"} ELSE {SuccessCode(r)} :
                 Finish(r, code)
            /\ UNCHANGED <<heapVars, wild>>
      /\ UNCHANGED arrival

Terminated ==
  /\ wild \/ \A r \in Requests : pc[r] \in {"idle", "done"}
  /\ UNCHANGED vars

Begin(r) ==
  \/ \E n \in Names : HandleCreate(r, n)
  \/ \E id \in Ids : HandleGet(r, id) \/ HandleDelete(r, id)
  \/ \E id \in Ids, node \in Nodes : HandlePublish(r, id, node)

Advance(r) ==
  \/ CreateStep(r)
  \/ Check(r)
  \/ DeleteStep(r)
  \/ Load(r)
  \/ AppendEntry(r)
  \/ StorePtr(r)
  \/ StoreLen(r)
  \/ StoreEntry(r)
  \/ UpdateStep(r)
  \/ Encode(r)

Next ==
  \/ ~wild /\ \E r \in Requests : Begin(r) \/ Advance(r)
  \/ Terminated

Spec == Init /\ [][Next]_vars

-----------------------------------------------------------------------------
(***************************************************************************)
(* What holds in spite of the races.                                       *)
(***************************************************************************)

\* The phases of the volumes, read through the map of volumes.
Phases ==
  [id \in Ids |-> IF drawnFor[id] = NULL THEN "unused"
                  ELSE IF \E r \in Requests : pc[r] = "CreateVolume" /\ Id(r) = id THEN "pending"
                  ELSE IF id \in stored THEN "live"
                  ELSE "gone"]

Catalog == INSTANCE VolumeCatalog WITH phase <- Phases, nameOf <- drawnFor

\* Read through its records the memory store is a catalogue: names are
\* unique among the volumes that GetVolume and ListVolumes return, and what
\* was deleted never comes back, whatever the goroutines that still hold it
\* do (the two maps change under one lock, UpdateVolume looks first).
RefinesCatalog == Catalog!Spec

On(r, op, id) == req[r] # NULL /\ req[r].op = op /\ Id(r) = id
Overlap(q, r) == q # r /\ q \notin before[r] /\ r \notin before[q]

\* Once a publication of a volume was answered 200, no delete that arrives
\* later succeeds (HandleDelete's check of PublishedOn), even if other
\* publications race and some of the entries are lost: the length never goes
\* back to 0.
PublishedIsProtected ==
  \A r, d \in Requests, id \in Ids :
    /\ On(r, "publish", id) /\ reply[r] = "OK"
    /\ On(d, "delete", id) /\ reply[d] = "OK"
    => r \notin before[d]

Entries(s) ==
  IF s.ptr = NULL THEN {} ELSE {array[s.ptr][k] : k \in DOMAIN array[s.ptr] \cap 1..s.len}

\* An entry is only lost to a race of its own: a publication that was
\* answered 200 while no other was under way on the volume is in PublishedOn
\* from then on, whatever happens later (HandlePublish's append).
EntriesKept ==
  \A r \in Requests, id \in Ids :
    /\ On(r, "publish", id) /\ reply[r] = "OK" /\ ~wild
    /\ \A q \in Requests : On(q, "publish", id) => ~Overlap(q, r)
    => req[r].node \in Entries(object[id].publishedOn)

\* The volume was published while another request was on it.
Raced(id) ==
  \E q, r \in Requests : On(q, "publish", id) /\ req[r] # NULL /\ Id(r) = id /\ Overlap(q, r)

\* Nothing is damaged without a race: a panic, an entry that nobody sent,
\* an access outside an array take two overlapping requests on one volume.
DamageOnlyByRaces ==
  /\ \A r \in Requests : reply[r] \in {"Panic", "Garbled"} => Raced(Id(r))
  /\ wild => \E id \in Ids : Raced(id)
=============================================================================
