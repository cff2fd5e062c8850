---------------------------- MODULE VolumeHandler ----------------------------
(***************************************************************************)
(* The volume handlers of pkg/api/handlers/volumes.go over the etcd store: *)
(* HandleCreate, HandleDelete, HandleStage and HandlePublish, each request *)
(* in a goroutine of its own, in one manager or in several over one etcd   *)
(* cluster.  A step of a request ends at a request to etcd or at a call of *)
(* the storage backend; between two steps any other request may take any   *)
(* number of steps.                                                        *)
(*                                                                         *)
(* What can go wrong: an etcd request fails (a read returns an error; a    *)
(* write returns an error, and is applied later or never), a backend call  *)
(* fails half way, a request times out while its handler runs on, a        *)
(* manager crashes with requests in it.                                    *)
(***************************************************************************)
EXTENDS EtcdStore, LocalBackend, Naturals, FiniteSets

CONSTANTS
  Requests,       \* the requests that ever arrive: bounds a behaviour
  MaxFaults,      \* bound on failures and crashes in a behaviour
  SerialPerName   \* TRUE: whoever calls the API never has two requests on
                  \* volumes of one name open at the same time

VARIABLES
  pc,       \* pc[r]: the step request r is about to take
  req,      \* req[r]: the parameters of request r
  vol,      \* vol[r]: the local variable `volume` of r's handler
  reply,    \* reply[r]: what the caller got, NULL while it waits
  drawnFor, \* drawnFor[id]: the name uuid.New() drew id for, or NULL
  faults    \* how many faults happened

requestVars == <<pc, req, vol, reply, drawnFor, faults>>
vars == <<volumes, names, dirs, markers, pc, req, vol, reply, drawnFor, faults>>

Steps == {"idle", "CreateTxn", "DeleteGet", "DeleteTxn", "Stage", "Publish",
          "UpdateGet", "UpdatePut", "done"}

\* The steps whose etcd request writes.
WriteSteps == {"CreateTxn", "DeleteTxn", "UpdatePut"}

\* http.Status...; "Lost": the connection broke because an end of it crashed.
Replies == {"Created", "OK", "BadRequest", "NotFound", "MethodNotAllowed", "Conflict",
            "InternalError", "ServiceUnavailable", "Lost"}

Request == [op   : {"create", "delete", "stage", "publish"},
            id   : Ids,
            node : Nodes \cup {NULL},
            path : TargetPaths \cup {NULL}]

ASSUME BoundsAssumption ==
  MaxFaults \in Nat /\ SerialPerName \in BOOLEAN /\ NULL \notin Replies \cup Request

TypeOK ==
  /\ StoreTypeOK
  /\ BackendTypeOK
  /\ pc \in [Requests -> Steps]
  /\ req \in [Requests -> Request \cup {NULL}]
  /\ vol \in [Requests -> Volume \cup {NULL}]
  /\ reply \in [Requests -> Replies \cup {NULL}]
  /\ drawnFor \in [Ids -> Names \cup {NULL}]
  /\ faults \in 0..MaxFaults

Init ==
  /\ StoreInit
  /\ BackendInit
  /\ pc = [r \in Requests |-> "idle"]
  /\ req = [r \in Requests |-> NULL]
  /\ vol = [r \in Requests |-> NULL]
  /\ reply = [r \in Requests |-> NULL]
  /\ drawnFor = [id \in Ids |-> NULL]
  /\ faults = 0

-----------------------------------------------------------------------------
Goto(r, step) == pc' = [pc EXCEPT ![r] = step]

\* c.JSON(code, ...): the first answer is the one the caller sees.
Answer(r, code) ==
  reply' = [reply EXCEPT ![r] = IF reply[r] = NULL THEN code ELSE reply[r]]

Finish(r, code) == Goto(r, "done") /\ Answer(r, code)

Fault ==
  /\ faults < MaxFaults
  /\ faults' = faults + 1

\* A request somebody waits for.
Open(r) == pc[r] \notin {"idle", "done"} /\ reply[r] = NULL

\* What the callers do, not the code: see SerialPerName.
MayCall(n) ==
  SerialPerName => \A q \in Requests : Open(q) => drawnFor[req[q].id] # n

\* An ID a caller can name: one that was handed out.
Known(id) == drawnFor[id] # NULL

\* Bind or validation fails, the ID was never handed out, or the handler's
\* first etcd read fails: the handler answers and has changed nothing.
RejectRequest(r) ==
  /\ pc[r] = "idle"
  /\ \E code \in {"BadRequest", "NotFound", "InternalError"} : Finish(r, code)
  /\ UNCHANGED <<storeVars, backendVars, req, vol, drawnFor, faults>>

-----------------------------------------------------------------------------
NewVolume(n, p) ==
  [name |-> n, path |-> p, status |-> "created", stagedOn |-> <<>>, publishedOn |-> <<>>]

\* HandleCreate up to CreateVolume's Get of the name.  The ID is drawn just
\* before; an ID drawn for a name that is taken is seen by nobody.
HandleCreate(r, n, p) ==
  /\ pc[r] = "idle"
  /\ MayCall(n)
  /\ \/ /\ ~NameIsFree(n)
        /\ Finish(r, "Conflict")
        /\ UNCHANGED <<req, vol, drawnFor>>
     \/ /\ NameIsFree(n)
        /\ \E id \in Ids :
             /\ drawnFor[id] = NULL
             /\ drawnFor' = [drawnFor EXCEPT ![id] = n]
             /\ req' = [req EXCEPT ![r] =
                          [op |-> "create", id |-> id, node |-> NULL, path |-> NULL]]
        /\ vol' = [vol EXCEPT ![r] = NewVolume(n, p)]
        /\ Goto(r, "CreateTxn")
        /\ UNCHANGED reply
  /\ UNCHANGED <<storeVars, backendVars, faults>>

CreateTxn(r) ==
  /\ pc[r] = "CreateTxn"
  /\ CommitCreate(req[r].id, vol[r])
  /\ Finish(r, IF NameIsFree(vol[r].name) THEN "Created" ELSE "Conflict")
  /\ UNCHANGED <<backendVars, req, vol, drawnFor, faults>>

-----------------------------------------------------------------------------
\* A bug for the mutation checks: a published volume is not protected.
HandleDeleteUnchecked(r, id) ==
  /\ pc[r] = "idle"
  /\ Known(id) /\ MayCall(drawnFor[id])
  /\ req' = [req EXCEPT ![r] = [op |-> "delete", id |-> id, node |-> NULL, path |-> NULL]]
  /\ IF volumes[id] = NULL THEN Finish(r, "NotFound")
                           ELSE Goto(r, "DeleteGet") /\ UNCHANGED reply
  /\ UNCHANGED <<storeVars, backendVars, vol, drawnFor, faults>>

\* HandleDelete's own GetVolume and the check of PublishedOn.
HandleDelete(r, id) ==
  /\ pc[r] = "idle"
  /\ Known(id) /\ MayCall(drawnFor[id])
  /\ req' = [req EXCEPT ![r] = [op |-> "delete", id |-> id, node |-> NULL, path |-> NULL]]
  /\ \/ /\ volumes[id] = NULL
        /\ Finish(r, "NotFound")
     \/ /\ volumes[id] # NULL
        /\ volumes[id].publishedOn # <<>>
        /\ Finish(r, "Conflict")
     \/ /\ volumes[id] # NULL
        /\ volumes[id].publishedOn = <<>>
        /\ Goto(r, "DeleteGet")
        /\ UNCHANGED reply
  /\ UNCHANGED <<storeVars, backendVars, vol, drawnFor, faults>>

\* DeleteVolume reads the record again, for its name.  Every error of the
\* store, ErrNotFound too, is a 500 here.
DeleteGet(r) ==
  /\ pc[r] = "DeleteGet"
  /\ \/ /\ volumes[req[r].id] = NULL
        /\ Finish(r, "InternalError")
        /\ UNCHANGED vol
     \/ /\ volumes[req[r].id] # NULL
        /\ vol' = [vol EXCEPT ![r] = volumes[req[r].id]]
        /\ Goto(r, "DeleteTxn")
        /\ UNCHANGED reply
  /\ UNCHANGED <<storeVars, backendVars, req, drawnFor, faults>>

DeleteTxn(r) ==
  /\ pc[r] = "DeleteTxn"
  /\ CommitDelete(req[r].id, vol[r].name)
  /\ Finish(r, "OK")
  /\ UNCHANGED <<backendVars, req, vol, drawnFor, faults>>

-----------------------------------------------------------------------------
\* HandleStage and HandlePublish begin alike: GetVolume by ID.
BeginAttach(r, op, id, node, path, step) ==
  /\ pc[r] = "idle"
  /\ Known(id) /\ MayCall(drawnFor[id])
  /\ req' = [req EXCEPT ![r] = [op |-> op, id |-> id, node |-> node, path |-> path]]
  /\ \/ /\ volumes[id] = NULL
        /\ Finish(r, "NotFound")
        /\ UNCHANGED vol
     \/ /\ volumes[id] # NULL
        /\ vol' = [vol EXCEPT ![r] = volumes[id]]
        /\ Goto(r, step)
        /\ UNCHANGED reply
  /\ UNCHANGED <<storeVars, backendVars, drawnFor, faults>>

HandleStage(r, id, node, path) == BeginAttach(r, "stage", id, node, path, "Stage")

HandlePublish(r, id, node, path) == BeginAttach(r, "publish", id, node, path, "Publish")

\* A bug for the mutation checks: a status that types.go does not know.
StagedVolumeMisnamed(v, node) ==
  [v EXCEPT !.status = "attached", !.stagedOn = Append(v.stagedOn, node)]

StagedVolume(v, node) ==
  [v EXCEPT !.status = "staged", !.stagedOn = Append(v.stagedOn, node)]

PublishedVolume(v, node) ==
  [v EXCEPT !.status = "published", !.publishedOn = Append(v.publishedOn, node)]

\* After a timeout the context is cancelled: the backend does not look at
\* it, but UpdateVolume's Get returns at once with an error.
AfterBackend(r) == IF reply[r] = NULL THEN "UpdateGet" ELSE "done"

\* backend.Stage, then the new status and node in the local copy.
BackendStage(r) ==
  /\ pc[r] = "Stage"
  /\ \/ /\ Stage(vol[r], req[r].path)
        /\ vol' = [vol EXCEPT ![r] = StagedVolume(vol[r], req[r].node)]
        /\ Goto(r, AfterBackend(r))
        /\ UNCHANGED <<reply, faults>>
     \/ /\ StageFails(vol[r], req[r].path)
        /\ Fault
        /\ Finish(r, "InternalError")
        /\ UNCHANGED vol
  /\ UNCHANGED <<storeVars, req, drawnFor>>

\* backend.Publish, then the new status and node in the local copy.
BackendPublish(r) ==
  /\ pc[r] = "Publish"
  /\ \/ /\ Publish(vol[r], req[r].path)
        /\ vol' = [vol EXCEPT ![r] = PublishedVolume(vol[r], req[r].node)]
        /\ Goto(r, AfterBackend(r))
        /\ UNCHANGED <<reply, faults>>
     \/ /\ PublishFails(vol[r], req[r].path)
        /\ Fault
        /\ Finish(r, "InternalError")
        /\ UNCHANGED vol
  /\ UNCHANGED <<storeVars, req, drawnFor>>

\* UpdateVolume's Get.  Its error is logged, and the handler answers 200.
UpdateGet(r) ==
  /\ pc[r] = "UpdateGet"
  /\ \/ /\ volumes[req[r].id] = NULL
        /\ Finish(r, "OK")
     \/ /\ volumes[req[r].id] # NULL
        /\ Goto(r, "UpdatePut")
        /\ UNCHANGED reply
  /\ UNCHANGED <<storeVars, backendVars, req, vol, drawnFor, faults>>

\* UpdateVolume's Put of the local copy.
UpdatePut(r) ==
  /\ pc[r] = "UpdatePut"
  /\ PutVolume(req[r].id, vol[r])
  /\ Finish(r, "OK")
  /\ UNCHANGED <<backendVars, req, vol, drawnFor, faults>>

-----------------------------------------------------------------------------
\* What a handler answers when the etcd request of this step fails: a
\* failed update is only logged.
ErrorReply(step) == IF step \in {"UpdateGet", "UpdatePut"} THEN "OK" ELSE "InternalError"

ReadFails(r) ==
  /\ pc[r] \in {"DeleteGet", "UpdateGet"}
  /\ Fault
  /\ Finish(r, ErrorReply(pc[r]))
  /\ UNCHANGED <<storeVars, backendVars, req, vol, drawnFor>>

\* A write returns an error (deadline, cancelled context, lost leader).  Its
\* step stays enabled: etcd may still apply it, at any time, or never.
WriteFails(r) ==
  /\ pc[r] \in WriteSteps
  /\ reply[r] = NULL
  /\ Fault
  /\ Answer(r, ErrorReply(pc[r]))
  /\ UNCHANGED <<storeVars, backendVars, pc, req, vol, drawnFor>>

\* The context of a request is cancelled: a backend call that runs is
\* carried through, a write that was sent may still be applied, anything
\* else ends with the context's error.
AfterCancel(r) == IF pc[r] \in WriteSteps \cup {"Stage", "Publish"} THEN pc[r] ELSE "done"

\* The Timeout middleware answers 503 and cancels the context.
Timeout(r) ==
  /\ Open(r)
  /\ Fault
  /\ Answer(r, "ServiceUnavailable")
  /\ Goto(r, AfterCancel(r))
  /\ UNCHANGED <<storeVars, backendVars, req, vol, drawnFor>>

\* A manager crashes with the requests R in it.  The keys are in etcd; a
\* write that was sent may still be applied.
Crash(R) ==
  /\ R # {}
  /\ \A r \in R : Open(r)
  /\ Fault
  /\ reply' = [r \in Requests |-> IF r \in R THEN "Lost" ELSE reply[r]]
  /\ pc' = [r \in Requests |-> IF r \in R /\ pc[r] \notin WriteSteps THEN "done" ELSE pc[r]]
  /\ UNCHANGED <<storeVars, backendVars, req, vol, drawnFor>>

\* Every request has been dealt with: nothing is left to do.
Terminated ==
  /\ \A r \in Requests : pc[r] = "done"
  /\ UNCHANGED vars

\* A request comes in.
Arrive(r) ==
  \/ RejectRequest(r)
  \/ \E n \in Names, p \in SourcePaths : HandleCreate(r, n, p)
  \/ \E id \in Ids : HandleDelete(r, id)
  \/ \E id \in Ids, node \in Nodes, path \in TargetPaths :
       \/ HandleStage(r, id, node, path)
       \/ HandlePublish(r, id, node, path)

\* A request that has come in takes a step, or fails.
Advance(r) ==
  \/ CreateTxn(r)
  \/ DeleteGet(r)
  \/ DeleteTxn(r)
  \/ BackendStage(r)
  \/ BackendPublish(r)
  \/ UpdateGet(r)
  \/ UpdatePut(r)
  \/ ReadFails(r)
  \/ WriteFails(r)
  \/ Timeout(r)

Next ==
  \/ \E r \in Requests : Arrive(r) \/ Advance(r)
  \/ \E R \in SUBSET Requests : Crash(R)
  \/ Terminated

Spec == Init /\ [][Next]_vars

-----------------------------------------------------------------------------
(***************************************************************************)
(* What holds however the requests interleave and whatever fails.          *)
(***************************************************************************)

\* The name index (keys /volume-names/) never dangles: a name that is taken
\* leads to a volume that exists and carries that name, through racing
\* creates, deletes and updates of CreateVolume, DeleteVolume, UpdateVolume.
NameIndexSound ==
  \A n \in Names :
    names[n] # NULL => /\ volumes[names[n]] # NULL
                       /\ volumes[names[n]].name = n

\* The requests that stage or publish volume id on a node and have run to
\* their end, their write to etcd included.
Attached(op, id, node) ==
  {r \in Requests : /\ req[r] # NULL
                    /\ req[r].op = op /\ req[r].id = id /\ req[r].node = node
                    /\ pc[r] = "done"
                    /\ reply[r] \in {"OK", "ServiceUnavailable", "Lost"}}

Occurrences(list, node) == Cardinality({k \in DOMAIN list : list[k] = node})

\* A volume record never claims more than the backend did: each entry of
\* StagedOn and PublishedOn is owed to a request of its own, and that
\* request's directories or mount marker are on the host (HandleStage and
\* HandlePublish call the backend first and append once).
EntriesEarned ==
  \A id \in Ids, node \in Nodes :
    volumes[id] # NULL =>
      /\ Occurrences(volumes[id].publishedOn, node)
           <= Cardinality({r \in Attached("publish", id, node) : markers[req[r].path] # NULL})
      /\ Occurrences(volumes[id].stagedOn, node)
           <= Cardinality({r \in Attached("stage", id, node) :
                             {volumes[id].path, req[r].path} \subseteq dirs})

\* The deletes that may have reached etcd.
Deletes ==
  {d \in Requests : /\ req[d] # NULL
                    /\ req[d].op = "delete"
                    /\ pc[d] = "done"
                    /\ reply[d] \notin {"NotFound", "Conflict"}}

\* A volume whose creation was acknowledged with 201 disappears through a
\* delete of its own ID and nothing else, and loses its name through a
\* delete of a volume of that name and nothing else: volumes of different
\* names never disturb each other (DeleteVolume's and CreateVolume's keys).
AckedCreateStands ==
  \A r \in Requests :
    reply[r] = "Created" =>
      LET id == req[r].id
      IN  /\ volumes[id] # NULL \/ \E d \in Deletes : req[d].id = id
          /\ \/ names[vol[r].name] = id
             \/ \E d \in Deletes : drawnFor[req[d].id] = vol[r].name

\* The create of an ID that etcd has not executed yet.
Pending(id) == \E r \in Requests : pc[r] = "CreateTxn" /\ req[r].id = id

\* How far each volume has come, if the volumes in live are the live ones.
Phases(live) ==
  [id \in Ids |-> IF drawnFor[id] = NULL THEN "unused"
                  ELSE IF Pending(id) THEN "pending"
                  ELSE IF id \in live THEN "live"
                  ELSE "gone"]

\* The two ways to read the store as a catalogue: by the name index, as the
\* check of CreateVolume and GetVolumeByName do, or by the volumes' records,
\* as GetVolume and ListVolumes do.
Indexed == {id \in Ids : \E n \in Names : names[n] = id}
Recorded == {id \in Ids : volumes[id] # NULL}

IndexCatalog == INSTANCE VolumeCatalog WITH phase <- Phases(Indexed), nameOf <- drawnFor
RecordCatalog == INSTANCE VolumeCatalog WITH phase <- Phases(Recorded), nameOf <- drawnFor

\* Read through the name index the store is a catalogue: a name is given to
\* one volume at a time, never taken over from a live one, and an ID that
\* lost its name never gets it back (the If() of CreateVolume's transaction).
RefinesIndexCatalog == IndexCatalog!Spec

-----------------------------------------------------------------------------
(***************************************************************************)
(* What holds when the callers serialise the requests on a name and no     *)
(* fault happens, and is lost when they do not: see the README's findings. *)
(***************************************************************************)

\* Read through the records the store is a catalogue too: no two volumes
\* that GetVolume or ListVolumes returns share a name, and an ID that was
\* deleted never comes back.
RefinesRecordCatalog == RecordCatalog!Spec

\* Every volume can be found by its name (DeleteVolume and CreateVolume
\* keep the two key families in step).
IndexComplete ==
  \A id \in Ids : volumes[id] # NULL => names[volumes[id].name] = id

\* "Volume with this name already exists" (HandleCreate's 409) is said
\* whenever it is so: no two volumes have one name.
UniqueNames ==
  \A i, j \in Ids :
    volumes[i] # NULL /\ volumes[j] # NULL /\ volumes[i].name = volumes[j].name => i = j

\* A publication that was answered 200 is in the record for good: there is
\* no unpublish, and HandleDelete refuses to delete a published volume.
PublicationHonoured ==
  \A r \in Requests :
    req[r] # NULL /\ req[r].op = "publish" /\ reply[r] = "OK" =>
      /\ volumes[req[r].id] # NULL
      /\ \E k \in DOMAIN volumes[req[r].id].publishedOn :
           volumes[req[r].id].publishedOn[k] = req[r].node

\* "Volume deleted successfully" (HandleDelete's 200): it is, and stays so.
DeleteIsFinal ==
  \A r \in Requests :
    req[r] # NULL /\ req[r].op = "delete" /\ reply[r] = "OK" => volumes[req[r].id] = NULL
=============================================================================
