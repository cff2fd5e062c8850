------------------------- MODULE VolumeHandlerProofs -------------------------
(***************************************************************************)
(* What VolumeHandler keeps for any number of requests, IDs, names, nodes, *)
(* paths and faults, and whether or not the callers serialise themselves:  *)
(* the types, the soundness of the name index, and the refinement of the   *)
(* catalogue that the name index is; and what it keeps besides if they do  *)
(* and nothing fails.                                                      *)
(***************************************************************************)
EXTENDS VolumeHandler, TLAPS

\* The steps at which a handler holds a record in its local variable.
HoldsVolume == {"CreateTxn", "DeleteTxn", "Stage", "Publish", "UpdateGet", "UpdatePut"}

\* What the locals of a request are, at the step the request has reached.
\* The copy of a record keeps the name its ID was drawn for.
LocalsOK(r) ==
  /\ pc[r] \notin {"idle", "done"} => req[r] \in Request /\ drawnFor[req[r].id] \in Names
  /\ pc[r] \in HoldsVolume => vol[r] \in Volume /\ vol[r].name = drawnFor[req[r].id]
  /\ pc[r] \in {"Stage", "Publish"} => req[r].node \in Nodes /\ req[r].path \in TargetPaths

Locals == \A r \in Requests : LocalsOK(r)

\* A record carries the name its ID was drawn for.
VolumesNamed ==
  \A id \in Ids : volumes[id] # NULL => volumes[id].name = drawnFor[id]

\* The inductive invariant: a put or a delete of a record touches no other
\* name than the one its ID was drawn for, because every copy of the record
\* carries that name.
IndInv == TypeOK /\ Locals /\ VolumesNamed /\ NameIndexSound

-----------------------------------------------------------------------------
\* What the handlers build are volume records, and the copies with a new
\* status and node keep their name.
LEMMA NewVolumeType ==
  ASSUME NEW n \in Names, NEW p \in SourcePaths
  PROVE  NewVolume(n, p) \in Volume /\ NewVolume(n, p).name = n
BY DEF NewVolume, Volume, VolumeStatus

LEMMA StagedVolumeType ==
  ASSUME NEW v \in Volume, NEW node \in Nodes
  PROVE  StagedVolume(v, node) \in Volume /\ StagedVolume(v, node).name = v.name
<1>1. v.stagedOn \in Seq(Nodes)
  BY DEF Volume
<1>2. Append(v.stagedOn, node) \in Seq(Nodes)
  BY <1>1
<1> QED
  BY <1>2 DEF StagedVolume, Volume, VolumeStatus

LEMMA PublishedVolumeType ==
  ASSUME NEW v \in Volume, NEW node \in Nodes
  PROVE  PublishedVolume(v, node) \in Volume /\ PublishedVolume(v, node).name = v.name
<1>1. v.publishedOn \in Seq(Nodes)
  BY DEF Volume
<1>2. Append(v.publishedOn, node) \in Seq(Nodes)
  BY <1>1
<1> QED
  BY <1>2 DEF PublishedVolume, Volume, VolumeStatus

-----------------------------------------------------------------------------
\* The ways a request answers keep the types of pc and reply.
LEMMA FinishType ==
  ASSUME TypeOK, NEW r \in Requests, NEW code \in Replies, Finish(r, code)
  PROVE  pc' \in [Requests -> Steps] /\ reply' \in [Requests -> Replies \cup {NULL}]
BY DEF TypeOK, Finish, Goto, Answer, Steps

LEMMA InitIndInv == Init => IndInv
<1> SUFFICES ASSUME Init PROVE IndInv
  OBVIOUS
<1>1. TypeOK
  BY BoundsAssumption
  DEF Init, TypeOK, StoreInit, StoreTypeOK, BackendInit, BackendTypeOK, Steps
<1>2. Locals
  BY DEF Init, Locals, LocalsOK, HoldsVolume
<1>3. VolumesNamed /\ NameIndexSound
  BY DEF Init, StoreInit, VolumesNamed, NameIndexSound
<1> QED
  BY <1>1, <1>2, <1>3 DEF IndInv

\* HandleCreate draws a new ID, which no record and no other request has.
LEMMA HandleCreateIndInv ==
  ASSUME IndInv, NEW r \in Requests, NEW n \in Names, NEW p \in SourcePaths,
         HandleCreate(r, n, p)
  PROVE  IndInv'
<1> USE DEF IndInv
<1>1. CASE ~NameIsFree(n) /\ Finish(r, "Conflict") /\ UNCHANGED <<req, vol, drawnFor>>
  <2>1. TypeOK'
    BY <1>1, FinishType DEF HandleCreate, storeVars, backendVars, TypeOK, StoreTypeOK,
                            BackendTypeOK, Replies
  <2>2. Locals'
    BY <1>1 DEF HandleCreate, Finish, Goto, TypeOK, Locals, LocalsOK, HoldsVolume
  <2>3. VolumesNamed' /\ NameIndexSound'
    BY <1>1 DEF HandleCreate, storeVars, VolumesNamed, NameIndexSound
  <2> QED
    BY <2>1, <2>2, <2>3
<1>2. CASE ~(~NameIsFree(n) /\ Finish(r, "Conflict") /\ UNCHANGED <<req, vol, drawnFor>>)
  <2>1. PICK id \in Ids :
          /\ drawnFor[id] = NULL
          /\ drawnFor' = [drawnFor EXCEPT ![id] = n]
          /\ req' = [req EXCEPT ![r] =
                       [op |-> "create", id |-> id, node |-> NULL, path |-> NULL]]
    BY <1>2 DEF HandleCreate
  <2>2. /\ pc[r] = "idle"
        /\ vol' = [vol EXCEPT ![r] = NewVolume(n, p)]
        /\ pc' = [pc EXCEPT ![r] = "CreateTxn"]
        /\ UNCHANGED <<volumes, names, dirs, markers, reply, faults>>
    BY <1>2 DEF HandleCreate, Goto, storeVars, backendVars
  <2>3. TypeOK'
    BY <2>1, <2>2, NewVolumeType DEF TypeOK, StoreTypeOK, BackendTypeOK, Steps, Request
  <2>4. Locals'
    <3> SUFFICES ASSUME NEW q \in Requests PROVE LocalsOK(q)'
      BY DEF Locals
    <3>1. CASE q = r
      BY <2>1, <2>2, <3>1, NewVolumeType
      DEF LocalsOK, TypeOK, Request, HoldsVolume
    <3>2. CASE q # r
      BY <2>1, <2>2, <3>2, NullAssumption
      DEF LocalsOK, Locals, TypeOK, Request, HoldsVolume
    <3> QED
      BY <3>1, <3>2
  <2>5. VolumesNamed'
    BY <2>1, <2>2, NullAssumption DEF VolumesNamed, TypeOK, StoreTypeOK, Volume
  <2>6. NameIndexSound'
    BY <2>2 DEF NameIndexSound
  <2> QED
    BY <2>3, <2>4, <2>5, <2>6
<1> QED
  BY <1>1, <1>2

\* A create or a delete that etcd executes reaches no other name than the
\* one the volume's ID was drawn for.
LEMMA CreateTxnIndInv ==
  ASSUME IndInv, NEW r \in Requests, CreateTxn(r)
  PROVE  IndInv'
<1> USE DEF IndInv
<1>1. /\ pc[r] = "CreateTxn"
      /\ req[r] \in Request /\ vol[r] \in Volume
      /\ vol[r].name = drawnFor[req[r].id] /\ vol[r].name \in Names
  BY DEF CreateTxn, Locals, LocalsOK, HoldsVolume, Volume
<1>2. req[r].id \in Ids
  BY <1>1 DEF Request
<1>3. TypeOK'
  <2>1. pc' \in [Requests -> Steps] /\ reply' \in [Requests -> Replies \cup {NULL}]
    BY FinishType DEF CreateTxn, Replies
  <2>2. StoreTypeOK'
    BY <1>1, <1>2 DEF CreateTxn, CommitCreate, storeVars, TypeOK, StoreTypeOK
  <2> QED
    BY <2>1, <2>2 DEF CreateTxn, backendVars, TypeOK, BackendTypeOK
<1>4. Locals'
  BY DEF CreateTxn, Finish, Goto, TypeOK, Locals, LocalsOK, HoldsVolume
<1>5. VolumesNamed' /\ NameIndexSound'
  <2>1. CASE NameIsFree(vol[r].name)
    <3>1. /\ volumes' = [volumes EXCEPT ![req[r].id] = vol[r]]
          /\ names' = [names EXCEPT ![vol[r].name] = req[r].id]
          /\ UNCHANGED drawnFor
      BY <2>1 DEF CreateTxn, CommitCreate
    <3>2. VolumesNamed'
      BY <1>1, <1>2, <3>1 DEF VolumesNamed, TypeOK, StoreTypeOK
    <3>3. NameIndexSound'
      BY <1>1, <1>2, <3>1, NullAssumption
      DEF NameIndexSound, VolumesNamed, TypeOK, StoreTypeOK
    <3> QED
      BY <3>2, <3>3
  <2>2. CASE ~NameIsFree(vol[r].name)
    BY <2>2 DEF CreateTxn, CommitCreate, storeVars, VolumesNamed, NameIndexSound
  <2> QED
    BY <2>1, <2>2
<1> QED
  BY <1>3, <1>4, <1>5

LEMMA DeleteTxnIndInv ==
  ASSUME IndInv, NEW r \in Requests, DeleteTxn(r)
  PROVE  IndInv'
<1> USE DEF IndInv
<1>1. /\ pc[r] = "DeleteTxn"
      /\ req[r] \in Request /\ vol[r] \in Volume
      /\ vol[r].name = drawnFor[req[r].id] /\ vol[r].name \in Names
  BY DEF DeleteTxn, Locals, LocalsOK, HoldsVolume, Volume
<1>2. req[r].id \in Ids
  BY <1>1 DEF Request
<1>3. /\ volumes' = [volumes EXCEPT ![req[r].id] = NULL]
      /\ names' = [names EXCEPT ![vol[r].name] = NULL]
      /\ UNCHANGED drawnFor
  BY DEF DeleteTxn, CommitDelete
<1>4. TypeOK'
  <2>1. pc' \in [Requests -> Steps] /\ reply' \in [Requests -> Replies \cup {NULL}]
    BY FinishType DEF DeleteTxn, Replies
  <2> QED
    BY <1>1, <1>2, <1>3, <2>1
    DEF DeleteTxn, backendVars, TypeOK, StoreTypeOK, BackendTypeOK
<1>5. Locals'
  BY DEF DeleteTxn, Finish, Goto, TypeOK, Locals, LocalsOK, HoldsVolume
<1>6. VolumesNamed'
  BY <1>3 DEF VolumesNamed, TypeOK, StoreTypeOK
<1>7. NameIndexSound'
  BY <1>1, <1>2, <1>3 DEF NameIndexSound, VolumesNamed, TypeOK, StoreTypeOK
<1> QED
  BY <1>4, <1>5, <1>6, <1>7

\* So does the put of an updated record.
LEMMA UpdatePutIndInv ==
  ASSUME IndInv, NEW r \in Requests, UpdatePut(r)
  PROVE  IndInv'
<1> USE DEF IndInv
<1>1. /\ pc[r] = "UpdatePut"
      /\ req[r] \in Request /\ vol[r] \in Volume
      /\ vol[r].name = drawnFor[req[r].id] /\ vol[r].name \in Names
  BY DEF UpdatePut, Locals, LocalsOK, HoldsVolume, Volume
<1>2. req[r].id \in Ids
  BY <1>1 DEF Request
<1>3. volumes' = [volumes EXCEPT ![req[r].id] = vol[r]] /\ UNCHANGED <<names, drawnFor>>
  BY DEF UpdatePut, PutVolume
<1>4. TypeOK'
  <2>1. pc' \in [Requests -> Steps] /\ reply' \in [Requests -> Replies \cup {NULL}]
    BY FinishType DEF UpdatePut, Replies
  <2> QED
    BY <1>1, <1>2, <1>3, <2>1
    DEF UpdatePut, backendVars, TypeOK, StoreTypeOK, BackendTypeOK
<1>5. Locals'
  BY DEF UpdatePut, Finish, Goto, TypeOK, Locals, LocalsOK, HoldsVolume
<1>6. VolumesNamed'
  BY <1>1, <1>2, <1>3 DEF VolumesNamed, TypeOK, StoreTypeOK
<1>7. NameIndexSound'
  BY <1>1, <1>2, <1>3, NullAssumption DEF NameIndexSound, VolumesNamed, TypeOK, StoreTypeOK
<1> QED
  BY <1>4, <1>5, <1>6, <1>7

\* Every other step leaves the store and the drawn IDs alone: what remains
\* of the invariant is the types and the locals.
LEMMA StoreUntouched ==
  ASSUME IndInv, UNCHANGED <<storeVars, drawnFor>>, TypeOK', Locals'
  PROVE  IndInv'
BY DEF IndInv, storeVars, VolumesNamed, NameIndexSound

LEMMA RejectRequestIndInv ==
  ASSUME IndInv, NEW r \in Requests, RejectRequest(r)
  PROVE  IndInv'
<1> USE DEF IndInv
<1>1. PICK code \in {"BadRequest", "NotFound", "InternalError"} : Finish(r, code)
  BY DEF RejectRequest
<1>2. TypeOK'
  BY <1>1, FinishType
  DEF RejectRequest, storeVars, backendVars, TypeOK, StoreTypeOK, BackendTypeOK, Replies
<1>3. Locals'
  BY <1>1 DEF RejectRequest, Finish, Goto, TypeOK, Locals, LocalsOK, HoldsVolume
<1> QED
  BY <1>2, <1>3, StoreUntouched DEF RejectRequest

LEMMA HandleDeleteIndInv ==
  ASSUME IndInv, NEW r \in Requests, NEW id \in Ids, HandleDelete(r, id)
  PROVE  IndInv'
<1> USE DEF IndInv
<1>1. /\ req' = [req EXCEPT ![r] =
                   [op |-> "delete", id |-> id, node |-> NULL, path |-> NULL]]
      /\ drawnFor[id] \in Names
      /\ UNCHANGED <<volumes, names, dirs, markers, vol, drawnFor, faults>>
  BY DEF HandleDelete, Known, storeVars, backendVars, TypeOK
<1>2. \/ \E code \in Replies : Finish(r, code)
      \/ Goto(r, "DeleteGet") /\ UNCHANGED reply
  BY DEF HandleDelete, Replies
<1>3. TypeOK'
  <2>1. pc' \in [Requests -> Steps] /\ reply' \in [Requests -> Replies \cup {NULL}]
    BY <1>2, FinishType DEF Goto, TypeOK, Steps
  <2> QED
    BY <1>1, <2>1 DEF TypeOK, StoreTypeOK, BackendTypeOK, Request
<1>4. Locals'
  <2>1. \E step \in {"done", "DeleteGet"} : pc' = [pc EXCEPT ![r] = step]
    BY <1>2 DEF Finish, Goto
  <2> QED
    BY <1>1, <2>1 DEF TypeOK, Locals, LocalsOK, HoldsVolume, Request
<1> QED
  BY <1>3, <1>4, StoreUntouched DEF HandleDelete

\* A copy taken from the store carries the name of the ID it is stored at.
LEMMA DeleteGetIndInv ==
  ASSUME IndInv, NEW r \in Requests, DeleteGet(r)
  PROVE  IndInv'
<1> USE DEF IndInv
<1>1. req[r] \in Request /\ req[r].id \in Ids
  BY DEF DeleteGet, Locals, LocalsOK, Request
<1>2. \/ Finish(r, "InternalError") /\ UNCHANGED vol
      \/ /\ volumes[req[r].id] \in Volume
         /\ vol' = [vol EXCEPT ![r] = volumes[req[r].id]]
         /\ Goto(r, "DeleteTxn") /\ UNCHANGED reply
  BY <1>1 DEF DeleteGet, TypeOK, StoreTypeOK
<1>3. TypeOK'
  <2>1. pc' \in [Requests -> Steps] /\ reply' \in [Requests -> Replies \cup {NULL}]
    BY <1>2, FinishType DEF Goto, TypeOK, Steps, Replies
  <2>2. vol' \in [Requests -> Volume \cup {NULL}]
    BY <1>2 DEF TypeOK
  <2> QED
    BY <2>1, <2>2 DEF DeleteGet, storeVars, backendVars, TypeOK, StoreTypeOK, BackendTypeOK
<1>4. Locals'
  <2>1. CASE Finish(r, "InternalError") /\ UNCHANGED vol
    BY <2>1 DEF DeleteGet, Finish, Goto, TypeOK, Locals, LocalsOK, HoldsVolume
  <2>2. CASE ~(Finish(r, "InternalError") /\ UNCHANGED vol)
    BY <1>1, <1>2, <2>2, NullAssumption
    DEF DeleteGet, Goto, TypeOK, VolumesNamed, Locals, LocalsOK, HoldsVolume
  <2> QED
    BY <2>1, <2>2
<1> QED
  BY <1>3, <1>4, StoreUntouched DEF DeleteGet

LEMMA BeginAttachIndInv ==
  ASSUME IndInv, NEW r \in Requests, NEW id \in Ids,
         NEW node \in Nodes, NEW path \in TargetPaths,
         HandleStage(r, id, node, path) \/ HandlePublish(r, id, node, path)
  PROVE  IndInv'
<1> USE DEF IndInv
<1>1. PICK op \in {"stage", "publish"}, step \in {"Stage", "Publish"} :
        BeginAttach(r, op, id, node, path, step)
  BY DEF HandleStage, HandlePublish
<1>2. /\ req' = [req EXCEPT ![r] = [op |-> op, id |-> id, node |-> node, path |-> path]]
      /\ drawnFor[id] \in Names
      /\ UNCHANGED <<volumes, names, dirs, markers, drawnFor, faults>>
  BY <1>1 DEF BeginAttach, Known, storeVars, backendVars, TypeOK
<1>3. \/ Finish(r, "NotFound") /\ UNCHANGED vol
      \/ /\ volumes[id] \in Volume /\ volumes[id].name = drawnFor[id]
         /\ vol' = [vol EXCEPT ![r] = volumes[id]]
         /\ Goto(r, step) /\ UNCHANGED reply
  BY <1>1 DEF BeginAttach, TypeOK, StoreTypeOK, VolumesNamed
<1>4. TypeOK'
  <2>1. pc' \in [Requests -> Steps] /\ reply' \in [Requests -> Replies \cup {NULL}]
    BY <1>3, FinishType DEF Goto, TypeOK, Steps, Replies
  <2>2. vol' \in [Requests -> Volume \cup {NULL}]
    BY <1>3 DEF TypeOK
  <2> QED
    BY <1>2, <2>1, <2>2 DEF TypeOK, StoreTypeOK, BackendTypeOK, Request
<1>5. Locals'
  <2>1. CASE Finish(r, "NotFound") /\ UNCHANGED vol
    BY <1>2, <2>1 DEF Finish, Goto, TypeOK, Locals, LocalsOK, HoldsVolume
  <2>2. CASE ~(Finish(r, "NotFound") /\ UNCHANGED vol)
    BY <1>2, <1>3, <2>2 DEF Goto, TypeOK, Request, Locals, LocalsOK, HoldsVolume
  <2> QED
    BY <2>1, <2>2
<1> QED
  BY <1>4, <1>5, StoreUntouched, <1>1 DEF BeginAttach

LEMMA BackendStageIndInv ==
  ASSUME IndInv, NEW r \in Requests, BackendStage(r)
  PROVE  IndInv'
<1> USE DEF IndInv
<1>1. /\ pc[r] = "Stage"
      /\ req[r].node \in Nodes /\ req[r].path \in TargetPaths
      /\ vol[r] \in Volume /\ vol[r].path \in SourcePaths
  BY DEF BackendStage, Locals, LocalsOK, HoldsVolume, Volume
<1>2. \/ /\ vol' = [vol EXCEPT ![r] = StagedVolume(vol[r], req[r].node)]
         /\ pc' = [pc EXCEPT ![r] = AfterBackend(r)]
         /\ UNCHANGED <<reply, faults>>
      \/ Fault /\ Finish(r, "InternalError") /\ UNCHANGED vol
  BY DEF BackendStage, Goto
<1>3. TypeOK'
  <2>1. pc' \in [Requests -> Steps] /\ reply' \in [Requests -> Replies \cup {NULL}]
    BY <1>2, FinishType DEF AfterBackend, TypeOK, Steps, Replies
  <2>2. vol' \in [Requests -> Volume \cup {NULL}]
    BY <1>1, <1>2, StagedVolumeType DEF TypeOK
  <2>3. faults' \in 0..MaxFaults
    BY <1>2, BoundsAssumption DEF Fault, TypeOK
  <2>4. BackendTypeOK'
    BY <1>1 DEF BackendStage, Stage, StageFails, TypeOK, BackendTypeOK
  <2> QED
    BY <2>1, <2>2, <2>3, <2>4 DEF BackendStage, storeVars, TypeOK, StoreTypeOK
<1>4. Locals'
  <2>1. CASE Finish(r, "InternalError") /\ UNCHANGED vol
    BY <2>1 DEF BackendStage, Finish, Goto, TypeOK, Locals, LocalsOK, HoldsVolume
  <2>2. CASE ~(Finish(r, "InternalError") /\ UNCHANGED vol)
    BY <1>1, <1>2, <2>2, StagedVolumeType
    DEF BackendStage, AfterBackend, TypeOK, Locals, LocalsOK, HoldsVolume
  <2> QED
    BY <2>1, <2>2
<1> QED
  BY <1>3, <1>4, StoreUntouched DEF BackendStage

LEMMA BackendPublishIndInv ==
  ASSUME IndInv, NEW r \in Requests, BackendPublish(r)
  PROVE  IndInv'
<1> USE DEF IndInv
<1>1. /\ pc[r] = "Publish"
      /\ req[r].node \in Nodes /\ req[r].path \in TargetPaths
      /\ vol[r] \in Volume /\ vol[r].path \in SourcePaths
  BY DEF BackendPublish, Locals, LocalsOK, HoldsVolume, Volume
<1>2. \/ /\ vol' = [vol EXCEPT ![r] = PublishedVolume(vol[r], req[r].node)]
         /\ pc' = [pc EXCEPT ![r] = AfterBackend(r)]
         /\ UNCHANGED <<reply, faults>>
      \/ Fault /\ Finish(r, "InternalError") /\ UNCHANGED vol
  BY DEF BackendPublish, Goto
<1>3. TypeOK'
  <2>1. pc' \in [Requests -> Steps] /\ reply' \in [Requests -> Replies \cup {NULL}]
    BY <1>2, FinishType DEF AfterBackend, TypeOK, Steps, Replies
  <2>2. vol' \in [Requests -> Volume \cup {NULL}]
    BY <1>1, <1>2, PublishedVolumeType DEF TypeOK
  <2>3. faults' \in 0..MaxFaults
    BY <1>2, BoundsAssumption DEF Fault, TypeOK
  <2>4. BackendTypeOK'
    BY <1>1 DEF BackendPublish, Publish, PublishFails, TypeOK, BackendTypeOK
  <2> QED
    BY <2>1, <2>2, <2>3, <2>4 DEF BackendPublish, storeVars, TypeOK, StoreTypeOK
<1>4. Locals'
  <2>1. CASE Finish(r, "InternalError") /\ UNCHANGED vol
    BY <2>1 DEF BackendPublish, Finish, Goto, TypeOK, Locals, LocalsOK, HoldsVolume
  <2>2. CASE ~(Finish(r, "InternalError") /\ UNCHANGED vol)
    BY <1>1, <1>2, <2>2, PublishedVolumeType
    DEF BackendPublish, AfterBackend, TypeOK, Locals, LocalsOK, HoldsVolume
  <2> QED
    BY <2>1, <2>2
<1> QED
  BY <1>3, <1>4, StoreUntouched DEF BackendPublish

LEMMA UpdateGetIndInv ==
  ASSUME IndInv, NEW r \in Requests, UpdateGet(r)
  PROVE  IndInv'
<1> USE DEF IndInv
<1>1. /\ pc[r] = "UpdateGet"
      /\ Finish(r, "OK") \/ (Goto(r, "UpdatePut") /\ UNCHANGED reply)
      /\ UNCHANGED <<volumes, names, dirs, markers, req, vol, drawnFor, faults>>
  BY DEF UpdateGet, storeVars, backendVars
<1>2. TypeOK'
  <2>1. pc' \in [Requests -> Steps] /\ reply' \in [Requests -> Replies \cup {NULL}]
    BY <1>1, FinishType DEF Goto, TypeOK, Steps, Replies
  <2> QED
    BY <1>1, <2>1 DEF TypeOK, StoreTypeOK, BackendTypeOK
<1>3. Locals'
  BY <1>1 DEF Finish, Goto, TypeOK, Locals, LocalsOK, HoldsVolume
<1> QED
  BY <1>2, <1>3, StoreUntouched DEF UpdateGet

\* A fault ends requests, or leaves them at the step they have reached: the
\* locals and the backend are untouched.
LEMMA FaultIndInv ==
  ASSUME IndInv, Fault,
         UNCHANGED <<storeVars, backendVars, req, vol, drawnFor>>,
         reply' \in [Requests -> Replies \cup {NULL}],
         pc' \in [Requests -> Steps],
         \A q \in Requests : pc'[q] \in {pc[q], "done"}
  PROVE  IndInv'
<1> USE DEF IndInv
<1>1. TypeOK'
  BY BoundsAssumption
  DEF Fault, storeVars, backendVars, TypeOK, StoreTypeOK, BackendTypeOK
<1>2. Locals'
  BY DEF Locals, LocalsOK, HoldsVolume
<1> QED
  BY <1>1, <1>2, StoreUntouched

LEMMA ReadFailsIndInv ==
  ASSUME IndInv, NEW r \in Requests, ReadFails(r)
  PROVE  IndInv'
<1>1. ErrorReply(pc[r]) \in Replies
  BY DEF ErrorReply, Replies
<1>2. pc' \in [Requests -> Steps] /\ reply' \in [Requests -> Replies \cup {NULL}]
  BY <1>1, FinishType DEF ReadFails, IndInv
<1>3. \A q \in Requests : pc'[q] \in {pc[q], "done"}
  BY DEF ReadFails, Finish, Goto, IndInv, TypeOK
<1> QED
  BY <1>2, <1>3, FaultIndInv DEF ReadFails

LEMMA WriteFailsIndInv ==
  ASSUME IndInv, NEW r \in Requests, WriteFails(r)
  PROVE  IndInv'
<1>1. ErrorReply(pc[r]) \in Replies
  BY DEF ErrorReply, Replies
<1>2. pc' \in [Requests -> Steps] /\ reply' \in [Requests -> Replies \cup {NULL}]
  BY <1>1 DEF WriteFails, Answer, IndInv, TypeOK
<1>3. \A q \in Requests : pc'[q] \in {pc[q], "done"}
  BY DEF WriteFails
<1> QED
  BY <1>2, <1>3, FaultIndInv DEF WriteFails

LEMMA TimeoutIndInv ==
  ASSUME IndInv, NEW r \in Requests, Timeout(r)
  PROVE  IndInv'
<1>1. pc' = [pc EXCEPT ![r] = AfterCancel(r)] /\ Answer(r, "ServiceUnavailable")
  BY DEF Timeout, Goto
<1>2. pc' \in [Requests -> Steps] /\ reply' \in [Requests -> Replies \cup {NULL}]
  BY <1>1 DEF AfterCancel, Answer, IndInv, TypeOK, Steps, Replies
<1>3. \A q \in Requests : pc'[q] \in {pc[q], "done"}
  BY <1>1 DEF AfterCancel, IndInv, TypeOK
<1> QED
  BY <1>2, <1>3, FaultIndInv DEF Timeout

LEMMA CrashIndInv ==
  ASSUME IndInv, NEW R \in SUBSET Requests, Crash(R)
  PROVE  IndInv'
<1>1. pc' \in [Requests -> Steps] /\ reply' \in [Requests -> Replies \cup {NULL}]
  BY DEF Crash, IndInv, TypeOK, Steps, Replies
<1>2. \A q \in Requests : pc'[q] \in {pc[q], "done"}
  BY DEF Crash
<1> QED
  BY <1>1, <1>2, FaultIndInv DEF Crash

-----------------------------------------------------------------------------
\* Every step keeps the invariant.
LEMMA NextIndInv ==
  ASSUME IndInv, [Next]_vars
  PROVE  IndInv'
<1>1. CASE UNCHANGED vars
  <2>1. TypeOK'
    BY <1>1 DEF vars, IndInv, TypeOK, StoreTypeOK, BackendTypeOK
  <2>2. Locals'
    BY <1>1 DEF vars, IndInv, Locals, LocalsOK
  <2> QED
    BY <1>1, <2>1, <2>2, StoreUntouched DEF vars, storeVars
<1>2. ASSUME NEW r \in Requests, NEW n \in Names, NEW p \in SourcePaths,
             HandleCreate(r, n, p)
      PROVE  IndInv'
  BY <1>2, HandleCreateIndInv
<1>3. ASSUME NEW r \in Requests, NEW id \in Ids, HandleDelete(r, id)
      PROVE  IndInv'
  BY <1>3, HandleDeleteIndInv
<1>4. ASSUME NEW r \in Requests, NEW id \in Ids, NEW node \in Nodes, NEW path \in TargetPaths,
             HandleStage(r, id, node, path) \/ HandlePublish(r, id, node, path)
      PROVE  IndInv'
  BY <1>4, BeginAttachIndInv
<1>5. ASSUME NEW r \in Requests,
             RejectRequest(r) \/ CreateTxn(r) \/ DeleteGet(r) \/ DeleteTxn(r)
      PROVE  IndInv'
  BY <1>5, RejectRequestIndInv, CreateTxnIndInv, DeleteGetIndInv, DeleteTxnIndInv
<1>6. ASSUME NEW r \in Requests,
             BackendStage(r) \/ BackendPublish(r) \/ UpdateGet(r) \/ UpdatePut(r)
      PROVE  IndInv'
  BY <1>6, BackendStageIndInv, BackendPublishIndInv, UpdateGetIndInv, UpdatePutIndInv
<1>7. ASSUME NEW r \in Requests, ReadFails(r) \/ WriteFails(r) \/ Timeout(r)
      PROVE  IndInv'
  BY <1>7, ReadFailsIndInv, WriteFailsIndInv, TimeoutIndInv
<1>8. ASSUME NEW R \in SUBSET Requests, Crash(R)
      PROVE  IndInv'
  BY <1>8, CrashIndInv
<1>9. CASE Terminated
  BY <1>1, <1>9 DEF Terminated
<1> QED
  BY <1>1, <1>2, <1>3, <1>4, <1>5, <1>6, <1>7, <1>8, <1>9 DEF Next, Arrive, Advance

LEMMA Invariance == Spec => []IndInv
<1>1. IndInv /\ [Next]_vars => IndInv'
  BY NextIndInv
<1> QED
  BY InitIndInv, <1>1, PTL DEF Spec

\* Every variable keeps its type: the handlers store only well-formed
\* records, and answer only with the codes of the API.
THEOREM TypeCorrect == Spec => []TypeOK
<1>1. IndInv => TypeOK
  BY DEF IndInv
<1> QED
  BY Invariance, <1>1, PTL

\* The name index never dangles, however creates, deletes and updates of
\* however many requests interleave and fail.
THEOREM NameIndexIsSound == Spec => []NameIndexSound
<1>1. IndInv => NameIndexSound
  BY DEF IndInv
<1> QED
  BY Invariance, <1>1, PTL

-----------------------------------------------------------------------------
\* The refinement of VolumeCatalog, the live volumes being those that a name
\* of the index leads to.  HandleCreate draws an ID, CreateTxn registers or
\* refuses it, DeleteTxn removes the volume its NAME leads to (which need not
\* be the one whose ID is deleted), and every other step, faults included, is
\* a stutter.

\* A create that is under way is the only one for its ID, and no name leads
\* to that ID yet.
PendingOK ==
  \A r \in Requests :
    pc[r] = "CreateTxn" =>
      /\ \A q \in Requests : pc[q] = "CreateTxn" /\ req[q].id = req[r].id => q = r
      /\ \A n \in Names : names[n] # req[r].id

\* A step that the catalogue does not see.
Quiet ==
  /\ UNCHANGED <<names, drawnFor>>
  /\ \A q \in Requests :
       /\ (pc'[q] = "CreateTxn") <=> (pc[q] = "CreateTxn")
       /\ pc[q] = "CreateTxn" => req'[q] = req[q]

\* The steps of a request that the catalogue does not see.
QuietRequestStep(r) ==
  \/ RejectRequest(r)
  \/ \E id \in Ids : HandleDelete(r, id)
  \/ DeleteGet(r)
  \/ \E id \in Ids, node \in Nodes, path \in TargetPaths :
       HandleStage(r, id, node, path) \/ HandlePublish(r, id, node, path)
  \/ BackendStage(r)
  \/ BackendPublish(r)
  \/ UpdateGet(r)
  \/ UpdatePut(r)
  \/ ReadFails(r)
  \/ WriteFails(r)
  \/ Timeout(r)

LEMMA RequestStepIsQuiet ==
  ASSUME IndInv, NEW r \in Requests, QuietRequestStep(r)
  PROVE  Quiet
<1> USE DEF IndInv, TypeOK, Quiet, storeVars
<1>1. CASE RejectRequest(r)
  BY <1>1 DEF RejectRequest, Finish, Goto
<1>2. ASSUME NEW id \in Ids, HandleDelete(r, id)
      PROVE  Quiet
  BY <1>2 DEF HandleDelete, Finish, Goto
<1>3. CASE DeleteGet(r)
  BY <1>3 DEF DeleteGet, Finish, Goto
<1>4. ASSUME NEW id \in Ids, NEW node \in Nodes, NEW path \in TargetPaths,
             HandleStage(r, id, node, path) \/ HandlePublish(r, id, node, path)
      PROVE  Quiet
  BY <1>4 DEF HandleStage, HandlePublish, BeginAttach, Finish, Goto
<1>5. CASE BackendStage(r)
  BY <1>5 DEF BackendStage, AfterBackend, Finish, Goto
<1>6. CASE BackendPublish(r)
  BY <1>6 DEF BackendPublish, AfterBackend, Finish, Goto
<1>7. CASE UpdateGet(r)
  BY <1>7 DEF UpdateGet, Finish, Goto
<1>8. CASE UpdatePut(r)
  BY <1>8 DEF UpdatePut, PutVolume, Finish, Goto
<1>9. CASE ReadFails(r)
  BY <1>9 DEF ReadFails, Finish, Goto
<1>10. CASE WriteFails(r)
  BY <1>10 DEF WriteFails
<1>11. CASE Timeout(r)
  BY <1>11 DEF Timeout, AfterCancel, Goto, WriteSteps
<1> QED
  BY <1>1, <1>2, <1>3, <1>4, <1>5, <1>6, <1>7, <1>8, <1>9, <1>10, <1>11
  DEF QuietRequestStep

LEMMA CrashIsQuiet ==
  ASSUME IndInv, NEW R \in SUBSET Requests, Crash(R)
  PROVE  Quiet
BY DEF Crash, Quiet, WriteSteps, storeVars, IndInv, TypeOK

\* Next, by what the catalogue sees of it.
LEMMA NextByCatalog ==
  ASSUME IndInv, [Next]_vars
  PROVE  \/ Quiet
         \/ \E r \in Requests : \/ \E n \in Names, p \in SourcePaths : HandleCreate(r, n, p)
                                \/ CreateTxn(r)
                                \/ DeleteTxn(r)
<1>1. CASE UNCHANGED vars
  BY <1>1 DEF vars, Quiet
<1>2. CASE Terminated
  BY <1>1, <1>2 DEF Terminated
<1>3. CASE \E r \in Requests : QuietRequestStep(r)
  BY <1>3, RequestStepIsQuiet
<1>4. CASE \E R \in SUBSET Requests : Crash(R)
  BY <1>4, CrashIsQuiet
<1>5. CASE Next
  BY <1>2, <1>3, <1>4, <1>5 DEF Next, Arrive, Advance, QuietRequestStep
<1> QED
  BY <1>1, <1>5

\* HandleCreate either changes nothing the catalogue sees, or draws an ID.
LEMMA HandleCreateDraws ==
  ASSUME IndInv, NEW r \in Requests, NEW n \in Names, NEW p \in SourcePaths,
         HandleCreate(r, n, p)
  PROVE  \/ Quiet
         \/ /\ UNCHANGED names /\ pc[r] = "idle" /\ pc' = [pc EXCEPT ![r] = "CreateTxn"]
            /\ \E id \in Ids :
                 /\ drawnFor[id] = NULL
                 /\ drawnFor' = [drawnFor EXCEPT ![id] = n]
                 /\ req' = [req EXCEPT ![r] =
                              [op |-> "create", id |-> id, node |-> NULL, path |-> NULL]]
<1>1. CASE ~NameIsFree(n) /\ Finish(r, "Conflict") /\ UNCHANGED <<req, vol, drawnFor>>
  BY <1>1 DEF HandleCreate, Finish, Goto, Quiet, storeVars, IndInv, TypeOK
<1>2. CASE ~(~NameIsFree(n) /\ Finish(r, "Conflict") /\ UNCHANGED <<req, vol, drawnFor>>)
  BY <1>2 DEF HandleCreate, Goto, storeVars
<1> QED
  BY <1>1, <1>2

\* The facts about a write that is about to reach etcd.
LEMMA WriteLocals ==
  ASSUME IndInv, NEW r \in Requests, pc[r] \in {"CreateTxn", "DeleteTxn"}
  PROVE  /\ req[r].id \in Ids
         /\ vol[r].name \in Names
         /\ vol[r].name = drawnFor[req[r].id]
BY DEF IndInv, Locals, LocalsOK, HoldsVolume, Request, Volume

\* A name leads to an ID that was drawn for this name.
LEMMA IndexedName ==
  ASSUME IndInv, NEW n \in Names, NEW id \in Ids, names[n] = id
  PROVE  drawnFor[id] = n
BY NullAssumption DEF IndInv, NameIndexSound, VolumesNamed

LEMMA PendingInit == Init => PendingOK
BY DEF Init, PendingOK

LEMMA PendingStep ==
  ASSUME IndInv, PendingOK, [Next]_vars
  PROVE  PendingOK'
<1> USE DEF IndInv, TypeOK, StoreTypeOK
<1>1. CASE Quiet
  BY <1>1 DEF Quiet, PendingOK
<1>2. ASSUME NEW r \in Requests, NEW n \in Names, NEW p \in SourcePaths,
             HandleCreate(r, n, p)
      PROVE  PendingOK'
  <2>1. CASE ~Quiet
    <3>1. PICK id \in Ids :
            /\ drawnFor[id] = NULL
            /\ req' = [req EXCEPT ![r] =
                         [op |-> "create", id |-> id, node |-> NULL, path |-> NULL]]
            /\ pc[r] = "idle" /\ pc' = [pc EXCEPT ![r] = "CreateTxn"]
            /\ UNCHANGED names
      BY <1>2, <2>1, HandleCreateDraws
    <3>2. req'[r].id = id
      BY <3>1
    <3>3. \A q \in Requests : pc[q] = "CreateTxn" => req[q].id # id
      BY <3>1, NullAssumption DEF Locals, LocalsOK
    <3>4. \A m \in Names : names[m] # id
      BY <3>1, IndexedName, NullAssumption
    <3>5. ASSUME NEW q \in Requests, q # r
          PROVE  pc'[q] = pc[q] /\ req'[q] = req[q]
      BY <3>1, <3>5
    <3>6. pc'[r] = "CreateTxn"
      BY <3>1
    <3> QED
      BY <3>1, <3>2, <3>3, <3>4, <3>5, <3>6 DEF PendingOK
  <2> QED
    BY <1>1, <2>1
<1>3. ASSUME NEW r \in Requests, CreateTxn(r)
      PROVE  PendingOK'
  <2>1. pc[r] = "CreateTxn" /\ pc' = [pc EXCEPT ![r] = "done"] /\ UNCHANGED req
    BY <1>3 DEF CreateTxn, Finish, Goto
  <2>2. req[r].id \in Ids /\ vol[r].name \in Names
    BY <2>1, WriteLocals
  <2>3. \A m \in Names : names'[m] \in {names[m], req[r].id}
    BY <1>3, <2>2 DEF CreateTxn, CommitCreate, storeVars
  <2> QED
    BY <2>1, <2>3 DEF PendingOK
<1>4. ASSUME NEW r \in Requests, DeleteTxn(r)
      PROVE  PendingOK'
  <2>1. pc[r] = "DeleteTxn" /\ pc' = [pc EXCEPT ![r] = "done"] /\ UNCHANGED req
    BY <1>4 DEF DeleteTxn, Finish, Goto
  <2>2. \A m \in Names : names'[m] \in {names[m], NULL}
    BY <1>4 DEF DeleteTxn, CommitDelete
  <2>3. ASSUME NEW q \in Requests, pc[q] = "CreateTxn"
        PROVE  req[q].id \in Ids /\ req[q].id # NULL
    BY <2>3, WriteLocals, NullAssumption
  <2> QED
    BY <2>1, <2>2, <2>3 DEF PendingOK
<1> QED
  BY <1>1, <1>2, <1>3, <1>4, NextByCatalog

-----------------------------------------------------------------------------
\* The refinement: Phase is the phase of the catalogue.
Phase == Phases(Indexed)

LEMMA QuietStutters ==
  ASSUME Quiet
  PROVE  UNCHANGED <<Phase, drawnFor>>
<1>1. Indexed' = Indexed
  BY DEF Quiet, Indexed
<1>2. ASSUME NEW id \in Ids PROVE Pending(id)' <=> Pending(id)
  BY DEF Quiet, Pending
<1> QED
  BY <1>1, <1>2 DEF Quiet, Phase, Phases

LEMMA CatalogInit ==
  ASSUME Init
  PROVE  IndexCatalog!Init
<1>1. Phase = [id \in Ids |-> "unused"]
  BY DEF Init, Phase, Phases
<1> QED
  BY <1>1 DEF Init, IndexCatalog!Init, Phase

LEMMA CreateIsDraw ==
  ASSUME IndInv, PendingOK, NEW r \in Requests, NEW n \in Names, NEW p \in SourcePaths,
         HandleCreate(r, n, p), ~Quiet
  PROVE  \E id \in Ids : IndexCatalog!Draw(id, n)
<1> USE DEF IndInv, TypeOK, StoreTypeOK
<1>1. PICK id \in Ids :
        /\ drawnFor[id] = NULL
        /\ drawnFor' = [drawnFor EXCEPT ![id] = n]
        /\ req' = [req EXCEPT ![r] =
                     [op |-> "create", id |-> id, node |-> NULL, path |-> NULL]]
        /\ pc[r] = "idle" /\ pc' = [pc EXCEPT ![r] = "CreateTxn"]
        /\ UNCHANGED names
  BY HandleCreateDraws
<1>2. Phase[id] = "unused"
  BY <1>1 DEF Phase, Phases
<1>3. Indexed' = Indexed
  BY <1>1 DEF Indexed
<1>4. Pending(id)'
  BY <1>1 DEF Pending
<1>5. ASSUME NEW i \in Ids, i # id
      PROVE  Pending(i)' <=> Pending(i)
  <2>1. \A q \in Requests : q # r => pc'[q] = pc[q] /\ req'[q] = req[q]
    BY <1>1
  <2>2. pc[r] # "CreateTxn" /\ req'[r].id # i
    BY <1>1, <1>5
  <2> QED
    BY <2>1, <2>2 DEF Pending
<1>6. Phase' = [Phase EXCEPT ![id] = "pending"]
  <2>1. drawnFor'[id] # NULL
    BY <1>1, NullAssumption
  <2>2. Phase'[id] = "pending"
    BY <1>4, <2>1 DEF Phase, Phases
  <2>3. ASSUME NEW i \in Ids, i # id PROVE Phase'[i] = Phase[i]
    BY <1>1, <1>3, <1>5, <2>3 DEF Phase, Phases
  <2> QED
    BY <2>2, <2>3 DEF Phase, Phases
<1> QED
  BY <1>1, <1>2, <1>6 DEF IndexCatalog!Draw, Phase

\* A drawn ID is live when no create of it is pending and a name leads to it.
LEMMA PhaseOfDrawn ==
  ASSUME NEW id \in Ids, drawnFor[id] # NULL
  PROVE  Phase[id] = IF Pending(id) THEN "pending"
                     ELSE IF id \in Indexed THEN "live" ELSE "gone"
BY DEF Phase, Phases

\* An ID that a name leads to is live, and no other ID is.
LEMMA IndexedIsLive ==
  ASSUME IndInv, PendingOK, NEW id \in Ids
  PROVE  id \in Indexed <=> Phase[id] = "live"
<1>1. ASSUME id \in Indexed PROVE drawnFor[id] # NULL /\ ~Pending(id)
  <2>1. PICK n \in Names : names[n] = id
    BY <1>1 DEF Indexed
  <2>2. drawnFor[id] # NULL
    BY <2>1, IndexedName, NullAssumption
  <2>3. ~Pending(id)
    BY <2>1 DEF PendingOK, Pending
  <2> QED
    BY <2>2, <2>3
<1>2. CASE id \in Indexed
  BY <1>1, <1>2, PhaseOfDrawn
<1>3. CASE id \notin Indexed
  BY <1>3 DEF Phase, Phases
<1> QED
  BY <1>2, <1>3

LEMMA TxnRegistersOrRefuses ==
  ASSUME IndInv, PendingOK, NEW r \in Requests, CreateTxn(r)
  PROVE  \E id \in Ids : IndexCatalog!Register(id) \/ IndexCatalog!Refuse(id)
<1> USE DEF IndInv, TypeOK, StoreTypeOK
<1> DEFINE id == req[r].id
           n  == vol[r].name
<1>1. /\ pc[r] = "CreateTxn" /\ pc' = [pc EXCEPT ![r] = "done"]
      /\ UNCHANGED <<req, drawnFor>>
  BY DEF CreateTxn, Finish, Goto
<1>2. id \in Ids /\ n \in Names /\ drawnFor[id] = n /\ n # NULL
  BY <1>1, WriteLocals, NullAssumption
<1>3. Pending(id) /\ Phase[id] = "pending"
  BY <1>1, <1>2, PhaseOfDrawn DEF Pending
<1>4. ~Pending(id)'
  BY <1>1 DEF PendingOK, Pending
<1>5. ASSUME NEW i \in Ids, i # id PROVE Pending(i)' <=> Pending(i)
  BY <1>1, <1>5 DEF Pending
<1>6. \A m \in Names : names[m] # id
  BY <1>1 DEF PendingOK
<1>7. CASE NameIsFree(n)
  <2>1. names' = [names EXCEPT ![n] = id]
    BY <1>7 DEF CreateTxn, CommitCreate
  <2>2. IndexCatalog!Live(n) = {}
    <3>1. ASSUME NEW i \in Ids, Phase[i] = "live" PROVE drawnFor[i] # n
      <4>1. PICK m \in Names : names[m] = i
        BY <3>1, IndexedIsLive DEF Indexed
      <4>2. m # n
        BY <1>7, <4>1, NullAssumption DEF NameIsFree
      <4> QED
        BY <4>1, <4>2, IndexedName
    <3> QED
      BY <3>1 DEF IndexCatalog!Live, Phase
  <2>3. Indexed' = Indexed \cup {id}
    BY <1>2, <1>7, <2>1, NullAssumption DEF Indexed, NameIsFree
  <2>4. Phase' = [Phase EXCEPT ![id] = "live"]
    <3>1. Phase'[id] = "live"
      BY <1>1, <1>2, <1>4, <2>3 DEF Phase, Phases
    <3>2. ASSUME NEW i \in Ids, i # id PROVE Phase'[i] = Phase[i]
      BY <1>1, <1>5, <2>3, <3>2 DEF Phase, Phases
    <3> QED
      BY <3>1, <3>2 DEF Phase, Phases
  <2>5. IndexCatalog!Register(id)
    BY <1>1, <1>2, <1>3, <2>2, <2>4 DEF IndexCatalog!Register, Phase
  <2> QED
    BY <1>2, <2>5
<1>8. CASE ~NameIsFree(n)
  <2>1. UNCHANGED names
    BY <1>8 DEF CreateTxn, CommitCreate, storeVars
  <2>2. PICK i \in Ids : names[n] = i
    BY <1>2, <1>8 DEF NameIsFree
  <2>3. i \in IndexCatalog!Live(n)
    <3>1. i \in Indexed
      BY <1>2, <2>2 DEF Indexed
    <3>2. Phase[i] = "live" /\ drawnFor[i] = n
      BY <1>2, <2>2, <3>1, IndexedName, IndexedIsLive
    <3> QED
      BY <3>2 DEF IndexCatalog!Live, Phase
  <2>4. Phase' = [Phase EXCEPT ![id] = "gone"]
    <3>1. Indexed' = Indexed /\ id \notin Indexed
      BY <1>6, <2>1 DEF Indexed
    <3>2. Phase'[id] = "gone"
      BY <1>1, <1>2, <1>4, <3>1 DEF Phase, Phases
    <3>3. ASSUME NEW j \in Ids, j # id PROVE Phase'[j] = Phase[j]
      BY <1>1, <1>5, <3>1, <3>3 DEF Phase, Phases
    <3> QED
      BY <3>2, <3>3 DEF Phase, Phases
  <2>5. IndexCatalog!Refuse(id)
    BY <1>1, <1>2, <1>3, <2>3, <2>4 DEF IndexCatalog!Refuse, Phase
  <2> QED
    BY <1>2, <2>5
<1> QED
  BY <1>7, <1>8

\* The volume that a DeleteTxn takes out of the catalogue is the one its
\* name leads to by then, or none.
LEMMA TxnRemoves ==
  ASSUME IndInv, PendingOK, NEW r \in Requests, DeleteTxn(r)
  PROVE  \/ UNCHANGED <<Phase, drawnFor>>
         \/ \E id \in Ids : IndexCatalog!Remove(id)
<1> USE DEF IndInv, TypeOK, StoreTypeOK
<1> DEFINE n == vol[r].name
<1>1. /\ pc[r] = "DeleteTxn" /\ pc' = [pc EXCEPT ![r] = "done"]
      /\ names' = [names EXCEPT ![n] = NULL]
      /\ UNCHANGED <<req, drawnFor>>
  BY DEF DeleteTxn, CommitDelete, Finish, Goto
<1>2. n \in Names
  BY <1>1, WriteLocals
<1>3. ASSUME NEW i \in Ids PROVE Pending(i)' <=> Pending(i)
  BY <1>1 DEF Pending
<1>4. CASE names[n] = NULL
  <2>1. names' = names
    BY <1>1, <1>4
  <2>2. Indexed' = Indexed
    BY <2>1 DEF Indexed
  <2> QED
    BY <1>1, <1>3, <2>2 DEF Phase, Phases
<1>5. CASE names[n] # NULL
  <2>1. PICK id \in Ids : names[n] = id
    BY <1>2, <1>5
  <2>2. Phase[id] = "live" /\ drawnFor[id] = n
    BY <1>2, <2>1, IndexedIsLive, IndexedName DEF Indexed
  <2>3. Indexed' = Indexed \ {id}
    <3>1. \A m \in Names : names[m] = id => m = n
      BY <2>2, IndexedName
    <3> QED
      BY <1>1, <1>2, <2>1, <3>1, NullAssumption DEF Indexed
  <2>4. Phase' = [Phase EXCEPT ![id] = "gone"]
    <3>1. drawnFor[id] # NULL /\ ~Pending(id)
      BY <2>2 DEF Phase, Phases
    <3>2. Phase'[id] = "gone"
      BY <1>1, <1>3, <2>3, <3>1 DEF Phase, Phases
    <3>3. ASSUME NEW j \in Ids, j # id PROVE Phase'[j] = Phase[j]
      BY <1>1, <1>3, <2>3, <3>3 DEF Phase, Phases
    <3> QED
      BY <3>2, <3>3 DEF Phase, Phases
  <2>5. IndexCatalog!Remove(id)
    BY <1>1, <2>2, <2>4 DEF IndexCatalog!Remove, Phase
  <2> QED
    BY <2>5
<1> QED
  BY <1>4, <1>5

\* Every step is a step of the catalogue, or a stutter.
LEMMA CatalogStep ==
  ASSUME IndInv, PendingOK, [Next]_vars
  PROVE  [IndexCatalog!Next]_(IndexCatalog!vars)
<1>1. UNCHANGED <<Phase, drawnFor>> => UNCHANGED IndexCatalog!vars
  BY DEF IndexCatalog!vars, Phase
<1>2. CASE Quiet
  BY <1>1, <1>2, QuietStutters
<1>3. ASSUME NEW r \in Requests, NEW n \in Names, NEW p \in SourcePaths,
             HandleCreate(r, n, p), ~Quiet
      PROVE  IndexCatalog!Next
  BY <1>3, CreateIsDraw DEF IndexCatalog!Next
<1>4. ASSUME NEW r \in Requests, CreateTxn(r)
      PROVE  IndexCatalog!Next
  BY <1>4, TxnRegistersOrRefuses DEF IndexCatalog!Next
<1>5. ASSUME NEW r \in Requests, DeleteTxn(r)
      PROVE  [IndexCatalog!Next]_(IndexCatalog!vars)
  BY <1>1, <1>5, TxnRemoves DEF IndexCatalog!Next
<1> QED
  BY <1>2, <1>3, <1>4, <1>5, NextByCatalog

\* Read through its name index, the store is a catalogue: a name is given to
\* one volume at a time, never taken over from a live one, and an ID that
\* lost its name never gets it back.
THEOREM HandlersRefineCatalog == Spec => RefinesIndexCatalog
<1>1. Init => IndexCatalog!Init
  BY CatalogInit
<1>2. IndInv /\ PendingOK /\ [Next]_vars => PendingOK'
  BY PendingStep
<1>3. IndInv /\ PendingOK /\ [Next]_vars => [IndexCatalog!Next]_(IndexCatalog!vars)
  BY CatalogStep
<1> QED
  BY <1>1, <1>2, <1>3, PendingInit, Invariance, PTL
  DEF Spec, RefinesIndexCatalog, IndexCatalog!Spec

-----------------------------------------------------------------------------
(***************************************************************************)
(* What callers get who never have two requests on volumes of one name     *)
(* open at the same time, as long as nothing fails: every volume is found  *)
(* by its name, what was deleted stays deleted, what was published stays   *)
(* published, and the records are a catalogue, too.                        *)
(***************************************************************************)
Serial == SerialPerName = TRUE /\ MaxFaults = 0

Running(r) == pc[r] \notin {"idle", "done"}

\* Nobody was answered before the end, and no two requests that run are on
\* one name.
RunOK(r) ==
  /\ pc[r] # "done" => reply[r] = NULL
  /\ Running(r) => \A q \in Requests \ {r} :
       Running(q) => drawnFor[req[q].id] # drawnFor[req[r].id]

\* What a request that runs knows of its volume: the local record is still
\* the one in etcd, but for the request's own entry; a volume that is being
\* deleted is not published; an ID that is being created is new to all.
CopyOK(r) ==
  LET v == volumes[req[r].id]
  IN  /\ pc[r] = "Stage" => req[r].op = "stage" /\ v # NULL /\ vol[r] = v
      /\ pc[r] = "Publish" => req[r].op = "publish" /\ v # NULL /\ vol[r] = v
      /\ pc[r] \in {"UpdateGet", "UpdatePut"} =>
           /\ v # NULL
           /\ \/ req[r].op = "stage" /\ vol[r].publishedOn = v.publishedOn
              \/ /\ req[r].op = "publish" /\ req[r].node \in Nodes
                 /\ vol[r].publishedOn = Append(v.publishedOn, req[r].node)
      /\ pc[r] \in {"DeleteGet", "DeleteTxn"} =>
           req[r].op = "delete" /\ v # NULL /\ v.publishedOn = <<>>
      /\ pc[r] = "CreateTxn" =>
           /\ req[r].op = "create" /\ v = NULL
           /\ \A q \in Requests \ {r} : req[q] # NULL => req[q].id # req[r].id

Drawn(r) == req[r] # NULL => drawnFor[req[r].id] # NULL

SerialInv ==
  /\ \A r \in Requests : RunOK(r) /\ CopyOK(r) /\ Drawn(r)
  /\ IndexComplete
  /\ PublicationHonoured
  /\ DeleteIsFinal

-----------------------------------------------------------------------------
\* A step of request r alone, on no volume that another request is on.
Own(r) ==
  /\ pc[r] # "done"
  /\ \A q \in Requests \ {r} :
       pc'[q] = pc[q] /\ req'[q] = req[q] /\ vol'[q] = vol[q] /\ reply'[q] = reply[q]
  /\ \A id \in Ids : drawnFor[id] # NULL => drawnFor'[id] = drawnFor[id]

Apart(r) ==
  \A q \in Requests \ {r} : Running(q) =>
    /\ req'[r] # NULL /\ req'[r] # req[r] => req'[r].id # req[q].id
    /\ volumes'[req[q].id] = volumes[req[q].id]

Locally(r) ==
  /\ Own(r) /\ Apart(r)
  /\ RunOK(r)' /\ CopyOK(r)' /\ Drawn(r)'

\* The others do not notice.
LEMMA OthersKeep ==
  ASSUME IndInv, SerialInv, NEW r \in Requests, Locally(r), NEW q \in Requests
  PROVE  RunOK(q)' /\ CopyOK(q)' /\ Drawn(q)'
<1>1. CASE q = r
  BY <1>1 DEF Locally
<1>2. CASE q # r
  <2>1. /\ pc'[q] = pc[q] /\ req'[q] = req[q] /\ vol'[q] = vol[q] /\ reply'[q] = reply[q]
        /\ RunOK(q) /\ CopyOK(q) /\ Drawn(q)
    BY <1>2 DEF Locally, Own, SerialInv
  <2>2. req[q] # NULL => req[q].id \in Ids /\ drawnFor'[req[q].id] = drawnFor[req[q].id]
    BY <2>1 DEF Locally, Own, Drawn, IndInv, TypeOK, Request
  <2>3. ASSUME NEW p \in Requests, Running(p)
        PROVE  req[p] # NULL /\ req[p].id \in Ids
    BY <2>3, BoundsAssumption DEF Running, IndInv, Locals, LocalsOK, Request
  <2>4. Drawn(q)'
    BY <2>1, <2>2 DEF Drawn
  <2>5. RunOK(q)'
    <3> SUFFICES ASSUME Running(q), NEW p \in Requests \ {q}, Running(p)'
                 PROVE  drawnFor'[req'[p].id] # drawnFor'[req'[q].id]
      BY <2>1 DEF RunOK, Running
    <3>1. CASE p = r
      BY <1>2, <2>1, <3>1 DEF Locally, RunOK, Running
    <3>2. CASE p # r
      <4>1. pc'[p] = pc[p] /\ req'[p] = req[p] /\ Running(p)
        BY <3>2 DEF Locally, Own, Running
      <4>2. drawnFor'[req[p].id] = drawnFor[req[p].id]
        BY <2>3, <4>1 DEF Locally, Own, SerialInv, Drawn
      <4> QED
        BY <2>1, <2>2, <2>3, <4>1, <4>2 DEF RunOK
    <3> QED
      BY <3>1, <3>2
  <2>6. CopyOK(q)'
    <3>1. Running(q) => volumes'[req[q].id] = volumes[req[q].id]
      BY <1>2 DEF Locally, Apart
    <3>2. pc[q] = "CreateTxn" => \A p \in Requests \ {q} : req'[p] # NULL => req'[p].id # req[q].id
      <4> SUFFICES ASSUME pc[q] = "CreateTxn", NEW p \in Requests \ {q}, req'[p] # NULL
                   PROVE  req'[p].id # req[q].id
        OBVIOUS
      <4>1. CASE req'[p] = req[p]
        BY <2>1, <4>1 DEF CopyOK
      <4>2. CASE req'[p] # req[p]
        <5>1. p = r
          BY <4>2 DEF Locally, Own
        <5> QED
          BY <1>2, <4>2, <5>1 DEF Locally, Apart, Running
      <4> QED
        BY <4>1, <4>2
    <3> QED
      BY <2>1, <3>1, <3>2 DEF CopyOK, Running
  <2> QED
    BY <2>4, <2>5, <2>6
<1> QED
  BY <1>1, <1>2

\* A step of r that does not write to etcd, and whose answer is no 200.
LEMMA QuietlyKeeps ==
  ASSUME IndInv, SerialInv, NEW r \in Requests, Locally(r), UNCHANGED storeVars,
         reply'[r] # "OK"
  PROVE  SerialInv'
<1>1. \A q \in Requests : RunOK(q)' /\ CopyOK(q)' /\ Drawn(q)'
  BY OthersKeep
<1>2. \A q \in Requests : reply'[q] = "OK" => req'[q] = req[q] /\ reply[q] = "OK"
  BY DEF Locally, Own
<1>3. IndexComplete' /\ PublicationHonoured' /\ DeleteIsFinal'
  BY <1>2 DEF SerialInv, storeVars, IndexComplete, PublicationHonoured, DeleteIsFinal
<1> QED
  BY <1>1, <1>3 DEF SerialInv
-----------------------------------------------------------------------------
(***************************************************************************)
(* The steps of a request that writes nothing to etcd.                     *)
(***************************************************************************)

\* A step of r alone that keeps its parameters and answers at the end only.
Onward(r) ==
  /\ pc[r] # "done" /\ pc[r] # "idle"
  /\ \A q \in Requests \ {r} : pc'[q] = pc[q] /\ vol'[q] = vol[q] /\ reply'[q] = reply[q]
  /\ pc'[r] # "done" => reply'[r] = NULL
  /\ UNCHANGED <<req, drawnFor>>

LEMMA OnwardRuns ==
  ASSUME IndInv, SerialInv, NEW r \in Requests, Onward(r)
  PROVE  Own(r) /\ RunOK(r)' /\ Drawn(r)'
<1>1. Own(r)
  BY DEF Onward, Own
<1>2. Drawn(r)'
  BY DEF Onward, Drawn, SerialInv
<1>3. RunOK(r)'
  <2>1. Running(r) /\ RunOK(r)
    BY DEF Onward, Running, SerialInv
  <2> QED
    BY <2>1 DEF Onward, RunOK, Running
<1> QED
  BY <1>1, <1>2, <1>3

\* The first answer is the one that the caller gets.
LEMMA FirstAnswer ==
  ASSUME IndInv, SerialInv, NEW r \in Requests, NEW code \in Replies,
         pc[r] # "done", Finish(r, code)
  PROVE  /\ pc' = [pc EXCEPT ![r] = "done"] /\ reply' = [reply EXCEPT ![r] = code]
         /\ pc'[r] = "done" /\ reply'[r] = code
BY DEF SerialInv, RunOK, Finish, Goto, Answer, IndInv, TypeOK

LEMMA NoFaults ==
  ASSUME Serial, IndInv
  PROVE  ~Fault
BY BoundsAssumption DEF Serial, IndInv, TypeOK, Fault

\* A request comes in: nobody else runs on a volume of that name.
LEMMA NameIsMine ==
  ASSUME Serial, IndInv, SerialInv, NEW r \in Requests, NEW n \in Names, MayCall(n),
         NEW q \in Requests, Running(q)
  PROVE  drawnFor[req[q].id] # n
BY DEF Serial, MayCall, Open, Running, SerialInv, RunOK

LEMMA RejectRequestSerial ==
  ASSUME Serial, IndInv, SerialInv, NEW r \in Requests, RejectRequest(r)
  PROVE  SerialInv'
<1>1. PICK code \in {"BadRequest", "NotFound", "InternalError"} : Finish(r, code)
  BY DEF RejectRequest
<1>2. /\ pc[r] = "idle" /\ UNCHANGED <<storeVars, req, vol, drawnFor>>
      /\ pc' = [pc EXCEPT ![r] = "done"] /\ reply' = [reply EXCEPT ![r] = code]
      /\ pc'[r] = "done" /\ reply'[r] = code
  BY <1>1, FirstAnswer DEF RejectRequest, Replies
<1>3. Locally(r)
  <2>1. Own(r)
    BY <1>2 DEF Own
  <2>2. Apart(r)
    BY <1>2 DEF Apart, storeVars
  <2>3. RunOK(r)' /\ CopyOK(r)'
    BY <1>2 DEF RunOK, CopyOK, Running
  <2>4. Drawn(r)'
    BY <1>2 DEF Drawn, SerialInv
  <2> QED
    BY <2>1, <2>2, <2>3, <2>4 DEF Locally
<1> QED
  BY <1>2, <1>3, QuietlyKeeps

LEMMA HandleCreateSerial ==
  ASSUME Serial, IndInv, SerialInv, NEW r \in Requests, NEW n \in Names,
         NEW p \in SourcePaths, HandleCreate(r, n, p)
  PROVE  SerialInv'
<1>1. pc[r] = "idle" /\ MayCall(n) /\ UNCHANGED storeVars
  BY DEF HandleCreate
<1>2. CASE Finish(r, "Conflict") /\ UNCHANGED <<req, vol, drawnFor>>
  <2>1. /\ pc' = [pc EXCEPT ![r] = "done"] /\ reply' = [reply EXCEPT ![r] = "Conflict"]
        /\ pc'[r] = "done" /\ reply'[r] = "Conflict"
    BY <1>1, <1>2, FirstAnswer DEF Replies
  <2>2. Own(r) /\ Apart(r)
    BY <1>1, <1>2, <2>1 DEF Own, Apart, storeVars
  <2>3. RunOK(r)' /\ CopyOK(r)' /\ Drawn(r)'
    BY <1>1, <1>2, <2>1 DEF RunOK, CopyOK, Running, Drawn, SerialInv
  <2> QED
    BY <1>1, <2>1, <2>2, <2>3, QuietlyKeeps DEF Locally
<1>3. ASSUME NEW id \in Ids,
             /\ drawnFor[id] = NULL
             /\ drawnFor' = [drawnFor EXCEPT ![id] = n]
             /\ req' = [req EXCEPT ![r] =
                          [op |-> "create", id |-> id, node |-> NULL, path |-> NULL]]
             /\ vol' = [vol EXCEPT ![r] = NewVolume(n, p)]
             /\ pc' = [pc EXCEPT ![r] = "CreateTxn"]
             /\ UNCHANGED reply
      PROVE  SerialInv'
  <2>1. /\ req'[r] = [op |-> "create", id |-> id, node |-> NULL, path |-> NULL]
        /\ pc'[r] = "CreateTxn" /\ drawnFor'[id] = n /\ n # NULL
    BY <1>3, NullAssumption DEF IndInv, TypeOK
  <2>2. \A q \in Requests \ {r} : pc'[q] = pc[q] /\ req'[q] = req[q] /\ vol'[q] = vol[q]
    BY <1>3 DEF IndInv, TypeOK
  <2>3. \A q \in Requests : req[q] # NULL => req[q].id # id
    BY <1>3 DEF SerialInv, Drawn
  <2>4. ASSUME NEW q \in Requests, Running(q)
        PROVE  /\ req[q].id \in Ids /\ req[q] # NULL
               /\ drawnFor[req[q].id] # n /\ drawnFor[req[q].id] # NULL
    <3>1. req[q].id \in Ids /\ req[q] # NULL /\ drawnFor[req[q].id] # NULL
      BY <2>4, BoundsAssumption, NullAssumption
      DEF Running, IndInv, Locals, LocalsOK, Request
    <3> QED
      BY <1>1, <2>4, <3>1, NameIsMine
  <2>5. Own(r)
    <3>1. \A i \in Ids : drawnFor[i] # NULL => drawnFor'[i] = drawnFor[i]
      BY <1>3 DEF IndInv, TypeOK
    <3> QED
      BY <1>1, <1>3, <2>2, <3>1 DEF Own
  <2>6. Apart(r)
    BY <1>1, <2>1, <2>3, <2>4 DEF Apart, storeVars
  <2>7. RunOK(r)'
    <3>1. reply'[r] = NULL
      BY <1>1, <1>3 DEF SerialInv, RunOK
    <3>2. ASSUME NEW q \in Requests \ {r}, Running(q)'
          PROVE  drawnFor'[req'[q].id] # drawnFor'[req'[r].id]
      <4>1. Running(q) /\ req'[q] = req[q]
        BY <2>2, <3>2 DEF Running
      <4>2. drawnFor'[req[q].id] = drawnFor[req[q].id]
        BY <2>4, <2>5, <4>1 DEF Own
      <4> QED
        BY <2>1, <2>4, <4>1, <4>2
    <3> QED
      BY <3>1, <3>2 DEF RunOK
  <2>8. CopyOK(r)'
    <3>1. volumes'[id] = NULL
      BY <1>1, <1>3, NullAssumption DEF storeVars, IndInv, VolumesNamed, TypeOK, StoreTypeOK, Volume
    <3> QED
      BY <2>1, <2>2, <2>3, <3>1 DEF CopyOK
  <2>9. Drawn(r)'
    BY <2>1 DEF Drawn
  <2>10. reply'[r] # "OK"
    BY <1>1, <1>3, BoundsAssumption DEF SerialInv, RunOK, Replies
  <2> QED
    BY <1>1, <2>5, <2>6, <2>7, <2>8, <2>9, <2>10, QuietlyKeeps DEF Locally
<1> QED
  BY <1>2, <1>3 DEF HandleCreate, Goto

\* A request that comes in for a volume is the only one on that name.
LEMMA ComesInAlone ==
  ASSUME Serial, IndInv, SerialInv, NEW r \in Requests, NEW id \in Ids, NEW x,
         pc[r] = "idle", Known(id), MayCall(drawnFor[id]),
         x # NULL, x.id = id, req' = [req EXCEPT ![r] = x],
         \A q \in Requests \ {r} : pc'[q] = pc[q] /\ vol'[q] = vol[q] /\ reply'[q] = reply[q],
         pc'[r] # "done" => reply'[r] = NULL,
         UNCHANGED <<volumes, drawnFor>>
  PROVE  Own(r) /\ Apart(r) /\ RunOK(r)' /\ Drawn(r)'
<1>1. /\ req'[r] = x
      /\ \A q \in Requests \ {r} : req'[q] = req[q]
      /\ drawnFor[id] \in Names /\ drawnFor[id] # NULL
  BY DEF Known, IndInv, TypeOK
<1>2. ASSUME NEW q \in Requests \ {r}, Running(q)
      PROVE  drawnFor[req[q].id] # drawnFor[id]
  BY <1>1, <1>2, NameIsMine
<1>3. Own(r)
  BY <1>1 DEF Own
<1>4. Apart(r)
  BY <1>1, <1>2 DEF Apart
<1>5. RunOK(r)'
  BY <1>1, <1>2 DEF RunOK, Running
<1>6. Drawn(r)'
  BY <1>1 DEF Drawn
<1> QED
  BY <1>3, <1>4, <1>5, <1>6

LEMMA HandleDeleteSerial ==
  ASSUME Serial, IndInv, SerialInv, NEW r \in Requests, NEW id \in Ids, HandleDelete(r, id)
  PROVE  SerialInv'
<1> DEFINE x == [op |-> "delete", id |-> id, node |-> NULL, path |-> NULL]
<1>1. /\ pc[r] = "idle" /\ Known(id) /\ MayCall(drawnFor[id])
      /\ req' = [req EXCEPT ![r] = x] /\ UNCHANGED <<storeVars, vol, drawnFor>>
  BY DEF HandleDelete
<1>2. x.id = id /\ x # NULL
  <2>1. x \in Request
    BY DEF Request
  <2> QED
    BY <2>1, BoundsAssumption
<1>3. CASE \E code \in {"NotFound", "Conflict"} : Finish(r, code)
  <2>1. PICK code \in {"NotFound", "Conflict"} : Finish(r, code)
    BY <1>3
  <2>2. /\ pc' = [pc EXCEPT ![r] = "done"] /\ reply' = [reply EXCEPT ![r] = code]
        /\ pc'[r] = "done" /\ reply'[r] = code
    BY <1>1, <2>1, FirstAnswer DEF Replies
  <2>3. Own(r) /\ Apart(r) /\ RunOK(r)' /\ Drawn(r)'
    <3>1. /\ \A q \in Requests \ {r} : pc'[q] = pc[q] /\ vol'[q] = vol[q] /\ reply'[q] = reply[q]
          /\ pc'[r] # "done" => reply'[r] = NULL
          /\ UNCHANGED <<volumes, drawnFor>>
      BY <1>1, <1>2, <2>2 DEF storeVars
    <3> HIDE DEF x
    <3> QED
      BY <1>1, <1>2, <3>1, ComesInAlone
  <2>4. CopyOK(r)'
    BY <2>2 DEF CopyOK
  <2> QED
    BY <1>1, <2>2, <2>3, <2>4, QuietlyKeeps DEF Locally
<1>4. CASE /\ volumes[id] # NULL /\ volumes[id].publishedOn = <<>>
           /\ Goto(r, "DeleteGet") /\ UNCHANGED reply
  <2>1. /\ pc' = [pc EXCEPT ![r] = "DeleteGet"] /\ pc'[r] = "DeleteGet"
        /\ reply'[r] = NULL /\ req'[r] = x
    BY <1>1, <1>4 DEF Goto, SerialInv, RunOK, IndInv, TypeOK
  <2>2. Own(r) /\ Apart(r) /\ RunOK(r)' /\ Drawn(r)'
    <3>1. /\ \A q \in Requests \ {r} : pc'[q] = pc[q] /\ vol'[q] = vol[q] /\ reply'[q] = reply[q]
          /\ pc'[r] # "done" => reply'[r] = NULL
          /\ UNCHANGED <<volumes, drawnFor>>
      BY <1>1, <1>2, <1>4, <2>1 DEF storeVars
    <3> HIDE DEF x
    <3> QED
      BY <1>1, <1>2, <3>1, ComesInAlone
  <2>3. CopyOK(r)'
    BY <1>1, <1>4, <2>1 DEF CopyOK, storeVars
  <2> QED
    BY <1>1, <2>1, <2>2, <2>3, QuietlyKeeps, BoundsAssumption DEF Locally, Replies
<1> QED
  BY <1>3, <1>4 DEF HandleDelete

LEMMA BeginAttachSerial ==
  ASSUME Serial, IndInv, SerialInv, NEW r \in Requests, NEW id \in Ids,
         NEW node \in Nodes, NEW path \in TargetPaths,
         HandleStage(r, id, node, path) \/ HandlePublish(r, id, node, path)
  PROVE  SerialInv'
<1>1. PICK op \in {"stage", "publish"}, step \in {"Stage", "Publish"} :
        /\ BeginAttach(r, op, id, node, path, step)
        /\ (op = "stage") <=> (step = "Stage")
  BY DEF HandleStage, HandlePublish
<1> DEFINE x == [op |-> op, id |-> id, node |-> node, path |-> path]
<1>2. /\ pc[r] = "idle" /\ Known(id) /\ MayCall(drawnFor[id])
      /\ req' = [req EXCEPT ![r] = x] /\ UNCHANGED <<storeVars, drawnFor>>
  BY <1>1 DEF BeginAttach
<1>3. x.id = id /\ x # NULL
  <2>1. x \in Request
    BY DEF Request
  <2> QED
    BY <2>1, BoundsAssumption
<1>4. CASE Finish(r, "NotFound") /\ UNCHANGED vol
  <2>1. /\ pc' = [pc EXCEPT ![r] = "done"] /\ reply' = [reply EXCEPT ![r] = "NotFound"]
        /\ pc'[r] = "done" /\ reply'[r] = "NotFound"
    BY <1>2, <1>4, FirstAnswer DEF Replies
  <2>2. Own(r) /\ Apart(r) /\ RunOK(r)' /\ Drawn(r)'
    <3>1. /\ \A q \in Requests \ {r} : pc'[q] = pc[q] /\ vol'[q] = vol[q] /\ reply'[q] = reply[q]
          /\ pc'[r] # "done" => reply'[r] = NULL
          /\ UNCHANGED <<volumes, drawnFor>>
      BY <1>2, <1>3, <1>4, <2>1 DEF storeVars
    <3> HIDE DEF x
    <3> QED
      BY <1>2, <1>3, <3>1, ComesInAlone
  <2>3. CopyOK(r)'
    BY <2>1 DEF CopyOK
  <2> QED
    BY <1>2, <2>1, <2>2, <2>3, QuietlyKeeps DEF Locally
<1>5. CASE /\ volumes[id] # NULL /\ vol' = [vol EXCEPT ![r] = volumes[id]]
           /\ Goto(r, step) /\ UNCHANGED reply
  <2>1. /\ pc' = [pc EXCEPT ![r] = step] /\ pc'[r] = step /\ vol'[r] = volumes[id]
        /\ reply'[r] = NULL /\ req'[r] = x
    BY <1>2, <1>5 DEF Goto, SerialInv, RunOK, IndInv, TypeOK
  <2>2. Own(r) /\ Apart(r) /\ RunOK(r)' /\ Drawn(r)'
    <3>1. /\ \A q \in Requests \ {r} : pc'[q] = pc[q] /\ vol'[q] = vol[q] /\ reply'[q] = reply[q]
          /\ pc'[r] # "done" => reply'[r] = NULL
          /\ UNCHANGED <<volumes, drawnFor>>
      BY <1>2, <1>3, <1>5, <2>1 DEF storeVars
    <3> HIDE DEF x
    <3> QED
      BY <1>2, <1>3, <3>1, ComesInAlone
  <2>3. CopyOK(r)'
    BY <1>1, <1>2, <1>5, <2>1 DEF CopyOK, storeVars
  <2> QED
    BY <1>2, <2>1, <2>2, <2>3, QuietlyKeeps, BoundsAssumption DEF Locally, Replies
<1> QED
  BY <1>1, <1>4, <1>5 DEF BeginAttach

LEMMA DeleteGetSerial ==
  ASSUME Serial, IndInv, SerialInv, NEW r \in Requests, DeleteGet(r)
  PROVE  SerialInv'
<1>1. /\ pc[r] = "DeleteGet" /\ UNCHANGED <<storeVars, req, drawnFor>>
      /\ volumes[req[r].id] # NULL /\ CopyOK(r) /\ reply[r] = NULL
  BY DEF DeleteGet, SerialInv, CopyOK, RunOK
<1>2. /\ pc' = [pc EXCEPT ![r] = "DeleteTxn"] /\ pc'[r] = "DeleteTxn"
      /\ vol' = [vol EXCEPT ![r] = volumes[req[r].id]] /\ UNCHANGED reply
  BY <1>1 DEF DeleteGet, Goto, IndInv, TypeOK
<1>3. Onward(r) /\ Apart(r)
  BY <1>1, <1>2 DEF Onward, Apart, storeVars
<1>4. CopyOK(r)'
  BY <1>1, <1>2 DEF CopyOK, storeVars
<1> QED
  BY <1>1, <1>2, <1>3, <1>4, OnwardRuns, QuietlyKeeps, BoundsAssumption DEF Locally, Replies

LEMMA BackendStageSerial ==
  ASSUME Serial, IndInv, SerialInv, NEW r \in Requests, BackendStage(r)
  PROVE  SerialInv'
<1>1. /\ pc[r] = "Stage" /\ UNCHANGED <<storeVars, req, drawnFor>>
      /\ CopyOK(r) /\ reply[r] = NULL
  BY DEF BackendStage, SerialInv, RunOK
<1>2. /\ vol' = [vol EXCEPT ![r] = StagedVolume(vol[r], req[r].node)]
      /\ pc' = [pc EXCEPT ![r] = "UpdateGet"] /\ pc'[r] = "UpdateGet" /\ UNCHANGED reply
  BY <1>1, NoFaults DEF BackendStage, Goto, AfterBackend, IndInv, TypeOK
<1>3. vol'[r].publishedOn = vol[r].publishedOn
  <2>1. vol[r] \in Volume
    BY <1>1 DEF IndInv, Locals, LocalsOK, HoldsVolume
  <2> QED
    BY <1>2, <2>1 DEF StagedVolume, Volume, IndInv, TypeOK
<1>4. Onward(r) /\ Apart(r)
  BY <1>1, <1>2 DEF Onward, Apart, storeVars
<1>5. CopyOK(r)'
  BY <1>1, <1>2, <1>3 DEF CopyOK, storeVars
<1> QED
  BY <1>1, <1>2, <1>4, <1>5, OnwardRuns, QuietlyKeeps, BoundsAssumption DEF Locally, Replies

LEMMA BackendPublishSerial ==
  ASSUME Serial, IndInv, SerialInv, NEW r \in Requests, BackendPublish(r)
  PROVE  SerialInv'
<1>1. /\ pc[r] = "Publish" /\ UNCHANGED <<storeVars, req, drawnFor>>
      /\ CopyOK(r) /\ reply[r] = NULL
  BY DEF BackendPublish, SerialInv, RunOK
<1>2. /\ vol' = [vol EXCEPT ![r] = PublishedVolume(vol[r], req[r].node)]
      /\ pc' = [pc EXCEPT ![r] = "UpdateGet"] /\ pc'[r] = "UpdateGet" /\ UNCHANGED reply
  BY <1>1, NoFaults DEF BackendPublish, Goto, AfterBackend, IndInv, TypeOK
<1>3. /\ vol'[r].publishedOn = Append(vol[r].publishedOn, req[r].node)
      /\ req[r].node \in Nodes
  <2>1. vol[r] \in Volume /\ req[r].node \in Nodes
    BY <1>1 DEF IndInv, Locals, LocalsOK, HoldsVolume
  <2> QED
    BY <1>2, <2>1 DEF PublishedVolume, Volume, IndInv, TypeOK
<1>4. Onward(r) /\ Apart(r)
  BY <1>1, <1>2 DEF Onward, Apart, storeVars
<1>5. CopyOK(r)'
  BY <1>1, <1>2, <1>3 DEF CopyOK, storeVars
<1> QED
  BY <1>1, <1>2, <1>4, <1>5, OnwardRuns, QuietlyKeeps, BoundsAssumption DEF Locally, Replies

\* The volume is still there when the record is put back.
LEMMA UpdateGetSerial ==
  ASSUME Serial, IndInv, SerialInv, NEW r \in Requests, UpdateGet(r)
  PROVE  SerialInv'
<1>1. /\ pc[r] = "UpdateGet" /\ UNCHANGED <<storeVars, req, vol, drawnFor>>
      /\ volumes[req[r].id] # NULL /\ CopyOK(r) /\ reply[r] = NULL
  BY DEF UpdateGet, SerialInv, CopyOK, RunOK
<1>2. pc' = [pc EXCEPT ![r] = "UpdatePut"] /\ pc'[r] = "UpdatePut" /\ UNCHANGED reply
  BY <1>1 DEF UpdateGet, Goto, IndInv, TypeOK
<1>3. Onward(r) /\ Apart(r)
  BY <1>1, <1>2 DEF Onward, Apart, storeVars
<1>4. CopyOK(r)'
  BY <1>1, <1>2 DEF CopyOK, storeVars
<1> QED
  BY <1>1, <1>2, <1>3, <1>4, OnwardRuns, QuietlyKeeps, BoundsAssumption DEF Locally, Replies

-----------------------------------------------------------------------------
(***************************************************************************)
(* The steps that write to etcd.                                           *)
(***************************************************************************)

\* The records that no other request is on may change.
LEMMA OthersElsewhere ==
  ASSUME IndInv, SerialInv, NEW r \in Requests, Running(r),
         \A id \in Ids \ {req[r].id} : volumes'[id] = volumes[id],
         UNCHANGED req
  PROVE  Apart(r)
<1>1. ASSUME NEW q \in Requests \ {r}, Running(q)
      PROVE  req[q].id \in Ids \ {req[r].id}
  <2>1. req[q].id \in Ids
    BY <1>1 DEF Running, IndInv, Locals, LocalsOK, Request
  <2>2. drawnFor[req[q].id] # drawnFor[req[r].id]
    BY <1>1 DEF SerialInv, RunOK
  <2> QED
    BY <2>1, <2>2
<1> QED
  BY <1>1 DEF Apart

\* A step that writes is the last of its request.
LEMMA WriteEnds ==
  ASSUME IndInv, SerialInv, NEW r \in Requests, pc[r] \in WriteSteps,
         NEW code \in Replies, Finish(r, code), UNCHANGED <<req, vol, drawnFor>>,
         \A id \in Ids \ {req[r].id} : volumes'[id] = volumes[id]
  PROVE  /\ Locally(r)
         /\ reply'[r] = code
         /\ \A q \in Requests \ {r} : reply'[q] = reply[q]
<1>1. /\ pc' = [pc EXCEPT ![r] = "done"] /\ reply' = [reply EXCEPT ![r] = code]
      /\ pc'[r] = "done" /\ reply'[r] = code
  BY FirstAnswer DEF WriteSteps
<1>2. \A q \in Requests \ {r} : pc'[q] = pc[q] /\ reply'[q] = reply[q]
  BY <1>1 DEF IndInv, TypeOK
<1>3. Onward(r)
  BY <1>1, <1>2 DEF Onward, WriteSteps
<1>4. Apart(r)
  BY OthersElsewhere DEF Running, WriteSteps
<1>5. CopyOK(r)'
  BY <1>1 DEF CopyOK
<1> QED
  BY <1>1, <1>2, <1>3, <1>4, <1>5, OnwardRuns DEF Locally

LEMMA CreateTxnSerial ==
  ASSUME IndInv, SerialInv, NEW r \in Requests, CreateTxn(r)
  PROVE  SerialInv'
<1> DEFINE id == req[r].id
           v  == vol[r]
           code == IF NameIsFree(v.name) THEN "Created" ELSE "Conflict"
<1>1. /\ pc[r] = "CreateTxn" /\ CommitCreate(id, v) /\ Finish(r, code)
      /\ UNCHANGED <<req, vol, drawnFor>> /\ CopyOK(r)
  BY DEF CreateTxn, SerialInv
<1>2. id \in Ids /\ v \in Volume /\ v.name \in Names /\ v # NULL
  BY <1>1, WriteLocals, NullAssumption DEF IndInv, Locals, LocalsOK, HoldsVolume
<1>3. \A i \in Ids \ {id} : volumes'[i] = volumes[i]
  BY <1>1 DEF CommitCreate, storeVars, IndInv, TypeOK, StoreTypeOK
<1>4. /\ Locally(r) /\ reply'[r] = code
      /\ \A q \in Requests \ {r} : reply'[q] = reply[q]
  <2>1. code \in Replies
    BY DEF Replies
  <2> HIDE DEF code
  <2> QED
    BY <1>1, <1>3, <2>1, WriteEnds DEF WriteSteps
<1>5. IndexComplete'
  <2>1. CASE NameIsFree(v.name)
    <3>1. volumes'[id] = v /\ names'[v.name] = id
      BY <1>1, <1>2, <2>1 DEF CommitCreate, IndInv, TypeOK, StoreTypeOK
    <3>2. ASSUME NEW i \in Ids \ {id}, volumes[i] # NULL
          PROVE  names'[volumes[i].name] = i
      <4>1. names[volumes[i].name] = i /\ volumes[i].name \in Names
        BY <3>2 DEF SerialInv, IndexComplete, IndInv, TypeOK, StoreTypeOK, Volume
      <4>2. volumes[i].name # v.name
        BY <2>1, <4>1, NullAssumption DEF NameIsFree
      <4> QED
        BY <1>1, <2>1, <4>1, <4>2 DEF CommitCreate, IndInv, TypeOK, StoreTypeOK
    <3> QED
      BY <1>3, <3>1, <3>2 DEF IndexComplete
  <2>2. CASE ~NameIsFree(v.name)
    BY <1>1, <2>2 DEF CommitCreate, storeVars, SerialInv, IndexComplete
  <2> QED
    BY <2>1, <2>2
<1>6. reply'[r] # "OK"
  BY <1>4
<1>7. ASSUME NEW q \in Requests, req[q] # NULL, reply'[q] = "OK"
      PROVE  reply[q] = "OK" /\ volumes'[req[q].id] = volumes[req[q].id]
  <2>1. q # r /\ reply[q] = "OK"
    BY <1>4, <1>6, <1>7
  <2>2. req[q].id \in Ids
    BY <1>7 DEF IndInv, TypeOK, Request
  <2>3. req[q].id # id
    BY <1>1, <1>7, <2>1 DEF CopyOK
  <2> QED
    BY <1>3, <2>1, <2>2, <2>3
<1>8. PublicationHonoured' /\ DeleteIsFinal'
  BY <1>1, <1>7 DEF SerialInv, PublicationHonoured, DeleteIsFinal
<1> QED
  BY <1>4, <1>5, <1>8, OthersKeep DEF SerialInv

LEMMA DeleteTxnSerial ==
  ASSUME IndInv, SerialInv, NEW r \in Requests, DeleteTxn(r)
  PROVE  SerialInv'
<1> DEFINE id == req[r].id
           n  == vol[r].name
<1>1. /\ pc[r] = "DeleteTxn" /\ CommitDelete(id, n) /\ Finish(r, "OK")
      /\ UNCHANGED <<req, vol, drawnFor>> /\ CopyOK(r)
  BY DEF DeleteTxn, SerialInv
<1>2. id \in Ids /\ n \in Names /\ n = drawnFor[id]
  BY <1>1, WriteLocals
<1>3. /\ volumes'[id] = NULL
      /\ \A i \in Ids \ {id} : volumes'[i] = volumes[i]
  BY <1>1, <1>2 DEF CommitDelete, IndInv, TypeOK, StoreTypeOK
<1>4. Locally(r) /\ \A q \in Requests \ {r} : reply'[q] = reply[q]
  BY <1>1, <1>3, WriteEnds DEF WriteSteps, Replies
<1>5. /\ volumes[id] # NULL /\ volumes[id].name = n
      /\ volumes[id].publishedOn = <<>> /\ req[r].op = "delete"
  BY <1>1, <1>2 DEF CopyOK, IndInv, VolumesNamed
<1>6. IndexComplete'
  <2>1. ASSUME NEW i \in Ids \ {id}, volumes[i] # NULL
        PROVE  names'[volumes[i].name] = i
    <3>1. names[volumes[i].name] = i /\ volumes[i].name \in Names
      BY <2>1 DEF SerialInv, IndexComplete, IndInv, TypeOK, StoreTypeOK, Volume
    <3>2. names[n] = id
      BY <1>2, <1>5 DEF SerialInv, IndexComplete
    <3>3. volumes[i].name # n
      BY <3>1, <3>2
    <3> QED
      BY <1>1, <3>1, <3>3 DEF CommitDelete, IndInv, TypeOK, StoreTypeOK
  <2> QED
    BY <1>3, <2>1 DEF IndexComplete
<1>7. PublicationHonoured'
  <2>1. ASSUME NEW q \in Requests, req[q] # NULL, req[q].op = "publish", reply'[q] = "OK"
        PROVE  volumes'[req[q].id] = volumes[req[q].id] /\ reply[q] = "OK"
    <3>1. reply[q] = "OK" /\ req[q].id \in Ids
      BY <1>4, <1>5, <2>1 DEF IndInv, TypeOK, Request
    <3>2. \E k \in DOMAIN volumes[req[q].id].publishedOn : TRUE
      BY <2>1, <3>1 DEF SerialInv, PublicationHonoured
    <3>3. req[q].id # id
      BY <1>5, <3>2
    <3> QED
      BY <1>3, <3>1, <3>3
  <2> QED
    BY <1>1, <2>1 DEF SerialInv, PublicationHonoured
<1>8. DeleteIsFinal'
  <2>1. ASSUME NEW q \in Requests, req[q] # NULL, req[q].op = "delete", reply'[q] = "OK"
        PROVE  volumes'[req[q].id] = NULL
    <3>1. CASE q = r
      BY <1>3, <3>1
    <3>2. CASE q # r
      <4>1. reply[q] = "OK" /\ req[q].id \in Ids
        BY <1>4, <2>1, <3>2 DEF IndInv, TypeOK, Request
      <4> QED
        BY <1>3, <2>1, <4>1 DEF SerialInv, DeleteIsFinal
    <3> QED
      BY <3>1, <3>2
  <2> QED
    BY <1>1, <2>1 DEF DeleteIsFinal
<1> QED
  BY <1>4, <1>6, <1>7, <1>8, OthersKeep DEF SerialInv

\* What is in a list is still there when a node is appended, as is the node.
Listed(list, node) == \E k \in DOMAIN list : list[k] = node

LEMMA ListedAppend ==
  ASSUME NEW list \in Seq(Nodes), NEW node \in Nodes
  PROVE  /\ Listed(Append(list, node), node)
         /\ \A x : Listed(list, x) => Listed(Append(list, node), x)
<1> DEFINE longer == Append(list, node)
<1>1. /\ DOMAIN list = 1..Len(list) /\ Len(list) \in Nat
      /\ DOMAIN longer = 1..(Len(list) + 1)
      /\ \A k \in 1..Len(list) : longer[k] = list[k]
      /\ longer[Len(list) + 1] = node
  OBVIOUS
<1>2. /\ Len(list) + 1 \in DOMAIN longer
      /\ \A k \in DOMAIN list : k \in DOMAIN longer /\ longer[k] = list[k]
  BY <1>1
<1> QED
  BY <1>1, <1>2 DEF Listed

LEMMA UpdatePutSerial ==
  ASSUME IndInv, SerialInv, NEW r \in Requests, UpdatePut(r)
  PROVE  SerialInv'
<1> DEFINE id == req[r].id
           v  == volumes[id]
<1>1. /\ pc[r] = "UpdatePut" /\ PutVolume(id, vol[r]) /\ Finish(r, "OK")
      /\ UNCHANGED <<names, req, vol, drawnFor>> /\ CopyOK(r)
  BY DEF UpdatePut, PutVolume, SerialInv
<1>2. id \in Ids /\ vol[r] \in Volume /\ vol[r].name = drawnFor[id] /\ vol[r] # NULL
  BY <1>1, NullAssumption DEF IndInv, Locals, LocalsOK, HoldsVolume, Request
<1>3. /\ volumes'[id] = vol[r]
      /\ \A i \in Ids \ {id} : volumes'[i] = volumes[i]
  BY <1>1, <1>2 DEF PutVolume, IndInv, TypeOK, StoreTypeOK
<1>4. Locally(r) /\ \A q \in Requests \ {r} : reply'[q] = reply[q]
  BY <1>1, <1>3, WriteEnds DEF WriteSteps, Replies
<1>5. v # NULL /\ v \in Volume /\ v.name = vol[r].name
  BY <1>1, <1>2 DEF CopyOK, IndInv, VolumesNamed, TypeOK, StoreTypeOK
<1>6. IndexComplete'
  BY <1>1, <1>2, <1>3, <1>5 DEF SerialInv, IndexComplete
<1>7. /\ \A x : Listed(v.publishedOn, x) => Listed(vol[r].publishedOn, x)
      /\ req[r].op = "publish" => Listed(vol[r].publishedOn, req[r].node)
      /\ req[r].op \in {"stage", "publish"}
  <2>1. v.publishedOn \in Seq(Nodes)
    BY <1>5 DEF Volume
  <2>2. CASE req[r].op = "stage" /\ vol[r].publishedOn = v.publishedOn
    BY <2>2
  <2>3. CASE /\ req[r].op = "publish" /\ req[r].node \in Nodes
             /\ vol[r].publishedOn = Append(v.publishedOn, req[r].node)
    BY <2>1, <2>3, ListedAppend
  <2> QED
    BY <1>1, <2>2, <2>3 DEF CopyOK
<1>8. PublicationHonoured'
  <2>1. ASSUME NEW q \in Requests, req[q] # NULL, req[q].op = "publish", reply'[q] = "OK"
        PROVE  volumes'[req[q].id] # NULL /\ Listed(volumes'[req[q].id].publishedOn, req[q].node)
    <3>1. CASE q = r
      BY <1>2, <1>3, <1>7, <2>1, <3>1
    <3>2. CASE q # r
      <4>1. reply[q] = "OK" /\ req[q].id \in Ids
        BY <1>4, <2>1, <3>2 DEF IndInv, TypeOK, Request
      <4>2. volumes[req[q].id] # NULL /\ Listed(volumes[req[q].id].publishedOn, req[q].node)
        BY <2>1, <4>1 DEF SerialInv, PublicationHonoured, Listed
      <4>3. CASE req[q].id = id
        BY <1>2, <1>3, <1>7, <4>2, <4>3
      <4>4. CASE req[q].id # id
        BY <1>3, <4>1, <4>2, <4>4
      <4> QED
        BY <4>3, <4>4
    <3> QED
      BY <3>1, <3>2
  <2> QED
    BY <1>1, <2>1 DEF PublicationHonoured, Listed
<1>9. DeleteIsFinal'
  <2>1. ASSUME NEW q \in Requests, req[q] # NULL, req[q].op = "delete", reply'[q] = "OK"
        PROVE  volumes'[req[q].id] = NULL
    <3>1. q # r
      BY <1>7, <2>1
    <3>2. reply[q] = "OK" /\ req[q].id \in Ids
      BY <1>4, <2>1, <3>1 DEF IndInv, TypeOK, Request
    <3>3. volumes[req[q].id] = NULL
      BY <2>1, <3>2 DEF SerialInv, DeleteIsFinal
    <3> QED
      BY <1>3, <1>5, <3>2, <3>3
  <2> QED
    BY <1>1, <2>1 DEF DeleteIsFinal
<1> QED
  BY <1>4, <1>6, <1>8, <1>9, OthersKeep DEF SerialInv

-----------------------------------------------------------------------------
LEMMA SerialInit == Init => SerialInv
<1> SUFFICES ASSUME Init PROVE SerialInv
  OBVIOUS
<1>1. \A r \in Requests : RunOK(r) /\ CopyOK(r) /\ Drawn(r)
  BY DEF Init, RunOK, CopyOK, Drawn, Running
<1>2. IndexComplete /\ PublicationHonoured /\ DeleteIsFinal
  BY DEF Init, StoreInit, IndexComplete, PublicationHonoured, DeleteIsFinal
<1> QED
  BY <1>1, <1>2 DEF SerialInv

LEMMA SerialNext ==
  ASSUME Serial, IndInv, SerialInv, [Next]_vars
  PROVE  SerialInv'
<1>1. CASE UNCHANGED vars
  BY <1>1 DEF vars, SerialInv, RunOK, Running, CopyOK, Drawn,
              IndexComplete, PublicationHonoured, DeleteIsFinal
<1>2. CASE Terminated
  BY <1>1, <1>2 DEF Terminated
<1>3. ASSUME NEW r \in Requests, Arrive(r)
      PROVE  SerialInv'
  BY <1>3, RejectRequestSerial, HandleCreateSerial, HandleDeleteSerial, BeginAttachSerial
  DEF Arrive
<1>4. ASSUME NEW r \in Requests, Advance(r)
      PROVE  SerialInv'
  <2>1. ~ReadFails(r) /\ ~WriteFails(r) /\ ~Timeout(r)
    BY NoFaults DEF ReadFails, WriteFails, Timeout
  <2> QED
    BY <1>4, <2>1, CreateTxnSerial, DeleteGetSerial, DeleteTxnSerial, BackendStageSerial,
       BackendPublishSerial, UpdateGetSerial, UpdatePutSerial DEF Advance
<1>5. ~\E R \in SUBSET Requests : Crash(R)
  BY NoFaults DEF Crash
<1> QED
  BY <1>1, <1>2, <1>3, <1>4, <1>5 DEF Next

LEMMA SerialInvariance ==
  ASSUME Serial
  PROVE  Spec => []SerialInv
<1>1. Init => SerialInv
  BY SerialInit
<1>2. IndInv /\ SerialInv /\ [Next]_vars => SerialInv'
  BY SerialNext
<1> QED
  BY <1>1, <1>2, Invariance, PTL DEF Spec

-----------------------------------------------------------------------------
\* Every volume can be found by its name (the two key families that
\* CreateVolume and DeleteVolume write stay in step).
THEOREM EveryVolumeIndexed ==
  ASSUME Serial
  PROVE  Spec => []IndexComplete
<1>1. SerialInv => IndexComplete
  BY DEF SerialInv
<1> QED
  BY <1>1, SerialInvariance, PTL

\* No two volumes have one name: HandleCreate's 409 is said whenever it is
\* due.
THEOREM NamesAreUnique ==
  ASSUME Serial
  PROVE  Spec => []UniqueNames
<1>1. SerialInv => UniqueNames
  BY DEF SerialInv, IndexComplete, UniqueNames
<1> QED
  BY <1>1, SerialInvariance, PTL

\* A publication that HandlePublish answered 200 is in the record for good.
THEOREM PublicationsStand ==
  ASSUME Serial
  PROVE  Spec => []PublicationHonoured
<1>1. SerialInv => PublicationHonoured
  BY DEF SerialInv
<1> QED
  BY <1>1, SerialInvariance, PTL

\* A volume whose HandleDelete answered 200 is gone and stays so.
THEOREM DeletesAreFinal ==
  ASSUME Serial
  PROVE  Spec => []DeleteIsFinal
<1>1. SerialInv => DeleteIsFinal
  BY DEF SerialInv
<1> QED
  BY <1>1, SerialInvariance, PTL

\* The records and the name index are the same catalogue.
OneCatalog == Phases(Indexed) = Phases(Recorded)

LEMMA SameCatalog ==
  ASSUME IndInv, SerialInv
  PROVE  OneCatalog
<1>1. ASSUME NEW id \in Indexed PROVE id \in Recorded
  BY <1>1, NullAssumption DEF Indexed, Recorded, IndInv, NameIndexSound
<1>2. ASSUME NEW id \in Recorded PROVE id \in Indexed
  <2>1. id \in Ids /\ volumes[id] # NULL
    BY <1>2 DEF Recorded
  <2>2. volumes[id].name \in Names
    BY <2>1 DEF IndInv, TypeOK, StoreTypeOK, Volume
  <2> QED
    BY <2>1, <2>2 DEF SerialInv, IndexComplete, Indexed
<1>3. Indexed = Recorded
  BY <1>1, <1>2
<1> QED
  BY <1>3 DEF OneCatalog

\* Read through the records, the store is a catalogue, too: no two volumes
\* that GetVolume and ListVolumes return share a name, and an ID that was
\* deleted never comes back.
THEOREM RecordsRefineCatalog ==
  ASSUME Serial
  PROVE  Spec => RefinesRecordCatalog
<1>1. IndInv /\ SerialInv /\ Init => RecordCatalog!Init
  <2> SUFFICES ASSUME IndInv, SerialInv, Init PROVE RecordCatalog!Init
    OBVIOUS
  <2>1. IndexCatalog!Init
    BY CatalogInit
  <2> QED
    BY <2>1, SameCatalog DEF OneCatalog, IndexCatalog!Init, RecordCatalog!Init
<1>2. /\ OneCatalog /\ OneCatalog'
      /\ [IndexCatalog!Next]_(IndexCatalog!vars)
      => [RecordCatalog!Next]_(RecordCatalog!vars)
  <2> SUFFICES ASSUME OneCatalog, OneCatalog',
                      [IndexCatalog!Next]_(IndexCatalog!vars)
               PROVE  [RecordCatalog!Next]_(RecordCatalog!vars)
    OBVIOUS
  <2> DEFINE live  == Phases(Indexed)
             known == Phases(Recorded)
  <2>1. live = known /\ live' = known'
    BY DEF OneCatalog
  <2>2. CASE UNCHANGED IndexCatalog!vars
    BY <2>1, <2>2 DEF IndexCatalog!vars, RecordCatalog!vars
  <2>3. CASE IndexCatalog!Next
    BY <2>1, <2>3
    DEF IndexCatalog!Next, IndexCatalog!Draw, IndexCatalog!Register, IndexCatalog!Refuse,
        IndexCatalog!Remove, IndexCatalog!Live,
        RecordCatalog!Next, RecordCatalog!Draw, RecordCatalog!Register,
        RecordCatalog!Refuse, RecordCatalog!Remove, RecordCatalog!Live
  <2> QED
    BY <2>2, <2>3
<1>3. IndInv /\ PendingOK /\ [Next]_vars => PendingOK'
  BY PendingStep
<1>4. IndInv /\ PendingOK /\ [Next]_vars => [IndexCatalog!Next]_(IndexCatalog!vars)
  BY CatalogStep
<1>5. Init => PendingOK
  BY PendingInit
<1>6. Spec => []IndInv /\ []SerialInv
  BY Invariance, SerialInvariance
<1>7. IndInv /\ SerialInv => OneCatalog
  BY SameCatalog
<1> QED
  BY <1>1, <1>2, <1>3, <1>4, <1>5, <1>6, <1>7, PTL
  DEF Spec, RefinesRecordCatalog, RecordCatalog!Spec
=============================================================================
