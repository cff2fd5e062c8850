---------------------------- MODULE VolumeAckProofs ----------------------------
(***************************************************************************)
(* What an acknowledged create and an entry of a record are worth, for any *)
(* number of requests and faults: a volume whose creation was answered 201 *)
(* is lost through a delete of its own ID only, and its name through a     *)
(* delete of a volume of that name only; and each entry of StagedOn and    *)
(* PublishedOn is owed to a request of its own, which did its work.        *)
(***************************************************************************)
EXTENDS VolumeHandlerProofs, FiniteSetTheorems

\* What the caller of a handler that still runs may have been answered.
EarlyReplies == {NULL, "OK", "InternalError", "ServiceUnavailable", "Lost"}

RepliesOK(r) ==
  /\ pc[r] # "done" => reply[r] \in EarlyReplies
  /\ pc[r] \in {"DeleteGet", "DeleteTxn"} => req[r].op = "delete"

\* The parameters and the record of an acknowledged create.
AckOK(r) ==
  reply[r] = "Created" =>
    /\ req[r] \in Request
    /\ vol[r].name \in Names /\ vol[r].name = drawnFor[req[r].id]

AckInv == AckedCreateStands /\ \A r \in Requests : RepliesOK(r) /\ AckOK(r)

-----------------------------------------------------------------------------
\* What is over stays as it is, and drawn IDs keep their names.
Settled ==
  /\ \A q \in Requests : pc[q] = "done" =>
       pc'[q] = pc[q] /\ req'[q] = req[q] /\ vol'[q] = vol[q] /\ reply'[q] = reply[q]
  /\ \A id \in Ids : drawnFor[id] # NULL => drawnFor'[id] = drawnFor[id]

\* A step that neither acknowledges a create nor loses a key.
NoLoss ==
  /\ Settled
  /\ \A q \in Requests : RepliesOK(q)' /\ (reply'[q] = "Created" => reply[q] = "Created")
  /\ names' = names
  /\ \A id \in Ids : volumes[id] # NULL => volumes'[id] # NULL

LEMMA CreatedIsOver ==
  ASSUME AckInv, NEW r \in Requests, reply[r] = "Created"
  PROVE  pc[r] = "done" /\ AckOK(r) /\ req[r].id \in Ids
BY BoundsAssumption DEF AckInv, RepliesOK, EarlyReplies, Replies, AckOK, Request

\* A delete that may have reached etcd is remembered, with its name.
LEMMA DeletesStay ==
  ASSUME IndInv, Settled, NEW d \in Deletes
  PROVE  /\ d \in Deletes' /\ req'[d] = req[d] /\ req[d].id \in Ids
         /\ drawnFor[req[d].id] # NULL => drawnFor'[req'[d].id] = drawnFor[req[d].id]
<1>1. d \in Requests /\ pc[d] = "done" /\ req[d].id \in Ids /\ req[d] # NULL
  BY DEF Deletes, Request, IndInv, TypeOK
<1> QED
  BY <1>1 DEF Settled, Deletes

LEMMA NoLossKeeps ==
  ASSUME IndInv, AckInv, NoLoss
  PROVE  AckInv'
<1>1. ASSUME NEW r \in Requests, reply'[r] = "Created"
      PROVE  /\ reply[r] = "Created" /\ req'[r] = req[r] /\ vol'[r] = vol[r]
             /\ drawnFor'[req[r].id] = drawnFor[req[r].id]
             /\ req[r].id \in Ids /\ AckOK(r) /\ vol[r].name # NULL
  BY <1>1, CreatedIsOver, NullAssumption DEF NoLoss, Settled, AckOK
<1>2. ASSUME NEW r \in Requests
      PROVE  AckOK(r)'
  BY <1>1, <1>2 DEF AckOK
<1>3. ASSUME NEW r \in Requests, reply'[r] = "Created"
      PROVE  volumes'[req[r].id] # NULL \/ \E d \in Deletes' : req'[d].id = req[r].id
  <2>1. volumes[req[r].id] # NULL \/ \E d \in Deletes : req[d].id = req[r].id
    BY <1>1, <1>3 DEF AckInv, AckedCreateStands
  <2> QED
    BY <1>1, <1>3, <2>1, DeletesStay DEF NoLoss
<1>4. ASSUME NEW r \in Requests, reply'[r] = "Created"
      PROVE  \/ names'[vol[r].name] = req[r].id
             \/ \E d \in Deletes' : drawnFor'[req'[d].id] = vol[r].name
  <2>1. \/ names[vol[r].name] = req[r].id
        \/ \E d \in Deletes : drawnFor[req[d].id] = vol[r].name
    BY <1>1, <1>4 DEF AckInv, AckedCreateStands
  <2> QED
    BY <1>1, <1>4, <2>1, DeletesStay DEF NoLoss
<1>5. AckedCreateStands'
  BY <1>1, <1>3, <1>4 DEF AckedCreateStands
<1> QED
  BY <1>2, <1>5 DEF AckInv, NoLoss

-----------------------------------------------------------------------------
\* A step of request r alone.
Alone(r) ==
  /\ pc[r] # "done"
  /\ \A q \in Requests \ {r} :
       pc'[q] = pc[q] /\ req'[q] = req[q] /\ vol'[q] = vol[q] /\ reply'[q] = reply[q]

Codes == {"OK", "BadRequest", "NotFound", "MethodNotAllowed", "Conflict",
          "InternalError", "ServiceUnavailable", "Lost"}

LEMMA FinishDoes ==
  ASSUME IndInv, NEW r \in Requests, NEW code, Finish(r, code)
  PROVE  /\ pc'[r] = "done"
         /\ reply'[r] = IF reply[r] = NULL THEN code ELSE reply[r]
         /\ \A q \in Requests \ {r} : pc'[q] = pc[q] /\ reply'[q] = reply[q]
BY DEF Finish, Goto, Answer, IndInv, TypeOK

LEMMA GotoDoes ==
  ASSUME IndInv, NEW r \in Requests, NEW step, Goto(r, step)
  PROVE  pc'[r] = step /\ \A q \in Requests \ {r} : pc'[q] = pc[q]
BY DEF Goto, IndInv, TypeOK

\* What is left to show of a step of r that does not write to etcd.
LEMMA AloneIsNoLoss ==
  ASSUME IndInv, AckInv, NEW r \in Requests, Alone(r), UNCHANGED storeVars,
         RepliesOK(r)', reply'[r] # "Created",
         \A id \in Ids : drawnFor[id] # NULL => drawnFor'[id] = drawnFor[id]
  PROVE  NoLoss
BY DEF NoLoss, Settled, Alone, AckInv, RepliesOK, storeVars

\* A step of r that answers, if nothing was answered before.
LEMMA FinishIsNoLoss ==
  ASSUME IndInv, AckInv, NEW r \in Requests, NEW code \in Codes, Finish(r, code),
         pc[r] # "done", UNCHANGED <<storeVars, drawnFor>>,
         \A q \in Requests \ {r} : req'[q] = req[q] /\ vol'[q] = vol[q]
  PROVE  NoLoss
<1>1. Alone(r) /\ pc'[r] = "done"
  BY FinishDoes DEF Alone
<1>2. reply'[r] # "Created"
  BY FinishDoes, BoundsAssumption DEF AckInv, RepliesOK, EarlyReplies, Codes, Replies
<1>3. RepliesOK(r)'
  BY <1>1 DEF RepliesOK
<1> QED
  BY <1>1, <1>2, <1>3, AloneIsNoLoss

\* A step of r that goes on to another.
LEMMA GotoIsNoLoss ==
  ASSUME IndInv, AckInv, NEW r \in Requests, NEW step, Goto(r, step),
         pc[r] # "done", UNCHANGED <<storeVars, reply>>,
         \A q \in Requests \ {r} : req'[q] = req[q] /\ vol'[q] = vol[q],
         step \in {"DeleteGet", "DeleteTxn"} => req'[r].op = "delete",
         \A id \in Ids : drawnFor[id] # NULL => drawnFor'[id] = drawnFor[id]
  PROVE  NoLoss
<1>1. Alone(r) /\ pc'[r] = step
  BY GotoDoes DEF Alone
<1>2. reply'[r] \in EarlyReplies /\ reply'[r] # "Created"
  BY BoundsAssumption DEF AckInv, RepliesOK, EarlyReplies, Replies
<1>3. RepliesOK(r)'
  BY <1>1, <1>2 DEF RepliesOK
<1> QED
  BY <1>1, <1>2, <1>3, AloneIsNoLoss

LEMMA RejectIsNoLoss ==
  ASSUME IndInv, AckInv, NEW r \in Requests, RejectRequest(r)
  PROVE  NoLoss
<1>1. PICK code \in Codes : Finish(r, code)
  BY DEF RejectRequest, Codes
<1> QED
  BY <1>1, FinishIsNoLoss DEF RejectRequest

LEMMA HandleCreateIsNoLoss ==
  ASSUME IndInv, AckInv, NEW r \in Requests, NEW n \in Names, NEW p \in SourcePaths,
         HandleCreate(r, n, p)
  PROVE  NoLoss
<1>1. pc[r] = "idle" /\ UNCHANGED storeVars
  BY DEF HandleCreate
<1>2. CASE Finish(r, "Conflict") /\ UNCHANGED <<req, vol, drawnFor>>
  BY <1>1, <1>2, FinishIsNoLoss DEF Codes
<1>3. CASE ~(Finish(r, "Conflict") /\ UNCHANGED <<req, vol, drawnFor>>)
  <2>1. PICK id \in Ids :
          /\ drawnFor[id] = NULL
          /\ drawnFor' = [drawnFor EXCEPT ![id] = n]
          /\ req' = [req EXCEPT ![r] =
                       [op |-> "create", id |-> id, node |-> NULL, path |-> NULL]]
    BY <1>3 DEF HandleCreate
  <2>2. vol' = [vol EXCEPT ![r] = NewVolume(n, p)] /\ Goto(r, "CreateTxn") /\ UNCHANGED reply
    BY <1>3 DEF HandleCreate
  <2>3. /\ \A q \in Requests \ {r} : req'[q] = req[q] /\ vol'[q] = vol[q]
        /\ \A i \in Ids : drawnFor[i] # NULL => drawnFor'[i] = drawnFor[i]
    BY <2>1, <2>2 DEF IndInv, TypeOK
  <2> QED
    BY <1>1, <2>2, <2>3, GotoIsNoLoss
<1> QED
  BY <1>2, <1>3

LEMMA HandleDeleteIsNoLoss ==
  ASSUME IndInv, AckInv, NEW r \in Requests, NEW id \in Ids, HandleDelete(r, id)
  PROVE  NoLoss
<1>1. /\ pc[r] = "idle" /\ UNCHANGED <<storeVars, vol, drawnFor>>
      /\ req'[r].op = "delete" /\ \A q \in Requests \ {r} : req'[q] = req[q]
  BY DEF HandleDelete, IndInv, TypeOK
<1>2. ASSUME NEW code \in {"NotFound", "Conflict"}, Finish(r, code) PROVE NoLoss
  BY <1>1, <1>2, FinishIsNoLoss DEF Codes
<1>3. CASE Goto(r, "DeleteGet") /\ UNCHANGED reply
  BY <1>1, <1>3, GotoIsNoLoss
<1> QED
  BY <1>2, <1>3 DEF HandleDelete

LEMMA DeleteGetIsNoLoss ==
  ASSUME IndInv, AckInv, NEW r \in Requests, DeleteGet(r)
  PROVE  NoLoss
<1>1. /\ pc[r] = "DeleteGet" /\ UNCHANGED <<storeVars, req, drawnFor>>
      /\ req[r].op = "delete" /\ \A q \in Requests \ {r} : vol'[q] = vol[q]
  BY DEF DeleteGet, IndInv, TypeOK, AckInv, RepliesOK
<1>2. CASE Finish(r, "InternalError")
  BY <1>1, <1>2, FinishIsNoLoss DEF Codes
<1>3. CASE Goto(r, "DeleteTxn") /\ UNCHANGED reply
  BY <1>1, <1>3, GotoIsNoLoss
<1> QED
  BY <1>2, <1>3 DEF DeleteGet

LEMMA BeginAttachIsNoLoss ==
  ASSUME IndInv, AckInv, NEW r \in Requests, NEW op, NEW id, NEW node, NEW path,
         NEW step \in {"Stage", "Publish"}, BeginAttach(r, op, id, node, path, step)
  PROVE  NoLoss
<1>1. /\ pc[r] = "idle" /\ UNCHANGED <<storeVars, drawnFor>>
      /\ \A q \in Requests \ {r} : req'[q] = req[q] /\ vol'[q] = vol[q]
  BY DEF BeginAttach, IndInv, TypeOK
<1>2. CASE Finish(r, "NotFound")
  BY <1>1, <1>2, FinishIsNoLoss DEF Codes
<1>3. CASE Goto(r, step) /\ UNCHANGED reply
  BY <1>1, <1>3, GotoIsNoLoss
<1> QED
  BY <1>2, <1>3 DEF BeginAttach

LEMMA BackendIsNoLoss ==
  ASSUME IndInv, AckInv, NEW r \in Requests, BackendStage(r) \/ BackendPublish(r)
  PROVE  NoLoss
<1>1. /\ pc[r] # "done" /\ UNCHANGED <<storeVars, req, drawnFor>>
      /\ \A q \in Requests \ {r} : vol'[q] = vol[q]
  BY DEF BackendStage, BackendPublish, IndInv, TypeOK
<1>2. CASE Finish(r, "InternalError")
  BY <1>1, <1>2, FinishIsNoLoss DEF Codes
<1>3. CASE Goto(r, AfterBackend(r)) /\ UNCHANGED reply
  BY <1>1, <1>3, GotoIsNoLoss DEF AfterBackend
<1> QED
  BY <1>2, <1>3 DEF BackendStage, BackendPublish

LEMMA UpdateGetIsNoLoss ==
  ASSUME IndInv, AckInv, NEW r \in Requests, UpdateGet(r)
  PROVE  NoLoss
<1>1. pc[r] = "UpdateGet" /\ UNCHANGED <<storeVars, req, vol, drawnFor>>
  BY DEF UpdateGet
<1>2. CASE Finish(r, "OK")
  BY <1>1, <1>2, FinishIsNoLoss DEF Codes
<1>3. CASE Goto(r, "UpdatePut") /\ UNCHANGED reply
  BY <1>1, <1>3, GotoIsNoLoss
<1> QED
  BY <1>2, <1>3 DEF UpdateGet

\* A put may bring a record back, but it takes none away.
LEMMA UpdatePutIsNoLoss ==
  ASSUME IndInv, AckInv, NEW r \in Requests, UpdatePut(r)
  PROVE  NoLoss
<1>1. /\ pc[r] = "UpdatePut" /\ UNCHANGED <<names, req, vol, drawnFor>>
      /\ volumes' = [volumes EXCEPT ![req[r].id] = vol[r]]
      /\ Finish(r, "OK")
  BY DEF UpdatePut, PutVolume
<1>2. vol[r] # NULL
  BY <1>1, NullAssumption DEF IndInv, Locals, LocalsOK, HoldsVolume
<1>3. \A id \in Ids : volumes[id] # NULL => volumes'[id] # NULL
  BY <1>1, <1>2 DEF IndInv, TypeOK, StoreTypeOK
<1>4. /\ pc'[r] = "done" /\ reply'[r] # "Created"
      /\ \A q \in Requests \ {r} : pc'[q] = pc[q] /\ reply'[q] = reply[q]
  BY <1>1, FinishDoes, BoundsAssumption DEF AckInv, RepliesOK, EarlyReplies, Replies
<1> QED
  BY <1>1, <1>3, <1>4 DEF NoLoss, Settled, AckInv, RepliesOK

-----------------------------------------------------------------------------
\* The faults answer early, or end what was open.
LEMMA ReadFailsIsNoLoss ==
  ASSUME IndInv, AckInv, NEW r \in Requests, ReadFails(r)
  PROVE  NoLoss
<1>1. PICK code \in Codes : Finish(r, code)
  BY DEF ReadFails, ErrorReply, Codes
<1> QED
  BY <1>1, FinishIsNoLoss DEF ReadFails

LEMMA WriteFailsIsNoLoss ==
  ASSUME IndInv, AckInv, NEW r \in Requests, WriteFails(r)
  PROVE  NoLoss
<1>1. PICK code \in {"OK", "InternalError"} : Answer(r, code)
  BY DEF WriteFails, ErrorReply
<1>2. /\ reply'[r] = code /\ \A q \in Requests \ {r} : reply'[q] = reply[q]
  BY <1>1 DEF WriteFails, Answer, IndInv, TypeOK
<1>3. pc[r] # "done" /\ UNCHANGED <<storeVars, pc, req, vol, drawnFor>>
  BY DEF WriteFails, WriteSteps
<1>4. Alone(r)
  BY <1>2, <1>3 DEF Alone
<1>5. RepliesOK(r)' /\ reply'[r] # "Created"
  BY <1>2, <1>3 DEF AckInv, RepliesOK, EarlyReplies
<1> QED
  BY <1>3, <1>4, <1>5, AloneIsNoLoss

LEMMA TimeoutIsNoLoss ==
  ASSUME IndInv, AckInv, NEW r \in Requests, Timeout(r)
  PROVE  NoLoss
<1>1. /\ pc'[r] \in {pc[r], "done"} /\ reply'[r] = "ServiceUnavailable"
      /\ \A q \in Requests \ {r} : pc'[q] = pc[q] /\ reply'[q] = reply[q]
  BY DEF Timeout, Open, Answer, Goto, AfterCancel, IndInv, TypeOK
<1>2. pc[r] # "done" /\ UNCHANGED <<storeVars, req, vol, drawnFor>>
  BY DEF Timeout, Open
<1>3. Alone(r)
  BY <1>1, <1>2 DEF Alone
<1>4. RepliesOK(r)'
  BY <1>1, <1>2 DEF AckInv, RepliesOK, EarlyReplies
<1> QED
  BY <1>1, <1>2, <1>3, <1>4, AloneIsNoLoss

LEMMA CrashIsNoLoss ==
  ASSUME IndInv, AckInv, NEW R \in SUBSET Requests, Crash(R)
  PROVE  NoLoss
<1>1. /\ \A q \in R : pc[q] # "done" /\ reply'[q] = "Lost" /\ pc'[q] \in {pc[q], "done"}
      /\ \A q \in Requests \ R : pc'[q] = pc[q] /\ reply'[q] = reply[q]
      /\ UNCHANGED <<storeVars, req, vol, drawnFor>>
  BY DEF Crash, Open
<1>2. \A q \in Requests : RepliesOK(q)'
  BY <1>1 DEF AckInv, RepliesOK, EarlyReplies
<1> QED
  BY <1>1, <1>2 DEF NoLoss, Settled, storeVars

-----------------------------------------------------------------------------
\* A create that is acknowledged has just put its two keys.
LEMMA CreateTxnKeeps ==
  ASSUME IndInv, AckInv, NEW r \in Requests, CreateTxn(r)
  PROVE  AckInv'
<1> DEFINE id == req[r].id
           n  == vol[r].name
<1>1. /\ pc[r] = "CreateTxn" /\ UNCHANGED <<req, vol, drawnFor>>
      /\ Finish(r, IF NameIsFree(n) THEN "Created" ELSE "Conflict")
      /\ CommitCreate(id, vol[r])
  BY DEF CreateTxn
<1>2. /\ req[r] \in Request /\ id \in Ids /\ n \in Names /\ n = drawnFor[id]
      /\ vol[r] # NULL
  BY <1>1, NullAssumption DEF IndInv, Locals, LocalsOK, HoldsVolume, Request, Volume
<1>3. CASE ~NameIsFree(n)
  BY <1>1, <1>3, FinishIsNoLoss, NoLossKeeps DEF CommitCreate, Codes
<1>4. CASE NameIsFree(n)
  <2>1. volumes' = [volumes EXCEPT ![id] = vol[r]] /\ names' = [names EXCEPT ![n] = id]
    BY <1>1, <1>4 DEF CommitCreate
  <2>2. /\ pc'[r] = "done"
        /\ reply'[r] = IF reply[r] = NULL THEN "Created" ELSE reply[r]
        /\ \A q \in Requests \ {r} : pc'[q] = pc[q] /\ reply'[q] = reply[q]
    BY <1>1, <1>4, FinishDoes
  <2>3. Settled
    BY <1>1, <2>2 DEF Settled
  <2>4. volumes'[id] # NULL /\ names'[n] = id
        /\ (\A i \in Ids : volumes[i] # NULL => volumes'[i] # NULL)
        /\ (\A m \in Names \ {n} : names'[m] = names[m])
    BY <1>2, <2>1 DEF IndInv, TypeOK, StoreTypeOK
  <2>5. ASSUME NEW q \in Requests
        PROVE  RepliesOK(q)' /\ AckOK(q)'
    BY <1>1, <1>2, <2>2 DEF AckInv, RepliesOK, AckOK
  <2>6. ASSUME NEW q \in Requests, q # r, reply[q] = "Created"
        PROVE  /\ volumes'[req[q].id] # NULL \/ \E d \in Deletes' : req'[d].id = req[q].id
               /\ \/ names'[vol[q].name] = req[q].id
                  \/ \E d \in Deletes' : drawnFor'[req'[d].id] = vol[q].name
    <3>1. /\ req[q].id \in Ids /\ vol[q].name \in Names /\ vol[q].name # NULL
          /\ req[q].id # NULL
      BY <2>6, CreatedIsOver, NullAssumption DEF AckOK
    <3>2. /\ volumes[req[q].id] # NULL \/ \E d \in Deletes : req[d].id = req[q].id
          /\ \/ names[vol[q].name] = req[q].id
             \/ \E d \in Deletes : drawnFor[req[d].id] = vol[q].name
      BY <2>6 DEF AckInv, AckedCreateStands
    <3>3. names[vol[q].name] = req[q].id => vol[q].name # n
      BY <1>4, <3>1 DEF NameIsFree
    <3> QED
      BY <2>3, <2>4, <3>1, <3>2, <3>3, DeletesStay
  <2>7. AckedCreateStands'
    BY <1>1, <2>2, <2>4, <2>6 DEF AckedCreateStands
  <2> QED
    BY <2>5, <2>7 DEF AckInv
<1> QED
  BY <1>3, <1>4

\* A delete is remembered as the one that took the keys.
LEMMA DeleteTxnKeeps ==
  ASSUME IndInv, AckInv, NEW r \in Requests, DeleteTxn(r)
  PROVE  AckInv'
<1> DEFINE id == req[r].id
           n  == vol[r].name
<1>1. /\ pc[r] = "DeleteTxn" /\ UNCHANGED <<req, vol, drawnFor>>
      /\ Finish(r, "OK")
      /\ volumes' = [volumes EXCEPT ![id] = NULL] /\ names' = [names EXCEPT ![n] = NULL]
  BY DEF DeleteTxn, CommitDelete
<1>2. /\ req[r] \in Request /\ id \in Ids /\ n \in Names /\ n = drawnFor[id]
      /\ req[r] # NULL
  <2>1. req[r] \in Request /\ vol[r] \in Volume /\ n = drawnFor[id]
    BY <1>1 DEF IndInv, Locals, LocalsOK, HoldsVolume
  <2>2. req[r] # NULL
    BY <2>1, BoundsAssumption
  <2> QED
    BY <2>1, <2>2 DEF Request, Volume
<1>3. /\ pc'[r] = "done" /\ reply'[r] \in EarlyReplies \ {NULL}
      /\ \A q \in Requests \ {r} : pc'[q] = pc[q] /\ reply'[q] = reply[q]
  BY <1>1, FinishDoes, BoundsAssumption DEF AckInv, RepliesOK, EarlyReplies, Replies
<1>4. Settled
  BY <1>1, <1>3 DEF Settled
<1>5. r \in Deletes'
  BY <1>1, <1>2, <1>3 DEF Deletes, EarlyReplies, AckInv, RepliesOK
<1>6. ASSUME NEW q \in Requests
      PROVE  /\ RepliesOK(q)' /\ (reply'[q] = "Created" => q # r /\ reply[q] = "Created")
             /\ AckOK(q)'
  BY <1>1, <1>3 DEF AckInv, RepliesOK, AckOK, EarlyReplies
<1>7. ASSUME NEW q \in Requests, reply[q] = "Created"
      PROVE  /\ volumes'[req[q].id] # NULL \/ \E d \in Deletes' : req'[d].id = req[q].id
             /\ \/ names'[vol[q].name] = req[q].id
                \/ \E d \in Deletes' : drawnFor'[req'[d].id] = vol[q].name
  <2>1. req[q].id \in Ids /\ vol[q].name \in Names /\ vol[q].name # NULL
    BY <1>7, CreatedIsOver, NullAssumption DEF AckOK
  <2>2. /\ volumes[req[q].id] # NULL \/ \E d \in Deletes : req[d].id = req[q].id
        /\ \/ names[vol[q].name] = req[q].id
           \/ \E d \in Deletes : drawnFor[req[d].id] = vol[q].name
    BY <1>7 DEF AckInv, AckedCreateStands
  <2>3. req[q].id # id => volumes'[req[q].id] = volumes[req[q].id]
    BY <1>1, <2>1 DEF IndInv, TypeOK, StoreTypeOK
  <2>4. vol[q].name # n => names'[vol[q].name] = names[vol[q].name]
    BY <1>1, <2>1 DEF IndInv, TypeOK, StoreTypeOK
  <2> QED
    BY <1>1, <1>2, <1>4, <1>5, <2>1, <2>2, <2>3, <2>4, DeletesStay
<1>8. AckedCreateStands'
  BY <1>1, <1>6, <1>7 DEF AckedCreateStands
<1> QED
  BY <1>6, <1>8 DEF AckInv

-----------------------------------------------------------------------------
LEMMA AckInit == Init => AckInv
BY BoundsAssumption DEF Init, AckInv, RepliesOK, EarlyReplies, AckOK, AckedCreateStands, Replies

LEMMA AckStep ==
  ASSUME IndInv, AckInv, [Next]_vars
  PROVE  AckInv'
<1>1. CASE UNCHANGED vars
  BY <1>1
  DEF vars, AckInv, RepliesOK, AckOK, AckedCreateStands, Deletes
<1>2. CASE Terminated
  BY <1>1, <1>2 DEF Terminated
<1>3. ASSUME NEW r \in Requests, Arrive(r)
      PROVE  AckInv'
  BY <1>3, RejectIsNoLoss, HandleCreateIsNoLoss, HandleDeleteIsNoLoss,
     BeginAttachIsNoLoss, NoLossKeeps
  DEF Arrive, HandleStage, HandlePublish
<1>4. ASSUME NEW r \in Requests, Advance(r)
      PROVE  AckInv'
  BY <1>4, CreateTxnKeeps, DeleteTxnKeeps, DeleteGetIsNoLoss, BackendIsNoLoss,
     UpdateGetIsNoLoss, UpdatePutIsNoLoss, ReadFailsIsNoLoss, WriteFailsIsNoLoss,
     TimeoutIsNoLoss, NoLossKeeps
  DEF Advance
<1>5. ASSUME NEW R \in SUBSET Requests, Crash(R)
      PROVE  AckInv'
  BY <1>5, CrashIsNoLoss, NoLossKeeps
<1> QED
  BY <1>1, <1>2, <1>3, <1>4, <1>5 DEF Next

\* A volume whose creation was answered 201 disappears through a delete of
\* its own ID only, and loses its name through a delete of a volume of that
\* name only (CreateVolume's and DeleteVolume's keys in pkg/store/etcd.go).
THEOREM AckedCreatesStand == Spec => []AckedCreateStands
<1>1. AckInv => AckedCreateStands
  BY DEF AckInv
<1>2. IndInv /\ AckInv /\ [Next]_vars => AckInv'
  BY AckStep
<1> QED
  BY <1>1, <1>2, AckInit, Invariance, PTL DEF Spec

-----------------------------------------------------------------------------
(***************************************************************************)
(* What an entry of StagedOn or PublishedOn is worth: a request of its     *)
(* own, which has done its work on the host.                               *)
(***************************************************************************)

\* What each step is a step of, and what its caller may have been told.
KindOK(r) ==
  /\ pc[r] = "idle" => req[r] = NULL
  /\ pc[r] = "CreateTxn" => req[r].op = "create"
  /\ pc[r] = "Stage" => req[r].op = "stage"
  /\ pc[r] = "Publish" => req[r].op = "publish"
  /\ pc[r] \in {"UpdateGet", "UpdatePut"} =>
       /\ req[r].op \in {"stage", "publish"}
       /\ reply[r] \in {NULL, "OK", "ServiceUnavailable", "Lost"}
  /\ req[r] # NULL /\ req[r].op \in {"stage", "publish"} =>
       req[r].node \in Nodes /\ req[r].path \in TargetPaths

Kinds == \A r \in Requests : KindOK(r)

\* Nothing is undone: what is over stays as it is, on the host as well.
Grows ==
  /\ Settled
  /\ dirs \subseteq dirs'
  /\ \A t \in TargetPaths : markers[t] # NULL => markers'[t] # NULL

LEMMA StepSettles ==
  ASSUME IndInv, AckInv, [Next]_vars
  PROVE  Settled
<1>1. CASE UNCHANGED vars
  BY <1>1 DEF vars, Settled
<1>2. CASE Terminated
  BY <1>1, <1>2 DEF Terminated
<1>3. ASSUME NEW r \in Requests, Arrive(r)
      PROVE  Settled
  BY <1>3, RejectIsNoLoss, HandleCreateIsNoLoss, HandleDeleteIsNoLoss, BeginAttachIsNoLoss
  DEF Arrive, HandleStage, HandlePublish, NoLoss
<1>4. ASSUME NEW r \in Requests, CreateTxn(r) \/ DeleteTxn(r)
      PROVE  Settled
  <2>1. PICK code : Finish(r, code)
    BY <1>4 DEF CreateTxn, DeleteTxn
  <2>2. \A q \in Requests \ {r} : pc'[q] = pc[q] /\ reply'[q] = reply[q]
    BY <2>1, FinishDoes
  <2> QED
    BY <1>4, <2>2 DEF CreateTxn, DeleteTxn, Settled
<1>5. ASSUME NEW r \in Requests, Advance(r)
      PROVE  Settled
  BY <1>4, <1>5, DeleteGetIsNoLoss, BackendIsNoLoss, UpdateGetIsNoLoss, UpdatePutIsNoLoss,
     ReadFailsIsNoLoss, WriteFailsIsNoLoss, TimeoutIsNoLoss
  DEF Advance, NoLoss
<1>6. ASSUME NEW R \in SUBSET Requests, Crash(R)
      PROVE  Settled
  BY <1>6, CrashIsNoLoss DEF NoLoss
<1> QED
  BY <1>1, <1>2, <1>3, <1>5, <1>6 DEF Next

LEMMA StepGrows ==
  ASSUME IndInv, AckInv, [Next]_vars
  PROVE  Grows
<1> DEFINE HostGrows == /\ dirs \subseteq dirs'
                        /\ \A t \in TargetPaths : markers[t] # NULL => markers'[t] # NULL
<1>1. UNCHANGED backendVars => HostGrows
  BY DEF backendVars
<1>2. ASSUME NEW r \in Requests, BackendStage(r)
      PROVE  HostGrows
  BY <1>2 DEF BackendStage, Stage, StageFails
<1>3. ASSUME NEW r \in Requests, BackendPublish(r)
      PROVE  HostGrows
  <2>1. vol[r] \in Volume /\ vol[r].path # NULL
    BY <1>3, NullAssumption DEF BackendPublish, IndInv, Locals, LocalsOK, HoldsVolume, Volume
  <2> QED
    BY <1>3, <2>1 DEF BackendPublish, Publish, PublishFails, IndInv, TypeOK, BackendTypeOK
<1>4. UNCHANGED vars \/ Terminated => HostGrows
  <2>1. UNCHANGED vars => UNCHANGED backendVars
    BY DEF vars, backendVars
  <2> HIDE DEF HostGrows
  <2> QED
    BY <1>1, <2>1 DEF Terminated
<1>5. ASSUME NEW r \in Requests, Arrive(r)
      PROVE  HostGrows
  BY <1>1, <1>5 DEF Arrive, RejectRequest, HandleCreate, HandleDelete, HandleStage,
                    HandlePublish, BeginAttach
<1>6. ASSUME NEW r \in Requests, Advance(r)
      PROVE  HostGrows
  BY <1>1, <1>2, <1>3, <1>6
  DEF Advance, CreateTxn, DeleteGet, DeleteTxn, UpdateGet, UpdatePut, ReadFails, WriteFails,
      Timeout
<1>7. ASSUME NEW R \in SUBSET Requests, Crash(R)
      PROVE  HostGrows
  BY <1>1, <1>7 DEF Crash
<1>8. HostGrows
  <2> HIDE DEF HostGrows
  <2> QED
    BY <1>4, <1>5, <1>6, <1>7 DEF Next
<1> QED
  BY <1>8, StepSettles DEF Grows

\* A step of r alone, after which r is of the kind that its step says.
LEMMA AloneKeepsKinds ==
  ASSUME Kinds, NEW r \in Requests, Alone(r), KindOK(r)'
  PROVE  Kinds'
BY DEF Kinds, KindOK, Alone

LEMMA FinishKeepsKinds ==
  ASSUME IndInv, Kinds, NEW r \in Requests, NEW code, Finish(r, code), pc[r] # "done",
         \A q \in Requests \ {r} : req'[q] = req[q] /\ vol'[q] = vol[q],
         req'[r] # NULL /\ req'[r].op \in {"stage", "publish"} =>
           req'[r].node \in Nodes /\ req'[r].path \in TargetPaths
  PROVE  Kinds'
<1>1. Alone(r) /\ pc'[r] = "done"
  BY FinishDoes DEF Alone
<1> QED
  BY <1>1, AloneKeepsKinds DEF KindOK

LEMMA GotoKeepsKinds ==
  ASSUME IndInv, Kinds, NEW r \in Requests, NEW step, Goto(r, step), pc[r] # "done",
         UNCHANGED reply,
         \A q \in Requests \ {r} : req'[q] = req[q] /\ vol'[q] = vol[q],
         step # "idle",
         step = "CreateTxn" => req'[r].op = "create",
         step = "Stage" => req'[r].op = "stage",
         step = "Publish" => req'[r].op = "publish",
         step \in {"UpdateGet", "UpdatePut"} =>
           /\ req'[r].op \in {"stage", "publish"}
           /\ reply[r] \in {NULL, "OK", "ServiceUnavailable", "Lost"},
         req'[r] # NULL /\ req'[r].op \in {"stage", "publish"} =>
           req'[r].node \in Nodes /\ req'[r].path \in TargetPaths
  PROVE  Kinds'
<1>1. Alone(r) /\ pc'[r] = step
  BY GotoDoes DEF Alone
<1> QED
  BY <1>1, AloneKeepsKinds DEF KindOK

LEMMA ArriveKeepsKinds ==
  ASSUME IndInv, AckInv, Kinds, NEW r \in Requests, Arrive(r)
  PROVE  Kinds'
<1>1. pc[r] = "idle" /\ req[r] = NULL /\ KindOK(r)
  BY DEF Arrive, RejectRequest, HandleCreate, HandleDelete, HandleStage, HandlePublish,
         BeginAttach, Kinds, KindOK
<1>2. CASE RejectRequest(r)
  <2>1. PICK code : Finish(r, code)
    BY <1>2 DEF RejectRequest
  <2> QED
    BY <1>1, <1>2, <2>1, FinishKeepsKinds DEF RejectRequest
<1>3. ASSUME NEW n \in Names, NEW p \in SourcePaths, HandleCreate(r, n, p)
      PROVE  Kinds'
  <2>1. CASE Finish(r, "Conflict") /\ UNCHANGED <<req, vol, drawnFor>>
    BY <1>1, <2>1, FinishKeepsKinds
  <2>2. CASE ~(Finish(r, "Conflict") /\ UNCHANGED <<req, vol, drawnFor>>)
    <3>1. PICK id \in Ids :
            req' = [req EXCEPT ![r] =
                      [op |-> "create", id |-> id, node |-> NULL, path |-> NULL]]
      BY <1>3, <2>2 DEF HandleCreate
    <3>2. vol' = [vol EXCEPT ![r] = NewVolume(n, p)] /\ Goto(r, "CreateTxn") /\ UNCHANGED reply
      BY <1>3, <2>2 DEF HandleCreate
    <3>3. /\ req'[r].op = "create"
          /\ \A q \in Requests \ {r} : req'[q] = req[q] /\ vol'[q] = vol[q]
      BY <3>1, <3>2 DEF IndInv, TypeOK
    <3> QED
      BY <1>1, <3>2, <3>3, GotoKeepsKinds
  <2> QED
    BY <2>1, <2>2
<1>4. ASSUME NEW id \in Ids, HandleDelete(r, id)
      PROVE  Kinds'
  <2>1. req'[r].op = "delete" /\ \A q \in Requests \ {r} : req'[q] = req[q] /\ vol'[q] = vol[q]
    BY <1>4 DEF HandleDelete, IndInv, TypeOK
  <2>2. ASSUME NEW code, Finish(r, code) PROVE Kinds'
    BY <1>1, <2>1, <2>2, FinishKeepsKinds
  <2>3. CASE Goto(r, "DeleteGet") /\ UNCHANGED reply
    BY <1>1, <2>1, <2>3, GotoKeepsKinds
  <2> QED
    BY <1>4, <2>2, <2>3 DEF HandleDelete
<1>5. ASSUME NEW id \in Ids, NEW node \in Nodes, NEW path \in TargetPaths,
             HandleStage(r, id, node, path) \/ HandlePublish(r, id, node, path)
      PROVE  Kinds'
  <2>1. PICK op \in {"stage", "publish"}, step \in {"Stage", "Publish"} :
          /\ BeginAttach(r, op, id, node, path, step)
          /\ (op = "stage") <=> (step = "Stage")
    BY <1>5 DEF HandleStage, HandlePublish
  <2>2. /\ req'[r].op = op /\ req'[r].node = node /\ req'[r].path = path
        /\ \A q \in Requests \ {r} : req'[q] = req[q] /\ vol'[q] = vol[q]
    BY <2>1 DEF BeginAttach, IndInv, TypeOK
  <2>3. CASE Finish(r, "NotFound")
    BY <1>1, <2>2, <2>3, FinishKeepsKinds
  <2>4. CASE Goto(r, step) /\ UNCHANGED reply
    BY <1>1, <2>1, <2>2, <2>4, GotoKeepsKinds
  <2> QED
    BY <2>1, <2>3, <2>4 DEF BeginAttach
<1> QED
  BY <1>2, <1>3, <1>4, <1>5 DEF Arrive

LEMMA AdvanceKeepsKinds ==
  ASSUME IndInv, AckInv, Kinds, NEW r \in Requests, Advance(r)
  PROVE  Kinds'
<1>1. /\ pc[r] \notin {"idle", "done"} /\ KindOK(r) /\ UNCHANGED req
      /\ \A q \in Requests \ {r} : req'[q] = req[q] /\ vol'[q] = vol[q]
  BY DEF Advance, CreateTxn, DeleteGet, DeleteTxn, BackendStage, BackendPublish, UpdateGet,
         UpdatePut, ReadFails, WriteFails, WriteSteps, Timeout, Open, Kinds, IndInv, TypeOK
<1>2. ASSUME NEW code, Finish(r, code) PROVE Kinds'
  BY <1>1, <1>2, FinishKeepsKinds DEF KindOK
<1>3. CASE CreateTxn(r) \/ DeleteTxn(r) \/ UpdatePut(r) \/ ReadFails(r)
  BY <1>2, <1>3 DEF CreateTxn, DeleteTxn, UpdatePut, ReadFails
<1>4. CASE DeleteGet(r)
  <2>1. CASE Goto(r, "DeleteTxn") /\ UNCHANGED reply
    BY <1>1, <2>1, GotoKeepsKinds DEF KindOK
  <2> QED
    BY <1>2, <1>4, <2>1 DEF DeleteGet
<1>5. CASE BackendStage(r) \/ BackendPublish(r)
  <2>1. pc[r] \in {"Stage", "Publish"} /\ req[r].op \in {"stage", "publish"} /\ req[r] # NULL
    BY <1>1, <1>5, BoundsAssumption
    DEF BackendStage, BackendPublish, KindOK, IndInv, Locals, LocalsOK
  <2>2. CASE Goto(r, AfterBackend(r)) /\ UNCHANGED reply
    BY <1>1, <2>1, <2>2, GotoKeepsKinds DEF KindOK, AfterBackend
  <2> QED
    BY <1>2, <1>5, <2>2 DEF BackendStage, BackendPublish
<1>6. CASE UpdateGet(r)
  <2>1. CASE Goto(r, "UpdatePut") /\ UNCHANGED reply
    BY <1>1, <1>6, <2>1, GotoKeepsKinds DEF KindOK, UpdateGet
  <2> QED
    BY <1>2, <1>6, <2>1 DEF UpdateGet
<1>7. CASE WriteFails(r)
  <2>1. /\ reply' = [reply EXCEPT ![r] = ErrorReply(pc[r])]
        /\ UNCHANGED <<pc, req, vol, drawnFor>>
    BY <1>7 DEF WriteFails, Answer
  <2>2. Alone(r) /\ reply'[r] = ErrorReply(pc[r])
    BY <1>1, <2>1 DEF Alone, IndInv, TypeOK
  <2>3. KindOK(r)'
    BY <1>1, <2>1, <2>2 DEF KindOK, ErrorReply
  <2> QED
    BY <2>2, <2>3, AloneKeepsKinds
<1>8. CASE Timeout(r)
  <2>1. /\ pc'[r] \in {pc[r], "done"} /\ reply'[r] = "ServiceUnavailable"
        /\ \A q \in Requests \ {r} : pc'[q] = pc[q] /\ reply'[q] = reply[q]
    BY <1>8 DEF Timeout, Open, Answer, Goto, AfterCancel, IndInv, TypeOK
  <2>2. Alone(r) /\ KindOK(r)'
    BY <1>1, <2>1 DEF Alone, KindOK
  <2> QED
    BY <2>2, AloneKeepsKinds
<1> QED
  BY <1>3, <1>4, <1>5, <1>6, <1>7, <1>8 DEF Advance

LEMMA StepKeepsKinds ==
  ASSUME IndInv, AckInv, Kinds, [Next]_vars
  PROVE  Kinds'
<1>1. CASE UNCHANGED vars \/ Terminated
  BY <1>1 DEF Terminated, vars, Kinds, KindOK
<1>2. ASSUME NEW R \in SUBSET Requests, Crash(R)
      PROVE  Kinds'
  <2>1. /\ \A q \in R : /\ pc[q] \notin {"idle", "done"} /\ pc'[q] \in {pc[q], "done"}
                         /\ reply'[q] = "Lost"
        /\ \A q \in Requests \ R : pc'[q] = pc[q] /\ reply'[q] = reply[q]
        /\ UNCHANGED <<req, vol>>
    BY <1>2 DEF Crash, Open
  <2> QED
    BY <2>1 DEF Kinds, KindOK
<1> QED
  BY <1>1, <1>2, ArriveKeepsKinds, AdvanceKeepsKinds DEF Next

-----------------------------------------------------------------------------
\* The requests that have come in.  They are finitely many.
Busy == {q \in Requests : pc[q] # "idle"}

\* The requests whose entry may be in a record of volume id: those that have
\* run to their end, and those of X, which hold the record.
Worked(op, id, node, X) ==
  Attached(op, id, node)
    \cup {q \in X : req[q].op = op /\ req[q].id = id /\ req[q].node = node}

Publishers(id, node, X) ==
  {q \in Worked("publish", id, node, X) : markers[req[q].path] # NULL}

Stagers(path, id, node, X) ==
  {q \in Worked("stage", id, node, X) : {path, req[q].path} \subseteq dirs}

\* Record v of volume i has no more entries than there are requests for them.
Earned(v, i, X) ==
  \A id \in Ids, node \in Nodes, path \in SourcePaths :
    id = i /\ path = v.path =>
      /\ Occurrences(v.publishedOn, node) <= Cardinality(Publishers(id, node, X))
      /\ Occurrences(v.stagedOn, node) <= Cardinality(Stagers(path, id, node, X))

\* The copies of a record that will be written back, before and after the
\* entry of the request that holds the copy.
CopyEarned(r) ==
  /\ pc[r] \in {"CreateTxn", "Stage", "Publish"} => Earned(vol[r], req[r].id, {})
  /\ pc[r] \in {"UpdateGet", "UpdatePut"} => Earned(vol[r], req[r].id, {r})

EntryInv ==
  /\ Kinds
  /\ IsFiniteSet(Busy)
  /\ \A r \in Requests : CopyEarned(r)
  /\ \A id \in Ids : volumes[id] # NULL => Earned(volumes[id], id, {})

LEMMA OccurrencesOfAppend ==
  ASSUME NEW s \in Seq(Nodes), NEW n \in Nodes, NEW node \in Nodes
  PROVE  /\ Occurrences(s, node) \in Nat
         /\ Occurrences(Append(s, n), node) =
              IF n = node THEN Occurrences(s, node) + 1 ELSE Occurrences(s, node)
<1> DEFINE At(t) == {k \in DOMAIN t : t[k] = node}
<1>1. DOMAIN s = 1..Len(s) /\ Len(s) \in Nat
  OBVIOUS
<1>2. IsFiniteSet(At(s)) /\ Cardinality(At(s)) \in Nat
  <2>1. At(s) \in SUBSET (1..Len(s)) /\ IsFiniteSet(1..Len(s))
    BY <1>1, FS_Interval
  <2> QED
    BY <2>1, FS_Subset, FS_CardinalityType
<1>3. At(Append(s, n)) = IF n = node THEN At(s) \cup {Len(s) + 1} ELSE At(s)
  <2>1. /\ DOMAIN Append(s, n) = 1..(Len(s) + 1)
        /\ Append(s, n)[Len(s) + 1] = n
        /\ \A k \in 1..Len(s) : Append(s, n)[k] = s[k]
    OBVIOUS
  <2> QED
    BY <1>1, <2>1
<1>4. Len(s) + 1 \notin At(s)
  BY <1>1
<1>5. /\ Occurrences(s, node) = Cardinality(At(s))
      /\ Occurrences(Append(s, n), node) = Cardinality(At(Append(s, n)))
  BY DEF Occurrences
<1>6. n = node => Cardinality(At(s) \cup {Len(s) + 1}) = Cardinality(At(s)) + 1
  <2> HIDE DEF At
  <2> QED
    BY <1>2, <1>4, FS_AddElement
<1> HIDE DEF At
<1> QED
  BY <1>2, <1>3, <1>5, <1>6

LEMMA NoOccurrences ==
  ASSUME NEW node
  PROVE  Occurrences(<<>>, node) = 0
<1>1. {k \in DOMAIN <<>> : <<>>[k] = node} = {}
  OBVIOUS
<1> QED
  BY <1>1, FS_EmptySet DEF Occurrences

\* What has been done for an entry stays done; a request that holds a copy
\* goes on holding it, or ends.
Passed(X, Y) ==
  \A q \in X : /\ q \in Requests /\ req[q] # NULL /\ req'[q] = req[q]
               /\ \/ q \in Y
                  \/ pc'[q] = "done" /\ reply'[q] \in {"OK", "ServiceUnavailable", "Lost"}

LEMMA WorkedStays ==
  ASSUME IndInv, Kinds, Grows, NEW X, NEW Y, Passed(X, Y),
         NEW op \in {"stage", "publish"}, NEW id \in Ids, NEW node \in Nodes,
         NEW q \in Worked(op, id, node, X)
  PROVE  /\ q \in Worked(op, id, node, Y)' /\ q \in Requests
         /\ req'[q] = req[q] /\ req[q].path \in TargetPaths
<1>1. CASE q \in Attached(op, id, node)
  <2>1. /\ q \in Requests /\ req'[q] = req[q] /\ q \in Attached(op, id, node)'
        /\ req[q] # NULL /\ req[q].op = op
    BY <1>1 DEF Attached, Grows, Settled
  <2> QED
    BY <2>1 DEF Worked, Kinds, KindOK
<1>2. CASE q \notin Attached(op, id, node)
  <2>1. /\ q \in X /\ q \in Requests /\ req[q] # NULL /\ req'[q] = req[q]
        /\ req[q].op = op /\ req[q].id = id /\ req[q].node = node
    BY <1>2 DEF Worked, Passed
  <2>2. q \in Y \/ q \in Attached(op, id, node)'
    BY <2>1 DEF Passed, Attached
  <2> QED
    BY <2>1, <2>2 DEF Worked, Kinds, KindOK
<1> QED
  BY <1>1, <1>2

LEMMA WorkersStay ==
  ASSUME IndInv, Kinds, Grows, NEW X, NEW Y, Passed(X, Y),
         NEW id \in Ids, NEW node \in Nodes, NEW path
  PROVE  /\ Publishers(id, node, X) \subseteq Publishers(id, node, Y)'
         /\ Stagers(path, id, node, X) \subseteq Stagers(path, id, node, Y)'
<1>1. ASSUME NEW q \in Publishers(id, node, X)
      PROVE  q \in Publishers(id, node, Y)'
  BY <1>1, WorkedStays DEF Publishers, Grows
<1>2. ASSUME NEW q \in Stagers(path, id, node, X)
      PROVE  q \in Stagers(path, id, node, Y)'
  BY <1>2, WorkedStays DEF Stagers, Grows
<1> QED
  BY <1>1, <1>2

\* The requests behind the entries are among those that have come in.
LEMMA WorkersAreFinite ==
  ASSUME IsFiniteSet(Busy), NEW X \in SUBSET Busy, NEW id, NEW node, NEW path
  PROVE  /\ IsFiniteSet(Publishers(id, node, X)) /\ IsFiniteSet(Stagers(path, id, node, X))
         /\ Cardinality(Publishers(id, node, X)) \in Nat
         /\ Cardinality(Stagers(path, id, node, X)) \in Nat
<1>1. /\ Publishers(id, node, X) \in SUBSET Busy
      /\ Stagers(path, id, node, X) \in SUBSET Busy
  BY DEF Publishers, Stagers, Worked, Attached, Busy
<1> QED
  BY <1>1, FS_Subset, FS_CardinalityType

LEMMA CountsStay ==
  ASSUME IndInv, Kinds, Grows, IsFiniteSet(Busy), IsFiniteSet(Busy)',
         NEW X \in SUBSET Busy, NEW Y, Y \subseteq Busy', Passed(X, Y),
         NEW id \in Ids, NEW node \in Nodes, NEW path
  PROVE  /\ Cardinality(Publishers(id, node, X)) \in Nat
         /\ Cardinality(Stagers(path, id, node, X)) \in Nat
         /\ Cardinality(Publishers(id, node, Y)') \in Nat
         /\ Cardinality(Stagers(path, id, node, Y)') \in Nat
         /\ Cardinality(Publishers(id, node, X)) <= Cardinality(Publishers(id, node, Y)')
         /\ Cardinality(Stagers(path, id, node, X)) <= Cardinality(Stagers(path, id, node, Y)')
<1>1. /\ Publishers(id, node, Y)' \in SUBSET Busy'
      /\ Stagers(path, id, node, Y)' \in SUBSET Busy'
  BY DEF Publishers, Stagers, Worked, Attached, Busy
<1>2. IsFiniteSet(Publishers(id, node, Y)') /\ IsFiniteSet(Stagers(path, id, node, Y)')
  BY <1>1, FS_Subset
<1>3. /\ Cardinality(Publishers(id, node, Y)') \in Nat
      /\ Cardinality(Stagers(path, id, node, Y)') \in Nat
  BY <1>2, FS_CardinalityType
<1>4. /\ Publishers(id, node, X) \in SUBSET (Publishers(id, node, Y)')
      /\ Stagers(path, id, node, X) \in SUBSET (Stagers(path, id, node, Y)')
  BY WorkersStay
<1>5. /\ Cardinality(Publishers(id, node, X)) <= Cardinality(Publishers(id, node, Y)')
      /\ Cardinality(Stagers(path, id, node, X)) <= Cardinality(Stagers(path, id, node, Y)')
  BY <1>2, <1>4, FS_Subset
<1> QED
  BY <1>3, <1>5, WorkersAreFinite

LEMMA OccurrencesType ==
  ASSUME NEW s \in Seq(Nodes), NEW node \in Nodes
  PROVE  Occurrences(s, node) \in Nat
BY OccurrencesOfAppend

\* What all the steps have in common.
Context ==
  IndInv /\ AckInv /\ EntryInv /\ [Next]_vars /\ IsFiniteSet(Busy)' /\ Grows

\* A record that has earned its entries keeps them earned.
LEMMA EarnedStays ==
  ASSUME Context, NEW X \in SUBSET Busy, NEW Y, Y \subseteq Busy', Passed(X, Y),
         NEW v \in Volume, NEW i \in Ids, Earned(v, i, X)
  PROVE  \A id \in Ids, node \in Nodes, path \in SourcePaths :
           id = i /\ path = v.path =>
             /\ Occurrences(v.publishedOn, node) <= Cardinality(Publishers(id, node, Y)')
             /\ Occurrences(v.stagedOn, node) <= Cardinality(Stagers(path, id, node, Y)')
<1> SUFFICES ASSUME NEW node \in Nodes
             PROVE  /\ Occurrences(v.publishedOn, node)
                         <= Cardinality(Publishers(i, node, Y)')
                    /\ Occurrences(v.stagedOn, node)
                         <= Cardinality(Stagers(v.path, i, node, Y)')
  OBVIOUS
<1>1. /\ v.path \in SourcePaths
      /\ Occurrences(v.publishedOn, node) \in Nat /\ Occurrences(v.stagedOn, node) \in Nat
  BY OccurrencesType DEF Volume
<1>2. /\ Occurrences(v.publishedOn, node) <= Cardinality(Publishers(i, node, X))
      /\ Occurrences(v.stagedOn, node) <= Cardinality(Stagers(v.path, i, node, X))
  BY <1>1 DEF Earned
<1> QED
  BY <1>1, <1>2, CountsStay DEF Context, EntryInv

\* A copy that is not touched.
LEMMA CopyStays ==
  ASSUME Context, NEW q \in Requests, vol'[q] = vol[q], req'[q] = req[q],
         \/ pc'[q] = pc[q]
         \/ pc'[q] \notin {"CreateTxn", "Stage", "Publish", "UpdateGet", "UpdatePut"}
         \/ pc[q] = "UpdateGet" /\ pc'[q] = "UpdatePut"
  PROVE  CopyEarned(q)'
<1>1. CASE pc'[q] \in {"CreateTxn", "Stage", "Publish"}
  <2>1. vol[q] \in Volume /\ req[q].id \in Ids /\ Earned(vol[q], req[q].id, {})
    BY <1>1 DEF Context, EntryInv, CopyEarned, IndInv, Locals, LocalsOK, HoldsVolume, Request
  <2>2. Passed({}, {})
    BY DEF Passed
  <2> QED
    BY <1>1, <2>1, <2>2, EarnedStays DEF CopyEarned, Earned
<1>2. CASE pc'[q] \in {"UpdateGet", "UpdatePut"}
  <2>1. /\ vol[q] \in Volume /\ req[q] \in Request /\ req[q].id \in Ids
        /\ Earned(vol[q], req[q].id, {q}) /\ q \in Busy /\ q \in Busy'
    BY <1>2
    DEF Context, EntryInv, CopyEarned, IndInv, Locals, LocalsOK, HoldsVolume, Request, Busy
  <2>2. Passed({q}, {q})
    BY <2>1, BoundsAssumption DEF Passed
  <2> QED
    BY <1>2, <2>1, <2>2, EarnedStays DEF CopyEarned, Earned
<1> QED
  BY <1>1, <1>2 DEF CopyEarned

\* A record that is not touched.
LEMMA RecordStays ==
  ASSUME Context, NEW i \in Ids, volumes'[i] = volumes[i], volumes'[i] # NULL
  PROVE  Earned(volumes[i], i, {})'
<1>1. volumes[i] \in Volume /\ Earned(volumes[i], i, {})
  BY DEF Context, EntryInv, IndInv, TypeOK, StoreTypeOK
<1>2. Passed({}, {})
  BY DEF Passed
<1> QED
  BY <1>1, <1>2, EarnedStays DEF Earned

\* One request comes in at a time.
LEMMA BusyStaysFinite ==
  ASSUME IndInv, [Next]_vars, IsFiniteSet(Busy)
  PROVE  IsFiniteSet(Busy)'
<1>1. ASSUME NEW r, \A q \in Requests : q # r => pc'[q] = pc[q]
      PROVE  IsFiniteSet(Busy)'
  <2>1. Busy' \in SUBSET (Busy \cup {r})
    BY <1>1 DEF Busy
  <2> QED
    BY <2>1, FS_AddElement, FS_Subset
<1>2. ASSUME NEW r \in Requests, NEW step, pc' = [pc EXCEPT ![r] = step]
      PROVE  IsFiniteSet(Busy)'
  BY <1>1, <1>2 DEF IndInv, TypeOK
<1>3. CASE UNCHANGED vars \/ Terminated
  BY <1>1, <1>3 DEF vars, Terminated
<1>4. ASSUME NEW r \in Requests, Arrive(r)
      PROVE  IsFiniteSet(Busy)'
  BY <1>2, <1>4 DEF Arrive, RejectRequest, HandleCreate, HandleDelete, HandleStage,
                    HandlePublish, BeginAttach, Finish, Goto
<1>5. ASSUME NEW r \in Requests, Advance(r)
      PROVE  IsFiniteSet(Busy)'
  <2>1. UNCHANGED pc \/ \E step : pc' = [pc EXCEPT ![r] = step]
    BY <1>5 DEF Advance, CreateTxn, DeleteGet, DeleteTxn, BackendStage, BackendPublish,
                UpdateGet, UpdatePut, ReadFails, WriteFails, Timeout, Finish, Goto
  <2> QED
    BY <1>1, <1>2, <2>1
<1>6. ASSUME NEW R \in SUBSET Requests, Crash(R)
      PROVE  IsFiniteSet(Busy)'
  <2>1. Busy' \in SUBSET Busy
    BY <1>6 DEF Crash, Open, Busy
  <2> QED
    BY <2>1, FS_Subset
<1> QED
  BY <1>3, <1>4, <1>5, <1>6 DEF Next

\* What is left to show of a step, once the copies of the requests in Q and
\* the record of volume i have been dealt with.
LEMMA EntryInvKept ==
  ASSUME Context, NEW Q \in SUBSET Requests, NEW I \in SUBSET Ids,
         \A q \in Q : CopyEarned(q)',
         \A i \in I : (volumes[i] # NULL => Earned(volumes[i], i, {}))',
         \A q \in Requests \ Q :
           /\ vol'[q] = vol[q] /\ req'[q] = req[q]
           /\ \/ pc'[q] = pc[q]
              \/ pc'[q] \notin {"CreateTxn", "Stage", "Publish", "UpdateGet", "UpdatePut"}
              \/ pc[q] = "UpdateGet" /\ pc'[q] = "UpdatePut",
         \A i \in Ids \ I : volumes'[i] = volumes[i]
  PROVE  EntryInv'
<1>1. Kinds'
  BY StepKeepsKinds DEF Context, EntryInv
<1>2. ASSUME NEW q \in Requests
      PROVE  CopyEarned(q)'
  BY <1>2, CopyStays
<1>3. ASSUME NEW i \in Ids, volumes'[i] # NULL
      PROVE  Earned(volumes[i], i, {})'
  <2>1. CASE i \in I
    BY <1>3, <2>1
  <2>2. CASE i \notin I
    BY <1>3, <2>2, RecordStays
  <2> QED
    BY <2>1, <2>2
<1> QED
  BY <1>1, <1>2, <1>3 DEF Context, EntryInv

\* A step that leaves the records alone, and a step that writes one.
LEMMA CopyKeepsEntries ==
  ASSUME Context, NEW r \in Requests, UNCHANGED volumes, CopyEarned(r)',
         \A q \in Requests \ {r} : vol'[q] = vol[q] /\ req'[q] = req[q] /\ pc'[q] = pc[q]
  PROVE  EntryInv'
<1>1. \A q \in {r} : CopyEarned(q)'
  OBVIOUS
<1>2. \A i \in Ids \ {} : volumes'[i] = volumes[i]
  OBVIOUS
<1>3. \A i \in {} : (volumes[i] # NULL => Earned(volumes[i], i, {}))'
  OBVIOUS
<1>4. {r} \in SUBSET Requests /\ {} \in SUBSET Ids
  OBVIOUS
<1> QED
  BY <1>1, <1>2, <1>3, <1>4, EntryInvKept

LEMMA RecordKeepsEntries ==
  ASSUME Context, NEW r \in Requests, NEW i \in Ids, UNCHANGED <<req, vol>>, pc'[r] = "done",
         \A q \in Requests \ {r} : pc'[q] = pc[q],
         \A j \in Ids \ {i} : volumes'[j] = volumes[j],
         (volumes[i] # NULL => Earned(volumes[i], i, {}))'
  PROVE  EntryInv'
<1>1. \A q \in {} : CopyEarned(q)'
  OBVIOUS
<1>2. \A j \in {i} : (volumes[j] # NULL => Earned(volumes[j], j, {}))'
  OBVIOUS
<1>3. {} \in SUBSET Requests /\ {i} \in SUBSET Ids
  OBVIOUS
<1>4. \A q \in Requests \ {} :
        /\ vol'[q] = vol[q] /\ req'[q] = req[q]
        /\ pc'[q] = pc[q] \/ pc'[q] \notin {"CreateTxn", "Stage", "Publish", "UpdateGet", "UpdatePut"}
  OBVIOUS
<1> QED
  BY <1>1, <1>2, <1>3, <1>4, EntryInvKept

\* A new record has no entries, and one that is read from the store has
\* earned those it has.
LEMMA ArriveKeepsEntries ==
  ASSUME Context, NEW r \in Requests, Arrive(r)
  PROVE  EntryInv'
<1>1. UNCHANGED volumes
  BY DEF Arrive, RejectRequest, HandleCreate, HandleDelete, HandleStage, HandlePublish,
         BeginAttach, storeVars
<1>2. /\ \A q \in Requests \ {r} : vol'[q] = vol[q] /\ req'[q] = req[q] /\ pc'[q] = pc[q]
  BY DEF Arrive, RejectRequest, HandleCreate, HandleDelete, HandleStage, HandlePublish,
         BeginAttach, Finish, Goto, Context, IndInv, TypeOK
<1>3. SUFFICES CopyEarned(r)'
  BY <1>1, <1>2, CopyKeepsEntries
<1>4. pc'[r] \in {"done", "DeleteGet"} => CopyEarned(r)'
  BY DEF CopyEarned
<1>5. ASSUME NEW code, Finish(r, code) PROVE CopyEarned(r)'
  BY <1>4, <1>5, FinishDoes DEF Context
<1>6. CASE RejectRequest(r)
  BY <1>5, <1>6 DEF RejectRequest
<1>7. ASSUME NEW n \in Names, NEW p \in SourcePaths, HandleCreate(r, n, p)
      PROVE  CopyEarned(r)'
  <2>1. CASE ~Finish(r, "Conflict")
    <3>1. pc'[r] = "CreateTxn" /\ vol'[r] = NewVolume(n, p)
      BY <1>7, <2>1 DEF HandleCreate, Goto, Context, IndInv, TypeOK
    <3>2. vol'[r].publishedOn = <<>> /\ vol'[r].stagedOn = <<>>
      BY <3>1 DEF NewVolume
    <3>3. ASSUME NEW id \in Ids, NEW node \in Nodes, NEW path \in SourcePaths
          PROVE  /\ Cardinality(Publishers(id, node, {})') \in Nat
                 /\ Cardinality(Stagers(path, id, node, {})') \in Nat
      BY CountsStay DEF Context, EntryInv, Passed
    <3>4. ASSUME NEW node \in Nodes
          PROVE  Occurrences(vol[r].publishedOn, node)' = 0
                 /\ Occurrences(vol[r].stagedOn, node)' = 0
      BY <3>2, NoOccurrences
    <3> QED
      BY <3>1, <3>3, <3>4 DEF CopyEarned, Earned
  <2> QED
    BY <1>5, <2>1
<1>8. ASSUME NEW id \in Ids, HandleDelete(r, id)
      PROVE  CopyEarned(r)'
  <2>1. Goto(r, "DeleteGet") => CopyEarned(r)'
    BY <1>4, GotoDoes DEF Context
  <2> QED
    BY <1>5, <1>8, <2>1 DEF HandleDelete
<1>9. ASSUME NEW id \in Ids, NEW node \in Nodes, NEW path \in TargetPaths,
             HandleStage(r, id, node, path) \/ HandlePublish(r, id, node, path)
      PROVE  CopyEarned(r)'
  <2>1. PICK op \in {"stage", "publish"}, step \in {"Stage", "Publish"} :
          BeginAttach(r, op, id, node, path, step)
    BY <1>9 DEF HandleStage, HandlePublish
  <2>2. CASE ~Finish(r, "NotFound")
    <3>1. /\ volumes[id] # NULL /\ vol'[r] = volumes[id] /\ req'[r].id = id
          /\ pc'[r] = step
      BY <2>1, <2>2 DEF BeginAttach, Goto, Context, IndInv, TypeOK
    <3>2. Earned(volumes[id], id, {})'
      BY <1>1, <3>1, RecordStays
    <3> QED
      BY <1>1, <3>1, <3>2 DEF CopyEarned, Earned
  <2> QED
    BY <1>5, <2>1, <2>2
<1> QED
  BY <1>6, <1>7, <1>8, <1>9 DEF Arrive

\* The record that a create puts, and the one that an update puts, have
\* earned their entries; a delete leaves no record.
LEMMA WritesKeepEntries ==
  ASSUME Context, NEW r \in Requests, CreateTxn(r) \/ DeleteTxn(r) \/ UpdatePut(r)
  PROVE  EntryInv'
<1> DEFINE i == req[r].id
<1>1. /\ pc[r] \in {"CreateTxn", "DeleteTxn", "UpdatePut"} /\ r \in Busy
      /\ UNCHANGED <<req, vol>>
      /\ req[r] \in Request /\ req[r] # NULL /\ i \in Ids /\ vol[r] \in Volume
      /\ CopyEarned(r)
  BY BoundsAssumption
  DEF CreateTxn, DeleteTxn, UpdatePut, Context, EntryInv, IndInv, Locals, LocalsOK,
      HoldsVolume, Request, Busy
<1>2. /\ pc'[r] = "done" /\ \A q \in Requests \ {r} : pc'[q] = pc[q]
      /\ UpdatePut(r) => reply'[r] = IF reply[r] = NULL THEN "OK" ELSE reply[r]
  BY FinishDoes DEF CreateTxn, DeleteTxn, UpdatePut, Context
<1>3. ASSUME UpdatePut(r)
      PROVE  Passed({r}, {})
  <2>1. reply[r] \in {NULL, "OK", "ServiceUnavailable", "Lost"}
    BY <1>3 DEF UpdatePut, Context, EntryInv, Kinds, KindOK
  <2> QED
    BY <1>1, <1>2, <1>3, <2>1 DEF Passed
<1>4. CASE volumes' = [volumes EXCEPT ![i] = vol[r]] /\ (CreateTxn(r) \/ UpdatePut(r))
  <2>1. PICK X \in SUBSET Busy : Passed(X, {}) /\ Earned(vol[r], i, X)
    <3>1. CASE CreateTxn(r)
      BY <1>1, <3>1 DEF CreateTxn, CopyEarned, Passed
    <3>2. CASE UpdatePut(r)
      BY <1>1, <1>3, <3>2 DEF UpdatePut, CopyEarned
    <3> QED
      BY <1>4, <3>1, <3>2
  <2>2. volumes'[i] = vol[r] /\ \A j \in Ids \ {i} : volumes'[j] = volumes[j]
    BY <1>1, <1>4 DEF Context, IndInv, TypeOK, StoreTypeOK
  <2>3. Earned(volumes[i], i, {})'
    <3>1. \A id \in Ids, node \in Nodes, path \in SourcePaths :
            id = i /\ path = vol[r].path =>
              /\ Occurrences(vol[r].publishedOn, node) <= Cardinality(Publishers(id, node, {})')
              /\ Occurrences(vol[r].stagedOn, node) <= Cardinality(Stagers(path, id, node, {})')
      BY <1>1, <2>1, EarnedStays
    <3> QED
      BY <1>1, <2>2, <3>1 DEF Earned
  <2> QED
    BY <1>1, <1>2, <2>2, <2>3, RecordKeepsEntries
<1>5. CASE volumes' = volumes
  <2>1. (volumes[i] # NULL => Earned(volumes[i], i, {}))'
    BY <1>1, <1>5, RecordStays
  <2> QED
    BY <1>1, <1>2, <1>5, <2>1, RecordKeepsEntries
<1>6. CASE volumes' = [volumes EXCEPT ![i] = NULL]
  <2>1. volumes'[i] = NULL /\ \A j \in Ids \ {i} : volumes'[j] = volumes[j]
    BY <1>1, <1>6 DEF Context, IndInv, TypeOK, StoreTypeOK
  <2> QED
    BY <1>1, <1>2, <2>1, RecordKeepsEntries
<1> QED
  BY <1>4, <1>5, <1>6
  DEF CreateTxn, DeleteTxn, UpdatePut, CommitCreate, CommitDelete, PutVolume, storeVars

\* The request that has just called the backend joins those that its node's
\* entries are owed to.
LEMMA BackendEarns ==
  ASSUME Context, NEW r \in Requests, pc[r] \in {"Stage", "Publish"}, UNCHANGED req,
         NEW id \in Ids, id = req[r].id, NEW node \in Nodes, NEW path \in SourcePaths,
         pc'[r] = "UpdateGet"
  PROVE  /\ Cardinality(Publishers(id, node, {})) <= Cardinality(Publishers(id, node, {r})')
         /\ Cardinality(Stagers(path, id, node, {})) <= Cardinality(Stagers(path, id, node, {r})')
         /\ req[r].op = "publish" /\ req[r].node = node /\ markers'[req[r].path] # NULL =>
              Cardinality(Publishers(id, node, {})) + 1 <= Cardinality(Publishers(id, node, {r})')
         /\ req[r].op = "stage" /\ req[r].node = node /\ {path, req[r].path} \subseteq dirs' =>
              Cardinality(Stagers(path, id, node, {})) + 1
                <= Cardinality(Stagers(path, id, node, {r})')
<1> DEFINE P == Publishers(id, node, {})'
           S == Stagers(path, id, node, {})'
<1>1. /\ Passed({}, {}) /\ Passed({}, {r}) /\ {r} \subseteq Busy'
      /\ {} \in SUBSET Busy /\ {} \subseteq Busy'
  BY DEF Passed, Busy
<1>2. /\ Cardinality(Publishers(id, node, {})) <= Cardinality(P)
      /\ Cardinality(Stagers(path, id, node, {})) <= Cardinality(S)
      /\ Cardinality(Publishers(id, node, {})) <= Cardinality(Publishers(id, node, {r})')
      /\ Cardinality(Stagers(path, id, node, {})) <= Cardinality(Stagers(path, id, node, {r})')
      /\ Cardinality(Publishers(id, node, {})) \in Nat
      /\ Cardinality(Stagers(path, id, node, {})) \in Nat
      /\ Cardinality(P) \in Nat /\ Cardinality(S) \in Nat
  BY <1>1, CountsStay DEF Context, EntryInv
<1>3. /\ IsFiniteSet(P) /\ IsFiniteSet(S) /\ r \notin P /\ r \notin S
  <2>1. P \in SUBSET Busy' /\ S \in SUBSET Busy' /\ r \notin P /\ r \notin S
    BY DEF Publishers, Stagers, Worked, Attached, Busy
  <2> QED
    BY <2>1, FS_Subset DEF Context
<1>4. ASSUME req[r].op = "publish", req[r].node = node, markers'[req[r].path] # NULL
      PROVE  Publishers(id, node, {r})' = P \cup {r}
  BY <1>4 DEF Publishers, Worked
<1>5. ASSUME req[r].op = "stage", req[r].node = node, {path, req[r].path} \subseteq dirs'
      PROVE  Stagers(path, id, node, {r})' = S \cup {r}
  BY <1>5 DEF Stagers, Worked
<1>6. Cardinality(P \cup {r}) = Cardinality(P) + 1 /\ Cardinality(S \cup {r}) = Cardinality(S) + 1
  <2> HIDE DEF P, S
  <2> QED
    BY <1>3, FS_AddElement
<1>7. ASSUME req[r].op = "publish", req[r].node = node, markers'[req[r].path] # NULL
      PROVE  Cardinality(Publishers(id, node, {})) + 1 <= Cardinality(Publishers(id, node, {r})')
  <2>1. Cardinality(Publishers(id, node, {r})') = Cardinality(P) + 1
    BY <1>4, <1>6, <1>7
  <2> HIDE DEF P, S
  <2> QED
    BY <1>2, <2>1
<1>8. ASSUME req[r].op = "stage", req[r].node = node, {path, req[r].path} \subseteq dirs'
      PROVE  Cardinality(Stagers(path, id, node, {})) + 1
               <= Cardinality(Stagers(path, id, node, {r})')
  <2>1. Cardinality(Stagers(path, id, node, {r})') = Cardinality(S) + 1
    BY <1>5, <1>6, <1>8
  <2> HIDE DEF P, S
  <2> QED
    BY <1>2, <2>1
<1> QED
  BY <1>2, <1>7, <1>8

\* An entry is appended to the copy once the backend has done its work.
LEMMA BackendKeepsEntries ==
  ASSUME Context, NEW r \in Requests, BackendStage(r) \/ BackendPublish(r)
  PROVE  EntryInv'
<1> DEFINE v == vol[r]
           n == req[r].node
<1>1. /\ pc[r] \in {"Stage", "Publish"} /\ UNCHANGED <<volumes, req>>
      /\ \A q \in Requests \ {r} : vol'[q] = vol[q] /\ req'[q] = req[q] /\ pc'[q] = pc[q]
  BY DEF BackendStage, BackendPublish, Finish, Goto, storeVars, Context, IndInv, TypeOK
<1>2. /\ v \in Volume /\ req[r].id \in Ids /\ n \in Nodes /\ req[r].path \in TargetPaths
      /\ v.path \in SourcePaths /\ v.path # NULL
      /\ v.publishedOn \in Seq(Nodes) /\ v.stagedOn \in Seq(Nodes)
      /\ Earned(v, req[r].id, {})
  <2>1. LocalsOK(r) /\ CopyEarned(r)
    BY DEF Context, EntryInv, IndInv, Locals
  <2>2. /\ req[r] \in Request /\ v \in Volume
        /\ n \in Nodes /\ req[r].path \in TargetPaths
    BY <1>1, <2>1 DEF LocalsOK, HoldsVolume
  <2>3. Earned(v, req[r].id, {})
    BY <1>1, <2>1 DEF CopyEarned
  <2>4. req[r].id \in Ids
    BY <2>2 DEF Request
  <2>5. v.path \in SourcePaths /\ v.publishedOn \in Seq(Nodes) /\ v.stagedOn \in Seq(Nodes)
    BY <2>2 DEF Volume
  <2> QED
    BY <2>2, <2>3, <2>4, <2>5, NullAssumption
<1>3. SUFFICES CopyEarned(r)'
  BY <1>1, CopyKeepsEntries
<1>4. CASE pc'[r] = "done"
  BY <1>4 DEF CopyEarned
<1>5. CASE pc'[r] # "done"
  <2>1. /\ pc'[r] = "UpdateGet"
        /\ \/ /\ BackendStage(r) /\ Stage(v, req[r].path) /\ vol'[r] = StagedVolume(v, n)
           \/ /\ BackendPublish(r) /\ Publish(v, req[r].path) /\ vol'[r] = PublishedVolume(v, n)
    BY <1>5, FinishDoes
    DEF BackendStage, BackendPublish, Goto, AfterBackend, Context, IndInv, TypeOK
  <2>2. vol'[r].path = v.path
    BY <1>2, <2>1 DEF StagedVolume, PublishedVolume, Volume
  <2>3. ASSUME NEW id \in Ids, NEW node \in Nodes, NEW path \in SourcePaths,
               id = req[r].id, path = v.path
        PROVE  /\ Occurrences(vol'[r].publishedOn, node)
                    <= Cardinality(Publishers(id, node, {r})')
               /\ Occurrences(vol'[r].stagedOn, node)
                    <= Cardinality(Stagers(path, id, node, {r})')
    <3>1. /\ Occurrences(v.publishedOn, node) <= Cardinality(Publishers(id, node, {}))
          /\ Occurrences(v.stagedOn, node) <= Cardinality(Stagers(path, id, node, {}))
      BY <1>2, <2>3 DEF Earned
    <3>2. /\ Occurrences(v.publishedOn, node) \in Nat /\ Occurrences(v.stagedOn, node) \in Nat
          /\ Cardinality(Publishers(id, node, {})) \in Nat
          /\ Cardinality(Stagers(path, id, node, {})) \in Nat
          /\ Cardinality(Publishers(id, node, {r})') \in Nat
          /\ Cardinality(Stagers(path, id, node, {r})') \in Nat
      <4>1. /\ Passed({}, {r}) /\ {r} \subseteq Busy' /\ {} \in SUBSET Busy
        BY <2>1 DEF Passed, Busy
      <4> QED
        BY <1>2, <4>1, OccurrencesType, CountsStay DEF Context, EntryInv
    <3>3. CASE BackendStage(r) /\ Stage(v, req[r].path) /\ vol'[r] = StagedVolume(v, n)
      <4>1. /\ vol'[r].publishedOn = v.publishedOn
            /\ vol'[r].stagedOn = Append(v.stagedOn, n)
        BY <1>2, <3>3 DEF StagedVolume, Volume
      <4>2. Occurrences(Append(v.stagedOn, n), node) =
              IF n = node THEN Occurrences(v.stagedOn, node) + 1
                          ELSE Occurrences(v.stagedOn, node)
        BY <1>2, OccurrencesOfAppend
      <4>3. req[r].op = "stage" /\ {path, req[r].path} \subseteq dirs'
        BY <2>3, <3>3 DEF BackendStage, Stage, Context, EntryInv, Kinds, KindOK
      <4>4. /\ Cardinality(Publishers(id, node, {})) <= Cardinality(Publishers(id, node, {r})')
            /\ Cardinality(Stagers(path, id, node, {})) <= Cardinality(Stagers(path, id, node, {r})')
            /\ n = node => Cardinality(Stagers(path, id, node, {})) + 1
                             <= Cardinality(Stagers(path, id, node, {r})')
        BY <1>1, <2>1, <2>3, <4>3, BackendEarns
      <4> QED
        BY <3>1, <3>2, <4>1, <4>2, <4>4
    <3>4. CASE BackendPublish(r) /\ Publish(v, req[r].path) /\ vol'[r] = PublishedVolume(v, n)
      <4>1. /\ vol'[r].publishedOn = Append(v.publishedOn, n)
            /\ vol'[r].stagedOn = v.stagedOn
        BY <1>2, <3>4 DEF PublishedVolume, Volume
      <4>2. Occurrences(Append(v.publishedOn, n), node) =
              IF n = node THEN Occurrences(v.publishedOn, node) + 1
                          ELSE Occurrences(v.publishedOn, node)
        BY <1>2, OccurrencesOfAppend
      <4>3. req[r].op = "publish" /\ markers'[req[r].path] # NULL
        BY <1>2, <3>4
        DEF BackendPublish, Publish, Context, EntryInv, Kinds, KindOK, IndInv, TypeOK,
            BackendTypeOK
      <4>4. /\ Cardinality(Publishers(id, node, {})) <= Cardinality(Publishers(id, node, {r})')
            /\ Cardinality(Stagers(path, id, node, {})) <= Cardinality(Stagers(path, id, node, {r})')
            /\ n = node => Cardinality(Publishers(id, node, {})) + 1
                             <= Cardinality(Publishers(id, node, {r})')
        BY <1>1, <2>1, <2>3, <4>3, BackendEarns
      <4> QED
        BY <3>1, <3>2, <4>1, <4>2, <4>4
    <3> QED
      BY <2>1, <3>3, <3>4
  <2> QED
    BY <1>1, <2>1, <2>2, <2>3 DEF CopyEarned, Earned
<1> QED
  BY <1>4, <1>5

\* The other steps, and the faults, touch no record, and no copy that will
\* be written back.
LEMMA OthersKeepEntries ==
  ASSUME Context, NEW r \in Requests,
         \/ DeleteGet(r) \/ UpdateGet(r) \/ ReadFails(r) \/ WriteFails(r) \/ Timeout(r)
  PROVE  EntryInv'
<1>1. /\ UNCHANGED volumes
      /\ \A q \in Requests \ {r} : vol'[q] = vol[q] /\ req'[q] = req[q] /\ pc'[q] = pc[q]
  BY DEF DeleteGet, UpdateGet, ReadFails, WriteFails, Timeout, Finish, Goto, storeVars,
         Context, IndInv, TypeOK
<1>2. SUFFICES CopyEarned(r)'
  BY <1>1, CopyKeepsEntries
<1>3. CASE DeleteGet(r)
  <2>1. pc'[r] \in {"done", "DeleteTxn"}
    BY <1>3 DEF DeleteGet, Finish, Goto, Context, IndInv, TypeOK
  <2> QED
    BY <2>1 DEF CopyEarned
<1>4. CASE ~DeleteGet(r)
  <2>1. /\ vol'[r] = vol[r] /\ req'[r] = req[r]
        /\ pc'[r] \in {pc[r], "done"} \/ (pc[r] = "UpdateGet" /\ pc'[r] = "UpdatePut")
    BY <1>4 DEF UpdateGet, ReadFails, WriteFails, Timeout, AfterCancel, Finish, Goto,
                Context, IndInv, TypeOK
  <2> QED
    BY <2>1, CopyStays
<1> QED
  BY <1>3, <1>4

LEMMA CrashKeepsEntries ==
  ASSUME Context, NEW R \in SUBSET Requests, Crash(R)
  PROVE  EntryInv'
<1>1. /\ UNCHANGED <<volumes, vol, req>>
      /\ \A q \in Requests : pc'[q] \in {pc[q], "done"}
  BY DEF Crash, storeVars
<1>2. \A q \in {} : CopyEarned(q)'
  OBVIOUS
<1>3. \A i \in {} : (volumes[i] # NULL => Earned(volumes[i], i, {}))'
  OBVIOUS
<1>4. {} \in SUBSET Requests /\ {} \in SUBSET Ids
  OBVIOUS
<1>5. \A q \in Requests \ {} :
        /\ vol'[q] = vol[q] /\ req'[q] = req[q]
        /\ pc'[q] = pc[q] \/ pc'[q] \notin {"CreateTxn", "Stage", "Publish", "UpdateGet", "UpdatePut"}
  BY <1>1
<1> QED
  BY <1>1, <1>2, <1>3, <1>4, <1>5, EntryInvKept

-----------------------------------------------------------------------------
LEMMA EntryInit == Init => EntryInv
<1> SUFFICES ASSUME Init PROVE EntryInv
  OBVIOUS
<1>1. Kinds
  BY DEF Init, Kinds, KindOK
<1>2. Busy = {}
  BY DEF Init, Busy
<1>3. IsFiniteSet(Busy)
  BY <1>2, FS_EmptySet
<1> QED
  BY <1>1, <1>3 DEF Init, StoreInit, EntryInv, CopyEarned

LEMMA EntryStep ==
  ASSUME IndInv, AckInv, EntryInv, [Next]_vars
  PROVE  EntryInv'
<1>1. Context
  BY StepGrows, BusyStaysFinite DEF Context, EntryInv
<1>2. CASE UNCHANGED vars \/ Terminated
  <2>1. UNCHANGED vars
    BY <1>2 DEF Terminated
  <2>2. Kinds'
    BY <1>1, StepKeepsKinds DEF Context, EntryInv
  <2>3. \A q \in Requests : CopyEarned(q)'
    BY <1>1, <2>1, CopyStays DEF vars
  <2>4. \A i \in Ids : (volumes[i] # NULL => Earned(volumes[i], i, {}))'
    BY <1>1, <2>1, RecordStays DEF vars
  <2> QED
    BY <1>1, <2>2, <2>3, <2>4 DEF EntryInv, Context
<1>3. ASSUME NEW r \in Requests, Arrive(r)
      PROVE  EntryInv'
  BY <1>1, <1>3, ArriveKeepsEntries
<1>4. ASSUME NEW r \in Requests, Advance(r)
      PROVE  EntryInv'
  BY <1>1, <1>4, WritesKeepEntries, BackendKeepsEntries, OthersKeepEntries DEF Advance
<1>5. ASSUME NEW R \in SUBSET Requests, Crash(R)
      PROVE  EntryInv'
  BY <1>1, <1>5, CrashKeepsEntries
<1> QED
  BY <1>2, <1>3, <1>4, <1>5 DEF Next

LEMMA EntriesFollow ==
  ASSUME IndInv, EntryInv
  PROVE  EntriesEarned
<1> SUFFICES ASSUME NEW id \in Ids, NEW node \in Nodes, volumes[id] # NULL
             PROVE  /\ Occurrences(volumes[id].publishedOn, node)
                         <= Cardinality({r \in Attached("publish", id, node) :
                                           markers[req[r].path] # NULL})
                    /\ Occurrences(volumes[id].stagedOn, node)
                         <= Cardinality({r \in Attached("stage", id, node) :
                                           {volumes[id].path, req[r].path} \subseteq dirs})
  BY DEF EntriesEarned
<1>1. volumes[id].path \in SourcePaths /\ Earned(volumes[id], id, {})
  BY DEF IndInv, TypeOK, StoreTypeOK, Volume, EntryInv
<1>2. Publishers(id, node, {}) = {r \in Attached("publish", id, node) : markers[req[r].path] # NULL}
  BY DEF Publishers, Worked
<1>3. Stagers(volumes[id].path, id, node, {}) =
        {r \in Attached("stage", id, node) : {volumes[id].path, req[r].path} \subseteq dirs}
  BY DEF Stagers, Worked
<1> QED
  BY <1>1, <1>2, <1>3 DEF Earned

\* Whatever interleaves and fails, each entry of StagedOn and PublishedOn is
\* owed to a request of its own, whose directories or mount marker are on the
\* host (the one append after backend.Stage and backend.Publish in
\* HandleStage and HandlePublish, and the copies that UpdateVolume puts).
THEOREM EntriesAreEarned == Spec => []EntriesEarned
<1>1. IndInv /\ EntryInv => EntriesEarned
  BY EntriesFollow
<1>2. IndInv /\ AckInv /\ [Next]_vars => AckInv'
  BY AckStep
<1>3. IndInv /\ AckInv /\ EntryInv /\ [Next]_vars => EntryInv'
  BY EntryStep
<1> QED
  BY <1>1, <1>2, <1>3, AckInit, EntryInit, Invariance, PTL DEF Spec
=============================================================================
