--------------------------- MODULE CsiDriverProofs ---------------------------
(***************************************************************************)
(* What Docker can rely on when it calls the CSI driver, for any number of *)
(* calls, nodes and volumes: that a name is given to one volume, and that  *)
(* a node call which succeeded was carried out on both sides, whatever     *)
(* fails; and, with one call at a time on a name and no faults, that calls *)
(* fail for a reason, and that deletes and publications last.              *)
(*                                                                         *)
(* A step of the driver is a step of VolumeHandler, or a call that sends   *)
(* no request and may take the plugin down: the invariants of the handlers *)
(* hold here as well.                                                      *)
(***************************************************************************)
EXTENDS CsiDriver, VolumeAckProofs

\* A call that is refused for what it asks for, and no other call with it.
Refused(r) ==
  /\ \A q \in Requests \ {r} : pc'[q] = pc[q] /\ reply'[q] = reply[q] /\ own'[q] = own[q]
  /\ \/ own'[r] = "InvalidArgument"
     \/ call'[r].method = "CreateVolume" /\ call'[r].parameters = "unfit"
     \/ call'[r].method \in {"NodeUnstageVolume", "NodeUnpublishVolume"}

\* A call that the driver answers without a handler's help: it is over, and
\* the calls that were in flight in the same plugin may be lost with it.
\* The reason is the call itself, a fault, or a create without parameters.
Drops(r) ==
  /\ pc[r] = "idle" /\ pc'[r] = "done"
  /\ UNCHANGED <<volumes, names, dirs, markers, req, vol, drawnFor>>
  /\ faults' \in 0..MaxFaults
  /\ pc' \in [Requests -> Steps] /\ reply' \in [Requests -> Replies \cup {NULL}]
  /\ reply'[r] \in {reply[r], "BadRequest", "MethodNotAllowed"}
  /\ faults < MaxFaults \/ NilParameters = TRUE \/ Refused(r)
  /\ \A q \in Requests \ {r} :
       \/ pc'[q] = pc[q] /\ reply'[q] = reply[q] /\ own'[q] = own[q]
       \/ Open(q) /\ reply'[q] = "Lost" /\ pc'[q] \in {pc[q], "done"}

\* A call that sends a request.
Sends(r, h) ==
  /\ pc[r] = "idle"
  /\ UNCHANGED own
  /\ \/ \E n \in Names, parameters \in Parameters, p \in SourcePaths :
          /\ Called(r, [method |-> "CreateVolume", host |-> h, name |-> n,
                        parameters |-> parameters])
          /\ HandleCreate(r, n, p)
          /\ UNCHANGED nodeDirs
     \/ \E id \in Ids :
          /\ Called(r, [method |-> "DeleteVolume", host |-> h, id |-> id])
          /\ HandleDelete(r, id)
          /\ UNCHANGED nodeDirs
     \/ \E id \in Ids, path \in TargetPaths :
          /\ Called(r, [method |-> "NodeStageVolume", host |-> h, id |-> id, path |-> path])
          /\ HandleStage(r, id, h, path)
          /\ MakeDir(h, path)
     \/ \E id \in Ids, path \in TargetPaths :
          /\ Called(r, [method |-> "NodePublishVolume", host |-> h, id |-> id, path |-> path])
          /\ HandlePublish(r, id, NoNode, path)
          /\ MakeDir(h, path)

\* What a call may do to the variables of the driver.
Calls(r) ==
  /\ call' = call \/ \E c \in Call : call' = [call EXCEPT ![r] = c]
  /\ own' \in [Requests -> OwnAnswers \cup {NULL}]
  /\ \/ nodeDirs' = nodeDirs
     \/ \E h \in Hosts, path \in TargetPaths :
          nodeDirs' = [nodeDirs EXCEPT ![h] = nodeDirs[h] \cup {path}]

LEMMA GiveUpDrops ==
  ASSUME CsiTypeOK, NEW r \in Requests, pc[r] = "idle",
         GiveUp(r) \/ (AnswerItself(r, "InvalidArgument") /\ UNCHANGED faults)
  PROVE  Drops(r)
BY BoundsAssumption DEF GiveUp, Fault, AnswerItself, Goto, Drops, Refused, storeVars, backendVars,
                        CsiTypeOK, TypeOK, Steps

LEMMA FinishDrops ==
  ASSUME CsiTypeOK, NEW r \in Requests, pc[r] = "idle",
         NEW code \in {"BadRequest", "MethodNotAllowed"}, Finish(r, code),
         \/ call'[r].method = "CreateVolume" /\ call'[r].parameters = "unfit"
         \/ call'[r].method \in {"NodeUnstageVolume", "NodeUnpublishVolume"},
         UNCHANGED <<storeVars, backendVars, req, vol, drawnFor, faults, own>>
  PROVE  Drops(r)
BY DEF Finish, Goto, Answer, Drops, Refused, storeVars, backendVars, CsiTypeOK,
       TypeOK, Steps, Replies

LEMMA PanicDrops ==
  ASSUME CsiTypeOK, NEW r \in Requests, pc[r] = "idle", NEW h, Panic(r, h), NilParameters
  PROVE  Drops(r)
BY DriverAssumption DEF Panic, InFlight, Open, AfterCancel, Drops, storeVars, backendVars, CsiTypeOK,
       TypeOK, Steps, Replies

LEMMA OwnType ==
  ASSUME own \in [Requests -> OwnAnswers \cup {NULL}], NEW r \in Requests
  PROVE  /\ UNCHANGED own => own' \in [Requests -> OwnAnswers \cup {NULL}]
         /\ \A code \in OwnAnswers : AnswerItself(r, code) =>
              own' \in [Requests -> OwnAnswers \cup {NULL}]
         /\ \A h : Panic(r, h) => own' \in [Requests -> OwnAnswers \cup {NULL}]
BY DEF AnswerItself, Panic, OwnAnswers

\* A call of Docker sends a request or is dropped.
LEMMA CallSendsOrDrops ==
  ASSUME CsiTypeOK, NEW r \in Requests, NEW h \in Hosts, DockerCalls(r, h)
  PROVE  (Sends(r, h) \/ Drops(r)) /\ Calls(r)
<1>1. TypeOK /\ own \in [Requests -> OwnAnswers \cup {NULL}]
  BY DEF CsiTypeOK
<1>2. pc[r] = "idle"
  BY DEF DockerCalls, CreateVolume, DeleteVolume, NodeStageVolume, NodePublishVolume,
         NodeUnstageVolume, NodeUnpublishVolume, Unrouted
<1>3. ASSUME NEW n \in Names, NEW parameters \in Parameters, CreateVolume(r, h, n, parameters)
      PROVE  (Sends(r, h) \/ Drops(r)) /\ Calls(r)
  <2> DEFINE c == [method |-> "CreateVolume", host |-> h, name |-> n, parameters |-> parameters]
  <2>1. Called(r, c) /\ c \in Call /\ UNCHANGED nodeDirs
    BY <1>3 DEF CreateVolume, Call
  <2>2. ASSUME NEW p \in SourcePaths, HandleCreate(r, n, p), UNCHANGED own
        PROVE  Sends(r, h) /\ Calls(r)
    BY <1>1, <1>2, <2>1, <2>2, OwnType DEF Sends, Calls, Called
  <2>3. DefaultPath[n] \in SourcePaths
    BY DriverAssumption
  <2>4. CASE GiveUp(r)
    BY <1>1, <1>2, <2>1, <2>4, GiveUpDrops, OwnType DEF GiveUp, Calls, Called, OwnAnswers
  <2>5. CASE NilParameters /\ Panic(r, h)
    BY <1>1, <1>2, <2>1, <2>5, PanicDrops, OwnType DEF Calls, Called
  <2>6. CASE /\ parameters = "unfit" /\ Finish(r, "BadRequest")
             /\ UNCHANGED <<storeVars, backendVars, req, vol, drawnFor, faults, own>>
    <3>1. call'[r].method = "CreateVolume" /\ call'[r].parameters = "unfit"
      BY <2>1, <2>6 DEF Called, CsiTypeOK
    <3> QED
      BY <1>1, <1>2, <2>1, <2>6, <3>1, FinishDrops, OwnType DEF Calls, Called
  <2> QED
    BY <1>3, <2>2, <2>3, <2>4, <2>5, <2>6 DEF CreateVolume
<1>4. ASSUME NEW id \in Ids, DeleteVolume(r, h, id)
      PROVE  (Sends(r, h) \/ Drops(r)) /\ Calls(r)
  <2>1. PICK c \in Call : c = [method |-> "DeleteVolume", host |-> h, id |-> id]
                          /\ Called(r, c) /\ UNCHANGED nodeDirs
    BY <1>4 DEF DeleteVolume, Call
  <2>2. CASE GiveUp(r)
    BY <1>1, <1>2, <2>1, <2>2, GiveUpDrops, OwnType DEF GiveUp, Calls, Called, OwnAnswers
  <2>3. CASE HandleDelete(r, id) /\ UNCHANGED own
    BY <1>1, <1>2, <2>1, <2>3, OwnType DEF Sends, Calls, Called
  <2> QED
    BY <1>4, <2>2, <2>3 DEF DeleteVolume
<1>5. ASSUME NEW id \in Ids, NEW path \in TargetPaths,
             NodeStageVolume(r, h, id, path) \/ NodePublishVolume(r, h, id, path)
      PROVE  (Sends(r, h) \/ Drops(r)) /\ Calls(r)
  <2>1. PICK method \in {"NodeStageVolume", "NodePublishVolume"} :
          /\ Called(r, [method |-> method, host |-> h, id |-> id, path |-> path])
          /\ MakeDir(h, path) \/ UNCHANGED nodeDirs
    BY <1>5 DEF NodeStageVolume, NodePublishVolume
  <2>2. \E c \in Call : call' = [call EXCEPT ![r] = c]
    BY <2>1 DEF Called, Call
  <2>3. CASE GiveUp(r)
    BY <1>1, <1>2, <2>1, <2>2, <2>3, GiveUpDrops, OwnType
    DEF GiveUp, Calls, MakeDir, OwnAnswers
  <2>4. CASE ~GiveUp(r)
    BY <1>1, <1>2, <1>5, <2>1, <2>2, <2>4, OwnType
    DEF NodeStageVolume, NodePublishVolume, PublishVolume, Sends, Calls, MakeDir
  <2> QED
    BY <2>3, <2>4
<1>6. ASSUME NEW id \in Ids, NEW path \in TargetPaths,
             NodeUnstageVolume(r, h, id, path) \/ NodeUnpublishVolume(r, h, id, path)
      PROVE  (Sends(r, h) \/ Drops(r)) /\ Calls(r)
  <2>1. PICK method \in {"NodeUnstageVolume", "NodeUnpublishVolume"} :
          Unrouted(r, h, method, id, path)
    BY <1>6 DEF NodeUnstageVolume, NodeUnpublishVolume
  <2>2. \E c \in Call : call' = [call EXCEPT ![r] = c]
    BY <2>1 DEF Unrouted, Called, Call
  <2>3. call'[r].method \in {"NodeUnstageVolume", "NodeUnpublishVolume"}
    BY <2>1 DEF Unrouted, Called, CsiTypeOK
  <2> QED
    BY <1>1, <1>2, <2>1, <2>2, <2>3, FinishDrops, OwnType DEF Unrouted, Calls
<1> QED
  BY <1>3, <1>4, <1>5, <1>6 DEF DockerCalls

-----------------------------------------------------------------------------
(***************************************************************************)
(* The invariants of the handlers hold under the driver, too.              *)
(***************************************************************************)
HandlerInv == IndInv /\ AckInv /\ Kinds

LEMMA DropsKeepHandlers ==
  ASSUME HandlerInv, NEW r \in Requests, Drops(r)
  PROVE  HandlerInv'
<1>1. IndInv /\ AckInv /\ Kinds /\ pc[r] = "idle" /\ req[r] = NULL
  BY DEF HandlerInv, Drops, Kinds, KindOK
<1>2. \A q \in Requests : pc'[q] \in {pc[q], "done"}
  BY DEF Drops
<1>3. TypeOK'
  BY <1>1 DEF Drops, IndInv, TypeOK, StoreTypeOK, BackendTypeOK
<1>4. Locals'
  BY <1>1, <1>2 DEF Drops, IndInv, Locals, LocalsOK, HoldsVolume
<1>5. IndInv'
  BY <1>1, <1>3, <1>4, StoreUntouched DEF Drops, storeVars
<1>6. ASSUME NEW q \in Requests
      PROVE  RepliesOK(q)' /\ (reply'[q] = "Created" => reply[q] = "Created")
  BY <1>1, <1>6 DEF Drops, AckInv, RepliesOK, EarlyReplies
<1>7. Settled
  BY <1>1 DEF Drops, Settled, Open
<1>8. AckInv'
  BY <1>1, <1>6, <1>7, NoLossKeeps DEF NoLoss, Drops
<1>9. Kinds'
  <2> SUFFICES ASSUME NEW q \in Requests PROVE KindOK(q)'
    BY DEF Kinds
  <2> QED
    BY <1>1 DEF Drops, Kinds, KindOK, Open
<1> QED
  BY <1>5, <1>8, <1>9 DEF HandlerInv

LEMMA HandlersStep ==
  ASSUME HandlerInv, [Next]_vars
  PROVE  HandlerInv'
BY NextIndInv, AckStep, StepKeepsKinds DEF HandlerInv

LEMMA SendsIsArrive ==
  ASSUME NEW r \in Requests, NEW h \in Hosts, Sends(r, h)
  PROVE  Arrive(r) /\ Next
<1>1. h \in Nodes /\ NoNode \in Nodes
  BY DriverAssumption DEF Hosts
<1>2. Arrive(r)
  BY <1>1 DEF Sends, Arrive
<1> QED
  BY <1>2 DEF Next

\* Every step is a step of the handlers, or drops a call.
LEMMA StepsOfDriver ==
  ASSUME CsiTypeOK, [CsiNext]_csiVars
  PROVE  \/ \E r \in Requests, h \in Hosts : Sends(r, h) /\ Calls(r)
         \/ \E r \in Requests : Drops(r) /\ Calls(r)
         \/ \E r \in Requests : Advance(r) /\ UNCHANGED driverVars
         \/ \E R \in SUBSET Requests : Crash(R) /\ UNCHANGED driverVars
         \/ UNCHANGED csiVars
<1>1. ASSUME NEW r \in Requests, RejectCall(r)
      PROVE  Drops(r) /\ Calls(r)
  <2>1. TypeOK /\ own \in [Requests -> OwnAnswers \cup {NULL}]
    BY DEF CsiTypeOK
  <2> QED
    BY <1>1, <2>1, GiveUpDrops, OwnType DEF RejectCall, Calls, OwnAnswers
<1>2. ASSUME ManagerStep
      PROVE  \/ \E r \in Requests : Advance(r) /\ UNCHANGED driverVars
             \/ \E R \in SUBSET Requests : Crash(R) /\ UNCHANGED driverVars
             \/ UNCHANGED csiVars
  BY <1>2 DEF ManagerStep, Terminated, csiVars
<1> QED
  BY <1>1, <1>2, CallSendsOrDrops DEF CsiNext

-----------------------------------------------------------------------------
\* The types.
LEMMA CallsTypes ==
  ASSUME CsiTypeOK, NEW r \in Requests, Calls(r)
  PROVE  /\ call' \in [Requests -> Call \cup {NULL}]
         /\ own' \in [Requests -> OwnAnswers \cup {NULL}]
         /\ nodeDirs' \in [Hosts -> SUBSET TargetPaths]
         /\ \A q \in Requests \ {r} : call'[q] = call[q]
         /\ \A h \in Hosts : nodeDirs[h] \subseteq nodeDirs'[h]
<1>1. /\ call \in [Requests -> Call \cup {NULL}]
      /\ nodeDirs \in [Hosts -> SUBSET TargetPaths]
  BY DEF CsiTypeOK
<1>2. /\ call' \in [Requests -> Call \cup {NULL}]
      /\ own' \in [Requests -> OwnAnswers \cup {NULL}]
      /\ \A q \in Requests \ {r} : call'[q] = call[q]
  BY <1>1 DEF Calls
<1>3. /\ nodeDirs' \in [Hosts -> SUBSET TargetPaths]
      /\ \A h \in Hosts : nodeDirs[h] \subseteq nodeDirs'[h]
  <2>1. CASE nodeDirs' = nodeDirs
    BY <1>1, <2>1
  <2>2. ASSUME NEW h \in Hosts, NEW path \in TargetPaths,
               nodeDirs' = [nodeDirs EXCEPT ![h] = nodeDirs[h] \cup {path}]
        PROVE  /\ nodeDirs' \in [Hosts -> SUBSET TargetPaths]
               /\ \A g \in Hosts : nodeDirs[g] \subseteq nodeDirs'[g]
    BY <1>1, <2>2
  <2> QED
    BY <2>1, <2>2 DEF Calls
<1> QED
  BY <1>2, <1>3

LEMMA CsiHandlersStep ==
  ASSUME CsiTypeOK, HandlerInv, [CsiNext]_csiVars
  PROVE  HandlerInv' /\ CsiTypeOK'
<1>1. HandlerInv'
  <2>1. (\E r \in Requests : Drops(r)) => HandlerInv'
    BY DropsKeepHandlers
  <2>2. [Next]_vars => HandlerInv'
    BY HandlersStep
  <2>3. ASSUME NEW r \in Requests, NEW h \in Hosts, Sends(r, h) PROVE Next
    BY <2>3, SendsIsArrive
  <2>4. ASSUME NEW r \in Requests, Advance(r) PROVE Next
    BY <2>4 DEF Next
  <2>5. ASSUME NEW R \in SUBSET Requests, Crash(R) PROVE Next
    BY <2>5 DEF Next
  <2> QED
    BY <2>1, <2>2, <2>3, <2>4, <2>5, StepsOfDriver DEF csiVars
<1>2. TypeOK'
  BY <1>1 DEF HandlerInv, IndInv
<1>3. ASSUME UNCHANGED driverVars
      PROVE  CsiTypeOK'
  BY <1>2, <1>3 DEF driverVars, CsiTypeOK
<1>4. ASSUME NEW r \in Requests, Calls(r)
      PROVE  CsiTypeOK'
  BY <1>2, <1>4, CallsTypes DEF CsiTypeOK
<1>5. UNCHANGED csiVars => UNCHANGED driverVars
  BY DEF csiVars
<1> QED
  BY <1>1, <1>3, <1>4, <1>5, StepsOfDriver

-----------------------------------------------------------------------------
(***************************************************************************)
(* What a call and the request that it sends have to do with each other.   *)
(***************************************************************************)

\* The node's plugin made the path before it sent the request.
PathMade(r) ==
  /\ call[r].host \in Hosts /\ call[r].path \in nodeDirs[call[r].host]
  /\ call[r].id = req[r].id /\ call[r].path = req[r].path

Matches(r) ==
  \/ req[r].op = "create" /\ call[r].method = "CreateVolume" /\ vol[r].name = call[r].name
  \/ req[r].op = "delete" /\ call[r].method = "DeleteVolume" /\ call[r].id = req[r].id
  \/ req[r].op = "stage" /\ call[r].method = "NodeStageVolume" /\ PathMade(r)
  \/ req[r].op = "publish" /\ call[r].method = "NodePublishVolume" /\ PathMade(r)

CallOK(r) ==
  /\ pc[r] = "idle" => call[r] = NULL /\ own[r] = NULL /\ reply[r] = NULL
  /\ req[r] # NULL => call[r] # NULL /\ Matches(r)
  /\ reply[r] \in {"Created", "OK", "NotFound"} => req[r] # NULL

\* A request that is answered 200 has done its work on the manager's host.
HostOK(r) ==
  req[r] # NULL /\ (pc[r] \in {"UpdateGet", "UpdatePut"} \/ reply[r] = "OK") =>
    /\ req[r].op = "stage" => req[r].path \in dirs
    /\ req[r].op = "publish" => markers[req[r].path] # NULL

\* Every create draws an ID of its own.
CreatesApart ==
  \A r, q \in Requests :
    req[r] # NULL /\ req[q] # NULL /\ req[r].op = "create" /\ req[q].op = "create" =>
      r = q \/ req[r].id # req[q].id

CallsInv == CreatesApart /\ \A r \in Requests : CallOK(r) /\ HostOK(r) /\ Drawn(r)

LEMMA CallsInit == CsiInit => CsiTypeOK /\ HandlerInv /\ CallsInv
<1> SUFFICES ASSUME CsiInit PROVE CsiTypeOK /\ HandlerInv /\ CallsInv
  OBVIOUS
<1>1. Init
  BY DEF CsiInit
<1>2. HandlerInv
  BY <1>1, InitIndInv, AckInit, EntryInit DEF HandlerInv, EntryInv
<1>3. CsiTypeOK
  BY <1>2 DEF CsiInit, CsiTypeOK, HandlerInv, IndInv
<1>4. CallsInv
  BY BoundsAssumption DEF CsiInit, Init, CallsInv, CreatesApart, CallOK, HostOK, Drawn, Replies
<1> QED
  BY <1>2, <1>3, <1>4

\* What a step leaves as it is, or only adds to.
Keeps ==
  /\ HandlerInv /\ CsiTypeOK /\ CallsInv /\ Grows
  /\ \A h \in Hosts : nodeDirs[h] \subseteq nodeDirs'[h]

LEMMA CallStays ==
  ASSUME Keeps, NEW q \in Requests, call'[q] = call[q], req'[q] = req[q],
         pc'[q] = "idle" => pc[q] = "idle" /\ own'[q] = own[q] /\ reply'[q] = reply[q],
         req[q] # NULL /\ req[q].op = "create" => vol'[q] = vol[q],
         reply'[q] \in {"Created", "OK", "NotFound"} => reply'[q] = reply[q] \/ req[q] # NULL,
         \/ HostOK(q)'
         \/ pc[q] \in {"UpdateGet", "UpdatePut"} \/ reply[q] = "OK"
         \/ pc'[q] \notin {"UpdateGet", "UpdatePut"} /\ reply'[q] # "OK"
  PROVE  CallOK(q)' /\ HostOK(q)' /\ Drawn(q)'
<1>1. CallOK(q) /\ HostOK(q) /\ Drawn(q) /\ KindOK(q)
  BY DEF Keeps, CallsInv, HandlerInv, Kinds
<1>2. req[q] # NULL => req[q].id \in Ids
  BY DEF Keeps, HandlerInv, IndInv, TypeOK, Request
<1>3. Drawn(q)'
  BY <1>1, <1>2 DEF Drawn, Keeps, Grows, Settled
<1>4. HostOK(q)'
  BY <1>1 DEF HostOK, KindOK, Keeps, Grows
<1>5. req[q] # NULL => Matches(q)'
  BY <1>1 DEF CallOK, Matches, PathMade, Keeps
<1> QED
  BY <1>1, <1>3, <1>4, <1>5 DEF CallOK

LEMMA AdvanceKeepsCalls ==
  ASSUME Keeps, NEW r \in Requests, Advance(r), UNCHANGED driverVars
  PROVE  CallsInv'
<1>1. /\ IndInv /\ AckInv /\ KindOK(r) /\ RepliesOK(r) /\ UNCHANGED req
      /\ pc[r] \notin {"idle", "done"} /\ pc'[r] # "idle"
      /\ req[r] \in Request /\ req[r] # NULL
      /\ \A q \in Requests \ {r} : pc'[q] = pc[q] /\ vol'[q] = vol[q] /\ reply'[q] = reply[q]
  <2>1. IndInv /\ AckInv /\ KindOK(r) /\ RepliesOK(r)
    BY DEF Keeps, HandlerInv, AckInv, Kinds
  <2>2. pc[r] \notin {"idle", "done"} /\ UNCHANGED req
    BY DEF Advance, CreateTxn, DeleteGet, DeleteTxn, BackendStage, BackendPublish, UpdateGet,
           UpdatePut, ReadFails, WriteFails, WriteSteps, Timeout, Open
  <2>3. req[r] \in Request /\ req[r] # NULL
    BY <2>1, <2>2, BoundsAssumption DEF IndInv, Locals, LocalsOK
  <2>4. \A q \in Requests \ {r} : pc'[q] = pc[q] /\ vol'[q] = vol[q] /\ reply'[q] = reply[q]
    BY <2>1 DEF Advance, CreateTxn, DeleteGet, DeleteTxn, BackendStage, BackendPublish,
                UpdateGet, UpdatePut, ReadFails, WriteFails, Timeout, Finish, Goto, Answer,
                IndInv, TypeOK
  <2>5. pc'[r] # "idle"
    BY <2>1, <2>2
    DEF Advance, CreateTxn, DeleteGet, DeleteTxn, BackendStage, BackendPublish, AfterBackend,
        UpdateGet, UpdatePut, ReadFails, WriteFails, Timeout, AfterCancel, Finish, Goto,
        IndInv, TypeOK
  <2> QED
    BY <2>1, <2>2, <2>3, <2>4, <2>5
<1>2. CreatesApart'
  BY <1>1 DEF CreatesApart, Keeps, CallsInv
<1>3. ASSUME NEW q \in Requests \ {r}
      PROVE  CallOK(q)' /\ HostOK(q)' /\ Drawn(q)'
  BY <1>1, <1>3, CallStays DEF driverVars
<1>4. req[r].op = "create" => vol'[r] = vol[r]
  BY <1>1 DEF Advance, CreateTxn, DeleteGet, DeleteTxn, BackendStage, BackendPublish,
              UpdateGet, UpdatePut, ReadFails, WriteFails, Timeout, KindOK, RepliesOK
<1>5. \/ HostOK(r)'
      \/ pc[r] \in {"UpdateGet", "UpdatePut"} \/ reply[r] = "OK"
      \/ pc'[r] \notin {"UpdateGet", "UpdatePut"} /\ reply'[r] # "OK"
  <2>1. CASE CreateTxn(r) \/ DeleteGet(r) \/ DeleteTxn(r)
    <3>1. req[r].op \in {"create", "delete"}
      <4>1. LocalsOK(r) /\ pc[r] \in {"CreateTxn", "DeleteGet", "DeleteTxn"}
        BY <1>1, <2>1 DEF CreateTxn, DeleteGet, DeleteTxn, IndInv, Locals
      <4> QED
        BY <1>1, <4>1 DEF KindOK, RepliesOK
    <3> QED
      BY <1>1, <3>1 DEF HostOK
  <2>2. CASE BackendStage(r)
    <3>1. CASE Stage(vol[r], req[r].path)
      BY <1>1, <2>2, <3>1 DEF HostOK, BackendStage, Stage, KindOK
    <3>2. CASE Finish(r, "InternalError")
      BY <1>1, <3>2, FinishDoes
    <3> QED
      BY <2>2, <3>1, <3>2 DEF BackendStage
  <2>3. CASE BackendPublish(r)
    <3>1. CASE Publish(vol[r], req[r].path)
      <4>1. req[r].path \in TargetPaths /\ vol[r].path # NULL
        BY <1>1, <2>3, NullAssumption
        DEF BackendPublish, IndInv, Locals, LocalsOK, HoldsVolume, Volume
      <4>2. markers'[req[r].path] # NULL
        BY <1>1, <3>1, <4>1 DEF Publish, IndInv, TypeOK, BackendTypeOK
      <4> QED
        BY <1>1, <2>3, <4>2 DEF HostOK, BackendPublish, KindOK
    <3>2. CASE Finish(r, "InternalError")
      BY <1>1, <3>2, FinishDoes
    <3> QED
      BY <2>3, <3>1, <3>2 DEF BackendPublish
  <2>4. CASE UpdateGet(r) \/ UpdatePut(r)
    BY <2>4 DEF UpdateGet, UpdatePut
  <2>5. CASE ReadFails(r)
    <3>1. CASE pc[r] = "DeleteGet"
      <4>1. Finish(r, "InternalError")
        BY <2>5, <3>1 DEF ReadFails, ErrorReply
      <4> QED
        BY <1>1, <4>1, FinishDoes
    <3> QED
      BY <2>5, <3>1 DEF ReadFails
  <2>6. CASE WriteFails(r)
    BY <1>1, <2>6 DEF WriteFails, WriteSteps, Answer, ErrorReply, IndInv, TypeOK
  <2>7. CASE Timeout(r)
    BY <1>1, <2>7 DEF Timeout, Open, Answer, Goto, AfterCancel, IndInv, TypeOK
  <2> QED
    BY <2>1, <2>2, <2>3, <2>4, <2>5, <2>6, <2>7 DEF Advance
<1>6. CallOK(r)' /\ HostOK(r)' /\ Drawn(r)'
  BY <1>1, <1>4, <1>5, CallStays DEF driverVars
<1> QED
  BY <1>2, <1>3, <1>6 DEF CallsInv

LEMMA CrashKeepsCalls ==
  ASSUME Keeps, NEW R \in SUBSET Requests, Crash(R), UNCHANGED driverVars
  PROVE  CallsInv'
<1>1. /\ \A q \in Requests : \/ pc'[q] = pc[q] /\ reply'[q] = reply[q]
                             \/ pc'[q] \in {pc[q], "done"} /\ reply'[q] = "Lost" /\ Open(q)
      /\ UNCHANGED <<req, vol>>
  BY DEF Crash
<1>2. CreatesApart'
  BY <1>1 DEF CreatesApart, Keeps, CallsInv
<1>3. ASSUME NEW q \in Requests
      PROVE  CallOK(q)' /\ HostOK(q)' /\ Drawn(q)'
  BY <1>1, <1>3, CallStays DEF driverVars, Open
<1> QED
  BY <1>2, <1>3 DEF CallsInv

LEMMA DropsKeepCalls ==
  ASSUME Keeps, NEW r \in Requests, Drops(r), Calls(r)
  PROVE  CallsInv'
<1>1. UNCHANGED <<req, vol>> /\ pc[r] = "idle" /\ req[r] = NULL /\ reply[r] = NULL
  BY DEF Drops, Keeps, HandlerInv, Kinds, KindOK, CallsInv, CallOK
<1>2. CreatesApart'
  BY <1>1 DEF CreatesApart, Keeps, CallsInv
<1>3. ASSUME NEW q \in Requests \ {r}
      PROVE  CallOK(q)' /\ HostOK(q)' /\ Drawn(q)'
  <2>1. call'[q] = call[q]
    BY <1>3, CallsTypes DEF Keeps
  <2>2. CASE pc'[q] = pc[q] /\ reply'[q] = reply[q] /\ own'[q] = own[q]
    BY <1>1, <1>3, <2>1, <2>2, CallStays
  <2>3. CASE Open(q) /\ reply'[q] = "Lost" /\ pc'[q] \in {pc[q], "done"}
    BY <1>1, <1>3, <2>1, <2>3, CallStays DEF Open
  <2> QED
    BY <1>3, <2>2, <2>3 DEF Drops
<1>4. CallOK(r)' /\ HostOK(r)' /\ Drawn(r)'
  BY <1>1, BoundsAssumption DEF Drops, CallOK, HostOK, Drawn, Replies
<1> QED
  BY <1>2, <1>3, <1>4 DEF CallsInv

LEMMA SendsKeepCalls ==
  ASSUME Keeps, NEW r \in Requests, NEW h \in Hosts, Sends(r, h), Calls(r)
  PROVE  CallsInv'
<1>1. /\ pc[r] = "idle" /\ req[r] = NULL /\ reply[r] = NULL /\ IndInv /\ AckInv
      /\ call \in [Requests -> Call \cup {NULL}] /\ nodeDirs \in [Hosts -> SUBSET TargetPaths]
  BY DEF Sends, Keeps, HandlerInv, Kinds, KindOK, CallsInv, CallOK, CsiTypeOK
<1>2. \A q \in Requests \ {r} :
        /\ pc'[q] = pc[q] /\ reply'[q] = reply[q] /\ req'[q] = req[q] /\ vol'[q] = vol[q]
        /\ call'[q] = call[q] /\ own'[q] = own[q]
  <2>1. \A q \in Requests \ {r} : call'[q] = call[q] /\ own'[q] = own[q]
    BY CallsTypes DEF Keeps, Sends
  <2>2. \A q \in Requests \ {r} :
          pc'[q] = pc[q] /\ reply'[q] = reply[q] /\ req'[q] = req[q] /\ vol'[q] = vol[q]
    BY <1>1 DEF Sends, HandleCreate, HandleDelete, HandleStage, HandlePublish, BeginAttach,
                Finish, Goto, Answer, IndInv, TypeOK
  <2> QED
    BY <2>1, <2>2
<1>3. ASSUME NEW q \in Requests \ {r}
      PROVE  CallOK(q)' /\ HostOK(q)' /\ Drawn(q)'
  BY <1>2, <1>3, CallStays
\* What is left to show, once it is clear what r's handler has done.
<1>4. ASSUME pc'[r] # "idle",
             pc'[r] \notin {"UpdateGet", "UpdatePut"} /\ reply'[r] \notin {"OK", "Created"},
             reply'[r] = "NotFound" => req'[r] # NULL,
             req'[r] # NULL => call'[r] # NULL /\ Matches(r)' /\ drawnFor'[req'[r].id] # NULL,
             CreatesApart'
      PROVE  CallsInv'
  BY <1>3, <1>4 DEF CallsInv, CallOK, HostOK, Drawn
<1>5. ASSUME NEW code \in {"Conflict", "NotFound"}, Finish(r, code)
      PROVE  pc'[r] = "done" /\ reply'[r] = code
  BY <1>1, <1>5, FinishDoes
<1>6. ASSUME NEW n \in Names, NEW parameters \in Parameters, NEW p \in SourcePaths,
             Called(r, [method |-> "CreateVolume", host |-> h, name |-> n,
                        parameters |-> parameters]),
             HandleCreate(r, n, p)
      PROVE  CallsInv'
  <2>1. CASE Finish(r, "Conflict") /\ UNCHANGED <<req, vol, drawnFor>>
    BY <1>1, <1>4, <1>5, <2>1 DEF CreatesApart, Keeps, CallsInv
  <2>2. ASSUME NEW id \in Ids, drawnFor[id] = NULL, drawnFor' = [drawnFor EXCEPT ![id] = n],
               req' = [req EXCEPT ![r] =
                         [op |-> "create", id |-> id, node |-> NULL, path |-> NULL]],
               vol' = [vol EXCEPT ![r] = NewVolume(n, p)],
               Goto(r, "CreateTxn"), UNCHANGED reply
        PROVE  CallsInv'
    <3>1. /\ req'[r].op = "create" /\ req'[r].id = id /\ vol'[r].name = n
          /\ pc'[r] = "CreateTxn" /\ reply'[r] = NULL /\ drawnFor'[id] # NULL
      BY <1>1, <2>2, NullAssumption DEF Goto, IndInv, TypeOK, NewVolume
    <3>2. call'[r].method = "CreateVolume" /\ call'[r].name = n /\ call'[r] # NULL
      <4>1. [method |-> "CreateVolume", host |-> h, name |-> n, parameters |-> parameters] \in Call
        BY DEF Call
      <4> QED
        BY <1>1, <1>6, <4>1, CallAssumption DEF Called
    <3>3. \A q \in Requests \ {r} : req[q] # NULL => req[q].id # id
      BY <2>2 DEF Keeps, CallsInv, Drawn
    <3>4. CreatesApart'
      BY <1>2, <3>1, <3>3 DEF CreatesApart, Keeps, CallsInv
    <3>5. Matches(r)'
      BY <3>1, <3>2 DEF Matches
    <3> QED
      BY <1>4, <3>1, <3>2, <3>4, <3>5, BoundsAssumption DEF Replies
  <2> QED
    BY <1>6, <2>1, <2>2 DEF HandleCreate
<1>7. ASSUME NEW id \in Ids,
             Called(r, [method |-> "DeleteVolume", host |-> h, id |-> id]),
             HandleDelete(r, id)
      PROVE  CallsInv'
  <2>1. req'[r].op = "delete" /\ req'[r].id = id /\ drawnFor'[id] # NULL /\ req'[r] # NULL
    <3>1. [op |-> "delete", id |-> id, node |-> NULL, path |-> NULL] \in Request
      BY DEF Request
    <3> QED
      BY <1>1, <1>7, <3>1, BoundsAssumption DEF HandleDelete, Known, IndInv, TypeOK
  <2>2. call'[r].method = "DeleteVolume" /\ call'[r].id = id /\ call'[r] # NULL
    <3>1. [method |-> "DeleteVolume", host |-> h, id |-> id] \in Call
      BY DEF Call
    <3> QED
      BY <1>1, <1>7, <3>1, CallAssumption DEF Called
  <2>3. CreatesApart'
    BY <1>2, <2>1 DEF CreatesApart, Keeps, CallsInv
  <2>4. Matches(r)'
    BY <2>1, <2>2 DEF Matches
  <2>5. \/ \E code \in {"Conflict", "NotFound"} : pc'[r] = "done" /\ reply'[r] = code
        \/ pc'[r] = "DeleteGet" /\ reply'[r] = NULL
    BY <1>1, <1>5, <1>7, GotoDoes DEF HandleDelete
  <2> QED
    BY <1>4, <2>1, <2>2, <2>3, <2>4, <2>5, BoundsAssumption DEF Replies
<1>8. ASSUME NEW method, NEW op, NEW id \in Ids, NEW node \in Nodes, NEW path \in TargetPaths,
             NEW step, BeginAttach(r, op, id, node, path, step),
             \/ method = "NodeStageVolume" /\ op = "stage" /\ step = "Stage"
             \/ method = "NodePublishVolume" /\ op = "publish" /\ step = "Publish",
             Called(r, [method |-> method, host |-> h, id |-> id, path |-> path]),
             MakeDir(h, path)
      PROVE  CallsInv'
  <2>1. /\ req'[r].op = op /\ req'[r].id = id /\ req'[r].path = path /\ drawnFor'[id] # NULL
        /\ req'[r] # NULL
    <3>1. [op |-> op, id |-> id, node |-> node, path |-> path] \in Request
      BY <1>8 DEF Request
    <3> QED
      BY <1>1, <1>8, <3>1, BoundsAssumption DEF BeginAttach, Known, IndInv, TypeOK
  <2>2. /\ call'[r].method = method /\ call'[r].id = id /\ call'[r].path = path
        /\ call'[r].host = h /\ call'[r] # NULL
    <3>1. [method |-> method, host |-> h, id |-> id, path |-> path] \in Call
      BY <1>8 DEF Call
    <3> QED
      BY <1>1, <1>8, <3>1, CallAssumption DEF Called
  <2>3. path \in nodeDirs'[h]
    BY <1>1, <1>8 DEF MakeDir
  <2>4. CreatesApart'
    BY <1>2, <1>8, <2>1 DEF CreatesApart, Keeps, CallsInv
  <2>5. Matches(r)'
    BY <1>8, <2>1, <2>2, <2>3 DEF Matches, PathMade
  <2>6. \/ pc'[r] = "done" /\ reply'[r] = "NotFound"
        \/ pc'[r] = step /\ reply'[r] = NULL
    BY <1>1, <1>5, <1>8, GotoDoes DEF BeginAttach
  <2> QED
    BY <1>4, <1>8, <2>1, <2>2, <2>4, <2>5, <2>6, BoundsAssumption DEF Replies
<1>9. h \in Nodes /\ NoNode \in Nodes
  BY DriverAssumption DEF Hosts
<1> QED
  BY <1>6, <1>7, <1>8, <1>9 DEF Sends, HandleStage, HandlePublish

LEMMA CallsStep ==
  ASSUME CsiTypeOK, HandlerInv, CallsInv, [CsiNext]_csiVars
  PROVE  CallsInv'
<1>1. ASSUME NEW r \in Requests, NEW h \in Hosts, Sends(r, h), Calls(r)
      PROVE  CallsInv'
  <2>1. Keeps
    BY <1>1, SendsIsArrive, StepGrows, CallsTypes DEF Keeps, HandlerInv
  <2> QED
    BY <1>1, <2>1, SendsKeepCalls
<1>2. ASSUME NEW r \in Requests, Drops(r), Calls(r)
      PROVE  CallsInv'
  <2>1. Grows
    BY <1>2 DEF Drops, Open, Grows, Settled
  <2>2. Keeps
    BY <1>2, <2>1, CallsTypes DEF Keeps
  <2> QED
    BY <1>2, <2>2, DropsKeepCalls
<1>3. ASSUME [Next]_vars, UNCHANGED driverVars
      PROVE  Keeps
  BY <1>3, StepGrows DEF Keeps, HandlerInv, driverVars
<1>4. ASSUME NEW r \in Requests, Advance(r), UNCHANGED driverVars
      PROVE  CallsInv'
  BY <1>3, <1>4, AdvanceKeepsCalls DEF Next
<1>5. ASSUME NEW R \in SUBSET Requests, Crash(R), UNCHANGED driverVars
      PROVE  CallsInv'
  BY <1>3, <1>5, CrashKeepsCalls DEF Next
<1>6. CASE UNCHANGED csiVars
  BY <1>6 DEF csiVars, vars, driverVars, CallsInv, CreatesApart, CallOK, Matches, PathMade,
              HostOK, Drawn
<1> QED
  BY <1>1, <1>2, <1>4, <1>5, <1>6, StepsOfDriver

LEMMA CsiInvariance == CsiSpec => [](CsiTypeOK /\ HandlerInv /\ CallsInv)
<1>1. CsiTypeOK /\ HandlerInv /\ CallsInv /\ [CsiNext]_csiVars
        => (CsiTypeOK /\ HandlerInv /\ CallsInv)'
  BY CsiHandlersStep, CallsStep
<1> QED
  BY <1>1, CallsInit, PTL DEF CsiSpec

\* Every variable keeps its type, and the plugin gives no other answers of
\* its own than the three codes of controller.go and node.go.
THEOREM CsiTypeCorrect == CsiSpec => []CsiTypeOK
BY CsiInvariance, PTL

\* Under the driver, too, the name index never dangles.
THEOREM CsiNameIndexIsSound == CsiSpec => []NameIndexSound
<1>1. HandlerInv => NameIndexSound
  BY DEF HandlerInv, IndInv
<1> QED
  BY <1>1, CsiInvariance, PTL

\* What a call that succeeded tells about its request.
LEMMA SucceededDoes ==
  ASSUME CsiTypeOK, HandlerInv, CallsInv, NEW method \in {"CreateVolume", "DeleteVolume",
         "NodeStageVolume", "NodePublishVolume"},
         NEW r \in Succeeded(method)
  PROVE  /\ r \in Requests /\ call[r].method = method /\ req[r] # NULL
         /\ CallOK(r) /\ HostOK(r) /\ Matches(r)
         /\ reply[r] \in Success(method)
<1>1. r \in Requests /\ call[r] # NULL /\ call[r].method = method /\ AnswerOf(r) = "OK"
  BY DEF Succeeded, CallsOf
<1>2. own[r] \in OwnAnswers \cup {NULL} /\ "OK" # NULL
  BY <1>1, BoundsAssumption DEF CsiTypeOK, Replies
<1>3. reply[r] \in Success(method)
  BY <1>1, <1>2 DEF AnswerOf, OwnAnswers
<1>4. CallOK(r) /\ HostOK(r)
  BY <1>1 DEF CallsInv
<1>5. req[r] # NULL
  BY <1>3, <1>4 DEF CallOK, Success
<1> QED
  BY <1>1, <1>3, <1>4, <1>5 DEF CallOK

\* However often Docker repeats a create whose answer was lost, it never
\* gets two volumes for one name, unless a delete came between
\* (controller.go's CreateVolume and the client's check of the status).
THEOREM NamesGetOneVolume == CsiSpec => []OneVolumePerName
<1>1. ASSUME CsiTypeOK, HandlerInv, CallsInv
      PROVE  OneVolumePerName
  <2> SUFFICES ASSUME NEW r \in Succeeded("CreateVolume"), NEW q \in Succeeded("CreateVolume"),
                      call[r].name = call[q].name, r # q
               PROVE  \E d \in Deletes : drawnFor[req[d].id] = call[r].name
    BY DEF OneVolumePerName
  <2>1. ASSUME NEW s \in Succeeded("CreateVolume")
        PROVE  /\ s \in Requests /\ req[s] # NULL /\ req[s].op = "create"
               /\ vol[s].name = call[s].name
               /\ \/ names[call[s].name] = req[s].id
                  \/ \E d \in Deletes : drawnFor[req[d].id] = call[s].name
    <3>1. s \in Requests /\ req[s] # NULL /\ Matches(s) /\ reply[s] = "Created"
          /\ call[s].method = "CreateVolume"
      BY <1>1, SucceededDoes DEF Success
    <3>2. req[s].op = "create" /\ vol[s].name = call[s].name
      BY <3>1 DEF Matches
    <3> QED
      BY <1>1, <3>1, <3>2 DEF HandlerInv, AckInv, AckedCreateStands
  <2>2. req[r].id # req[q].id
    BY <1>1, <2>1 DEF CallsInv, CreatesApart
  <2> QED
    BY <2>1, <2>2
<1> QED
  BY <1>1, CsiInvariance, PTL

\* A node call that succeeded was carried out on both sides: the plugin has
\* made the path on its node, the manager's backend has staged it or marked
\* it as mounted (node.go's MkdirAll and the client's request).
THEOREM NodeCallsAreCarriedOut == CsiSpec => []NodeCallsCarriedOut
<1>1. ASSUME CsiTypeOK, HandlerInv, CallsInv
      PROVE  NodeCallsCarriedOut
  <2>1. ASSUME NEW r \in Succeeded("NodeStageVolume")
        PROVE  call[r].path \in nodeDirs[call[r].host] \cap dirs
    <3>1. /\ r \in Requests /\ req[r] # NULL /\ Matches(r) /\ HostOK(r) /\ reply[r] = "OK"
          /\ call[r].method = "NodeStageVolume"
      BY <1>1, <2>1, SucceededDoes DEF Success
    <3> QED
      BY <3>1 DEF Matches, PathMade, HostOK
  <2>2. ASSUME NEW r \in Succeeded("NodePublishVolume")
        PROVE  call[r].path \in nodeDirs[call[r].host] /\ markers[call[r].path] # NULL
    <3>1. /\ r \in Requests /\ req[r] # NULL /\ Matches(r) /\ HostOK(r) /\ reply[r] = "OK"
          /\ call[r].method = "NodePublishVolume"
      BY <1>1, <2>2, SucceededDoes DEF Success
    <3> QED
      BY <3>1 DEF Matches, PathMade, HostOK
  <2> QED
    BY <2>1, <2>2 DEF NodeCallsCarriedOut
<1> QED
  BY <1>1, CsiInvariance, PTL

-----------------------------------------------------------------------------
(***************************************************************************)
(* With one call at a time on the volumes of a name, no faults, and        *)
(* parameters in every create.                                             *)
(***************************************************************************)
OneAtATime == Serial /\ NilParameters = FALSE

\* A delete that was answered 404 finds no volume later, either.
GoneOK(r) ==
  req[r] # NULL /\ req[r].op = "delete" /\ reply[r] = "NotFound" => volumes[req[r].id] = NULL

CsiSerialInv ==
  CsiTypeOK /\ HandlerInv /\ CallsInv /\ SerialInv /\ \A r \in Requests : GoneOK(r)

LEMMA CsiSerialInit == CsiInit => CsiSerialInv
<1> SUFFICES ASSUME CsiInit PROVE CsiSerialInv
  OBVIOUS
<1>1. Init /\ SerialInv
  BY SerialInit DEF CsiInit
<1>2. \A r \in Requests : GoneOK(r)
  BY <1>1 DEF Init, GoneOK
<1> QED
  BY <1>1, <1>2, CallsInit DEF CsiSerialInv

\* Nothing fails, so that a call is dropped for what it asks for only.
LEMMA DropsAreRefusals ==
  ASSUME OneAtATime, CsiTypeOK, NEW r \in Requests, Drops(r)
  PROVE  Refused(r)
BY BoundsAssumption DEF OneAtATime, Serial, Drops, CsiTypeOK, TypeOK

LEMMA DropsKeepSerial ==
  ASSUME OneAtATime, CsiSerialInv, NEW r \in Requests, Drops(r)
  PROVE  SerialInv' /\ \A q \in Requests : GoneOK(q)'
<1>1. /\ pc[r] = "idle" /\ req[r] = NULL /\ reply[r] = NULL /\ IndInv /\ SerialInv
      /\ pc'[r] = "done" /\ UNCHANGED <<volumes, names, req, vol, drawnFor>>
      /\ reply'[r] \in {NULL, "BadRequest", "MethodNotAllowed"}
      /\ \A q \in Requests \ {r} : pc'[q] = pc[q] /\ reply'[q] = reply[q]
  BY DropsAreRefusals
  DEF Drops, Refused, CsiSerialInv, HandlerInv, Kinds, KindOK, CallsInv, CallOK
<1>2. reply'[r] \notin {"OK", "NotFound"}
  BY <1>1, BoundsAssumption DEF Replies
<1>3. Own(r) /\ Apart(r)
  BY <1>1 DEF Own, Apart
<1>4. RunOK(r)' /\ CopyOK(r)' /\ Drawn(r)'
  BY <1>1 DEF RunOK, CopyOK, Running, Drawn
<1>5. SerialInv'
  BY <1>1, <1>2, <1>3, <1>4, QuietlyKeeps DEF Locally, storeVars
<1>6. \A q \in Requests : GoneOK(q)'
  BY <1>1, <1>2 DEF GoneOK, CsiSerialInv
<1> QED
  BY <1>5, <1>6

\* A call that comes in for a volume that is not there changes nothing.
LEMMA SendsKeepGone ==
  ASSUME CsiSerialInv, NEW r \in Requests, NEW h \in Hosts, Sends(r, h), NEW q \in Requests
  PROVE  GoneOK(q)'
<1>1. IndInv /\ AckInv /\ pc[r] = "idle" /\ req[r] = NULL /\ reply[r] = NULL /\ GoneOK(q)
  BY DEF Sends, CsiSerialInv, HandlerInv, Kinds, KindOK, CallsInv, CallOK
<1>2. UNCHANGED volumes
  BY DEF Sends, HandleCreate, HandleDelete, HandleStage, HandlePublish, BeginAttach, storeVars
<1>3. CASE q # r
  <2>1. reply'[q] = reply[q] /\ req'[q] = req[q]
    BY <1>1, <1>3 DEF Sends, HandleCreate, HandleDelete, HandleStage, HandlePublish,
                      BeginAttach, Finish, Goto, Answer, IndInv, TypeOK
  <2> QED
    BY <1>1, <1>2, <2>1 DEF GoneOK
<1>4. CASE q = r
  <2>1. ASSUME NEW n \in Names, NEW p \in SourcePaths, HandleCreate(r, n, p)
        PROVE  GoneOK(r)'
    <3>1. CASE Finish(r, "Conflict")
      BY <1>1, <3>1, FinishDoes DEF GoneOK
    <3>2. CASE UNCHANGED reply
      BY <1>1, <3>2, BoundsAssumption DEF GoneOK, Replies
    <3> QED
      BY <2>1, <3>1, <3>2 DEF HandleCreate
  <2>2. ASSUME NEW id \in Ids, HandleDelete(r, id)
        PROVE  GoneOK(r)'
    <3>1. req'[r].id = id
      BY <1>1, <2>2 DEF HandleDelete, IndInv, TypeOK
    <3>2. CASE volumes[id] = NULL
      BY <1>2, <3>1, <3>2 DEF GoneOK
    <3>3. CASE Finish(r, "Conflict")
      BY <1>1, <3>3, FinishDoes DEF GoneOK
    <3>4. CASE UNCHANGED reply
      BY <1>1, <3>4, BoundsAssumption DEF GoneOK, Replies
    <3> QED
      BY <2>2, <3>2, <3>3, <3>4 DEF HandleDelete
  <2>3. ASSUME NEW id \in Ids, NEW node, NEW path \in TargetPaths,
               HandleStage(r, id, node, path) \/ HandlePublish(r, id, node, path)
        PROVE  GoneOK(r)'
    BY <1>1, <2>3 DEF GoneOK, HandleStage, HandlePublish, BeginAttach, IndInv, TypeOK
  <2> QED
    BY <1>4, <2>1, <2>2, <2>3 DEF Sends
<1> QED
  BY <1>3, <1>4

\* The only record that comes into being is that of a new ID: an update puts
\* one that is still there.
LEMMA AdvanceKeepsGone ==
  ASSUME OneAtATime, CsiSerialInv, NEW r \in Requests, Advance(r), NEW q \in Requests
  PROVE  GoneOK(q)'
<1>1. /\ IndInv /\ AckInv /\ SerialInv /\ GoneOK(q) /\ UNCHANGED req
      /\ CopyOK(r) /\ RunOK(r) /\ pc[r] \notin {"idle", "done"} /\ req[r] # NULL
  <2>1. IndInv /\ AckInv /\ SerialInv /\ GoneOK(q) /\ CopyOK(r) /\ RunOK(r)
    BY DEF CsiSerialInv, HandlerInv, SerialInv
  <2>2. UNCHANGED req /\ pc[r] \notin {"idle", "done"}
    BY DEF Advance, CreateTxn, DeleteGet, DeleteTxn, BackendStage, BackendPublish, UpdateGet,
           UpdatePut, ReadFails, WriteFails, WriteSteps, Timeout, Open
  <2> QED
    BY <2>1, <2>2, BoundsAssumption DEF IndInv, Locals, LocalsOK
<1>2. ~ReadFails(r) /\ ~WriteFails(r) /\ ~Timeout(r) /\ ~Fault
  BY <1>1, NoFaults DEF OneAtATime, ReadFails, WriteFails, Timeout
<1>3. reply'[q] = "NotFound" => reply[q] = "NotFound"
  BY <1>1, <1>2
  DEF Advance, CreateTxn, DeleteGet, DeleteTxn, BackendStage, BackendPublish, UpdateGet,
      UpdatePut, Finish, Answer, IndInv, TypeOK
<1>4. ASSUME req[q] # NULL, req[q].op = "delete", reply[q] = "NotFound",
             volumes[req[q].id] = NULL
      PROVE  volumes'[req[q].id] = NULL
  <2>1. req[q].id \in Ids
    BY <1>1, <1>4 DEF IndInv, TypeOK, Request
  <2>2. CASE CreateTxn(r)
    <3>1. req[r].op = "create" /\ req[q].id # req[r].id
      BY <1>1, <1>4, <2>2 DEF CreateTxn, CopyOK
    <3> QED
      BY <1>1, <1>4, <2>1, <2>2, <3>1
      DEF CreateTxn, CommitCreate, storeVars, IndInv, TypeOK, StoreTypeOK
  <2>3. CASE DeleteTxn(r)
    BY <1>1, <1>4, <2>1, <2>3 DEF DeleteTxn, CommitDelete, IndInv, TypeOK, StoreTypeOK
  <2>4. CASE UpdatePut(r)
    <3>1. req[q].id # req[r].id
      BY <1>1, <1>4, <2>4 DEF UpdatePut, CopyOK
    <3> QED
      BY <1>1, <1>4, <2>1, <2>4, <3>1 DEF UpdatePut, PutVolume, IndInv, TypeOK, StoreTypeOK
  <2>5. CASE DeleteGet(r) \/ BackendStage(r) \/ BackendPublish(r) \/ UpdateGet(r)
    BY <1>4, <2>5 DEF DeleteGet, BackendStage, BackendPublish, UpdateGet, storeVars
  <2> QED
    BY <1>2, <2>2, <2>3, <2>4, <2>5 DEF Advance
<1> QED
  BY <1>1, <1>3, <1>4 DEF GoneOK

LEMMA CsiSerialStep ==
  ASSUME OneAtATime, CsiSerialInv, [CsiNext]_csiVars
  PROVE  CsiSerialInv'
<1>1. CsiTypeOK' /\ HandlerInv' /\ CallsInv'
  BY CsiHandlersStep, CallsStep DEF CsiSerialInv
<1>2. Serial /\ IndInv /\ SerialInv
  BY DEF OneAtATime, CsiSerialInv, HandlerInv
<1>3. ASSUME NEW r \in Requests, NEW h \in Hosts, Sends(r, h)
      PROVE  SerialInv' /\ \A q \in Requests : GoneOK(q)'
  BY <1>2, <1>3, SendsIsArrive, SerialNext, SendsKeepGone
<1>4. ASSUME NEW r \in Requests, Advance(r)
      PROVE  SerialInv' /\ \A q \in Requests : GoneOK(q)'
  BY <1>2, <1>4, SerialNext, AdvanceKeepsGone DEF Next
<1>5. ~\E R \in SUBSET Requests : Crash(R)
  BY <1>2, NoFaults DEF Crash
<1>6. ASSUME UNCHANGED csiVars
      PROVE  SerialInv' /\ \A q \in Requests : GoneOK(q)'
  <2>1. UNCHANGED vars
    BY <1>6 DEF csiVars
  <2>2. SerialInv'
    BY <1>2, <2>1, SerialNext
  <2> QED
    BY <2>1, <2>2 DEF vars, CsiSerialInv, GoneOK
<1>7. SerialInv' /\ \A q \in Requests : GoneOK(q)'
  BY <1>3, <1>4, <1>5, <1>6, StepsOfDriver, DropsKeepSerial DEF CsiSerialInv
<1> QED
  BY <1>1, <1>7 DEF CsiSerialInv

LEMMA CsiSerialInvariance ==
  ASSUME OneAtATime
  PROVE  CsiSpec => []CsiSerialInv
<1>1. CsiInit => CsiSerialInv
  BY CsiSerialInit
<1>2. CsiSerialInv /\ [CsiNext]_csiVars => CsiSerialInv'
  BY CsiSerialStep
<1> QED
  BY <1>1, <1>2, PTL DEF CsiSpec

LEMMA DeletedFollows ==
  ASSUME CsiSerialInv, NEW r \in Succeeded("DeleteVolume")
  PROVE  volumes[call[r].id] = NULL
<1>1. /\ r \in Requests /\ req[r] # NULL /\ Matches(r) /\ call[r].method = "DeleteVolume"
      /\ reply[r] \in {"OK", "NotFound"}
  BY SucceededDoes DEF CsiSerialInv, Success
<1>2. req[r].op = "delete" /\ call[r].id = req[r].id
  BY <1>1 DEF Matches
<1> QED
  BY <1>1, <1>2 DEF CsiSerialInv, SerialInv, DeleteIsFinal, GoneOK

\* With one call at a time on a name and no faults, a volume whose delete
\* succeeded is gone for Docker for good (DeleteVolume of controller.go, the
\* client's 404, HandleDelete).
THEOREM DeletedVolumesAreGone ==
  ASSUME OneAtATime
  PROVE  CsiSpec => []DeletedIsGone
<1>1. CsiSerialInv => DeletedIsGone
  BY DeletedFollows DEF DeletedIsGone
<1> QED
  BY <1>1, CsiSerialInvariance, PTL

-----------------------------------------------------------------------------
\* The reasons, method by method.
LEMMA ReasonsAre ==
  ASSUME NEW c
  PROVE  /\ c.method = "CreateVolume" =>
              (Reason(c) <=> \/ c.parameters = "unfit"
                             \/ \E id \in Ids : volumes[id] # NULL /\ volumes[id].name = c.name)
         /\ c.method = "DeleteVolume" =>
              (Reason(c) <=> volumes[c.id] # NULL /\ volumes[c.id].publishedOn # <<>>)
         /\ c.method \in {"NodeStageVolume", "NodePublishVolume"} =>
              (Reason(c) <=> volumes[c.id] = NULL)
         /\ c.method \in {"NodeUnstageVolume", "NodeUnpublishVolume"} => Reason(c)
BY DEF Reason

\* A call fails when it is answered, with an error that came from the plugin
\* or from the manager.
LEMMA FailsHow ==
  ASSUME CsiTypeOK, NEW r \in Requests, Fails(r)
  PROVE  /\ own[r] = NULL /\ reply[r] = NULL
         /\ \/ own'[r] = "Internal"
            \/ own'[r] = NULL /\ reply'[r] # NULL /\ reply'[r] \notin Success(call'[r].method)
         /\ own'[r] # own[r] \/ reply'[r] # reply[r]
<1>1. "OK" # NULL /\ "Internal" # NULL
  BY BoundsAssumption, CallAssumption DEF Replies, OwnAnswers
<1>2. AnswerOf(r) = NULL /\ AnswerOf(r)' = "Internal"
  BY DEF Fails
<1>3. own[r] = NULL /\ reply[r] = NULL
  BY <1>1, <1>2 DEF AnswerOf
<1>4. \/ own'[r] = "Internal"
      \/ own'[r] = NULL /\ reply'[r] # NULL /\ reply'[r] \notin Success(call'[r].method)
  BY <1>1, <1>2 DEF AnswerOf
<1> QED
  BY <1>1, <1>3, <1>4

LEMMA NameTaken ==
  ASSUME IndInv, NEW n \in Names, ~NameIsFree(n)
  PROVE  \E id \in Ids : volumes[id] # NULL /\ volumes[id].name = n
BY DEF IndInv, NameIndexSound, NameIsFree, TypeOK, StoreTypeOK

LEMMA SendsJustified ==
  ASSUME CsiSerialInv, NEW r \in Requests, NEW h \in Hosts, Sends(r, h), Fails(r)
  PROVE  Reason(call'[r])
<1>1. /\ IndInv /\ AckInv /\ reply[r] = NULL /\ own'[r] = NULL
      /\ reply'[r] # NULL /\ reply'[r] \notin Success(call'[r].method)
      /\ call \in [Requests -> Call \cup {NULL}]
  BY FailsHow, CallAssumption DEF CsiSerialInv, HandlerInv, Sends, CsiTypeOK, OwnAnswers
<1>2. ASSUME NEW n \in Names, NEW parameters \in Parameters, NEW p \in SourcePaths,
             Called(r, [method |-> "CreateVolume", host |-> h, name |-> n,
                        parameters |-> parameters]),
             HandleCreate(r, n, p)
      PROVE  Reason(call'[r])
  <2>1. call'[r].method = "CreateVolume" /\ call'[r].name = n
    BY <1>1, <1>2 DEF Called
  <2>2. ~NameIsFree(n)
    BY <1>1, <1>2 DEF HandleCreate
  <2> QED
    BY <1>1, <2>1, <2>2, NameTaken, ReasonsAre
<1>3. ASSUME NEW id \in Ids,
             Called(r, [method |-> "DeleteVolume", host |-> h, id |-> id]),
             HandleDelete(r, id)
      PROVE  Reason(call'[r])
  <2>1. call'[r].method = "DeleteVolume" /\ call'[r].id = id
    BY <1>1, <1>3 DEF Called
  <2>2. reply'[r] # "NotFound"
    BY <1>1, <2>1 DEF Success
  <2>3. ~Finish(r, "NotFound")
    BY <1>1, <2>2, FinishDoes
  <2>4. volumes[id] # NULL /\ volumes[id].publishedOn # <<>>
    BY <1>1, <1>3, <2>3 DEF HandleDelete
  <2> QED
    BY <2>1, <2>4, ReasonsAre
<1>4. ASSUME NEW method \in {"NodeStageVolume", "NodePublishVolume"}, NEW op, NEW id \in Ids,
             NEW node, NEW path, NEW step,
             Called(r, [method |-> method, host |-> h, id |-> id, path |-> path]),
             BeginAttach(r, op, id, node, path, step)
      PROVE  Reason(call'[r])
  <2>1. call'[r].method = method /\ call'[r].id = id
    BY <1>1, <1>4 DEF Called
  <2>2. volumes[id] = NULL
    BY <1>1, <1>4 DEF BeginAttach
  <2> QED
    BY <2>1, <2>2, ReasonsAre
<1> QED
  BY <1>2, <1>3, <1>4 DEF Sends, HandleStage, HandlePublish

LEMMA AdvanceJustified ==
  ASSUME OneAtATime, CsiSerialInv, NEW r \in Requests, Advance(r), UNCHANGED driverVars, Fails(r)
  PROVE  Reason(call'[r])
<1>1. /\ IndInv /\ AckInv /\ SerialInv /\ CopyOK(r) /\ reply[r] = NULL /\ own'[r] = NULL
      /\ reply'[r] # NULL /\ reply'[r] \notin Success(call[r].method) /\ call'[r] = call[r]
  BY FailsHow, CallAssumption
  DEF CsiSerialInv, HandlerInv, SerialInv, driverVars, CsiTypeOK, OwnAnswers
<1>2. ~ReadFails(r) /\ ~WriteFails(r) /\ ~Timeout(r) /\ ~Fault
  BY <1>1, NoFaults DEF OneAtATime, ReadFails, WriteFails, Timeout
<1>3. ASSUME NEW code, Finish(r, code)
      PROVE  reply'[r] = code
  BY <1>1, <1>3, FinishDoes
<1>4. ASSUME pc[r] \notin {"idle", "done"}
      PROVE  req[r] \in Request /\ req[r] # NULL /\ Matches(r)
  BY <1>1, <1>4, BoundsAssumption DEF IndInv, Locals, LocalsOK, CsiSerialInv, CallsInv, CallOK
<1>5. CASE CreateTxn(r)
  <2>1. /\ req[r].op = "create" /\ call[r].method = "CreateVolume" /\ vol[r].name = call[r].name
        /\ vol[r].name \in Names
    BY <1>1, <1>4, <1>5
    DEF CreateTxn, CopyOK, Matches, IndInv, Locals, LocalsOK, HoldsVolume, Volume
  <2>2. ~NameIsFree(vol[r].name)
    BY <1>1, <1>3, <1>5, <2>1 DEF CreateTxn, Success
  <2> QED
    BY <1>1, <2>1, <2>2, NameTaken, ReasonsAre
<1>6. ~DeleteGet(r)
  BY <1>1, <1>3 DEF DeleteGet, CopyOK
<1>7. ~DeleteTxn(r)
  <2> SUFFICES ASSUME DeleteTxn(r) PROVE FALSE
    OBVIOUS
  <2>1. req[r].op = "delete" /\ call[r].method = "DeleteVolume"
    BY <1>1, <1>4 DEF DeleteTxn, CopyOK, Matches
  <2> QED
    BY <1>1, <1>3, <2>1 DEF DeleteTxn, Success
<1>8. ~BackendStage(r) /\ ~BackendPublish(r)
  BY <1>1, <1>2 DEF BackendStage, BackendPublish
<1>9. ~UpdateGet(r) /\ ~UpdatePut(r)
  <2> SUFFICES ASSUME UpdateGet(r) \/ UpdatePut(r) PROVE FALSE
    OBVIOUS
  <2>1. call[r].method \in {"NodeStageVolume", "NodePublishVolume"}
    BY <1>1, <1>4 DEF UpdateGet, UpdatePut, CopyOK, Matches
  <2> QED
    BY <1>1, <1>3, <2>1 DEF UpdateGet, UpdatePut, Success
<1> QED
  BY <1>2, <1>5, <1>6, <1>7, <1>8, <1>9 DEF Advance

LEMMA StepJustified ==
  ASSUME OneAtATime, CsiSerialInv, [CsiNext]_csiVars, NEW r \in Requests, Fails(r)
  PROVE  Reason(call'[r])
<1>1. CsiTypeOK /\ IndInv /\ AckInv
  BY DEF CsiSerialInv, HandlerInv
<1>2. own'[r] # own[r] \/ reply'[r] # reply[r]
  BY <1>1, FailsHow
<1>3. ASSUME NEW p \in Requests, NEW h \in Hosts, Sends(p, h)
      PROVE  Reason(call'[r])
  <2>1. CASE p # r
    <3>1. reply'[r] = reply[r] /\ own'[r] = own[r]
      BY <1>1, <1>3, <2>1
      DEF Sends, HandleCreate, HandleDelete, HandleStage, HandlePublish, BeginAttach, Finish,
          Answer, IndInv, TypeOK
    <3> QED
      BY <1>2, <3>1
  <2> QED
    BY <1>3, <2>1, SendsJustified
<1>4. ASSUME NEW p \in Requests, Drops(p)
      PROVE  Reason(call'[r])
  <2>1. Refused(p) /\ p = r
    BY <1>1, <1>2, <1>4, DropsAreRefusals DEF Refused
  <2>2. own'[r] # "InvalidArgument"
    BY <1>1, FailsHow, CallAssumption DEF OwnAnswers
  <2> QED
    BY <2>1, <2>2, ReasonsAre DEF Refused
<1>5. ASSUME NEW p \in Requests, Advance(p), UNCHANGED driverVars
      PROVE  Reason(call'[r])
  <2>1. CASE p # r
    <3>1. reply'[r] = reply[r] /\ own'[r] = own[r]
      BY <1>1, <1>5, <2>1
      DEF Advance, CreateTxn, DeleteGet, DeleteTxn, BackendStage, BackendPublish, UpdateGet,
          UpdatePut, ReadFails, WriteFails, Timeout, Finish, Answer, IndInv, TypeOK, driverVars
    <3> QED
      BY <1>2, <3>1
  <2> QED
    BY <1>5, <2>1, AdvanceJustified
<1>6. ~\E R \in SUBSET Requests : Crash(R)
  BY <1>1, NoFaults DEF Crash, OneAtATime
<1>7. ~UNCHANGED csiVars
  BY <1>2 DEF csiVars, vars, driverVars
<1> QED
  BY <1>1, <1>3, <1>4, <1>5, <1>6, <1>7, StepsOfDriver

\* With one call at a time on a name and no faults, a call fails only when
\* the name is taken or the parameters do not fit (create), the volume is
\* published (delete), or it does not exist (stage, publish): the errors of
\* store, handler and client add up to no other.
THEOREM FailuresAreJustified ==
  ASSUME OneAtATime
  PROVE  CsiSpec => FailuresJustified
<1>1. CsiSerialInv /\ [CsiNext]_csiVars
        => [\A r \in Requests : Fails(r) => Reason(call'[r])]_csiVars
  BY StepJustified
<1> QED
  BY <1>1, CsiSerialInvariance, PTL DEF CsiSpec, FailuresJustified
=============================================================================
