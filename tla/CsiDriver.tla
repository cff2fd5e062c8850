------------------------------ MODULE CsiDriver ------------------------------
(***************************************************************************)
(* The CSI driver of pkg/driver (controller.go, node.go, client.go) over   *)
(* the volume handlers of VolumeHandler: what a gRPC call of Docker makes  *)
(* of the status code that its HTTP request gets.  A call makes at most    *)
(* one request; the two share their element of Requests.  Every node runs  *)
(* a plugin of its own; Docker sends a call to any of them and may repeat  *)
(* one that failed.  ListVolumes, ValidateVolumeCapabilities and the       *)
(* identity service change nothing and are left out.                       *)
(*                                                                         *)
(* The client's own timeout is as long as the manager's and has the effect *)
(* of Timeout: the request's context is cancelled, the call fails.         *)
(***************************************************************************)
EXTENDS VolumeHandler

CONSTANTS
  NoNode,         \* the node ID "" of a request that does not carry one
  DefaultPath,    \* DefaultPath[n]: "/mnt/volumes/<n>"
  NilParameters   \* TRUE: Docker creates volumes without any parameters too

ASSUME DriverAssumption ==
  /\ NoNode \in Nodes
  /\ DefaultPath \in [Names -> SourcePaths]
  /\ NilParameters \in BOOLEAN

VARIABLES
  call,     \* call[r]: what Docker called, NULL for an idle or invalid call
  own,      \* own[r]: the answer the plugin gave r without the manager's help
  nodeDirs  \* nodeDirs[h]: the directories the plugin of node h has made

driverVars == <<call, own, nodeDirs>>
csiVars == <<vars, driverVars>>

\* The nodes, by the node ID of their plugin.
Hosts == Nodes \ {NoNode}

\* A create's parameters: a path, none but others, parameters the manager
\* rejects (an unknown backend, a bad path), or no map at all.
Parameters == SourcePaths \cup {"pathless", "unfit", "nil"}

Call ==
  [method : {"CreateVolume"}, host : Hosts, name : Names, parameters : Parameters]
  \cup [method : {"DeleteVolume"}, host : Hosts, id : Ids]
  \cup [method : {"NodeStageVolume", "NodePublishVolume",
                  "NodeUnstageVolume", "NodeUnpublishVolume"},
        host : Hosts, id : Ids, path : TargetPaths]

\* The codes of the plugin's own answers.
OwnAnswers == {"InvalidArgument", "Internal", "Unavailable"}

ASSUME CallAssumption == NULL \notin Call \cup OwnAnswers

CsiTypeOK ==
  /\ TypeOK
  /\ call \in [Requests -> Call \cup {NULL}]
  /\ own \in [Requests -> OwnAnswers \cup {NULL}]
  /\ nodeDirs \in [Hosts -> SUBSET TargetPaths]

CsiInit ==
  /\ Init
  /\ call = [r \in Requests |-> NULL]
  /\ own = [r \in Requests |-> NULL]
  /\ nodeDirs = [h \in Hosts |-> {}]

-----------------------------------------------------------------------------
\* Bugs for the mutation checks: a conflict taken for success, and a missing
\* volume taken for an error.
SuccessOrConflict(method) ==
  CASE method = "CreateVolume" -> {"Created", "Conflict"}
    [] method = "DeleteVolume" -> {"OK", "NotFound", "Conflict"}
    [] OTHER -> {"OK"}

SuccessIfFound(method) == IF method = "CreateVolume" THEN {"Created"} ELSE {"OK"}

\* The replies of the manager that the client takes for success.  A delete
\* that finds no volume is one too: the controller is idempotent there.
Success(method) ==
  CASE method = "CreateVolume" -> {"Created"}
    [] method = "DeleteVolume" -> {"OK", "NotFound"}
    [] OTHER -> {"OK"}

\* What Docker gets: an answer of the plugin's own, or what the manager's
\* reply is turned into.
AnswerOf(r) ==
  IF own[r] # NULL THEN own[r]
  ELSE IF reply[r] = NULL THEN NULL
  ELSE IF reply[r] \in Success(call[r].method) THEN "OK"
  ELSE "Internal"

Called(r, c) == call' = [call EXCEPT ![r] = c]

\* The plugin answers without sending a request.
AnswerItself(r, code) ==
  /\ own' = [own EXCEPT ![r] = code]
  /\ Goto(r, "done")
  /\ UNCHANGED <<storeVars, backendVars, req, vol, reply, drawnFor>>

\* The plugin has to give up before anything happens at the manager: its own
\* MkdirAll fails, no connection comes about, or the handler's first request
\* to etcd fails.
GiveUp(r) == Fault /\ AnswerItself(r, "Internal")

\* A name, an ID or a path is missing.
RejectCall(r) ==
  /\ pc[r] = "idle"
  /\ AnswerItself(r, "InvalidArgument")
  /\ UNCHANGED <<faults, call, nodeDirs>>

-----------------------------------------------------------------------------
InFlight(h) == {q \in Requests : Open(q) /\ call[q].host = h}

\* A write to the nil map of a create without parameters: the plugin's
\* process ends, and with it every call in it.
Panic(r, h) ==
  LET lost == InFlight(h) \cup {r}
  IN  /\ own' = [q \in Requests |-> IF q \in lost THEN "Unavailable" ELSE own[q]]
      /\ reply' = [q \in Requests |-> IF q \in InFlight(h) THEN "Lost" ELSE reply[q]]
      /\ pc' = [q \in Requests |-> IF q = r THEN "done"
                                  ELSE IF q \in lost THEN AfterCancel(q) ELSE pc[q]]
      /\ UNCHANGED <<storeVars, backendVars, req, vol, drawnFor, faults>>

CreateVolume(r, h, n, parameters) ==
  /\ pc[r] = "idle"
  /\ MayCall(n)
  /\ Called(r, [method |-> "CreateVolume", host |-> h, name |-> n, parameters |-> parameters])
  /\ \/ /\ parameters = "nil" /\ NilParameters
        /\ Panic(r, h)
     \/ parameters # "nil" /\ GiveUp(r)
     \/ /\ parameters = "unfit"
        /\ Finish(r, "BadRequest")
        /\ UNCHANGED <<storeVars, backendVars, req, vol, drawnFor, faults, own>>
     \/ /\ parameters = "pathless"
        /\ HandleCreate(r, n, DefaultPath[n])
        /\ UNCHANGED own
     \/ /\ parameters \in SourcePaths
        /\ HandleCreate(r, n, parameters)
        /\ UNCHANGED own
  /\ UNCHANGED nodeDirs

DeleteVolume(r, h, id) ==
  /\ pc[r] = "idle"
  /\ Known(id) /\ MayCall(drawnFor[id])
  /\ Called(r, [method |-> "DeleteVolume", host |-> h, id |-> id])
  /\ \/ GiveUp(r)
     \/ HandleDelete(r, id) /\ UNCHANGED own
  /\ UNCHANGED nodeDirs

-----------------------------------------------------------------------------
\* MkdirAll on the node itself.
MakeDir(h, path) == nodeDirs' = [nodeDirs EXCEPT ![h] = @ \cup {path}]

\* A bug for the mutation checks: MkdirAll's error is not looked at.
NodeStageVolumeUnchecked(r, h, id, path) ==
  /\ pc[r] = "idle"
  /\ Known(id) /\ MayCall(drawnFor[id])
  /\ Called(r, [method |-> "NodeStageVolume", host |-> h, id |-> id, path |-> path])
  /\ HandleStage(r, id, h, path) /\ UNCHANGED own
  /\ MakeDir(h, path) \/ UNCHANGED nodeDirs

NodeStageVolume(r, h, id, path) ==
  /\ pc[r] = "idle"
  /\ Known(id) /\ MayCall(drawnFor[id])
  /\ Called(r, [method |-> "NodeStageVolume", host |-> h, id |-> id, path |-> path])
  /\ \/ GiveUp(r) /\ (MakeDir(h, path) \/ UNCHANGED nodeDirs)
     \/ MakeDir(h, path) /\ HandleStage(r, id, h, path) /\ UNCHANGED own

\* The client's publish request carries no node ID.
PublishVolume(r, id, path) == HandlePublish(r, id, NoNode, path)

NodePublishVolume(r, h, id, path) ==
  /\ pc[r] = "idle"
  /\ Known(id) /\ MayCall(drawnFor[id])
  /\ Called(r, [method |-> "NodePublishVolume", host |-> h, id |-> id, path |-> path])
  /\ \/ GiveUp(r) /\ (MakeDir(h, path) \/ UNCHANGED nodeDirs)
     \/ MakeDir(h, path) /\ PublishVolume(r, id, path) /\ UNCHANGED own

\* The client's UnstageVolume and UnpublishVolume send a DELETE for which the
\* manager has no route.
Unrouted(r, h, method, id, path) ==
  /\ pc[r] = "idle"
  /\ Known(id) /\ MayCall(drawnFor[id])
  /\ Called(r, [method |-> method, host |-> h, id |-> id, path |-> path])
  /\ Finish(r, "MethodNotAllowed")
  /\ UNCHANGED <<storeVars, backendVars, req, vol, drawnFor, faults, own, nodeDirs>>

NodeUnstageVolume(r, h, id, path) == Unrouted(r, h, "NodeUnstageVolume", id, path)

NodeUnpublishVolume(r, h, id, path) == Unrouted(r, h, "NodeUnpublishVolume", id, path)

-----------------------------------------------------------------------------
DockerCalls(r, h) ==
  \/ \E n \in Names, parameters \in Parameters : CreateVolume(r, h, n, parameters)
  \/ \E id \in Ids : DeleteVolume(r, h, id)
  \/ \E id \in Ids, path \in TargetPaths :
       \/ NodeStageVolume(r, h, id, path)
       \/ NodePublishVolume(r, h, id, path)
       \/ NodeUnstageVolume(r, h, id, path)
       \/ NodeUnpublishVolume(r, h, id, path)

\* The manager handles the requests, and the faults of VolumeHandler happen.
ManagerStep ==
  /\ \/ \E r \in Requests : Advance(r)
     \/ \E R \in SUBSET Requests : Crash(R)
     \/ Terminated
  /\ UNCHANGED driverVars

CsiNext ==
  \/ \E r \in Requests : RejectCall(r)
  \/ \E r \in Requests, h \in Hosts : DockerCalls(r, h)
  \/ ManagerStep

CsiSpec == CsiInit /\ [][CsiNext]_csiVars

-----------------------------------------------------------------------------
\* The calls of a method that Docker made, and those that succeeded.
CallsOf(method) == {r \in Requests : call[r] # NULL /\ call[r].method = method}
Succeeded(method) == {r \in CallsOf(method) : AnswerOf(r) = "OK"}

\* Docker never gets two volumes for one name, unless it had one deleted in
\* between (or tried to), however often it repeats a create whose answer was
\* lost (controller.go's CreateVolume, the client's check of the status).
OneVolumePerName ==
  \A r, q \in Succeeded("CreateVolume") :
    call[r].name = call[q].name /\ r # q =>
      \E d \in Deletes : drawnFor[req[d].id] = call[r].name

\* A node call that succeeded was carried out on both sides: the plugin has
\* made the path on its node, the manager's backend has staged the path or
\* marked it as mounted (node.go's MkdirAll and the client's request).
NodeCallsCarriedOut ==
  /\ \A r \in Succeeded("NodeStageVolume") :
       call[r].path \in nodeDirs[call[r].host] \cap dirs
  /\ \A r \in Succeeded("NodePublishVolume") :
       call[r].path \in nodeDirs[call[r].host] /\ markers[call[r].path] # NULL

(***************************************************************************)
(* With one call at a time on the volumes of a name, no faults, and        *)
(* parameters in every create:                                             *)
(***************************************************************************)

Fails(r) == AnswerOf(r) = NULL /\ AnswerOf(r)' = "Internal"

\* What may be the matter with a call that fails now.
Reason(c) ==
  CASE c.method = "CreateVolume" ->
         \/ c.parameters = "unfit"
         \/ \E id \in Ids : volumes[id] # NULL /\ volumes[id].name = c.name
    [] c.method = "DeleteVolume" ->
         volumes[c.id] # NULL /\ volumes[c.id].publishedOn # <<>>
    [] c.method \in {"NodeStageVolume", "NodePublishVolume"} -> volumes[c.id] = NULL
    [] OTHER -> TRUE

\* A call fails only for a reason: the name is taken or the parameters do not
\* fit (create), the volume is published (delete), or it does not exist
\* (stage, publish): the errors of store, handler and client add up to that.
FailuresJustified == [][\A r \in Requests : Fails(r) => Reason(call'[r])]_csiVars

\* A volume that was deleted is gone for Docker: no later call brings it
\* back, and none of the ways to a successful answer lies.
DeletedIsGone ==
  \A r \in Succeeded("DeleteVolume") : volumes[call[r].id] = NULL

(***************************************************************************)
(* What the code says of itself and does not do: see the README's findings.*)
(***************************************************************************)

\* "If volume not found, consider it a success (idempotent delete)"
\* (controller.go): a delete fails only if there is a volume to delete.
DeleteIdempotent ==
  [][\A r \in Requests :
       Fails(r) /\ call'[r].method = "DeleteVolume" => volumes[call'[r].id] # NULL]_csiVars

Returns(r) == AnswerOf(r) = NULL /\ AnswerOf(r)' # NULL /\ call'[r] # NULL

\* The successful publishes of a volume.
PublishesOf(id) == {r \in Succeeded("NodePublishVolume") : call[r].id = id}

\* "Volume is still published, unpublish first" (volumes.go): what a refused
\* delete asks for can be done.  When an unpublish on a node that published
\* the volume has returned, its list is shorter than the publishes made it.
UnpublishFirst ==
  [][\A r \in Requests :
       LET c == call'[r]
       IN  /\ Returns(r) /\ c.method = "NodeUnpublishVolume"
           /\ volumes[c.id] # NULL
           /\ \E p \in PublishesOf(c.id) : call[p].host = c.host
           => Len(volumes'[c.id].publishedOn) < Cardinality(PublishesOf(c.id))]_csiVars
=============================================================================
