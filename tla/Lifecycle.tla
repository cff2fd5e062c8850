------------------------------ MODULE Lifecycle ------------------------------
(***************************************************************************)
(* How the processes start, stop and fail: the volume managers             *)
(* (cmd/volume-manager/main.go, pkg/config, NewEtcdStore and Close of      *)
(* pkg/store/etcd.go, Start and Shutdown of pkg/api/server.go), a CSI      *)
(* plugin (cmd/csi-plugin/main.go), and the calls that Docker sends to the *)
(* plugin and the plugin to the managers.                                  *)
(*                                                                         *)
(* What a call does to volumes is the subject of the other modules: here   *)
(* it only arrives, is sent on, and is answered or cut off.  Time is       *)
(* abstract: a timeout is a step that is possible whenever its clock runs. *)
(* A signal that comes before signal.Notify kills the process, as Crash    *)
(* does.  What the processes of one host keep is its disk: a task that is  *)
(* restarted there finds etcd's data directory, one that is started on     *)
(* another host does not.                                                  *)
(***************************************************************************)
EXTENDS Naturals, FiniteSets

CONSTANTS
  Managers,      \* the tasks of the volume manager service
  Calls,         \* calls of Docker to the CSI plugin
  NULL,          \* no value: a variable of the environment unset or no number
  Environments,  \* the environments that the managers may be deployed with
  MaxFaults      \* bound on signals, crashes and lost hosts together

VARIABLES
  env,       \* env[m]: the environment variables of m, never changed
  phase,     \* phase[m]: how far the process of m has come
  member,    \* member[m]: what etcd's cluster and m's data directory know
             \* of m's membership
  plugin,    \* how far the plugin has come
  socket,    \* the socket file of the plugin exists
  call,      \* call[c]: where call c is, or how it ended
  handler,   \* handler[c]: the manager that has a connection busy with c
  faults     \* the signals, crashes and lost hosts so far

managerVars == <<env, phase, member>>
pluginVars == <<plugin, socket>>
callVars == <<call, handler>>
vars == <<managerVars, pluginVars, callVars, faults>>

\* A process that ends by itself, by the error of its server goroutine, by
\* the deadline of Shutdown, by a crash: what a call that waits for it gets.
Causes == {"cleanExit", "serverExit", "deadline", "crash", "pluginExit", "pluginCrash"}

\* What config.Load reads, as far as starting depends on it.
LogLevels == {"debug", "info", "warn", "error"}

Environment ==
  [PORT : Nat \cup {NULL}, LOG_LEVEL : LogLevels \cup {"verbose", NULL},
   ETCD_ENABLED : BOOLEAN \cup {NULL},
   CLUSTER_SIZE : Nat \cup {NULL}, TASK_SLOT : Nat \cup {NULL}]

-----------------------------------------------------------------------------
(***************************************************************************)
(* The configuration and the etcd cluster it describes.                    *)
(***************************************************************************)

\* getEnv, getEnvInt, getEnvBool
Setting(value, default) == IF value = NULL THEN default ELSE value

Port(m) == Setting(env[m].PORT, 9789)
LogLevel(m) == Setting(env[m].LOG_LEVEL, "info")
EtcdEnabled(m) == Setting(env[m].ETCD_ENABLED, FALSE)
ClusterSize(m) == Setting(env[m].CLUSTER_SIZE, 1)
TaskSlot(m) == Setting(env[m].TASK_SLOT, 1)

\* Config.Validate: neither size nor slot is looked at.
Validate(m) == Port(m) \in 1..65535 /\ LogLevel(m) \in LogLevels

\* A bug for the mutation checks: the members are counted from 0.
MembersFromZero(m) == IF ClusterSize(m) > 1 THEN 0..(ClusterSize(m) - 1) ELSE {TaskSlot(m)}

\* The slots named in the initial cluster.
Members(m) == IF ClusterSize(m) > 1 THEN 1..ClusterSize(m) ELSE {TaskSlot(m)}

\* embed.StartEtcd wants to find its own name in the initial cluster.
Startable(m) == Validate(m) /\ (EtcdEnabled(m) => TaskSlot(m) \in Members(m))

\* The managers whose etcd servers make one cluster with that of m.
Peers(m) == {n \in Managers : Startable(n) /\ EtcdEnabled(n) /\ Members(n) = Members(m)}

\* Their etcd servers run.
Running(n) == phase[n] \notin {"down", "failing"}

\* Those that run are enough to elect a leader.
Quorate(m) == 2 * Cardinality({n \in Peers(m) : Running(n)}) > Cardinality(Members(m))

\* "none": m has never been ready; "kept": the cluster knows m, and so does
\* m's data directory; "lost": the directory is gone; "anew": m has begun
\* another one.
Memberships == {"none", "kept", "lost", "anew"}

\* ClusterStateFlagNew: StartEtcd without a data directory asks the others of
\* the initial cluster, and fails with "has already been bootstrapped" when
\* one that runs has m in the directory of its own.
Admitted(m) ==
  member[m] = "lost" => \A n \in Peers(m) \ {m} : Running(n) => member[n] # "kept"

\* Two managers with one name in one cluster are not considered.
ASSUME LifecycleAssumption ==
  /\ IsFiniteSet(Managers) /\ IsFiniteSet(Calls)
  /\ NULL \notin Managers
  /\ MaxFaults \in Nat
  /\ Environments \subseteq [Managers -> Environment]
  /\ \A e \in Environments : \A m, n \in Managers :
       e[m].TASK_SLOT # NULL /\ e[m].TASK_SLOT = e[n].TASK_SLOT => m = n

InFlight(c) == call[c] \in {"plugin", "manager"}

\* Handlers run only in processes that serve, or wait for them in Shutdown.
LifecycleTypeOK ==
  /\ env \in Environments
  /\ phase \in [Managers -> {"down", "failing", "starting", "serving", "stopping", "closing"}]
  /\ member \in [Managers -> Memberships]
  /\ plugin \in {"down", "listening", "stopping"}
  /\ socket \in BOOLEAN
  /\ call \in [Calls -> {"idle", "plugin", "manager", "ok", "failed"} \cup Causes]
  /\ handler \in [Calls -> Managers \cup {NULL}]
  /\ faults \in 0..MaxFaults
  /\ \A c \in Calls : handler[c] # NULL => phase[handler[c]] \in {"serving", "stopping"}

Init ==
  /\ env \in Environments
  /\ phase = [m \in Managers |-> "down"]
  /\ member = [m \in Managers |-> "none"]
  /\ plugin = "down"
  /\ socket = FALSE
  /\ call = [c \in Calls |-> "idle"]
  /\ handler = [c \in Calls |-> NULL]
  /\ faults = 0

-----------------------------------------------------------------------------
(***************************************************************************)
(* A volume manager.                                                       *)
(***************************************************************************)
Enter(m, p) == phase' = [phase EXCEPT ![m] = p] /\ UNCHANGED <<env, member>>

\* The process ends: callers that wait for it see the connection closed.
End(m, cause) ==
  /\ phase' = [phase EXCEPT ![m] = "down"]
  /\ call' = [c \in Calls |-> IF handler[c] = m /\ call[c] = "manager" THEN cause ELSE call[c]]
  /\ handler' = [c \in Calls |-> IF handler[c] = m THEN NULL ELSE handler[c]]
  /\ UNCHANGED <<env, pluginVars>>

\* Swarm starts the task; main loads the configuration and starts etcd.
StartManager(m) ==
  /\ phase[m] = "down"
  /\ \/ /\ Startable(m) /\ (EtcdEnabled(m) => Admitted(m))
        /\ phase' = [phase EXCEPT ![m] = "starting"]
        /\ member' = [member EXCEPT ![m] = IF @ = "lost" THEN "anew" ELSE @]
     \/ /\ ~(Startable(m) /\ (EtcdEnabled(m) => Admitted(m)))
        /\ phase' = [phase EXCEPT ![m] = "failing"]
        /\ UNCHANGED member
  /\ UNCHANGED <<env, pluginVars, callVars, faults>>

\* config.Load or embed.StartEtcd has returned an error: os.Exit(1).
StartFails(m) ==
  /\ phase[m] = "failing"
  /\ End(m, "crash")
  /\ UNCHANGED <<member, faults>>

\* ReadyNotify: the cluster has a leader, through which the member has made
\* itself known.  The memory store waits for nothing.
Ready(m) ==
  /\ phase[m] = "starting"
  /\ EtcdEnabled(m) => Quorate(m)
  /\ phase' = [phase EXCEPT ![m] = "serving"]
  /\ member' = [member EXCEPT ![m] = IF EtcdEnabled(m) /\ @ = "none" THEN "kept" ELSE @]
  /\ UNCHANGED <<env, pluginVars, callVars, faults>>

\* "etcd took too long to start": the 60 s since m's own start are over.
StartTimeout(m) ==
  /\ phase[m] = "starting"
  /\ EtcdEnabled(m)
  /\ End(m, "crash")
  /\ UNCHANGED <<member, faults>>

\* SIGTERM: Shutdown closes the listener.
Signal(m) ==
  /\ phase[m] = "serving"
  /\ faults < MaxFaults
  /\ faults' = faults + 1
  /\ Enter(m, "stopping")
  /\ UNCHANGED <<pluginVars, callVars>>

Busy(m) == \E c \in Calls : handler[c] = m

\* A bug for the mutation checks: Close instead of Shutdown of the server.
ShutdownAtOnce(m) ==
  /\ phase[m] = "stopping"
  /\ Enter(m, "closing")
  /\ UNCHANGED <<pluginVars, callVars, faults>>

\* Shutdown returns nil: no connection is busy.
ShutdownReturns(m) ==
  /\ phase[m] = "stopping"
  /\ ~Busy(m)
  /\ Enter(m, "closing")
  /\ UNCHANGED <<pluginVars, callVars, faults>>

\* A bug for the mutation checks: the error of Shutdown is only logged, and
\* main returns with exit status 0.
DeadlineLogged(m) ==
  /\ phase[m] = "stopping"
  /\ End(m, "cleanExit")
  /\ UNCHANGED <<member, faults>>

\* A bug for the mutation checks: Shutdown with a context that never ends.
DeadlineNever(m) == phase[m] = "none" /\ UNCHANGED vars

\* The 10 s of the context are over: Shutdown returns an error, os.Exit(1)
\* without the deferred Close.
Deadline(m) ==
  /\ phase[m] = "stopping"
  /\ End(m, "deadline")
  /\ UNCHANGED <<member, faults>>

\* The closed listener makes Start return an error in its goroutine, which
\* calls os.Exit(1) if it gets there before main has returned.
ServerExit(m) ==
  /\ phase[m] \in {"stopping", "closing"}
  /\ End(m, "serverExit")
  /\ UNCHANGED <<member, faults>>

\* The deferred Close has stopped etcd; main returns.
CloseStore(m) ==
  /\ phase[m] = "closing"
  /\ End(m, "cleanExit")
  /\ UNCHANGED <<member, faults>>

\* The process crashes or is killed; its task is restarted where it was.
Crash(m) ==
  /\ phase[m] # "down"
  /\ faults < MaxFaults
  /\ faults' = faults + 1
  /\ End(m, "crash")
  /\ UNCHANGED member

\* Its host is lost, and with it the data directory: callers hear nothing and
\* go on waiting, and the task is started on another host.
LoseHost(m) ==
  /\ Running(m) \/ member[m] = "kept"
  /\ faults < MaxFaults
  /\ faults' = faults + 1
  /\ End(m, "manager")
  /\ member' = [member EXCEPT ![m] = IF @ = "none" THEN "none" ELSE "lost"]

-----------------------------------------------------------------------------
(***************************************************************************)
(* The CSI plugin.                                                         *)
(***************************************************************************)

\* A bug for the mutation checks: an old socket file is left where it is.
StaleSocketKept == socket

\* The socket file is still there after os.Remove(addr).
StaleSocket == FALSE

\* Docker starts the plugin; net.Listen fails where a socket file exists.
PluginStart ==
  /\ plugin = "down"
  /\ ~StaleSocket
  /\ plugin' = "listening"
  /\ socket' = TRUE
  /\ UNCHANGED <<managerVars, callVars, faults>>

\* SIGTERM: GracefulStop closes the listener, which removes the socket file.
PluginSignal ==
  /\ plugin = "listening"
  /\ faults < MaxFaults
  /\ faults' = faults + 1
  /\ plugin' = "stopping"
  /\ socket' = FALSE
  /\ UNCHANGED <<managerVars, callVars>>

\* The plugin ends: its callers get an error.
PluginEnds(cause) ==
  /\ plugin' = "down"
  /\ call' = [c \in Calls |-> IF InFlight(c) THEN cause ELSE call[c]]
  /\ UNCHANGED <<managerVars, socket, handler>>

\* A bug for the mutation checks: Stop instead of GracefulStop.
PluginStops ==
  /\ plugin = "stopping"
  /\ PluginEnds("pluginExit")
  /\ UNCHANGED faults

\* GracefulStop has waited for every call, Serve returns, main returns.
PluginExit ==
  /\ plugin = "stopping"
  /\ \A c \in Calls : ~InFlight(c)
  /\ PluginEnds("pluginExit")
  /\ UNCHANGED faults

\* The socket file stays behind, unless it was removed before.
PluginCrash ==
  /\ plugin # "down"
  /\ faults < MaxFaults
  /\ faults' = faults + 1
  /\ PluginEnds("pluginCrash")

-----------------------------------------------------------------------------
(***************************************************************************)
(* A call.                                                                 *)
(***************************************************************************)
At(c, where) == call' = [call EXCEPT ![c] = where]

\* Docker calls the plugin.
Arrive(c) ==
  /\ call[c] = "idle"
  /\ plugin = "listening"
  /\ At(c, "plugin")
  /\ UNCHANGED <<managerVars, pluginVars, handler, faults>>

\* The client sends the request; Swarm routes it to any task of the service.
Send(c, m) ==
  /\ call[c] = "plugin"
  /\ phase[m] = "serving"
  /\ At(c, "manager")
  /\ handler' = [handler EXCEPT ![c] = m]
  /\ UNCHANGED <<managerVars, pluginVars, faults>>

\* ... also to one that does not listen.
Refused(c) ==
  /\ call[c] = "plugin"
  /\ \E m \in Managers : phase[m] # "serving"
  /\ At(c, "failed")
  /\ UNCHANGED <<managerVars, pluginVars, handler, faults>>

\* The handler answers, with success or an error (the 503 of the timeout
\* middleware too); the connection is idle again.
Answer(c) ==
  /\ handler[c] # NULL
  /\ handler' = [handler EXCEPT ![c] = NULL]
  /\ \/ call[c] = "manager" /\ \E result \in {"ok", "failed"} : At(c, result)
     \/ call[c] # "manager" /\ UNCHANGED call
  /\ UNCHANGED <<managerVars, pluginVars, faults>>

\* A bug for the mutation checks: a timeout for the connection only.
DialTimeout(c) ==
  /\ call[c] = "plugin"
  /\ At(c, "failed")
  /\ UNCHANGED <<managerVars, pluginVars, handler, faults>>

\* http.Client{Timeout: 30 s}: from the connection to the end of the body.
\* The handler goes on.
ClientTimeout(c) ==
  /\ InFlight(c)
  /\ At(c, "failed")
  /\ UNCHANGED <<managerVars, pluginVars, handler, faults>>

-----------------------------------------------------------------------------
ManagerStep(m) ==
  \/ StartManager(m)
  \/ StartFails(m)
  \/ Ready(m)
  \/ StartTimeout(m)
  \/ Signal(m)
  \/ ShutdownReturns(m)
  \/ Deadline(m)
  \/ ServerExit(m)
  \/ CloseStore(m)
  \/ Crash(m)
  \/ LoseHost(m)

CallStep(c) ==
  \/ Arrive(c)
  \/ \E m \in Managers : Send(c, m)
  \/ Refused(c)
  \/ Answer(c)
  \/ ClientTimeout(c)

\* Everything runs and the behaviour's calls and faults are used up.
Finished ==
  /\ \A m \in Managers : phase[m] = "serving"
  /\ plugin = "listening"
  /\ \A c \in Calls : call[c] # "idle" /\ ~InFlight(c) /\ handler[c] = NULL
  /\ faults = MaxFaults
  /\ UNCHANGED vars

Next ==
  \/ \E m \in Managers : ManagerStep(m)
  \/ \E c \in Calls : CallStep(c)
  \/ PluginStart
  \/ PluginSignal
  \/ PluginExit
  \/ PluginCrash
  \/ Finished

\* Swarm and Docker restart what is down, and what ends by an error; clocks
\* go on; etcd's Close ends; GracefulStop returns when it can.  A leader is
\* elected in seconds, so that the 60 s do not forestall it for ever where
\* enough members run; and as tasks are restarted in seconds, two managers
\* that wait 60 s each are up together again and again.  Nothing is assumed of
\* handlers (a client that reads slowly keeps one busy), of the server
\* goroutine, and of whoever sends signals and calls.
StartBesideAnother(m) == StartManager(m) /\ \E n \in Peers(m) : phase[n] = "starting"

Fairness ==
  /\ \A m \in Managers : WF_vars(StartManager(m)) /\ WF_vars(StartFails(m))
  /\ \A m \in Managers : SF_vars(StartBesideAnother(m)) /\ SF_vars(Ready(m))
  /\ \A m \in Managers : WF_vars(Deadline(m)) /\ WF_vars(CloseStore(m))
  /\ WF_vars(PluginStart) /\ WF_vars(PluginExit)
  /\ \A c \in Calls : WF_vars(ClientTimeout(c))

Spec == Init /\ [][Next]_vars /\ Fairness

-----------------------------------------------------------------------------
(***************************************************************************)
(* What starting and stopping promise.                                     *)
(***************************************************************************)

\* A process that ends with exit status 0 has cut off no call: the manager
\* returns from main only when Shutdown has waited for its handlers, the
\* plugin only when GracefulStop has waited for its calls.
CleanExitsCutNothing == \A c \in Calls : call[c] \notin {"cleanExit", "pluginExit"}

\* A manager that was told to stop ends, even if a handler never answers
\* (main's deadline of 10 s).
SignalEnds == \A m \in Managers : phase[m] = "stopping" ~> phase[m] = "down"

\* The managers whose slots Swarm counted from 1 to the size of the cluster.
Numbered(m) ==
  /\ EtcdEnabled(m) /\ Validate(m)
  /\ TaskSlot(m) \in 1..ClusterSize(m) \/ ClusterSize(m) <= 1

\* Those of m's cluster that have their data directory, or need none.
Intact(m) ==
  {n \in Managers : /\ Numbered(n) /\ ClusterSize(n) = ClusterSize(m)
                    /\ member[n] \in {"none", "kept"}}

\* No member of m's cluster has begun again without its data.
NoneAnew(m) == \A n \in Peers(m) : member[n] # "anew"

\* The cluster forms in spite of restarts and start timeouts: once signals
\* and crashes have ceased, every manager with a slot of its cluster and its
\* data directory serves for ever, if such managers are a majority of the
\* cluster, whatever the environment and the data of the others (NewEtcdStore
\* waits 60 s for the leader that the others, restarting as it does, are to
\* elect with it).
ClusterForms ==
  \A m \in Managers :
    <>[](/\ m \in Intact(m) /\ NoneAnew(m)
         /\ 2 * Cardinality(Intact(m)) > ClusterSize(m)
         => phase[m] = "serving")

\* The plugin always comes back to listen, after a clean stop and after a
\* crash that left its socket file behind (main removes it before Listen).
PluginServesAgain == []<>(plugin = "listening")

\* A call that reached the plugin gets an answer or an error, even if the
\* manager's host is lost or its handler never answers (the client's 30 s).
EveryCallReturns == \A c \in Calls : InFlight(c) ~> ~InFlight(c)

\* "Graceful shutdown with timeout" (main.go): a manager that was told to
\* stop cuts off no call before the timeout.
GracefulShutdown == \A c \in Calls : call[c] # "serverExit"
=============================================================================
