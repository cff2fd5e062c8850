--------------------------- MODULE LifecycleProofs ---------------------------
(***************************************************************************)
(* Lifecycle keeps its types and its processes exit cleanly, for any       *)
(* number of managers, calls, environments and faults.                     *)
(***************************************************************************)
EXTENDS Lifecycle, TLAPS

\* What is kept by every step: a call that waits for a process is cut off
\* with a clean exit only if a handler is busy in a manager that closes its
\* store, which LifecycleTypeOK rules out.
IndInv == LifecycleTypeOK /\ CleanExitsCutNothing

LEMMA InitIndInv == Init => IndInv
<1> SUFFICES ASSUME Init PROVE IndInv
  OBVIOUS
<1>1. faults \in 0..MaxFaults
  BY LifecycleAssumption DEF Init
<1>2. \A c \in Calls : handler[c] = NULL
  BY DEF Init
<1>3. LifecycleTypeOK
  BY <1>1, <1>2 DEF Init, LifecycleTypeOK, Memberships
<1>4. CleanExitsCutNothing
  BY DEF Init, CleanExitsCutNothing
<1> QED BY <1>3, <1>4 DEF IndInv

\* The end of a process in whatever phase but one in which it is done with
\* its handlers.
LEMMA EndKeeps ==
  ASSUME NEW m \in Managers, NEW cause \in Causes \cup {"manager"}, IndInv, End(m, cause),
         faults' \in 0..MaxFaults, member' \in [Managers -> Memberships],
         cause \in {"cleanExit", "pluginExit"} => phase[m] = "closing"
  PROVE  IndInv'
<1> USE LifecycleAssumption DEF IndInv, LifecycleTypeOK
<1>1. /\ env' = env /\ plugin' = plugin /\ socket' = socket
      /\ phase' \in [Managers -> {"down", "failing", "starting", "serving", "stopping", "closing"}]
  BY DEF End, pluginVars
<1>2. /\ call' \in [Calls -> {"idle", "plugin", "manager", "ok", "failed"} \cup Causes]
      /\ handler' \in [Calls -> Managers \cup {NULL}]
  BY DEF End, Causes
<1>3. ASSUME NEW c \in Calls, handler'[c] # NULL
      PROVE  phase'[handler'[c]] \in {"serving", "stopping"}
  <2>1. handler[c] # m /\ handler'[c] = handler[c]
    BY <1>3 DEF End
  <2>2. handler[c] \in Managers /\ phase[handler[c]] \in {"serving", "stopping"}
    BY <1>3, <2>1
  <2> QED BY <2>1, <2>2 DEF End
<1>4. CleanExitsCutNothing'
  <2> SUFFICES ASSUME NEW c \in Calls PROVE call'[c] \notin {"cleanExit", "pluginExit"}
    BY DEF CleanExitsCutNothing
  <2>1. CASE handler[c] = m /\ call[c] = "manager"
    <3>1. call'[c] = cause /\ phase[m] \in {"serving", "stopping"}
      BY <2>1 DEF End
    <3> QED BY <3>1
  <2>2. CASE ~(handler[c] = m /\ call[c] = "manager")
    BY <2>2 DEF End, CleanExitsCutNothing
  <2> QED BY <2>1, <2>2
<1> QED BY <1>1, <1>2, <1>3, <1>4

\* A process that goes from one phase to another while no handler depends on
\* it, or from serving to stopping.
LEMMA EnterKeeps ==
  ASSUME NEW m \in Managers,
         NEW p \in {"failing", "starting", "serving", "stopping", "closing"},
         IndInv, phase' = [phase EXCEPT ![m] = p],
         member' \in [Managers -> Memberships],
         UNCHANGED <<env, pluginVars, callVars>>, faults' \in 0..MaxFaults,
         Busy(m) => p \in {"serving", "stopping"}
  PROVE  IndInv'
<1> USE DEF IndInv, LifecycleTypeOK
<1>1. ASSUME NEW c \in Calls, handler'[c] # NULL
      PROVE  phase'[handler'[c]] \in {"serving", "stopping"}
  <2>1. handler'[c] = handler[c] /\ handler[c] \in Managers
    BY <1>1 DEF callVars
  <2>2. CASE handler[c] = m
    BY <2>1, <2>2 DEF Busy
  <2>3. CASE handler[c] # m
    BY <1>1, <2>1, <2>3
  <2> QED BY <2>2, <2>3
<1>2. CleanExitsCutNothing'
  BY DEF CleanExitsCutNothing, callVars
<1> QED BY <1>1, <1>2 DEF pluginVars, callVars

\* A call goes on or ends, and nothing else changes: its handler, if it gets
\* one, is a manager that serves.
LEMMA CallKeeps ==
  ASSUME NEW c \in Calls,
         NEW where \in {"plugin", "manager", "ok", "failed"},
         NEW h \in Managers \cup {NULL},
         IndInv, call' = [call EXCEPT ![c] = where] \/ call' = call,
         handler' = [handler EXCEPT ![c] = h],
         h # NULL => phase[h] \in {"serving", "stopping"},
         UNCHANGED <<managerVars, pluginVars, faults>>
  PROVE  IndInv'
BY DEF IndInv, LifecycleTypeOK, CleanExitsCutNothing, managerVars, pluginVars

LEMMA ManagerStepKeeps ==
  ASSUME NEW m \in Managers, IndInv, ManagerStep(m)
  PROVE  IndInv'
<1> USE LifecycleAssumption
<1>f. faults \in 0..MaxFaults /\ faults' \in 0..MaxFaults
  BY DEF IndInv, LifecycleTypeOK, ManagerStep, StartManager, StartFails, Ready, StartTimeout,
         Signal, ShutdownReturns, Deadline, ServerExit, CloseStore, Crash, LoseHost
<1>w. member \in [Managers -> Memberships] /\ member' \in [Managers -> Memberships]
  <2>1. member \in [Managers -> Memberships]
    BY DEF IndInv, LifecycleTypeOK
  <2>2. member' = member \/ \E to \in Memberships : member' = [member EXCEPT ![m] = to]
    BY <2>1 DEF ManagerStep, StartManager, StartFails, Ready, StartTimeout, Signal, Enter,
         ShutdownReturns, Deadline, ServerExit, CloseStore, Crash, LoseHost, Memberships
  <2> QED BY <2>1, <2>2
<1>b. Busy(m) => phase[m] \in {"serving", "stopping"}
  BY DEF IndInv, LifecycleTypeOK, Busy
<1>1. CASE StartManager(m)
  <2>1. PICK p \in {"starting", "failing"} : phase' = [phase EXCEPT ![m] = p]
    BY <1>1 DEF StartManager
  <2>2. ~Busy(m)
    BY <1>1, <1>b DEF StartManager
  <2> QED BY <1>1, <1>f, <1>w, <2>1, <2>2, EnterKeeps DEF StartManager
<1>2. CASE StartFails(m) \/ StartTimeout(m)
  BY <1>2, <1>f, <1>w, EndKeeps DEF StartFails, StartTimeout, Causes
<1>3. CASE Ready(m)
  BY <1>3, <1>f, <1>w, <1>b, EnterKeeps DEF Ready, Enter
<1>4. CASE Signal(m)
  BY <1>4, <1>f, <1>w, EnterKeeps DEF Signal, Enter
<1>5. CASE ShutdownReturns(m)
  BY <1>5, <1>f, <1>w, EnterKeeps DEF ShutdownReturns, Enter
<1>6. CASE Deadline(m) \/ ServerExit(m)
  BY <1>6, <1>f, <1>w, EndKeeps DEF Deadline, ServerExit, Causes
<1>7. CASE CloseStore(m)
  BY <1>7, <1>f, <1>w, EndKeeps DEF CloseStore, Causes
<1>8. CASE Crash(m) \/ LoseHost(m)
  BY <1>8, <1>f, <1>w, EndKeeps DEF Crash, LoseHost, Causes
<1> QED BY <1>1, <1>2, <1>3, <1>4, <1>5, <1>6, <1>7, <1>8 DEF ManagerStep

LEMMA CallStepKeeps ==
  ASSUME NEW c \in Calls, IndInv, CallStep(c)
  PROVE  IndInv'
<1> USE LifecycleAssumption
<1>h. /\ handler \in [Calls -> Managers \cup {NULL}]
      /\ handler = [handler EXCEPT ![c] = handler[c]]
      /\ handler[c] # NULL => phase[handler[c]] \in {"serving", "stopping"}
  BY DEF IndInv, LifecycleTypeOK
<1>1. CASE Arrive(c) \/ Refused(c) \/ ClientTimeout(c)
  <2>1. PICK where \in {"plugin", "failed"} : call' = [call EXCEPT ![c] = where]
    BY <1>1 DEF Arrive, Refused, ClientTimeout, At
  <2>2. UNCHANGED <<managerVars, pluginVars, handler, faults>>
    BY <1>1 DEF Arrive, Refused, ClientTimeout
  <2> QED BY <1>h, <2>1, <2>2, CallKeeps
<1>2. ASSUME NEW m \in Managers, Send(c, m)
      PROVE  IndInv'
  BY <1>2, CallKeeps DEF Send, At
<1>3. CASE Answer(c)
  BY <1>3, CallKeeps DEF Answer, At
<1> QED BY <1>1, <1>2, <1>3 DEF CallStep

\* The plugin changes no handler; when it ends by itself no call is in it.
LEMMA PluginKeeps ==
  ASSUME IndInv, PluginStart \/ PluginSignal \/ PluginExit \/ PluginCrash
  PROVE  IndInv'
<1> USE LifecycleAssumption DEF IndInv, LifecycleTypeOK
<1>1. CASE PluginStart
  BY <1>1 DEF PluginStart, CleanExitsCutNothing, managerVars, callVars
<1>2. CASE PluginSignal
  <2>1. faults' \in 0..MaxFaults
    BY <1>2 DEF PluginSignal
  <2>2. UNCHANGED <<env, phase, member, call, handler>>
    BY <1>2 DEF PluginSignal, managerVars, callVars
  <2> QED BY <1>2, <2>1, <2>2 DEF PluginSignal, CleanExitsCutNothing
<1>3. CASE PluginExit
  <2>1. call' = call
    BY <1>3 DEF PluginExit, PluginEnds
  <2> QED BY <1>3, <2>1 DEF PluginExit, PluginEnds, CleanExitsCutNothing, managerVars
<1>4. CASE PluginCrash
  BY <1>4 DEF PluginCrash, PluginEnds, CleanExitsCutNothing, managerVars, Causes
<1> QED BY <1>1, <1>2, <1>3, <1>4

LEMMA NextIndInv == IndInv /\ [Next]_vars => IndInv'
<1> SUFFICES ASSUME IndInv, [Next]_vars PROVE IndInv'
  OBVIOUS
<1>1. CASE UNCHANGED vars
  BY <1>1 DEF vars, managerVars, pluginVars, callVars, IndInv, LifecycleTypeOK,
              CleanExitsCutNothing
<1>2. CASE Next
  BY <1>1, <1>2, ManagerStepKeeps, CallStepKeeps, PluginKeeps DEF Next, Finished
<1> QED BY <1>1, <1>2

LEMMA IndInvAlways == Spec => []IndInv
BY InitIndInv, NextIndInv, PTL DEF Spec

\* Every variable keeps its type, and handlers run only in managers that
\* serve or wait for them in Shutdown (main.go, server.go).
THEOREM LifecycleTypeCorrect == Spec => []LifecycleTypeOK
<1>1. IndInv => LifecycleTypeOK
  BY DEF IndInv
<1> QED BY <1>1, IndInvAlways, PTL

\* No call is cut off by a manager or a plugin that exits by itself: Close
\* comes after Shutdown has waited for the handlers, and the plugin's main
\* returns when GracefulStop has waited for its calls.
THEOREM ExitsAreClean == Spec => []CleanExitsCutNothing
<1>1. IndInv => CleanExitsCutNothing
  BY DEF IndInv
<1> QED BY <1>1, IndInvAlways, PTL
=============================================================================
