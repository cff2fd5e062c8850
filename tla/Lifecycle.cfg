SPECIFICATION Spec
CONSTANTS
  m1 = m1
  m2 = m2
  m3 = m3
  Managers = {m1, m2, m3}
  Calls = {c1}
  NULL = NULL
  MaxFaults = 2
  Environments <- MCEnvironments
INVARIANTS LifecycleTypeOK CleanExitsCutNothing
PROPERTIES SignalEnds ClusterForms PluginServesAgain EveryCallReturns
