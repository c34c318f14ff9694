SPECIFICATION LifeSpec
CONSTANTS
  Calls = {c1, c2}
  Probes = {p1}
CHECK_DEADLOCK FALSE
INVARIANTS LifecycleTypeOK CallsKeepClients HandleKeepsClients ProbesKeepClients ReportsFit
PROPERTIES ShutdownEndsUnlessHeldUp FailureEndsProcess
