CONSTANTS
  Sessions = {s1}
  LocalSessions = {s1}
  Panes = {p1, p2}
  Commands = {c1}
  Issued = {"connect", "split", "close"}
  call = call
  persistent = persistent
  local1 = local1
  None = None
SPECIFICATION ThreadsSpec
PROPERTIES PanelessSessionDeactivates StoppedMonitorEnds QuotasKeepComing LinkFollowsHost EveryCallIsAnswered DeadHopIsNoticed
CHECK_DEADLOCK FALSE
