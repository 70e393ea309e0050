CONSTANTS
  s1 = s1
  s2 = s2
  p1 = p1
  p2 = p2
  c1 = c1
  c2 = c2
  Sessions = {s1, s2}
  LocalSessions = {s1}
  Panes = {p1, p2}
  Commands = {c1, c2}
  Issued = {"connect", "split", "close", "disconnect", "delete", "operation", "forward"}
  None = None
SPECIFICATION UsedSpec
SYMMETRY Symmetry
INVARIANTS ReaderReachable ActiveWatched MonitorTracked DeletedProfileTornDown
