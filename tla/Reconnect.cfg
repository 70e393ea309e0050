CONSTANTS
  Panes = {p1, p2}
  Calls = {c1, c2}
  MaxAttempts = 2
  None = None
SPECIFICATION FairSpec
INVARIANTS OneAttempt DeletedStaysClosed
PROPERTIES LossIsSettled
