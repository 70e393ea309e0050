CONSTANTS
  t1 = t1
  t2 = t2
  d1 = d1
  d2 = d2
  Transfers = {t1, t2}
  Uploads = {}
  Folders = {}
  Dests = {d1}
  Dest <- Same
  Batch <- TwoDrops
  Existing = {d1}
  Overwrites = FALSE
  Limit = 2
  Chunks = 2
  None = None
SPECIFICATION Spec
INVARIANTS WholeFiles
CHECK_DEADLOCK FALSE
