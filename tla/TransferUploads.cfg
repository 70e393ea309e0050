CONSTANTS
  t1 = t1
  t2 = t2
  d1 = d1
  d2 = d2
  Transfers = {t1, t2}
  Uploads = {t1, t2}
  Folders = {t2}
  Dests = {d1}
  Dest <- Same
  Batch <- TwoDrops
  Existing = {d1}
  Overwrites = FALSE
  Limit = 1
  Chunks = 2
  None = None
SPECIFICATION Spec
INVARIANTS WholeFiles SurvivingCopy HonestStatus
CHECK_DEADLOCK FALSE
