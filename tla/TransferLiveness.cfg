CONSTANTS
  t1 = t1
  t2 = t2
  d1 = d1
  d2 = d2
  Transfers = {t1, t2}
  Uploads = {t1}
  Folders = {t2}
  Dests = {d1, d2}
  Dest <- Apart
  Batch <- OneDrop
  Existing = {d1, d2}
  Overwrites = TRUE
  Limit = 1
  Chunks = 1
  None = None
SPECIFICATION FairSpec
PROPERTIES ApprovedIsSettled
CHECK_DEADLOCK FALSE
