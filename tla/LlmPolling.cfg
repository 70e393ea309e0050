CONSTANTS
  Instances = {i1}
  Timeouts = {1, 60}
  Threads = {t1, t2}
  None = None
SPECIFICATION FairSpec
INVARIANTS NotSilenced
PROPERTIES KeepsPolling SettlesOnSettings
