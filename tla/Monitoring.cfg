CONSTANTS
  Clis = {"codex"}
  Captures = {1, 2}
  MaxProbes = 2
  Monitors = {"one", "another"}
  SessionRules = {"cpu"}
  LlmRules = {"llm"}
  Readings = {0, 1, 2}
  MaxTime = 3
  MaxCalls = 1
  SessionSettings <- CpuSettings
  LlmSettings <- ServerSettings
  none = none
  AgyTime = 7
  AgyBucket = 2
  AgyWindow = 4
  AgyPoints = 2
  UsageTime = 2
  UsageBucket = 1
  UsageWindow = 1
  UsagePoints = 2
  UsageCount = 2
  UsagePolls = 2
  Keys = {"k"}
  MayNotOpen = FALSE
  MaxEdits = 1
  half = half
  Models = {"m"}
  LlmTime = 1
  MaxWork = 2
  MaxRun = 2
  PollInterval = 1
  CatalogInterval = 2
  Steps <- TwoSteps
  FailureLimit = 2
  SustainedTicks = 2
  LlmBucket = 1
  LlmWindow = 0
  LlmPoints = 1
SPECIFICATION Spec
INVARIANTS KeysAreSomewhere WorkIsCounted
PROPERTIES QuotasAreCurrent FiresOnlySustained NotifiesOnce ChartsAreComplete
CHECK_DEADLOCK FALSE
