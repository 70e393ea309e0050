CONSTANTS
  Hosts = {h1}
  Types = {"rsa", "ed"}
  PublicKeys = {k1, k2}
  Threads = {t1, t2}
  MaxRounds = 2
  Accounts = {a1, a2}
  Secrets = {"one", "two"}
  MaxVaults = 2
  MaxKeys = 3
  Profiles = {p1, p2, p3}
  RuleSets = {"none", "some"}
  Instances = {i1, i2}
  Addresses = {"a"}
  Commands = {c1, c2}
  Calls = {c1, c2}
  MaxStarts = 2
  Rules = {r1, r2}
  SavedRules = {r1}
  Ports = {port1}
  Starters = {s1, s2}
  MaxLaunches = 1
  MaxHops = 2
  MaxBytes = 2
  ProbeAfterIdle = 2
  ProbeTimeout = 2
  CalibrationTimeout = 3
  KeepaliveInterval = 3
  OperationTimeout = 1
  ReplyDelay = 1
  MaxTime = 6
  MaxHolds = 1
  MaxNaps = 1
  Streams <- ShortStreams
  None = None
SPECIFICATION ConnectionsSpec
SYMMETRY Symmetry
INVARIANTS TrustStands SignInIsFair OpenIsCurrent RulesAreKept ForwardsCarry
           LossIsReal
PROPERTIES ListedHasPrivate AsksFirst
CHECK_DEADLOCK FALSE
