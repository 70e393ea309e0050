CONSTANTS
  Instances = {i1, i2}
  Profiles = {h1}
  Signatures = {g1}
  Addresses = {a1}
  Connections = {n1}
  None = None
SPECIFICATION FairSpec
PROPERTIES NotPendingForever
