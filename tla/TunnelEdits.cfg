CONSTANTS
  Instances = {i1}
  Profiles = {h1, h2}
  Signatures = {g1, g2}
  Addresses = {a1}
  Connections = {n1, n2}
  None = None
SPECIFICATION Spec
SYMMETRY Symmetry
INVARIANTS ForwardRidesHost
PROPERTIES ReadyIsCurrent
