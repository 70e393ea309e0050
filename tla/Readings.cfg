CONSTANTS
  nothing = nothing
SPECIFICATION Spec
INVARIANTS TellsOfItsOwn
PROPERTIES ConfigIsTaken FolderIsWhole
CHECK_DEADLOCK FALSE
