SPECIFICATION Spec
VIEW Observed
CONSTANTS
  a1 = a1
  a2 = a2
  r1 = r1
  Paths = {"a", "r", "n"}
  FwOrder <- MCFwOrder
  FwData <- MCFwData
  FwReadOnly = {"r"}
  LongNames = {}
  FlagSets <- ListFlags
  RenameTo = {}
  Block = w
  MaxBlocks = 2
  MaxFds = 1
  HandleMin = 100
  FfsHandles = {1, 2}
  DirIds = {}
  MaxHeld = 2
  Allowed = {}
  Absent = Absent
  Gone = Gone
  Closed = Closed
INVARIANT ReadOnlyKept
