SPECIFICATION Spec
VIEW Observed
CONSTANTS
  a1 = a1
  a2 = a2
  r1 = r1
  Paths = {"a", "b", "r", "n"}
  FwOrder <- ThreeOrder
  FwData <- ThreeData
  FwReadOnly = {"r"}
  LongNames = {}
  FlagSets <- ListFlags
  RenameTo = {}
  Block = w
  MaxBlocks = 1
  MaxFds = 3
  HandleMin = 100
  FfsHandles = {1}
  DirIds = {d1}
  MaxHeld = 1
  Allowed = {"Fremove"}
  Absent = Absent
  Gone = Gone
  Closed = Closed
INVARIANT ListingExact
