SPECIFICATION Spec
VIEW Observed
CONSTANTS
  a1 = a1
  a2 = a2
  r1 = r1
  Paths = {"a", "r", "n"}
  FwOrder <- MCFwOrder
  FwData <- MCFwData
  FwReadOnly = {"r"}
  LongNames = {}
  FlagSets <- AllFlags
  RenameTo = {"a", "n"}
  Block = w
  MaxBlocks = 2
  MaxFds = 3
  HandleMin = 100
  FfsHandles = {1, 2}
  DirIds = {}
  MaxHeld = 2
  Allowed = {"Rename", "Fremove", "WriteFault", "RemoveFault"}
  Absent = Absent
  Gone = Gone
  Closed = Closed
INVARIANTS
  TypeOK
  NothingLeaks
PROPERTIES
  OverlaySpec
  CopyUpComplete
