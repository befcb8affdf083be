SPECIFICATION Spec
SYMMETRY Interchangeable
VIEW Observed
CONSTANTS
  a1 = a1
  a2 = a2
  r1 = a1
  Paths = {"a", "r", "n"}
  FwOrder <- MCFwOrder
  FwData <- OneBlock
  FwReadOnly = {"r"}
  LongNames = {"r"}
  FlagSets <- ListFlags
  RenameTo = {}
  Block = a1
  MaxBlocks = 1
  MaxFds = 3
  HandleMin = 100
  FfsHandles = {1}
  DirIds = {d1, d2}
  MaxHeld = 1
  Allowed = {"Crash", "DirFault", "WriteFault", "ShortWrite", "ReadFault",
             "RemoveFault", "CleanupFault"}
  Absent = Absent
  Gone = Gone
  Closed = Closed
INVARIANTS
  NothingLeaks
  HiddenAreShadowed
  ListingExact
