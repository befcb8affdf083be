SPECIFICATION FairSpec
CONSTANTS
  root = root
  file = file
  empty = empty
  mnt = mnt
  bad = bad
  none = none
  Objects <- MCObjects
  Root = root
  Image <- SingleImage
  Names <- MCNames
  MediaSize = 6
  Paths <- FilePaths
  MaxFds = 2
  HandleMin = 100
  MaxVolumes = 1
  WordSize = 16
  DirIds = {}
  Mounted = {}
  Tokens = {}
  NoFs = NoFs
  Self = Self
  Sizes = {0, 2, 4}
  MediaFaults = TRUE
  Closed = Closed
INVARIANTS
  TypeOK
PROPERTIES
  StoreSpec
  ReadReturns
