SPECIFICATION Spec
CONSTANTS
  root = root
  file = file
  empty = empty
  mnt = mnt
  bad = bad
  none = none
  Objects <- MCObjects
  Root = root
  Image <- SplitImage
  Names <- MCNames
  MediaSize = 9
  Paths <- OnePath
  MaxFds = 1
  HandleMin = 100
  MaxVolumes = 1
  WordSize = 16
  DirIds = {}
  Mounted = {}
  Tokens = {}
  NoFs = NoFs
  Self = Self
  Sizes = {1, 2, 4}
  MediaFaults = FALSE
  Closed = Closed
PROPERTY ReadReturnsContent
