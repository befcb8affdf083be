SPECIFICATION Spec
SYMMETRY MCSymmetry
VIEW Observed
CONSTANTS
  root = root
  file = file
  empty = empty
  mnt = mnt
  bad = bad
  none = none
  Objects <- MCObjects
  Root = root
  Image <- TwoVolumes
  Names <- MCNames
  MediaSize = 6
  Paths <- LinkPaths
  MaxFds = 2
  HandleMin = 100
  MaxVolumes = 2
  WordSize = 16
  DirIds = {d1}
  Mounted = {fs1, fs2}
  Tokens = {t1, t2, t3}
  NoFs = NoFs
  Self = Self
  Sizes = {2, 3}
  MediaFaults = FALSE
  Closed = Closed
INVARIANTS
  DescriptorsOwned
  InnerHandlesOwned
  ListingInOrder
PROPERTY ReadFromFirstObject
