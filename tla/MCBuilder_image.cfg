SPECIFICATION Spec
CONSTANTS
  dir = dir
  sub = sub
  empty = empty
  small = small
  middle = middle
  large = large
  huge = huge
  tooLarge = tooLarge
  na = na
  nb = nb
  nc = nc
  accented = accented
  overlong = overlong
  volName = volName
  Nodes <- MCNodes
  Top = dir
  Kind <- MCKind
  Kids <- MCKids
  Size <- MCSize
  Names <- MCNames
  Absent = Absent
  Configs <- MCConfigs
  Packed <- MCPacked
  NameLen <- MCNameLen
  NameBytes <- MCNameBytes
  VolumeName = volName
  Paths <- MCPaths
INVARIANTS
  TypeOK
  FailsOnConflict
  ContentsAsConfigured
  AttributesAsRuled
  ChildrenAreDistinct
CHECK_DEADLOCK FALSE
