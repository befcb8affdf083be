SPECIFICATION Spec
CONSTANTS
  Names <- MCNames
  TagOrder <- MCTagOrder
  Paths <- MCPaths
  Nodes = {1, 2, 3, 4, 5, 6}
  Fds = {1, 2}
  Streams = {1, 2}
  Blocks = {0, 1, 2, 3, 4, 9}
  Zero = 0
  Absent = Absent
  MaxBlocks = 4
  Unreliable = {"open", "read", "write", "stat", "truncate", "mkdir", "opendir", "readdir", "setxattr"}
  OffsetRange = 4
  AttrSize <- MCAttrSize
  NoStat = NoStat
  Files = {f1}
  Dirs = {d1}
  Scopes <- MCScopes
  Selected = {"content", "handles", "owners", "devices", "names", "listing", "vanishing", "appearing", "unmountable", "attributes", "attributes by handle"}
  Requests <- MCRequests
  FlagSets <- MCFlagSets
  Contents <- MCContents
  Offsets = {0, 2, 4}
  Erased = 9
  BufSize = 2
  MaxString = 3
INVARIANTS
  TypeOK
  HandlesOwned
  ContentAsStored
  EffectsAsAsked
  ListingAsDirectory
  AttributesAsSet
PROPERTIES
  QueriesChangeNothing
  CallEnds
