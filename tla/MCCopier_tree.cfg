SPECIFICATION FairSpec
CONSTANTS
  rootDir = rootDir
  outer = outer
  nested = nested
  plain = plain
  packed = packed
  mounted = mounted
  inside = inside
  no = no
  nn = nn
  nf = nf
  nz = nz
  nzgz = nzgz
  nm = nm
  aclTag = aclTag
  timeTag = timeTag
  Nodes <- MCNodes
  Top = rootDir
  Kind <- MCKind
  Kids <- MCKids
  Size <- MCSize
  Names <- MCNames
  Absent = Absent
  Tags = {aclTag, timeTag}
  Attrs <- MCAttrs
  Compressed = {packed}
  Suffixed <- MCSuffixed
  NoMetadata = {TRUE, FALSE}
  Before <- MCBefore
  Calls <- MCCalls
  Faults = {"open", "create", "mkdir", "read", "write", "enumattr", "setattr",
            "opendir", "readdir", "shortwrite"}
  MaxFaults = 2
  Answers = {TRUE, FALSE}
  Paths <- MCPaths
INVARIANTS
  TypeOK
  EveryLossIsTold
  OneDirectoryAtATime
PROPERTIES
  OthersKept
  RefusalStops
  Ends
