SPECIFICATION Spec
CONSTANTS
  topDir = topDir
  base = base
  sub = sub
  deep = deep
  bare = bare
  mnt = mnt
  inner = inner
  far = far
  small = small
  large = large
  nil = nil
  tmp = tmp
  nb = nb
  ns = ns
  nd = nd
  ne = ne
  nm = nm
  nx = nx
  ny = ny
  nz = nz
  nt = nt
  ni = ni
  Nodes <- MCNodes
  Top = topDir
  Kind <- MCKind
  Kids <- MCKids
  Size <- MCSize
  Names <- MCNames
  Absent = Absent
  RootPath <- MCRoot
  NameLen <- MCNameLen
  ByteSize = 256
  MaxInline = 2
  MaxLevels = 4
  Skipped = {tmp}
  Encodings <- MCEncodings
  IncludeMountPoints = FALSE
  Faults = {}
  ResetLevels = {0, 1, 2, 3}
  Paths <- MCPaths
INVARIANT StartsAtRoot
