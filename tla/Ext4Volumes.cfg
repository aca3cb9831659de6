SPECIFICATION FairSpec
CONSTANTS
  SectorSize = 4
  MinBlockSize = 8
  MaxBlockSize = 16
  MaxInodeSize = 8
  ShiftWidth = 6
  SmallDescriptor = 3
  LargeDescriptor = 6
  LowModulus = 60
  EntryHeader = 2
  EntryAlign = 2
  NodeUnit = 2
  InlineBytes = 6
  PathBytes = 10
  MaxSymlinkDepth = 2
  MaxExtents = 3
  MaxExtentDepth = 2
  Chars = {"/", "d", "f", "l", ".", "?", "NUL"}
  Undecodable = {"?"}
  Volumes <- AllVolumes
  Paths <- AllPaths
  MayFail = {"read", "memory"}
INVARIANTS TypeOK OpenIsExact LoadIsExact
PROPERTY CallsEnd
