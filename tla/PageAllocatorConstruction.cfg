SPECIFICATION FairSpec
CONSTANTS
  PageSize = 2
  TopPage = 7
  Capacity = 5
  MaxMemoryRegions = 3
  MaxReservedRegions = 2
  Fdts <- ConstructionTrees
  RequestTypes = {}
  PageCounts = {0}
  Addresses = {0}
  Sizes = {}
  Alignments = {}
INVARIANTS TypeOK MapSound
PROPERTIES MapMatchesDeviceTree ConstructionEnds
