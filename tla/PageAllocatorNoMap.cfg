SPECIFICATION Spec
CONSTANTS
  PageSize = 2
  TopPage = 7
  Capacity = 9
  MaxMemoryRegions = 3
  MaxReservedRegions = 2
  Fdts <- OverlappingChildTrees
  RequestTypes = {}
  PageCounts = {0}
  Addresses = {0}
  Sizes = {}
  Alignments = {}
INVARIANT NoMapStaysReserved
