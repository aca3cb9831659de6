SPECIFICATION FairSpec
CONSTANTS
  PageSize = 2
  TopPage = 7
  Capacity = 6
  MaxMemoryRegions = 3
  MaxReservedRegions = 2
  Fdts <- CallTrees
  RequestTypes = {"EfiBootServicesData", "EfiMaxMemoryType"}
  PageCounts = {0, 1, 2, 3, 8}
  Addresses = {0, 4, 5, 8, 12}
  Sizes = {3, 15}
  Alignments = {0, 2, 4, 8}
INVARIANTS MapSound SearchesAreExact OwnedRunsAreFound
PROPERTIES ReservedStaysReserved ImplementsPageMap LoopsEnd
