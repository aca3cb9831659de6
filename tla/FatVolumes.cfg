SPECIFICATION FairSpec
CONSTANTS
  SectorSize = 2
  DirEntrySize = 1
  Fat12Clusters = 1
  Fat16Clusters = 4
  Fat16Eoc = 10
  Fat32Eoc = 14
  Fat32Modulus = 16
  MaxOrdinal = 2
  Undecodable = {"?"}
  Volumes <- AllVolumes
  Paths <- AllPaths
  MayFail = {"read", "memory"}
INVARIANTS TypeOK OpenIsExact LoadIsExact ReadsInsideVolume
PROPERTY CallsEnd
