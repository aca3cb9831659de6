SPECIFICATION FairSpec
CONSTANTS
  SectorSize = 4
  HeaderMinSize = 3
  EntryMinSize = 2
  LbaModulus = 64
  Disks <- AllDisks
  MayFail = {"read"}
INVARIANTS TypeOK EntriesFromOneTable UpdateSurvives
PROPERTY CallsEnd
