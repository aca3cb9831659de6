SPECIFICATION Spec
CONSTANTS
  HeaderSize = 40
  LengthOf <- Lengths
  PageSize = 8
  MaxString = 256
  MaxNodeBytes = 267
  LinuxExtraSize = 8192
  ExtraSizes = {0, 1, 24, 48, 80, 120, 8192}
  Sources <- AllSources
  Requests <- AllRequests
  MaxRequests = 2
INVARIANTS TypeOK BlobIsSound RequestsTakeEffect ReadersAgree FailuresAreJust HeadroomIsEnough
PROPERTY ImplementsDeviceTree
