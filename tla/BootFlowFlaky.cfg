SPECIFICATION FairSpec
CONSTANTS
  RamPages = 11
  LoadPage = 2
  ImagePages = 2
  FdtPages = {8}
  ReservedPages = {0}
  KernelStep = 2
  ClonePages = 1
  RootDevices = 1
  Machines <- FlakyMachines
  MayFail = {"map", "split", "read", "edit"}
INVARIANTS TypeOK FirmwareIntact HandoffIsSound
PROPERTY BootEnds
