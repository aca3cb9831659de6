SPECIFICATION FairSpec
CONSTANTS
  RamPages = 18
  LoadPage = 2
  ImagePages = 2
  FdtPages = {17}
  ReservedPages = {0, 1}
  KernelStep = 2
  ClonePages = 2
  RootDevices = 26
  Machines <- ReliableMachines
  MayFail = {}
INVARIANT BootsFirstProvider
