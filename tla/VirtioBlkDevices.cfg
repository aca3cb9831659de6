SPECIFICATION FairSpec
CONSTANTS
  b1 = b1
  b2 = b2
  none = none
  Slots = 6
  BlockDevices = {1, 2, 4, 5, 6}
  Version1Devices = {2, 4, 5, 6}
  AgreeingDevices = {1, 4, 5, 6}
  LargeQueues = {1, 2, 5, 6}
  SlowDevices = {5, 6}
  Sectors = {1, 2}
  Buffers = {b1, b2}
  NoBuffer = none
  UsedIds = {0, 1}
  QueueSize = 2
  IndexModulus = 4
  PollLimit = 1
  MaxCalls = 5
  MaxLateCalls = 2
  MaxConfigs = 1
INVARIANTS TypeOK OnlyLentMemory CapacityIsNotTorn
PROPERTIES ReadsUntilAbandoned DriverAnswers
