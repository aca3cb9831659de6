SPECIFICATION FairSpec
CONSTANTS
  b1 = b1
  b2 = b2
  none = none
  Slots = 1
  BlockDevices = {1}
  Version1Devices = {1}
  AgreeingDevices = {1}
  LargeQueues = {1}
  SlowDevices = {1}
  Sectors = {1, 2}
  Buffers = {b1, b2}
  NoBuffer = none
  UsedIds = {0}
  QueueSize = 2
  IndexModulus = 4
  PollLimit = 1
  MaxCalls = 2
  MaxLateCalls = 2
  MaxConfigs = 0
PROPERTY ReadsTheSector
