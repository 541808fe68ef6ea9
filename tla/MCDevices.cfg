CONSTANTS
  BLOCK = 2
  ResetAddr = 0
  NoData = NoData
  MemSize = 5
  MaxJobs = 2
  PE = {0}
  Rows = 16
  FifoDepth = 16
  NoRow = NoRow
  Images = 3
  DevBlocks = 2
  Width = 2
  Bytes = {0, 1}
  Garbage = Garbage
  Blank <- MCBlank
  Frames <- MCFrames
  MaxFrames = 3
  MaxSends = 1
  SendSizes = {42, 61}
  NoFrame = NoFrame
  MaxScaler = 4
  FirstScaler = 3
  NoSample = NoSample
  Edge = 5
  Colors = {0, 1}
  Black = 0
  MaxCommands = 1
  RamStarts = {0, 31744, 32767, 524288, 1900000}
  RamSizes = {1, 1024, 32768, 65536, 4194303, 4160000}
  MramSizes = {1, 262144, 262145, 4000000}
  DisplaySize = 2048
SPECIFICATION DevicesSpec
CHECK_DEADLOCK FALSE
INVARIANTS
  CopyExact
  AnswersMatchImages
  EthInOrder
  SensorPunctual
  LineExact
  DevicesReachable
PROPERTIES
  EveryStartCompletes
  AllAnswered
  FlashImplementsStore
  EthDelivers
