CONSTANTS
  Words = 2
  ConvOut = 8
  Half1 = 3
  Half2 = 3
  Half3 = 2
  Scores = 2
  FifoDepth = 2
  Images = 2
  Kernel = 5
  Shapes <- MCShapes
  OutChannels = 2
  InChannels = 6
  Sums <- MCSums
SPECIFICATION LensSpec
CHECK_DEADLOCK FALSE
INVARIANTS
  ScoresRight
  InputsIntact
  PatchExact
  HalvesComplete
  SameAsPlatform
  ProductsFit
PROPERTY AllFetched
