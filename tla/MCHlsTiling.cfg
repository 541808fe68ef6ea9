CONSTANTS
  Words = 2
  ConvOut = 8
  Half1 = 3
  Half2 = 2
  Half3 = 2
  Scores = 2
  FifoDepth = 2
  Images = 1
  PE_SIZE = 2
SPECIFICATION TilingSpec
INVARIANT ScoresRight
