CONSTANTS
  PROCESSORS = 1
  NumImages = 1
  Rows = 2
  FifoDepth = 2
SPECIFICATION FairPromptSpec
PROPERTY DmaInterruptServed
