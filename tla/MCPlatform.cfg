CONSTANTS
  PROCESSORS = 2
  NumImages = 2
  Rows = 3
  FifoDepth = 2
SPECIFICATION FairPromptSpec
INVARIANTS
  AnswerIsOwn
  ImageIntact
  CompletionsDistinct
  DmaUndisturbed
  CleanHalt
PROPERTIES
  DeliversService
  Termination
