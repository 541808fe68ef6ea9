CONSTANTS
  PROCESSORS = 2
  NumImages = 1
  Rows = 1
  FifoDepth = 1
SPECIFICATION Spec
CHECK_DEADLOCK FALSE
INVARIANTS
  ProgrammedAsUnit
  HandlerReady
