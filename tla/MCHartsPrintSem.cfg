CONSTANTS
  PROCESSORS = 2
  NumImages = 0
  MaxMismatch = 0
SPECIFICATION Spec
INVARIANT PrintSemInBounds
