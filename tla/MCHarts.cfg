CONSTANTS
  PROCESSORS = 3
  NumImages = 1
  MaxMismatch = 1
SPECIFICATION Spec
INVARIANTS
  TypeOK
  MutualExclusion
  UniqueIds
  CntBound
  BarrierSafety
  TotalComplete
  PrintOrder
  CleanExit
