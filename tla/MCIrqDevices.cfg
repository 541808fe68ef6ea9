CONSTANTS
  Irqs = {1, 2}
  NoHandler = 0
  MaxTriggers = 2
  Half = 3
  DELAY = 2
  MaxTime = 5
SPECIFICATION DevicesSpec
INVARIANTS
  NoSpuriousCall
  ClaimFindsInterrupt
  TicksKeepTime
PROPERTY NoLostInterrupt
