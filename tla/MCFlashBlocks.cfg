CONSTANTS
  DevBlocks = 2
  Width = 2
  Bytes = {0, 1}
  Garbage = Garbage
SPECIFICATION FlashSpec
INVARIANT FlashInRange
