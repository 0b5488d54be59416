SPECIFICATION FairSpec
CONSTANTS
  w1 = w1
  w2 = w2
  b1 = b1
  b2 = b2
  Window <- Windows
  Block <- TwoBlocks
  BlockOf <- MCBlockOf
  IFETCH_BUFFER_SIZE = 3
  DIB_HIT_BUFFER_SIZE = 1
  DECODE_BUFFER_SIZE = 2
  DISPATCH_BUFFER_SIZE = 1
  DIB_WAYS = 1
  MaxInstr = 4
INVARIANTS FetchesAreOwed StopsForTheYoungest
PROPERTIES KeepsTheStream EveryInstructionIsDispatched
