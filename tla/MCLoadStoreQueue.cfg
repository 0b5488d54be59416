SPECIFICATION FairSpec
CONSTANTS
  NoEntry = NoEntry
  Address <- TwoAddresses
  Block <- OneBlock
  BlockOf <- OneBlockOf
  Operation <- Shapes
  ROB_SIZE = 3
  LQ_SIZE = 2
  SQ_SIZE = 2
  NoProducer = 0
  MaxInstr = 3
  MaxRequests = 2
INVARIANTS QueuesInOrder MemoryOpsAddUp WaitingLoadsHaveTheirStore
PROPERTIES KeepsProgramOrder EveryInstructionEnds
