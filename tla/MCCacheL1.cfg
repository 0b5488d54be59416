SPECIFICATION FairSpec
CONSTANTS
  a = a
  b = b
  i1 = i1
  i2 = i2
  core = core
  other = other
  NoBlock = NoBlock
  Block <- TwoBlocks
  SetIndex <- OneSet
  IndexOf <- MCIndexOf
  Instr <- OneInstr
  Upper <- OneUpper
  SenderOf <- OneSender
  match_offset_bits = TRUE
  NUM_WAY = 2
  MSHR_SIZE = 1
  PQ_SIZE = 0
  MaxTags = 2
  MaxWrites = 1
INVARIANT NoBlockTwice
PROPERTIES AnswersEveryone EveryoneIsAnswered
