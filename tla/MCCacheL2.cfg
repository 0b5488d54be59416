SPECIFICATION Spec
CONSTANTS
  a = a
  b = b
  i1 = i1
  i2 = i2
  core = core
  other = other
  NoBlock = NoBlock
  Block <- TwoBlocks
  SetIndex <- OneSet
  IndexOf <- MCIndexOf
  Instr <- TwoInstr
  Upper <- TwoUpper
  SenderOf <- TwoSenders
  match_offset_bits = FALSE
  NUM_WAY = 2
  MSHR_SIZE = 2
  PQ_SIZE = 1
  MaxTags = 1
  MaxWrites = 1
INVARIANT MissesMatchAnswers
PROPERTIES AnswersEveryone WrittenBlocksAreDirty
SYMMETRY BlockSymmetry
