SPECIFICATION Spec
CONSTANTS
  i1 = i1
  i2 = i2
  Instr <- TwoInstr
  Address <- TwoWords
  Translation <- Mixed
  RQ_SIZE = 2
  WQ_SIZE = 2
  PQ_SIZE = 1
  OFFSET_BITS = 1
  match_offset_bits = TRUE
INVARIANTS TypeOK IdsWaitOnce WaitersWillBeAnswered
PROPERTY KeepsPromise
SYMMETRY InstrSymmetry
CONSTRAINT FewRequests
