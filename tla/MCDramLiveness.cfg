SPECIFICATION OneBankSpec
CONSTANTS
  i1 = i1
  x1 = x1
  x2 = x2
  x3 = x3
  y1 = y1
  bx = bx
  by = by
  NoBank = NoBank
  NoRequest = NoRequest
  NoPacket = NoPacket
  Block <- SameBank
  Bank <- OneBank
  BankOf <- ThreeInOne
  Instr <- OneInstr
  RQ_SIZE = 1
  WQ_SIZE = 3
  refreshes = FALSE
VIEW AllButHistory
INVARIANT BanksServeTheMode
PROPERTIES ReadsAreAnswered FullWriteQueueIsServed
