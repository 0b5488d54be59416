SPECIFICATION Spec
CONSTANTS
  i1 = i1
  x1 = x1
  x2 = x2
  x3 = x3
  y1 = y1
  bx = bx
  by = by
  NoBank = NoBank
  NoRequest = NoRequest
  NoPacket = NoPacket
  Block <- TwoBlocks
  Bank <- TwoBanks
  BankOf <- TwoInTwo
  Instr <- OneInstr
  RQ_SIZE = 2
  WQ_SIZE = 2
  refreshes = TRUE
INVARIANTS ChecksKeepTheSlots BanksServeTheMode RefreshesAlone
PROPERTIES KeepsPromise DueRefreshComesNext
