SPECIFICATION FairSpec
CONSTANTS
  c0 = c0
  c1 = c1
  Cpu <- TwoCores
  cpu = c0
  Vpage <- TwoPages
  pt_levels = 3
  pte_page_size = 2
  tables_per_page = 1
  PageOrder <- FivePages
  PSCL_WAYS = 1
  PtesPerBlock = 2
  MaxWalks = 2
  Silent = {1}
  MaxFaults = 1
  OtherVpage = {2}
  RQ_SIZE = 1
INVARIANTS WalksAreOnTheirWay NoPageTwice
PROPERTIES AnswersWithTheMapping EveryWalkEnds
