SPECIFICATION Spec
CONSTANTS
  c0 = c0
  Cpu <- OneCore
  Vpage <- TwoPages
  pt_levels = 2
  pte_page_size = 2
  tables_per_page = 2
  PageOrder <- SixPages
PROPERTY OnlyFaultsTakePages
