SPECIFICATION FairSpec
CONSTANTS
  num_physical_registers = 4
  RAT_SIZE = 3
  Operation <- MCOperation
  MaxInstr = 4
  ROB_SIZE = 3
  SCHEDULER_SIZE = 2
  EXEC_WIDTH = 2
  RETIRE_WIDTH = 2
  DISPATCH_WIDTH = 2
INVARIANTS
  TypeOK
  RegisterPartition
  RenamingFollowsTheProgram
  ProducersCompleteFirst
  RegistersSuffice
PROPERTY EveryInstructionRetires
