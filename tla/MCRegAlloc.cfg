SPECIFICATION Spec
CONSTANTS
  Reg <- Regs
  SavedRegs <- Saved
  RetReg = 0
  ArgReg = 1
  NumIns = 3
  Programs <- BothPrograms
  Label = {l1}
  MaxInstr = 3
  NULL = NULL
INVARIANTS RegistersConsistent ValuesWhereNeeded NothingOutlivesItsDefinition ExitsLeaveRegistersAlone LoopsGetWhatTheyRead
CHECK_DEADLOCK FALSE
