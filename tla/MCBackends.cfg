SPECIFICATION Spec
CONSTANTS
  NULL = NULL
  Programs <- AllPrograms
  Targets <- All
  MachineOf <- AllMachines
  DefsOf <- AllDefs
  UsesOf <- AllUses
  PrologueOf <- AllPrologues
  MaxInstr <- Instructions
INVARIANTS NothingMissing RegistersConsistent NothingLeftBehind
CHECK_DEADLOCK FALSE
