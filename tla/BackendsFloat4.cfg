SPECIFICATION Spec
CONSTANTS
  NULL = NULL
  Programs <- AllPrograms
  Targets <- Float4
  MachineOf <- AllMachines
  DefsOf <- AllDefs
  UsesOf <- AllUses
  PrologueOf <- AllPrologues
  MaxInstr <- Instructions
INVARIANTS NothingMissing
CHECK_DEADLOCK FALSE
