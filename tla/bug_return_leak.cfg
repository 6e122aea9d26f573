SPECIFICATION Spec
CONSTANTS
  Programs <- MCPrograms
  Outcomes = {"ok", "A", "B", "exit"}
INVARIANTS ReturnOperandFreed
