SPECIFICATION Spec
CONSTANTS
  Programs <- WhilePrograms
INVARIANTS
  AllBlocksApplied
