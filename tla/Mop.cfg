SPECIFICATION Spec
CONSTANT
  Programs <- AllPrograms
INVARIANTS
  SummariesAreTyped
  NestedOnce
  SummaryIsStandalone
  BranchesAreSeparate
  OrdersAreRounds
  FooAsTested
PROPERTIES
  Terminates
