SPECIFICATION RSpec
CONSTANTS
  AdtDefs <- MCAdtDefs
  Crates <- RCrates
  Bodies <- RBodies
INVARIANTS
  AnswersAsTested
  TableIsOfFields
  LayoutMatchesSummary
  OrderIsTopological
  HandlersAgree
  LeaksAreReported
  VectorsAreMoves
PROPERTIES
  PassesOnlyAdd
  NotMultiplied
CHECK_DEADLOCK FALSE
