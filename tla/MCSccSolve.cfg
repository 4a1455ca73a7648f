SPECIFICATION Spec
CONSTANT
  NBlocks = 4
INVARIANTS
  ComponentsAreExact
  ResultIsClosedForm
  ContractionKeepsFlow
  PathsAreExact
PROPERTIES
  Terminates
