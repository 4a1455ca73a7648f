SPECIFICATION RSpec
CONSTANTS
  AdtDefs <- MCAdtDefs
  Crates <- PairedCrates
  Bodies <- RBodies
INVARIANT
  NewVectorsAreNew
CHECK_DEADLOCK FALSE
