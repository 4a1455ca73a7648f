SPECIFICATION Spec
CONSTANTS
  Bodies <- BranchingBodies
INVARIANT
  ConstantIsCurrent
