SPECIFICATION Spec
CONSTANTS
  NLocals = 4
  Discr = {1, 3}
  MaxNodes = 6
INVARIANTS
  IInv
  HeadIsLeast
PROPERTIES
  AliasesAreKept
  ImplementsPartition
