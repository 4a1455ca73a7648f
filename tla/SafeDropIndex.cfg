SPECIFICATION Spec
CONSTANTS
  Bodies <- FieldBodies
INVARIANT
  IndexIsPosition
