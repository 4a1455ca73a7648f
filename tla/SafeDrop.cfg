SPECIFICATION Spec
CONSTANT
  Bodies <- AllBodies
INVARIANTS
  GraphIsSound
  OnlyLinkedNodesDie
  LimitIsHonoured
  PathsAreIsolated
  ComponentsAreLeft
PROPERTIES
  Terminates
