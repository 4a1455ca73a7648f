SPECIFICATION FairSpec
CONSTANTS
  Bodies <- MCBodies
  STACK = 16
INVARIANTS
  EdgesNameItems
  AnswersAreReach
  ChecksAreOfOneValue
PROPERTIES
  AcyclicIsAnswered
CHECK_DEADLOCK FALSE
