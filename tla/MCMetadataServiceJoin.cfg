SPECIFICATION FairSpec
CONSTANTS
  MaxEvents = 1
  Sources = 1
  MaxCalls = 0
PROPERTY WorkerJoins
CHECK_DEADLOCK FALSE
