SPECIFICATION FairSpec
CONSTANTS
  MaxEvents = 1
  Sources = 2
  MaxCalls = 3
INVARIANTS
  CoversCurrent
  SleepsServed
PROPERTIES
  ViewportSettles
  RefreshAnswered
CHECK_DEADLOCK FALSE
