SPECIFICATION FairSpec
CONSTANTS
  Divider = 15
  MaxAdvance = 31
  MaxOp = 4
INVARIANTS
  AudioAccounts
  PhaseKept
  GrantIsSafe
PROPERTIES
  FrozenWhileGranted
  RequestIsGranted
