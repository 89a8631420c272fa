SPECIFICATION FairSpec
CONSTANTS
  g1 = g1
  g2 = g2
  Game = {g1, g2}
  NoCart = NoCart
  Torn = Torn
  MaxWrites = 2
INVARIANTS
  SavedIsKept
  MachineMatches
PROPERTIES
  UnsavedIsKept
  PreparationEnds
  KeepsBattery
