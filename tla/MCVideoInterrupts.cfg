SPECIFICATION FairSpec
CONSTANTS
  Line = 3
  Lines = 4
  Heights = {1, 2}
  Edge <- MCEdge
  Reloads = {0, 1}
  ByteReload = 1
  FirstLine = 1
  Durations = {2, 5}
  Masks = {3, 6}
INVARIANTS
  RequestAgrees
  VintOncePerFrame
  LineCounter
PROPERTIES
  StopWakes
  HintSurvives
