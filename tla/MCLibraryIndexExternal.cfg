SPECIFICATION Spec
CONSTANTS
  r1 = r1  r2 = r2  f1 = f1  x1 = x1  q1 = q1
  None = None
  Root = {r1, r2}
  File = {f1}
  RootOf <- MCRootOf
  Opened = {x1}
  Page = {q1}
  Configured <- MCConfigured
  Clock = {2}
  MaxChanges = 1
  MaxCalls = 3

PROPERTIES ExternalRecorded
CHECK_DEADLOCK FALSE
