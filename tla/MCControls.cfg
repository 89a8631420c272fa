SPECIFICATION Spec
CONSTANTS
  esc = esc  f11 = f11  kd = kd  pu = pu
  Key = {esc, f11, kd}
  Pad = {pu}
  Menu = {esc}
  Fullscreen = {f11}
  Skip = {pu}
  Bound <- MCBound
  MaxQueue = 2
  Timeout = 2
  MaxIdle = 2
INVARIANTS NothingHeldLeaks PausedIsSilent SignatureUnique PollReadsPad
