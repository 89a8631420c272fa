SPECIFICATION Spec
CONSTANTS
  Value = {v}
  NoWord = NoWord
  Addr = 2
  Size = 1
  Period = 2
  Mode <- MCMode
  ActiveSlots = {1}
  BlankSlots = {0, 1}
  Gap <- MCGap
  MaxLength = 1
  CpuCycles = {2}
  Z80Burst = 1
PROPERTY
  DestinationCaptured
