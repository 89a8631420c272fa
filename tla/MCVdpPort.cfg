SPECIFICATION FairSpec
CONSTANTS
  Value = {v}
  NoWord = NoWord
  Addr = 1
  Size = 2
  Period = 2
  Mode <- MCMode
  ActiveSlots = {1}
  BlankSlots = {0, 1}
  Gap <- MCGap
  MaxLength = 2
  CpuCycles = {2}
  Z80Burst = 1
INVARIANTS
  TimesAhead
  TransferAfterQueue
PROPERTIES
  KeepsPromise
  Z80WaitEnds
  CpuWaitEnds
  TransferEnds
