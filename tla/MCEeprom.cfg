SPECIFICATION Spec
CONSTANTS
  Width = 2
  Weight <- MCWeight
  Select = 2
  DeviceId = 0
  Profile <- MCProfile
  WriteTime = 1
  MaxSent <- MCMaxSent
INVARIANTS WriteCycleQuiet ReadsMemory DirtyKept
