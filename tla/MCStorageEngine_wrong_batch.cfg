\* Two compactions of the same batch: the second drains a table neither has merged.
SPECIFICATION Spec
CONSTANTS
  f1 = f1
  f2 = f2
  f3 = f3
  f4 = f4
  d1 = d1
  d2 = d2
  None = None
  Frames = {f1, f3, f4}
  Devices <- MCDevices
  DevOf <- MCDevOf
  KeyOf <- MCKeyOf
  Writers = {w1}
  Timers = {timer}
  Sweepers = {}
  TooOld = {}
  LowerCase = {f1, f3, f4}
  Deleters = {}
  Queriers = {}
  CompactionThreshold = 2
  MemtableLimit = 1
  Inodes = {1, 2, 3, 4}
  MaxId = 6
  MaxCrashes = 0
INVARIANTS AckedReadable
CHECK_DEADLOCK FALSE
