\* One flush races one write: the acknowledged frame is in neither log nor table.
SPECIFICATION Spec
CONSTANTS
  f1 = f1
  f2 = f2
  f3 = f3
  f4 = f4
  d1 = d1
  d2 = d2
  None = None
  Frames = {f1, f3}
  Devices <- MCDevices
  DevOf <- MCDevOf
  KeyOf <- MCKeyOf
  Writers = {w1, w2}
  Timers = {timer}
  Sweepers = {}
  TooOld = {}
  LowerCase = {f1, f3}
  Deleters = {}
  Queriers = {}
  CompactionThreshold = 1
  MemtableLimit = 9
  Inodes = {1, 2, 3, 4}
  MaxId = 2
  MaxCrashes = 0
INVARIANTS AckedSurvive
CHECK_DEADLOCK FALSE
