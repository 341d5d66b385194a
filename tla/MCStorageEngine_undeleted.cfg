\* A device is deleted, the process crashes, and the log brings its frames back.
SPECIFICATION Spec
CONSTANTS
  f1 = f1
  f2 = f2
  f3 = f3
  f4 = f4
  d1 = d1
  d2 = d2
  None = None
  Frames = {f1, f4}
  Devices <- MCDevices
  DevOf <- MCDevOf
  KeyOf <- MCKeyOf
  Writers = {w1}
  Timers = {}
  Sweepers = {}
  TooOld = {}
  LowerCase = {f1, f4}
  Deleters = {del}
  Queriers = {}
  CompactionThreshold = 1
  MemtableLimit = 9
  Inodes = {1, 2, 3, 4}
  MaxId = 3
  MaxCrashes = 1
INVARIANTS DeletedStayDeleted
CHECK_DEADLOCK FALSE
