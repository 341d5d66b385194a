\* Two concurrent writers, the periodic flush with compaction, a query and a crash.
SPECIFICATION Spec
CONSTANTS
  f1 = f1
  f2 = f2
  f3 = f3
  f4 = f4
  d1 = d1
  d2 = d2
  None = None
  Frames = {f1, f2, f3}
  Devices <- MCDevices
  DevOf <- MCDevOf
  KeyOf <- MCKeyOf
  Writers = {w1, w2}
  Timers = {timer}
  Sweepers = {}
  TooOld = {}
  LowerCase = {f1, f2, f3}
  Deleters = {}
  Queriers = {q}
  CompactionThreshold = 2
  MemtableLimit = 9
  Inodes = {1, 2, 3, 4}
  MaxId = 5
  MaxCrashes = 1
INVARIANTS TypeOK LogAttached QueryComplete
PROPERTY ImplementsStore
SYMMETRY Alike
CHECK_DEADLOCK FALSE
