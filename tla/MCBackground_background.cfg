\* A writer whose full memtable is flushed and compacted, with the periodic flush, the
\* retention check or a device deletion, and a crash.
SPECIFICATION Spec
CONSTANTS
  f1 = f1
  f2 = f2
  f3 = f3
  f4 = f4
  d1 = d1
  d2 = d2
  None = None
  Frames = {f1, f3, f4}
  Devices <- MCDevices
  DevOf <- MCDevOf
  KeyOf <- MCKeyOf
  Writers = {w1}
  Timers = {timer}
  Sweepers = {sweep}
  TooOld = {f4}
  LowerCase = {f1, f4}
  Deleters = {del}
  Queriers = {}
  CompactionThreshold = 1
  MemtableLimit = 1
  Inodes = {1, 2, 3, 4}
  MaxId = 4
  MaxCrashes = 1
INVARIANTS FreshIds ListedFilesExist Durable
PROPERTIES ListedTablesFixed
CONSTRAINT Bounds
CHECK_DEADLOCK FALSE
