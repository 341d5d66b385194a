\* A log with small and large frames, failed writes, a crash and a loss of power; a table of
\* three entries; a memtable with two inserts, a deletion and flushes; queries of every form
\* over lists of two fields; requests of every kind over four frames.
SPECIFICATION PartsSpec
CONSTANTS
  f1 = f1
  f2 = f2
  f3 = f3
  big = big
  None = None
  Frames = {f1, f2, big}
  Size <- MCSize
  Capacity = 10
  MaxCrashes = 1
  MaxPowerCuts = 1
  MaxDiskFull = 2
  Devices = {1, 2, 3}
  Times = {1, 2}
  Sequence = {0, 1}
  Apps = {5}
  NoApp = 0
  Hashes <- MCHashes
  MaxEntries = 3
  m1 = m1
  m2 = m2
  Rows = {f1, f2, f3}
  Motes = {m1, m2}
  DevOf <- MCDevOf
  RowTime <- MCRowTime
  SizeOf <- MCSizeOf
  Inserters = {i1, i2}
  Erasers = {e1, e2}
  Idle = Idle
  MaxSequence = 3
  MaxErasures = 2
  MaxFields = 2
  Identifiers = {"x"}
  Numbers = {0, 1}
  Received = {1, 2, 3, 4}
  SentBy <- MCSentBy
  TimeOf <- MCTimeOf
  KindOf <- MCKindOf
  ColumnsOf <- MCColumnsOf
  LastTime = 2
  MaxResults = 3
  Requests <- MCRequests
INVARIANTS
  PartsTypeOK ReplayAllOrNothing WholeOrRefused ScanExact EveryDeviceFound
  SameApplications NothingOverwritten CountExact ParsesTheGrammar NothingMissed AnswerInOrder
PROPERTY ImplementsLog
CHECK_DEADLOCK FALSE
