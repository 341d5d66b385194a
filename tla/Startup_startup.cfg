\* Two starts that merge, no crash during one: the second merges into a table of its own batch.
SPECIFICATION StartupSpec
CONSTANTS
  OpenLimit = 2
  BatchSize = 2
  LastId = 5
  MaxFlushes = 4
  MaxStarts = 3
  MaxTorn = 0
INVARIANT TablesKept
CHECK_DEADLOCK FALSE
