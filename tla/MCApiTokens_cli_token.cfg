\* The tool used next to a running server, whose next save writes its own map over the file.
SPECIFICATION TokenSpec
CONSTANTS
  t1 = t1
  t2 = t2
  t3 = t3
  None = None
  Tokens = {t1, t2, t3}
  CreatedBy <- MCCreatedBy
  Expiring = {t3}
  Requests = {r1, r2}
  ByTool = {t2}
  ToolWhile = {"down", "running"}
  MaxFailedSaves = 0
  MaxStops = 1
  MaxRequests = 2
INVARIANT IssuedAccepted
CHECK_DEADLOCK FALSE
