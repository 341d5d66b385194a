\* Tokens: two requests at a time, two users, a tool used while the server is down, a
\* failing save and an end of the server.  Policies: two applications, tables with one, both
\* and none of them, two changers, the periodic check, a fault and a restart.  Start-up: tables
\* of four flushes, three starts, a table cut short.
SPECIFICATION AdminSpec
CONSTANTS
  t1 = t1
  t2 = t2
  t3 = t3
  None = None
  Tokens = {t1, t2, t3}
  CreatedBy <- MCCreatedBy
  Expiring = {t3}
  Requests = {r1, r2}
  ByTool = {t2}
  ToolWhile = {"down"}
  MaxFailedSaves = 1
  MaxStops = 1
  MaxRequests = 2
  x = x
  y = y
  tx = tx
  txy = txy
  tnone = tnone
  Forever = Forever
  Unset = Unset
  Applications = {x, y}
  Days = {1, 2}
  Tables = {tx, txy, tnone}
  AppsOf <- MCAppsOf
  Stamp <- MCStamp
  Changers = {c1, c2}
  Changes <- MCChanges
  Checkers = {periodic}
  FromEnv <- MCFromEnv
  LastDay = 2
  MaxPolicyFaults = 1
  MaxRestarts = 1
  MaxChanges = 2
  OpenLimit = 2
  BatchSize = 2
  LastId = 5
  MaxFlushes = 4
  MaxStarts = 3
  MaxTorn = 1
INVARIANTS AdminTypeOK RevokedRefused IssuedAccepted FileAgrees PoliciesSaved LostOnlyByReuse
PROPERTIES EachReplied OnlyAllowedGo OverdueGo FewTables StartEnds
CHECK_DEADLOCK FALSE
