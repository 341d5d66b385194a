\* One start; the environment gives x a day and y nothing, and the global default is "never".
SPECIFICATION PolicySpec
CONSTANTS
  x = x
  y = y
  tx = tx
  txy = txy
  tnone = tnone
  Forever = Forever
  Unset = Unset
  Applications = {x, y}
  Days = {1, 2}
  Tables = {tx, txy, tnone}
  AppsOf <- MCAppsOf
  Stamp <- MCStamp
  Changers = {c1}
  Checkers = {periodic}
  FromEnv <- MCFromEnv
  LastDay = 2
  MaxPolicyFaults = 0
  Changes = {}
  MaxRestarts = 0
  MaxChanges = 0
PROPERTIES OnlyPastGo
CHECK_DEADLOCK FALSE
