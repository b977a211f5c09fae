\* The shell and every page; the user stops clicking some time.
SPECIFICATION MCSpec
CONSTANTS
  f = f  c1 = c1
  Accounts = {a, m}
  Administrators = {a}
  TabCalls = {c1, c2}
  MaxLogins = 2
  MaxClicks = 2
  MaxReloads = 1
  Employees = {e, f}
  PageCalls = {c1, c2}
  MaxPresses = 7
  MaxChanges = 2
  Actions = {"x", "y"}
  LogCalls = {c1, c2}
  Limit = 1
  MaxEvents = 3
  MaxTime = 1
  MaxTurns = 3
  
PROPERTIES AdminProgress
CHECK_DEADLOCK FALSE
