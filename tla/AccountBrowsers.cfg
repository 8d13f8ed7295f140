SPECIFICATION Both
CONSTANTS
  a1 = a1
  a2 = a2
  a3 = a3
  p1 = p1
  Presses = {a1, a2}
  Proxies = {p1}
  Direct = Direct
  None = None
  WipesFail = TRUE
  MaxSweeps = 3
  MaxPresses = 2
  MaxUnlocks = 2
SYMMETRY AnyPress
INVARIANTS
  OnScreenAsConfigured
  BrowserHasItsOwnSession
  LockLeavesNoSession
PROPERTIES
  WindowIsTheUsers
CHECK_DEADLOCK FALSE
