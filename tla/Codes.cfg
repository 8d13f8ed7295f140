SPECIFICATION CodesFairSpec
CONSTANTS
  c1 = c1
  c2 = c2
  t1 = t1
  a1 = a1
  a2 = a2
  Codes = {c1, c2}
  Others = {t1}
  Empty = Empty
  Nothing = Nothing
  WriteFails = TRUE
  ReadFails = TRUE
  AccountOrder <- MCAccounts
  Direct = Direct
  Skews <- MCSkews
  Credible = 2
  Tolerance = 2
  Turns = 2
  MaxLatency = 1
INVARIANTS
  CodeIsWatched
  VerifiedIsRight
PROPERTIES
  SyncedAtLast
CHECK_DEADLOCK FALSE
