SPECIFICATION TrackerFairSpec
CONSTANTS
  r1 = r1
  r2 = r2
  f1 = f1
  f2 = f2
  f3 = f3
  t1 = t1
  t2 = t2
  Nobody = Nobody
  Requests = {r1, r2}
  Reports = {t1}
  Files = {f1, f2, f3}
  Limit = 2
  MaxFaults = 2
INVARIANTS
  StoredWithinLimit
  StatusIsTheLastWord
PROPERTIES
  EvidenceStays
  RetentionIsKept
CHECK_DEADLOCK FALSE
