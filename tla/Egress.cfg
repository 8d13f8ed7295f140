SPECIFICATION Spec
CONSTANTS
  c1 = c1
  c2 = c2
  p1 = p1
  Callers = {c1, c2}
  Proxies = {p1}
  System = System
  None = None
  MaxForgets = 3
  MaxSpoils = 1
SYMMETRY AnyCaller
INVARIANTS
  FliesAsConfigured
  CookiesAreOfThisGrant
PROPERTIES
  NoOlderRouteLands
  KeepsGrants
CHECK_DEADLOCK FALSE
