SPECIFICATION Both
CONSTANTS
  Accounts = {a1, a2}
  Tasks = {t1, t2, t3}
  None = None
  MaxVersion = 1
  Imported = {imported}
  Proxies = {p1}
  Direct = Direct
  Torn = Torn
  Versions = {0, 1, 3}
  MaxFaults = 1
  MaxCopies = 1
SYMMETRY Symmetry
INVARIANTS
  OneWriter
  ExportedBytesHold
  BackupsAreKept
  RoutesAreAgreed
