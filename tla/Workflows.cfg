SPECIFICATION Spec
CONSTANTS
  a1 = a1
  a2 = a2
  old = old
  elsewhere = elsewhere
  Attempts = {a1, a2}
  Prints = {a1, a2, old, elsewhere}
  Old = old
  Elsewhere = elsewhere
  None = None
  MaxFaults = 2
  ReadBackFails = TRUE
SYMMETRY EitherOrder
INVARIANTS
  ReplySurvives
PROPERTIES
  KeepsPromise
  OnlyTheObsoleteGoes
