SPECIFICATION FairSpec
CONSTANTS
  a1 = a1
  a2 = a2
  old = old
  elsewhere = elsewhere
  Attempts = {a1}
  Prints = {a1, old, elsewhere}
  Old = old
  Elsewhere = elsewhere
  None = None
  MaxFaults = 2
  ReadBackFails = TRUE
PROPERTIES
  ReplyIsStored
