SPECIFICATION Spec
CONSTANTS
  None = None
  Torn = Torn
  MaxFaults = 1
  MaxStamp = 9
  MaxGeneration = 1
  MaxPending = 2
  FilesVanish = TRUE
INVARIANTS
  SessionAgreesWithFile
PROPERTIES
  NothingStaleTakesEffect
