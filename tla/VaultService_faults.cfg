SPECIFICATION FairSpec
CONSTANTS
  None = None
  Torn = Torn
  MaxFaults = 3
  MaxStamp = 8
  MaxGeneration = 1
  MaxPending = 1
  FilesVanish = FALSE
INVARIANTS
  FileKeepsPromise
  ButForLostEvidence
  LastGoodCopySurvives
PROPERTIES
  RotationDebtIsPaid
