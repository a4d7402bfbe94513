CONSTANTS
  e1 = e1
  e2 = e2
  s1 = s1
  s2 = s2
  Nobody = Nobody
  Extractions <- MCExtractions
  Sessions <- MCSessions
  Parts = 2
  Archives = 2
  MaxFaults = 3
SPECIFICATION Spec
CHECK_DEADLOCK FALSE
INVARIANTS
  TypeOK
  InstalledMeansWhole
  ExtractedMeansInstalled
  ArchivesWhole
  RootfsWhole
PROPERTIES
  SetupEnds
