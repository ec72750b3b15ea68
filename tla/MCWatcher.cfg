SPECIFICATION FairSpec
CONSTANTS
  MaxSaves = 3
  BadVersions <- OneBad
  GoodHalves <- TwoHalves
  Editors <- AllEditors
CHECK_DEADLOCK FALSE
INVARIANTS
  TypeOK
  StaleForAReason
PROPERTIES
  ReloadsAdvance
  FreshEditIsLoaded
