CONSTANTS
  Procs = {p1, p2, p3}
  ChangeSets <- OneFile
  DsCommand = TRUE
  MaxTries = 2
  Nobody = Nobody
SPECIFICATION FairSpec
PROPERTY EveryoneEnds
CHECK_DEADLOCK FALSE
