CONSTANTS
  Procs = {p1, p2, p3}
  ChangeSets <- OneFile
  DsCommand = FALSE
  MaxTries = 2
  Nobody = Nobody
SPECIFICATION FairSpec
PROPERTIES OneAfterAnother EveryoneEnds
CHECK_DEADLOCK FALSE
