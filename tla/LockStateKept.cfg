CONSTANTS
  Procs = {p1, p2}
  ChangeSets <- AnyFiles
  DsCommand = FALSE
  MaxTries = 2
  Nobody = Nobody
SPECIFICATION Spec
PROPERTY StateKept
CHECK_DEADLOCK FALSE
