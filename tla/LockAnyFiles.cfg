CONSTANTS
  Procs = {p1, p2, p3}
  ChangeSets <- AnyFiles
  DsCommand = TRUE
  MaxTries = 2
  Nobody = Nobody
SPECIFICATION Spec
INVARIANTS TypeOK Exclusive UpToDate
PROPERTY ConfigKept
CHECK_DEADLOCK FALSE
