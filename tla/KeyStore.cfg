CONSTANTS
  Names = {n1, n2}
  Servers = {s1, s2}
  Paths = {p1}
  None = None
  Foreign <- ForeignKeys
  MaxItems = 2
  MaxOthers = 1
  MaxFailures = 1
SPECIFICATION Spec
INVARIANTS TypeOK KeysOfKnownServers KeysUsable NoOrphan CredentialsKept
PROPERTY OthersKept
SYMMETRY Exchangeable
CHECK_DEADLOCK FALSE
