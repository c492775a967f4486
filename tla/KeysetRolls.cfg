CONSTANTS
  TTL = 1
  Pool <- Names
  KskNames = {k1, k2}
  ZskNames = {z1, z2}
  CskNames = {c1}
  IncludeNames = {}
  Algorithms = {"rsa", "ecdsa"}
  KskRollChoices = {"KskRoll", "KskDoubleDsRoll"}
  ZskRollChoices = {"ZskRoll"}
  CskChoices = {TRUE, FALSE}
  RollChoices = {{"Ksk", "Zsk"}, {"Csk", "Algorithm"}}
  Channels = {"cds"}
  Imported = {}
  Automatic <- AllAuto
  Settings <- Mixed
SPECIFICATION Spec
INVARIANTS TypeOK ChainOfTrust RrsetsFollowKeys ReportsPerRoll
SYMMETRY NewNames
CHECK_DEADLOCK FALSE
