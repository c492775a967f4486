CONSTANTS
  TTL = 1
  Pool <- Names
  KskNames = {k1, k2}
  ZskNames = {z1, z2}
  CskNames = {c1}
  IncludeNames = {}
  Algorithms = {"ecdsa"}
  KskRollChoices = {"KskRoll", "KskDoubleDsRoll"}
  ZskRollChoices = {"ZskRoll"}
  CskChoices = {FALSE}
  RollChoices = {{"Ksk", "Zsk"}}
  Channels = {"cds"}
  Imported = {}
  Automatic <- AllAuto
  Settings <- Configs
SPECIFICATION Spec
INVARIANT CdsWhileNeeded
CHECK_DEADLOCK FALSE
