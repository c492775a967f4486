CONSTANTS
  TTL = 1
  Pool <- Names
  KskNames = {k0, k1}
  ZskNames = {z0, z1}
  CskNames = {}
  IncludeNames = {p0}
  Algorithms = {"ecdsa"}
  KskRollChoices = {"KskRoll", "KskDoubleDsRoll"}
  ZskRollChoices = {"ZskRoll", "ZskDoubleSignatureRoll"}
  CskChoices = {FALSE}
  RollChoices = {{"Ksk"}, {"Zsk"}, {"Csk"}, {"Algorithm"}}
  Channels = {"cds"}
  Imported = {k0, z0}
  Automatic <- AllAuto
  Settings <- Configs
SPECIFICATION FairSpec
INVARIANTS ChainOfTrust CdsWhileNeeded
 
CHECK_DEADLOCK FALSE
