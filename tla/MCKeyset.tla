------------------------------ MODULE MCKeyset ------------------------------
(* Keyset on small instances: the names of each type of key, enough that a *)
(* roll can follow a roll, and those of keys that can be imported.         *)
EXTENDS Keyset, TLC

CONSTANTS KskNames, ZskNames, CskNames, IncludeNames

Names ==
  [KSK |-> KskNames, ZSK |-> ZskNames, CSK |-> CskNames, Include |-> IncludeNames]

AllAuto == [v \in Variants |-> {"start", "report", "expire", "done"}]

(* Where the KSK and the ZSK are rolled, at the same time, the algorithm   *)
(* stays; elsewhere it changes, and so does whether there is a CSK.        *)
Mixed ==
  {c \in Configs : IF c.rolled = {"Ksk", "Zsk"} THEN c.algorithm = "ecdsa" /\ ~c.use_csk
                   ELSE c.ksk_roll_type = "KskRoll"}

(* Names that are not imported can be exchanged. *)
NewNames ==
  Permutations(KskNames) \union Permutations(ZskNames) \union Permutations(CskNames)
=============================================================================
