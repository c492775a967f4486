------------------------------- MODULE DomainKeySet -------------------------------
(***************************************************************************)
(* The key set library that keyset drives (domain::dnssec::sign::keys).    *)
(* It is not part of the repository: every definition here follows from    *)
(* how src/commands/keyset/cmd.rs uses it (which calls it makes, which     *)
(* actions and errors it handles, which key state flags it reads).         *)
(*                                                                         *)
(* A key set is [keys |-> .., rolls |-> ..]: the keys by name, and for     *)
(* every roll in progress the state it is in.                              *)
(***************************************************************************)
EXTENDS Naturals, FiniteSets

KeyTypes == {"KSK", "ZSK", "CSK", "Include"}

(* What a key can be used for: it is in the DNSKEY RRset (present), it     *)
(* signs the DNSKEY RRset (signer), it signs the rest of the zone          *)
(* (zone_signer), the parent has a DS record for it (at_parent).           *)
Flags == {"present", "signer", "zone_signer", "at_parent"}

Capability ==
  [KSK     |-> {"present", "signer", "at_parent"},
   ZSK     |-> {"present", "zone_signer"},
   CSK     |-> Flags,
   Include |-> {"present"}]

(* A key: its type, its algorithm, whether it is being replaced, its flags. *)
Key(Algorithms) ==
  [type : KeyTypes, alg : Algorithms, old : BOOLEAN, flags : SUBSET Flags]

stale(key) == key.old /\ key.flags = {}

-----------------------------------------------------------------------------
KskRolls == {"KskRoll", "KskDoubleDsRoll"}
ZskRolls == {"ZskRoll", "ZskDoubleSignatureRoll"}
RollTypes == KskRolls \union ZskRolls \union {"CskRoll", "AlgorithmRoll"}

Propagation == {"Propagation1", "Propagation2"}
CacheExpire == {"CacheExpire1", "CacheExpire2"}
Phases == Propagation \union CacheExpire \union {"Done"}

(* The state of a roll; wait is the time left before the TTL reported when *)
(* the cache expire state was entered has passed.                          *)
RollState(MaxTtl) == [phase : Phases, wait : 0 .. MaxTtl]

(* The key types that take part in a roll. *)
Rolls(r) ==
  IF r \in KskRolls THEN {"KSK"}
  ELSE IF r \in ZskRolls THEN {"ZSK"} ELSE {"KSK", "ZSK", "CSK"}

(* Only a KSK and a ZSK roll can be in progress at the same time. *)
Compatible(r) ==
  IF r \in KskRolls THEN ZskRolls ELSE IF r \in ZskRolls THEN KskRolls ELSE {}

Step(give, take, actions) == [give |-> give, take |-> take, actions |-> actions]

(* For each roll and each state in which something changes: the flags the  *)
(* new keys gain and the old keys lose, and the actions the caller has to  *)
(* carry out in that state.                                                *)
Plan ==
  [KskRoll |->
     [Propagation1 |-> Step({"present", "signer"}, {},
                            {"UpdateDnskeyRrset", "ReportDnskeyPropagated"}),
      Propagation2 |-> Step({"at_parent"}, {"at_parent"},
                            {"CreateCdsRrset", "UpdateDsRrset", "ReportDsPropagated"}),
      Done         |-> Step({}, {"present", "signer"},
                            {"RemoveCdsRrset", "UpdateDnskeyRrset", "WaitDnskeyPropagated"})],
   KskDoubleDsRoll |->
     [Propagation1 |-> Step({"at_parent"}, {},
                            {"CreateCdsRrset", "UpdateDsRrset", "ReportDsPropagated"}),
      Propagation2 |-> Step({"present", "signer"}, {"present", "signer"},
                            {"UpdateDnskeyRrset", "ReportDnskeyPropagated"}),
      Done         |-> Step({}, {"at_parent"},
                            {"CreateCdsRrset", "UpdateDsRrset", "WaitDsPropagated"})],
   ZskRoll |->
     [Propagation1 |-> Step({"present"}, {},
                            {"UpdateDnskeyRrset", "ReportDnskeyPropagated"}),
      Propagation2 |-> Step({"zone_signer"}, {"zone_signer"},
                            {"UpdateRrsig", "ReportRrsigPropagated"}),
      Done         |-> Step({}, {"present"},
                            {"UpdateDnskeyRrset", "WaitDnskeyPropagated"})],
   ZskDoubleSignatureRoll |->
     [Propagation1 |-> Step({"present", "zone_signer"}, {},
                            {"UpdateDnskeyRrset", "UpdateRrsig",
                             "ReportDnskeyPropagated", "ReportRrsigPropagated"}),
      Propagation2 |-> Step({}, {"present", "zone_signer"},
                            {"UpdateDnskeyRrset", "UpdateRrsig",
                             "ReportDnskeyPropagated", "ReportRrsigPropagated"}),
      Done         |-> Step({}, {}, {})],
   CskRoll |->
     [Propagation1 |-> Step({"present", "signer"}, {},
                            {"UpdateDnskeyRrset", "ReportDnskeyPropagated"}),
      Propagation2 |-> Step({"at_parent", "zone_signer"}, {"at_parent", "zone_signer"},
                            {"CreateCdsRrset", "UpdateDsRrset", "UpdateRrsig",
                             "ReportDsPropagated", "ReportRrsigPropagated"}),
      Done         |-> Step({}, {"present", "signer"},
                            {"RemoveCdsRrset", "UpdateDnskeyRrset", "WaitDnskeyPropagated"})],
   AlgorithmRoll |->
     [Propagation1 |-> Step({"present", "signer", "zone_signer"}, {},
                            {"UpdateDnskeyRrset", "UpdateRrsig",
                             "ReportDnskeyPropagated", "ReportRrsigPropagated"}),
      Propagation2 |-> Step({"at_parent"}, {"at_parent"},
                            {"CreateCdsRrset", "UpdateDsRrset", "ReportDsPropagated"}),
      Done         |-> Step({}, {"present", "signer", "zone_signer"},
                            {"RemoveCdsRrset", "UpdateDnskeyRrset", "UpdateRrsig",
                             "WaitDnskeyPropagated", "WaitRrsigPropagated"})]]

actions(r, phase) == IF phase \in CacheExpire THEN {} ELSE Plan[r][phase].actions

-----------------------------------------------------------------------------
(* What keyset has to find out for the actions of a state: whether the     *)
(* DNSKEY RRset, the DS RRset, the RRSIGs are everywhere, in this order.   *)

Checks == {"dnskey", "ds", "rrsig"}
CheckOrder == [dnskey |-> 1, ds |-> 2, rrsig |-> 3]
CheckOf ==
  [ReportDnskeyPropagated |-> "dnskey", WaitDnskeyPropagated |-> "dnskey",
   ReportDsPropagated     |-> "ds",     WaitDsPropagated     |-> "ds",
   ReportRrsigPropagated  |-> "rrsig",  WaitRrsigPropagated  |-> "rrsig"]

Needed(r, phase) == {CheckOf[a] : a \in actions(r, phase) \intersect DOMAIN CheckOf}

-----------------------------------------------------------------------------
(* The keys of a roll when it enters a state. *)
Applied(keys, r, phase) ==
  [k \in DOMAIN keys |->
     IF keys[k].type \notin Rolls(r) THEN keys[k]
     ELSE IF keys[k].old
     THEN [keys[k] EXCEPT !.flags = @ \ Plan[r][phase].take]
     ELSE [keys[k] EXCEPT !.flags =
             @ \union (Plan[r][phase].give \intersect Capability[keys[k].type])]]

Entered(set, r, phase, wait) ==
  [keys  |-> IF phase \in CacheExpire THEN set.keys ELSE Applied(set.keys, r, phase),
   rolls |-> [x \in DOMAIN set.rolls \union {r} |->
                IF x = r THEN [phase |-> phase, wait |-> wait] ELSE set.rolls[x]]]

(* add_key_ksk, add_key_zsk and add_key_csk: a key that is not used yet. *)
add_key(set, name, type, alg) ==
  [set EXCEPT !.keys =
     [k \in DOMAIN set.keys \union {name} |->
        IF k = name THEN [type |-> type, alg |-> alg, old |-> FALSE, flags |-> {}]
        ELSE set.keys[k]]]

AlgorithmsOf(set, names) == {set.keys[k].alg : k \in names}

(* start_roll refuses a conflicting roll, and keys of another algorithm    *)
(* unless it is an algorithm roll.                                         *)
CanStart(set, r, old, new) ==
  /\ DOMAIN set.rolls \subseteq Compatible(r)
  /\ r # "AlgorithmRoll" => AlgorithmsOf(set, old) = AlgorithmsOf(set, new)

start_roll(set, r, old) ==
  Entered([set EXCEPT !.keys =
             [k \in DOMAIN set.keys |->
                [set.keys[k] EXCEPT !.old = @ \/ k \in old]]],
          r, "Propagation1", 0)

(* propagationN_complete is an error in any other state. *)
propagation_complete(set, r, ttl) ==
  Entered(set, r,
          IF set.rolls[r].phase = "Propagation1" THEN "CacheExpire1" ELSE "CacheExpire2",
          ttl)

(* cache_expiredN is an error in any other state, and Error::Wait as long  *)
(* as the reported TTL has not passed.                                     *)
cache_expired(set, r) ==
  Entered(set, r,
          IF set.rolls[r].phase = "CacheExpire1" THEN "Propagation2" ELSE "Done", 0)

(* A tick of the clock, for the rolls that wait. *)
Waited(rolls) ==
  [r \in DOMAIN rolls |-> [rolls[r] EXCEPT !.wait = IF @ = 0 THEN 0 ELSE @ - 1]]

roll_done(set, r) ==
  [set EXCEPT !.rolls = [x \in DOMAIN set.rolls \ {r} |-> set.rolls[x]]]

(* delete_key refuses a key that is not stale. *)
delete_key(set, name) ==
  [set EXCEPT !.keys = [k \in DOMAIN set.keys \ {name} |-> set.keys[k]]]
=============================================================================
