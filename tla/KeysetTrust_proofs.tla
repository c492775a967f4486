--------------------------- MODULE KeysetTrust_proofs ---------------------------
(***************************************************************************)
(* Proofs about Keyset, for any names, algorithms, configurations and any  *)
(* TTL: whatever versions of the RRsets a resolver combines, it finds a    *)
(* chain of trust; and the CDS RRset is there while a roll needs it.       *)
(***************************************************************************)
EXTENDS Keyset_proofs

-----------------------------------------------------------------------------
(* What a version of an RRset shows of the keys, in four respects: the     *)
(* keys that sign the DNSKEY RRset they are in, the keys in the DNSKEY     *)
(* RRset by which the zone is checked, the keys of the DS records, and the *)
(* keys that made the signatures.                                          *)

Facets == {"ksk", "zsk", "ds", "rrsig"}

KindOf == [ksk |-> "dnskey", zsk |-> "dnskey", ds |-> "ds", rrsig |-> "rrsig"]

Shown(f, v) ==
  IF f = "ksk" THEN v.keys \intersect v.sigs ELSE IF f = "zsk" THEN v.keys ELSE v

SideOf(f) == IF f \in {"ksk", "ds"} THEN {"KSK", "CSK"} ELSE {"ZSK", "CSK"}

(* The flags of a key that the version of now shows. *)
FlagsOf ==
  [ksk |-> {"present", "signer"}, zsk |-> {"present"}, ds |-> {"at_parent"},
   rrsig |-> {"zone_signer"}]

NewOf(set, f) ==
  {k \in DOMAIN set.keys : set.keys[k].type \in SideOf(f) /\ ~set.keys[k].old}

OldOf(set, f) ==
  {k \in DOMAIN set.keys :
     set.keys[k].type \in SideOf(f) /\ set.keys[k].old /\ set.keys[k].flags # {}}

(* The roll replaces these keys. *)
On(r, f) == Rolls(r) \intersect SideOf(f) # {}

Early == {"Propagation1", "CacheExpire1"}

(* The roll checks this in its first state, else in its second. *)
CheckedFirst(r, f) == KindOf[f] \in Needed(r, "Propagation1")

ShowsOld(set, f, v) ==
  /\ OldOf(set, f) \subseteq Shown(f, v)
  /\ f = "ds" /\ OldOf(set, f) = {} => v = {}

ShowsNew(set, f, v) == NewOf(set, f) \subseteq Shown(f, v)

(* What all versions show while the roll is in a phase: the old keys until *)
(* the new ones can be relied on, then in one of the RRsets both and in    *)
(* the other either, then the new keys. The algorithm roll that init       *)
(* starts has no old keys: there is no DS record then.                     *)
Mode(r, phase, f) ==
  IF phase \in Early THEN "old"
  ELSE IF phase = "Done" THEN "new"
  ELSE IF ~CheckedFirst(r, f) THEN "either"
  ELSE IF r = "ZskDoubleSignatureRoll" THEN "new" ELSE "both"

Shows(mode, set, f, v) ==
  /\ mode \in {"old", "both"} => ShowsOld(set, f, v)
  /\ mode \in {"new", "both"} => ShowsNew(set, f, v)
  /\ mode = "either" => ShowsOld(set, f, v) \/ ShowsNew(set, f, v)

(* The DS records the parent will take next. *)
Coming(kind) ==
  IF kind = "ds" /\ config.channel = "cds" THEN {zone_cds} \ {{}} ELSE {}

AllShow(mode, set, f) ==
  \A v \in Visible(KindOf[f]) \union Coming(KindOf[f]) : Shows(mode, set, f, v)

ModesHold(set) ==
  \A f \in Facets :
    /\ (\A r \in DOMAIN set.rolls : ~On(r, f)) => AllShow("new", set, f)
    /\ \A r \in DOMAIN set.rolls :
         On(r, f) => AllShow(Mode(r, set.rolls[r].phase, f), set, f)

(* All versions show the new keys, but those that are only in caches and   *)
(* will be gone from there.                                                *)
Sure(set, f, limit) ==
  /\ \A v \in served[KindOf[f]] \union Coming(KindOf[f]) : ShowsNew(set, f, v)
  /\ \A v \in DOMAIN cached[KindOf[f]] :
       ShowsNew(set, f, v) \/ cached[KindOf[f]][v] <= limit

(* The check has been made, in this state of the roll or in the one whose  *)
(* TTL is waited for.                                                      *)
Settled(s, r, kind) ==
  LET phase == s.keyset.rolls[r].phase
  IN  \/ phase \in Propagation /\ kind \in Needed(r, phase) \intersect s.internal[r][phase]
      \/ phase = "CacheExpire1" /\ kind \in Needed(r, "Propagation1")
      \/ phase = "CacheExpire2" /\ kind \in Needed(r, "Propagation2")

Limit(roll) == IF roll.phase \in CacheExpire THEN roll.wait ELSE TTL

ChecksHold(s) ==
  \A r \in DOMAIN s.keyset.rolls : \A f \in Facets :
    On(r, f) /\ Settled(s, r, KindOf[f]) => Sure(s.keyset, f, Limit(s.keyset.rolls[r]))

-----------------------------------------------------------------------------
(* The flags of the keys follow from the states of the rolls.              *)

Passed(phase) ==
  IF phase \in Early THEN {"Propagation1"}
  ELSE IF phase = "Done" THEN Changing ELSE {"Propagation1", "Propagation2"}

Given(r, phase) == UNION {Plan[r][p].give : p \in Passed(phase)}
Taken(r, phase) == UNION {Plan[r][p].take : p \in Passed(phase)}

KeyFollows(key, rolls) ==
  /\ (\A r \in DOMAIN rolls : key.type \notin Rolls(r)) =>
       key.flags = IF key.old THEN {} ELSE Capability[key.type]
  /\ \A r \in DOMAIN rolls : key.type \in Rolls(r) =>
       IF key.old THEN key.flags \in {{}, Capability[key.type] \ Taken(r, rolls[r].phase)}
       ELSE key.flags = Given(r, rolls[r].phase) \intersect Capability[key.type]

FlagsFollow(set) == \A k \in DOMAIN set.keys : KeyFollows(set.keys[k], set.rolls)

(* CSKs are gone before a KSK or a ZSK is rolled. *)
CsksGone(set) ==
  \A r \in DOMAIN set.rolls : r \in KskRolls \union ZskRolls =>
    \A k \in DOMAIN set.keys : set.keys[k].type = "CSK" => stale(set.keys[k])

Paired(set) == \A r \in DOMAIN set.rolls : DOMAIN set.rolls \ {r} \subseteq Compatible(r)

(* There are new keys, and old ones as long as they are relied on, but for *)
(* the algorithm roll that init starts.                                    *)
Manned(set) == \A f \in Facets : NewOf(set, f) # {}

Bare(set, r) == r = "AlgorithmRoll" /\ \A f \in Facets : OldOf(set, f) = {}

Replaced(set) ==
  \A r \in DOMAIN set.rolls : \A f \in Facets :
    On(r, f) /\ Mode(r, set.rolls[r].phase, f) # "new" => OldOf(set, f) # {} \/ Bare(set, r)

(* Nobody has seen a DS record of the new keys. *)
Unseen(set) == \A ds \in Visible("ds") \union {zone_cds} : NewOf(set, "ds") \intersect ds = {}

(* A CDS RRset of an earlier roll is not taken for that of this one. *)
CdsInOrder(set) ==
  config.channel = "cds" =>
    \A r \in DOMAIN set.rolls : On(r, "ds") /\ set.rolls[r].phase # "Done" =>
      /\ Unseen(set) \/ zone_cds = {} \/ NewOf(set, "ds") \subseteq zone_cds
      /\ "at_parent" \notin Given(r, set.rolls[r].phase) => Unseen(set)

(* Only the end of a ZSK roll takes away the CDS RRset of another roll. *)
CdsThere(s) ==
  \A r \in DOMAIN s.keyset.rolls :
    /\ r \in KskRolls => "Ksk" \in config.rolled
    /\ r \in ZskRolls => "Zsk" \in config.rolled
    /\ "ds" \in Needed(r, s.keyset.rolls[r].phase) =>
         \/ s.cds_rrset = ParentKeys(s.keyset)
         \/ r \in KskRolls /\ {"Ksk", "Zsk"} \subseteq config.rolled

KeysTrusted(set) ==
  FlagsFollow(set) /\ CsksGone(set) /\ Paired(set) /\ Replaced(set)

(* What is true of the state file with respect to its surroundings. *)
Trusted(s) ==
  /\ KeysTrusted(s.keyset)
  /\ Manned(s.keyset)
  /\ ModesHold(s.keyset)
  /\ ChecksHold(s)
  /\ CdsInOrder(s.keyset)
  /\ CdsThere(s)

DnsOK ==
  /\ DOMAIN latest = Kinds /\ DOMAIN served = Kinds /\ DOMAIN cached = Kinds
  /\ \A kind \in Kinds :
       /\ latest[kind] \in served[kind]
       /\ \A v \in DOMAIN cached[kind] : cached[kind][v] \in 1 .. TTL

-----------------------------------------------------------------------------
(* What each roll checks and gives, for the facets of the keys it replaces. *)

PlanTrusts(r, f) ==
  /\ CheckedFirst(r, f) \/ KindOf[f] \in Needed(r, "Propagation2")
  /\ FlagsOf[f] \subseteq Given(r, "Propagation2")
  /\ CheckedFirst(r, f) => FlagsOf[f] \subseteq Given(r, "Propagation1")
  /\ CheckedFirst(r, f) /\ r # "ZskDoubleSignatureRoll"
       => FlagsOf[f] \intersect Taken(r, "Propagation2") = {}

LEMMA NeededIs ==
  /\ Needed("KskRoll", "Propagation1") = {"dnskey"}
  /\ Needed("KskRoll", "Propagation2") = {"ds"}
  /\ Needed("KskDoubleDsRoll", "Propagation1") = {"ds"}
  /\ Needed("KskDoubleDsRoll", "Propagation2") = {"dnskey"}
  /\ Needed("ZskRoll", "Propagation1") = {"dnskey"}
  /\ Needed("ZskRoll", "Propagation2") = {"rrsig"}
  /\ Needed("ZskDoubleSignatureRoll", "Propagation1") = {"dnskey", "rrsig"}
  /\ Needed("ZskDoubleSignatureRoll", "Propagation2") = {"dnskey", "rrsig"}
  /\ Needed("CskRoll", "Propagation1") = {"dnskey"}
  /\ Needed("CskRoll", "Propagation2") = {"ds", "rrsig"}
  /\ Needed("AlgorithmRoll", "Propagation1") = {"dnskey", "rrsig"}
  /\ Needed("AlgorithmRoll", "Propagation2") = {"ds"}
BY DEF Needed, actions, CacheExpire, Plan, Step, CheckOf

LEMMA PlanTrusted == \A r \in RollTypes, f \in Facets : On(r, f) => PlanTrusts(r, f)
<1> SUFFICES ASSUME NEW r \in RollTypes, NEW f \in Facets, On(r, f) PROVE PlanTrusts(r, f)
  OBVIOUS
<1>1. /\ Given(r, "Propagation1") = Plan[r]["Propagation1"].give
      /\ Given(r, "Propagation2") = Plan[r]["Propagation1"].give \union Plan[r]["Propagation2"].give
      /\ Taken(r, "Propagation2") = Plan[r]["Propagation1"].take \union Plan[r]["Propagation2"].take
  BY DEF Given, Taken, Passed, Early
<1> USE NeededIs DEF PlanTrusts, On, Rolls, SideOf, KskRolls, ZskRolls, Facets, CheckedFirst,
        KindOf, FlagsOf, Plan, Step
<1>2. CASE r = "KskRoll"
  BY <1>1, <1>2
<1>3. CASE r = "KskDoubleDsRoll"
  BY <1>1, <1>3
<1>4. CASE r = "ZskRoll"
  BY <1>1, <1>4
<1>5. CASE r = "ZskDoubleSignatureRoll"
  BY <1>1, <1>5
<1>6. CASE r = "CskRoll"
  BY <1>1, <1>6
<1>7. CASE r = "AlgorithmRoll"
  BY <1>1, <1>7
<1> QED
  BY <1>2, <1>3, <1>4, <1>5, <1>6, <1>7 DEF RollTypes

(* What the first state takes, what is left of old keys that are relied    *)
(* on, and that at the end all is given and all is taken.                  *)
PlanEnds(r) ==
  /\ Taken(r, "Propagation1") = {}
  /\ \A t \in Rolls(r) :
       Capability[t] \subseteq Given(r, "Done") /\ Capability[t] \subseteq Taken(r, "Done")
  /\ \A f \in Facets : \A t \in Rolls(r) \intersect SideOf(f) :
       Mode(r, "Propagation2", f) # "new" => Capability[t] \ Taken(r, "Propagation2") # {}
  /\ \A phase \in Changing :
       "ds" \in Needed(r, phase) => "CreateCdsRrset" \in Plan[r][phase].actions
  /\ "at_parent" \in Plan[r]["Propagation1"].give <=> "ds" \in Needed(r, "Propagation1")

LEMMA PlanEnded == \A r \in RollTypes : PlanEnds(r)
<1> SUFFICES ASSUME NEW r \in RollTypes PROVE PlanEnds(r)
  OBVIOUS
<1>1. /\ Taken(r, "Propagation1") = Plan[r]["Propagation1"].take
      /\ Taken(r, "Propagation2") = Plan[r]["Propagation1"].take \union Plan[r]["Propagation2"].take
  BY DEF Taken, Passed, Early
<1>2. /\ Given(r, "Done") = Plan[r]["Propagation1"].give \union Plan[r]["Propagation2"].give
                              \union Plan[r]["Done"].give
      /\ Taken(r, "Done") = Plan[r]["Propagation1"].take \union Plan[r]["Propagation2"].take
                              \union Plan[r]["Done"].take
  BY DEF Given, Taken, Passed, Early, Changing
<1>3. Taken(r, "Propagation1") = {}
  <2> USE DEF Plan, Step
  <2> QED
    BY <1>1 DEF RollTypes, KskRolls, ZskRolls
<1>4. ASSUME NEW t \in Rolls(r)
      PROVE  Capability[t] \subseteq Given(r, "Done") /\ Capability[t] \subseteq Taken(r, "Done")
  BY <1>2 DEF RollTypes, KskRolls, ZskRolls, Rolls, Plan, Step, Capability, Flags
<1>5. ASSUME NEW f \in Facets, NEW t \in Rolls(r) \intersect SideOf(f),
             Mode(r, "Propagation2", f) # "new"
      PROVE  Capability[t] \ Taken(r, "Propagation2") # {}
  <2>1. r # "ZskDoubleSignatureRoll"
    <3>1. CASE r = "ZskDoubleSignatureRoll"
      <4>1. f \in {"zsk", "rrsig"}
        BY <3>1, <1>5 DEF Facets, SideOf, Rolls, KskRolls, ZskRolls
      <4>2. CheckedFirst(r, f)
        BY <3>1, <4>1, NeededIs DEF CheckedFirst, KindOf
      <4> QED
        BY <3>1, <4>2, <1>5 DEF Mode, Early
    <3> QED
      BY <3>1
  <2> USE <1>1 DEF Rolls, KskRolls, ZskRolls, Plan, Step, Capability, Flags, KeyTypes
  <2>2. CASE r = "KskRoll"
    <3>1. "present" \in Capability[t] \ Taken(r, "Propagation2")
      BY <2>2
    <3> QED
      BY <3>1
  <2>3. CASE r = "KskDoubleDsRoll"
    <3>1. "at_parent" \in Capability[t] \ Taken(r, "Propagation2")
      BY <2>3
    <3> QED
      BY <3>1
  <2>4. CASE r = "ZskRoll"
    <3>1. "present" \in Capability[t] \ Taken(r, "Propagation2")
      BY <2>4
    <3> QED
      BY <3>1
  <2>5. CASE r = "CskRoll"
    <3>1. "present" \in Capability[t] \ Taken(r, "Propagation2")
      BY <2>5
    <3> QED
      BY <3>1
  <2>6. CASE r = "AlgorithmRoll"
    <3>1. "present" \in Capability[t] \ Taken(r, "Propagation2")
      BY <2>6
    <3> QED
      BY <3>1
  <2> QED
    BY <2>1, <2>2, <2>3, <2>4, <2>5, <2>6 DEF RollTypes
<1>6. ASSUME NEW phase \in Changing, "ds" \in Needed(r, phase)
      PROVE  "CreateCdsRrset" \in Plan[r][phase].actions
  <2>1. PICK a \in actions(r, phase) \intersect DOMAIN CheckOf : CheckOf[a] = "ds"
    BY <1>6 DEF Needed
  <2>2. a \in {"ReportDsPropagated", "WaitDsPropagated"} /\ a \in Plan[r][phase].actions
    BY <2>1 DEF CheckOf, actions, CacheExpire, Changing
  <2> QED
    BY <2>2 DEF RollTypes, KskRolls, ZskRolls, Changing, Plan, Step
<1>7. "at_parent" \in Plan[r]["Propagation1"].give <=> "ds" \in Needed(r, "Propagation1")
  BY NeededIs DEF RollTypes, KskRolls, ZskRolls, Plan, Step
<1> QED
  BY <1>3, <1>4, <1>5, <1>6, <1>7 DEF PlanEnds

LEMMA FlagsUsed ==
  \A f \in Facets : \A t \in SideOf(f) : FlagsOf[f] \subseteq Capability[t] /\ t \in KeyTypes
BY DEF Facets, SideOf, FlagsOf, Capability, Flags, KeyTypes

(* Who has the flag of DS records is a key of that side. *)
LEMMA AtParentSide ==
  \A t \in KeyTypes : "at_parent" \in Capability[t] => t \in SideOf("ds")
BY DEF KeyTypes, Capability, SideOf, Flags

(* From one state of a roll to the next. *)
Follows(p, phase) ==
  \/ p = "Propagation1" /\ phase = "CacheExpire1"
  \/ p = "CacheExpire1" /\ phase = "Propagation2"
  \/ p = "Propagation2" /\ phase = "CacheExpire2"
  \/ p = "CacheExpire2" /\ phase = "Done"

LEMMA PassedFollows ==
  ASSUME NEW r, NEW p, NEW phase, Follows(p, phase)
  PROVE  /\ phase \in CacheExpire =>
              Given(r, phase) = Given(r, p) /\ Taken(r, phase) = Taken(r, p)
         /\ phase \notin CacheExpire =>
              /\ phase \in Changing
              /\ Given(r, phase) = Given(r, p) \union Plan[r][phase].give
              /\ Taken(r, phase) = Taken(r, p) \union Plan[r][phase].take
<1>1. CASE p = "Propagation1" /\ phase = "CacheExpire1"
  BY <1>1 DEF Given, Taken, Passed, Early, CacheExpire
<1>2. CASE p = "CacheExpire1" /\ phase = "Propagation2"
  <2>1. Passed(phase) = Passed(p) \union {phase} /\ phase \in Changing
    BY <1>2 DEF Passed, Early, Changing
  <2>2. phase \notin CacheExpire
    BY <1>2 DEF CacheExpire
  <2> QED
    BY <2>1, <2>2 DEF Given, Taken
<1>3. CASE p = "Propagation2" /\ phase = "CacheExpire2"
  BY <1>3 DEF Given, Taken, Passed, Early, CacheExpire
<1>4. CASE p = "CacheExpire2" /\ phase = "Done"
  <2>1. Passed(phase) = Passed(p) \union {phase} /\ phase \in Changing
    BY <1>4 DEF Passed, Early, Changing
  <2>2. phase \notin CacheExpire
    BY <1>4 DEF CacheExpire
  <2> QED
    BY <2>1, <2>2 DEF Given, Taken
<1> QED
  BY <1>1, <1>2, <1>3, <1>4 DEF Follows

-----------------------------------------------------------------------------
(* Which keys the versions of now show.                                    *)

NowOf(set, f) ==
  IF KindOf[f] = "dnskey" THEN DnskeyRrset(set)
  ELSE IF f = "ds" THEN ParentKeys(set) ELSE With(set, "zone_signer")

LEMMA NowShown ==
  ASSUME NEW set, NEW f \in Facets, NEW k
  PROVE  k \in Shown(f, NowOf(set, f))
           <=> k \in DOMAIN set.keys /\ FlagsOf[f] \subseteq set.keys[k].flags
<1>1. CASE f = "ksk"
  BY <1>1 DEF Shown, NowOf, KindOf, DnskeyRrset, With, FlagsOf
<1>2. CASE f = "zsk"
  BY <1>2 DEF Shown, NowOf, KindOf, DnskeyRrset, With, FlagsOf
<1>3. CASE f = "ds"
  BY <1>3 DEF Shown, NowOf, KindOf, ParentKeys, With, FlagsOf
<1>4. CASE f = "rrsig"
  BY <1>4 DEF Shown, NowOf, KindOf, With, FlagsOf
<1> QED
  BY <1>1, <1>2, <1>3, <1>4 DEF Facets

(* The keys of a side of which a roll is in progress take part in it. *)
LEMMA SideRolls ==
  ASSUME NEW set, SetOK(set), CsksGone(set), NEW r \in DOMAIN set.rolls,
         NEW f \in Facets, On(r, f), NEW k \in NewOf(set, f) \union OldOf(set, f)
  PROVE  set.keys[k].type \in Rolls(r)
<1>1. r \in RollTypes
  BY DEF SetOK, RollsOK
<1>2. k \in DOMAIN set.keys /\ set.keys[k].type \in SideOf(f) /\ ~stale(set.keys[k])
  BY DEF NewOf, OldOf, stale
<1>3. r \in KskRolls \union ZskRolls => set.keys[k].type # "CSK"
  BY <1>2 DEF CsksGone
<1> QED
  BY <1>1, <1>2, <1>3 DEF On, Rolls, SideOf, RollTypes, KskRolls, ZskRolls

(* The flags of these keys. *)
LEMMA SideFlags ==
  ASSUME NEW set, SetOK(set), CsksGone(set), FlagsFollow(set), NEW r \in DOMAIN set.rolls,
         NEW f \in Facets, On(r, f)
  PROVE  /\ \A k \in NewOf(set, f) :
              set.keys[k].flags
                = Given(r, set.rolls[r].phase) \intersect Capability[set.keys[k].type]
         /\ \A k \in OldOf(set, f) :
              set.keys[k].flags
                = Capability[set.keys[k].type] \ Taken(r, set.rolls[r].phase)
<1>1. ASSUME NEW k \in NewOf(set, f)
      PROVE  set.keys[k].flags
               = Given(r, set.rolls[r].phase) \intersect Capability[set.keys[k].type]
  <2>1. set.keys[k].type \in Rolls(r) /\ k \in DOMAIN set.keys /\ ~set.keys[k].old
    BY SideRolls DEF NewOf
  <2> QED
    BY <2>1 DEF FlagsFollow, KeyFollows
<1>2. ASSUME NEW k \in OldOf(set, f)
      PROVE  set.keys[k].flags
               = Capability[set.keys[k].type] \ Taken(r, set.rolls[r].phase)
  <2>1. /\ set.keys[k].type \in Rolls(r) /\ k \in DOMAIN set.keys /\ set.keys[k].old
        /\ set.keys[k].flags # {}
    BY SideRolls DEF OldOf
  <2> QED
    BY <2>1 DEF FlagsFollow, KeyFollows
<1> QED
  BY <1>1, <1>2

LEMMA GivenGrows ==
  ASSUME NEW r
  PROVE  /\ \A phase \in Early : Given(r, phase) = Given(r, "Propagation1")
                                 /\ Taken(r, phase) = Taken(r, "Propagation1")
         /\ \A phase \in Phases \ Early : Given(r, "Propagation2") \subseteq Given(r, phase)
         /\ \A phase \in Phases \ Early : phase # "Done" =>
              Taken(r, phase) = Taken(r, "Propagation2")
BY DEF Given, Taken, Passed, Early, Phases, Propagation, CacheExpire, Changing

(* The roll relies on the new keys. *)
Relied(r, phase, f) == phase \notin Early \/ CheckedFirst(r, f)

LEMMA NowGood ==
  ASSUME NEW set, SetOK(set), KeysTrusted(set), NEW f \in Facets
  PROVE  /\ (\A r \in DOMAIN set.rolls : ~On(r, f)) => ShowsNew(set, f, NowOf(set, f))
         /\ \A r \in DOMAIN set.rolls : On(r, f) =>
              /\ Shows(Mode(r, set.rolls[r].phase, f), set, f, NowOf(set, f))
              /\ Relied(r, set.rolls[r].phase, f) => ShowsNew(set, f, NowOf(set, f))
<1> DEFINE now == NowOf(set, f)
<1>1. \A k : k \in Shown(f, now) <=> k \in DOMAIN set.keys /\ FlagsOf[f] \subseteq set.keys[k].flags
  BY NowShown
<1> HIDE DEF now
<1>2. ASSUME \A r \in DOMAIN set.rolls : ~On(r, f)
      PROVE  ShowsNew(set, f, now)
  <2> SUFFICES ASSUME NEW k \in NewOf(set, f) PROVE k \in Shown(f, now)
    BY DEF ShowsNew
  <2>1. k \in DOMAIN set.keys /\ set.keys[k].type \in SideOf(f) /\ ~set.keys[k].old
    BY DEF NewOf
  <2>2. \A r \in DOMAIN set.rolls : set.keys[k].type \notin Rolls(r)
    BY <1>2, <2>1 DEF On
  <2>3. set.keys[k].flags = Capability[set.keys[k].type]
    BY <2>1, <2>2 DEF KeysTrusted, FlagsFollow, KeyFollows
  <2> QED
    BY <1>1, <2>1, <2>3, FlagsUsed
<1>3. ASSUME NEW r \in DOMAIN set.rolls, On(r, f)
      PROVE  /\ Shows(Mode(r, set.rolls[r].phase, f), set, f, now)
             /\ Relied(r, set.rolls[r].phase, f) => ShowsNew(set, f, now)
  <2> DEFINE phase == set.rolls[r].phase
  <2>1. r \in RollTypes /\ phase \in Phases
    BY DEF SetOK, RollsOK, RollState
  <2>2. PlanTrusts(r, f) /\ PlanEnds(r)
    BY <1>3, <2>1, PlanTrusted, PlanEnded
  <2>3. /\ \A k \in NewOf(set, f) :
              set.keys[k].flags = Given(r, phase) \intersect Capability[set.keys[k].type]
        /\ \A k \in OldOf(set, f) :
              set.keys[k].flags = Capability[set.keys[k].type] \ Taken(r, phase)
    BY <1>3, SideFlags DEF KeysTrusted
  <2> HIDE DEF phase
  <2>4. ASSUME Relied(r, phase, f) PROVE ShowsNew(set, f, now)
    <3>1. FlagsOf[f] \subseteq Given(r, phase)
      BY <2>1, <2>2, <2>4, GivenGrows DEF Relied, PlanTrusts
    <3>2. \A k \in NewOf(set, f) :
            k \in DOMAIN set.keys /\ FlagsOf[f] \subseteq Capability[set.keys[k].type]
      BY FlagsUsed DEF NewOf
    <3> QED
      BY <1>1, <2>3, <3>1, <3>2 DEF ShowsNew
  <2>5. ASSUME phase \in Early \/ (CheckedFirst(r, f) /\ r # "ZskDoubleSignatureRoll"
                                   /\ phase # "Done")
        PROVE  OldOf(set, f) \subseteq Shown(f, now)
    <3>1. FlagsOf[f] \intersect Taken(r, phase) = {}
      <4>1. CASE phase \in Early
        BY <2>2, <4>1, GivenGrows DEF PlanEnds
      <4>2. CASE phase \notin Early
        BY <2>1, <2>2, <2>5, <4>2, GivenGrows DEF PlanTrusts
      <4> QED
        BY <4>1, <4>2
    <3>2. \A k \in OldOf(set, f) :
            k \in DOMAIN set.keys /\ FlagsOf[f] \subseteq Capability[set.keys[k].type]
      BY FlagsUsed DEF OldOf
    <3> QED
      BY <1>1, <2>3, <3>1, <3>2
  <2>6. ASSUME f = "ds", OldOf(set, f) = {}, Mode(r, phase, f) \in {"old", "both"}
        PROVE  now = {}
    <3>1. r = "AlgorithmRoll"
      BY <1>3, <2>6 DEF KeysTrusted, Replaced, Bare, phase
    <3>2. ~CheckedFirst(r, f)
      BY <2>6, <3>1, NeededIs DEF CheckedFirst, KindOf
    <3>3. phase \in Early
      BY <2>6, <3>2 DEF Mode
    <3>4. Given(r, phase) = Plan[r]["Propagation1"].give
      BY <3>3, GivenGrows DEF Given, Passed, Early
    <3>5. "at_parent" \notin Given(r, phase)
      BY <3>1, <3>4 DEF Plan, Step
    <3>6. ASSUME NEW k \in DOMAIN set.keys, "at_parent" \in set.keys[k].flags PROVE FALSE
      <4>1. set.keys[k].type \in KeyTypes
            /\ set.keys[k].flags \subseteq Capability[set.keys[k].type]
            /\ set.keys[k].old \in BOOLEAN
        BY DEF SetOK, KeysOK, KeyOK, Key
      <4>2. set.keys[k].type \in SideOf(f)
        BY <2>6, <3>6, <4>1, AtParentSide
      <4>3. k \in NewOf(set, f)
        BY <2>6, <3>6, <4>1, <4>2 DEF NewOf, OldOf
      <4> QED
        BY <2>3, <3>5, <3>6, <4>3
    <3> QED
      BY <2>6, <3>6 DEF now, NowOf, KindOf, ParentKeys, With
  <2>7. Shows(Mode(r, phase, f), set, f, now)
    <3>1. CASE phase \in Early
      <4>1. Mode(r, phase, f) = "old"
        BY <3>1 DEF Mode
      <4> QED
        BY <2>5, <2>6, <3>1, <4>1 DEF Shows, ShowsOld
    <3>2. CASE phase \notin Early
      <4>1. ShowsNew(set, f, now)
        BY <2>4, <3>2 DEF Relied
      <4>2. Mode(r, phase, f) \in {"old", "both"} =>
              CheckedFirst(r, f) /\ r # "ZskDoubleSignatureRoll" /\ phase # "Done"
        BY <3>2 DEF Mode
      <4> QED
        BY <2>5, <2>6, <4>1, <4>2 DEF Shows, ShowsOld
    <3> QED
      BY <3>1, <3>2
  <2> QED
    BY <2>4, <2>7 DEF phase
<1> QED
  BY <1>2, <1>3 DEF now

-----------------------------------------------------------------------------
(* A roll goes from one state to the next.                                 *)

(* Rolls in progress together replace different keys. *)
LEMMA OnOne ==
  ASSUME NEW r \in RollTypes, NEW x \in Compatible(r), NEW f \in Facets
  PROVE  x \in RollTypes /\ ~(On(r, f) /\ On(x, f))
<1>1. CASE r \in KskRolls
  BY <1>1 DEF Compatible, On, Rolls, SideOf, KskRolls, ZskRolls, Facets, RollTypes
<1>2. CASE r \in ZskRolls
  BY <1>2 DEF Compatible, On, Rolls, SideOf, KskRolls, ZskRolls, Facets, RollTypes
<1> QED
  BY <1>1, <1>2 DEF Compatible

RollStep(new, set, r, phase, wait) ==
  /\ DOMAIN new.keys = DOMAIN set.keys
  /\ \A k \in DOMAIN set.keys :
       /\ new.keys[k].type = set.keys[k].type
       /\ new.keys[k].old = set.keys[k].old
       /\ new.keys[k].flags = IF phase \in CacheExpire THEN set.keys[k].flags
                              ELSE NewFlags(set.keys[k], r, phase)
  /\ DOMAIN new.rolls = DOMAIN set.rolls
  /\ new.rolls[r] = [phase |-> phase, wait |-> wait]
  /\ \A x \in DOMAIN set.rolls \ {r} : new.rolls[x] = set.rolls[x]

LEMMA EnteredIsStep ==
  ASSUME NEW set, SetOK(set), NEW r \in DOMAIN set.rolls, NEW phase \in Phases, NEW wait
  PROVE  RollStep(Entered(set, r, phase, wait), set, r, phase, wait)
<1> DEFINE new == Entered(set, r, phase, wait)
<1>1. r \in RollTypes
  BY DEF SetOK, RollsOK
<1>2. /\ new.keys = NewKeys(set, r, phase)
      /\ DOMAIN new.rolls = DOMAIN set.rolls \union {r}
      /\ new.rolls[r] = [phase |-> phase, wait |-> wait]
      /\ \A x \in DOMAIN set.rolls \ {r} : new.rolls[x] = set.rolls[x]
  BY EnteredFields
<1> HIDE DEF new
<1>3. CASE phase \in CacheExpire
  BY <1>2, <1>3 DEF NewKeys, RollStep, new
<1>4. CASE phase \notin CacheExpire
  <2>1. phase \in Changing
    BY <1>4 DEF Phases, Propagation, CacheExpire, Changing
  <2>2. new.keys = Applied(set.keys, r, phase)
    BY <1>2, <1>4 DEF NewKeys
  <2>3. DOMAIN new.keys = DOMAIN set.keys
    BY <2>2 DEF Applied
  <2>4. \A k \in DOMAIN set.keys :
          /\ new.keys[k].type = set.keys[k].type
          /\ new.keys[k].old = set.keys[k].old
          /\ new.keys[k].flags = NewFlags(set.keys[k], r, phase)
    BY <1>1, <2>1, <2>2, AppliedKey DEF SetOK
  <2> QED
    BY <1>2, <1>4, <2>3, <2>4 DEF RollStep, new
<1> QED
  BY <1>3, <1>4

LEMMA ModeFollows ==
  ASSUME NEW r \in RollTypes, NEW p, NEW phase, Follows(p, phase), NEW f
  PROVE  /\ phase \in CacheExpire => Mode(r, phase, f) = Mode(r, p, f)
         /\ Mode(r, p, f) = "new" => Mode(r, phase, f) = "new"
BY DEF Follows, Mode, Early, CacheExpire

LEMMA StepSides ==
  ASSUME NEW set, SetOK(set), KeysTrusted(set), NEW r \in DOMAIN set.rolls,
         NEW phase, Follows(set.rolls[r].phase, phase), NEW wait, NEW new,
         RollStep(new, set, r, phase, wait), NEW f \in Facets
  PROVE  /\ NewOf(new, f) = NewOf(set, f)
         /\ OldOf(new, f) \subseteq OldOf(set, f)
         /\ ~On(r, f) \/ Mode(r, phase, f) # "new" => OldOf(new, f) = OldOf(set, f)
<1> DEFINE p == set.rolls[r].phase
<1>1. NewOf(new, f) = NewOf(set, f)
  BY DEF NewOf, RollStep
<1>2. r \in RollTypes
  BY DEF SetOK, RollsOK
<1>3. OldOf(new, f) \subseteq OldOf(set, f)
  <2> SUFFICES ASSUME NEW k \in OldOf(new, f) PROVE k \in OldOf(set, f)
    OBVIOUS
  <2>1. k \in DOMAIN set.keys /\ set.keys[k].type \in SideOf(f) /\ set.keys[k].old
        /\ new.keys[k].flags # {}
    BY DEF OldOf, RollStep
  <2>2. new.keys[k].flags \subseteq set.keys[k].flags
    BY <2>1 DEF RollStep, NewFlags
  <2> QED
    BY <2>1, <2>2 DEF OldOf
<1>4. ASSUME NEW k \in OldOf(set, f), ~On(r, f) \/ Mode(r, phase, f) # "new"
      PROVE  k \in OldOf(new, f)
  <2>1. k \in DOMAIN set.keys /\ set.keys[k].type \in SideOf(f) /\ set.keys[k].old
        /\ set.keys[k].flags # {}
    BY DEF OldOf
  <2>2. new.keys[k].flags # {}
    <3>1. CASE ~On(r, f) \/ phase \in CacheExpire
      <4>1. ~On(r, f) => set.keys[k].type \notin Rolls(r)
        BY <2>1 DEF On
      <4> QED
        BY <2>1, <3>1, <4>1 DEF RollStep, NewFlags
    <3>2. CASE On(r, f) /\ phase \notin CacheExpire
      <4>1. phase = "Propagation2"
        <5>1. phase # "Done"
          BY <1>4, <3>2 DEF Mode, Early
        <5> QED
          BY <3>2, <5>1 DEF Follows, CacheExpire
      <4>2. set.keys[k].type \in Rolls(r)
        BY <3>2, SideRolls DEF KeysTrusted
      <4>3. set.keys[k].flags = Capability[set.keys[k].type] \ Taken(r, p)
        BY <3>2, SideFlags DEF KeysTrusted
      <4>4. Taken(r, phase) = Taken(r, p) \union Plan[r][phase].take
        BY <3>2, PassedFollows
      <4>5. new.keys[k].flags = Capability[set.keys[k].type] \ Taken(r, phase)
        <5>1. new.keys[k].flags = set.keys[k].flags \ Plan[r][phase].take
          BY <2>1, <3>2, <4>2 DEF RollStep, NewFlags
        <5> QED
          BY <4>3, <4>4, <5>1
      <4> QED
        BY <1>2, <1>4, <2>1, <3>2, <4>1, <4>2, <4>5, PlanEnded DEF PlanEnds
    <3> QED
      BY <3>1, <3>2
  <2> QED
    BY <2>1, <2>2 DEF OldOf, RollStep
<1> QED
  BY <1>1, <1>3, <1>4

(* A key takes part in one roll at a time. *)
LEMMA RollOfKey ==
  ASSUME NEW set, SetOK(set), Paired(set), NEW r \in DOMAIN set.rolls,
         NEW x \in DOMAIN set.rolls \ {r}
  PROVE  /\ r \in RollTypes /\ x \in RollTypes
         /\ Rolls(r) \intersect Rolls(x) = {}
         /\ \A f \in Facets : ~(On(r, f) /\ On(x, f))
<1>1. r \in RollTypes /\ x \in Compatible(r)
  BY DEF SetOK, RollsOK, Paired
<1>2. x \in RollTypes
  BY DEF SetOK, RollsOK
<1>3. Rolls(x) \intersect Rolls(r) = {}
  BY <1>1, CompatibleRolls
<1>4. \A f \in Facets : ~(On(r, f) /\ On(x, f))
  BY <1>1, OnOne
<1> QED
  BY <1>1, <1>2, <1>3, <1>4

LEMMA StepFollows ==
  ASSUME NEW set, SetOK(set), KeysTrusted(set), NEW r \in DOMAIN set.rolls,
         NEW phase, Follows(set.rolls[r].phase, phase), NEW wait, NEW new,
         RollStep(new, set, r, phase, wait)
  PROVE  FlagsFollow(new)
<1> SUFFICES ASSUME NEW k \in DOMAIN set.keys PROVE KeyFollows(new.keys[k], new.rolls)
  BY DEF FlagsFollow, RollStep
<1> DEFINE key == set.keys[k]
           p == set.rolls[r].phase
<1>1. KeyFollows(key, set.rolls)
  BY DEF KeysTrusted, FlagsFollow
<1>2. new.keys[k].type = key.type /\ new.keys[k].old = key.old
      /\ new.keys[k].flags = IF phase \in CacheExpire THEN key.flags
                             ELSE NewFlags(key, r, phase)
  BY DEF RollStep
<1>3. /\ DOMAIN new.rolls = DOMAIN set.rolls
      /\ new.rolls[r].phase = phase
      /\ \A x \in DOMAIN set.rolls \ {r} : new.rolls[x] = set.rolls[x]
  BY DEF RollStep
<1>4. CASE key.type \in Rolls(r)
  <2>1. \A x \in DOMAIN set.rolls \ {r} : key.type \notin Rolls(x)
    BY <1>4, RollOfKey DEF KeysTrusted
  <2>2. IF key.old THEN key.flags \in {{}, Capability[key.type] \ Taken(r, p)}
        ELSE key.flags = Given(r, p) \intersect Capability[key.type]
    BY <1>1, <1>4 DEF KeyFollows
  <2>3. IF key.old THEN new.keys[k].flags \in {{}, Capability[key.type] \ Taken(r, phase)}
        ELSE new.keys[k].flags = Given(r, phase) \intersect Capability[key.type]
    <3>1. CASE phase \in CacheExpire
      BY <1>2, <2>2, <3>1, PassedFollows
    <3>2. CASE phase \notin CacheExpire
      <4>1. /\ Given(r, phase) = Given(r, p) \union Plan[r][phase].give
            /\ Taken(r, phase) = Taken(r, p) \union Plan[r][phase].take
        BY <3>2, PassedFollows
      <4>2. new.keys[k].flags =
              IF key.old THEN key.flags \ Plan[r][phase].take
              ELSE key.flags \union (Plan[r][phase].give \intersect Capability[key.type])
        BY <1>2, <1>4, <3>2 DEF NewFlags
      <4> HIDE DEF key, p
      <4> QED
        BY <2>2, <4>1, <4>2
    <3> QED
      BY <3>1, <3>2
  <2> HIDE DEF key
  <2> QED
    BY <1>2, <1>3, <1>4, <2>1, <2>3 DEF KeyFollows
<1>5. CASE key.type \notin Rolls(r)
  <2>1. new.keys[k].flags = key.flags
    BY <1>2, <1>5 DEF NewFlags
  <2> HIDE DEF key
  <2> QED
    BY <1>1, <1>2, <1>3, <1>5, <2>1 DEF KeyFollows
<1> QED
  BY <1>4, <1>5

LEMMA StepKeys ==
  ASSUME NEW set, SetOK(set), KeysTrusted(set), NEW r \in DOMAIN set.rolls,
         NEW phase, Follows(set.rolls[r].phase, phase), NEW wait, NEW new,
         RollStep(new, set, r, phase, wait)
  PROVE  KeysTrusted(new)
<1>1. FlagsFollow(new)
  BY StepFollows
<1>2. CsksGone(new)
  <2>1. ASSUME NEW k \in DOMAIN set.keys, stale(set.keys[k]) PROVE stale(new.keys[k])
    BY <2>1 DEF RollStep, NewFlags, stale
  <2> QED
    BY <2>1 DEF KeysTrusted, CsksGone, RollStep
<1>3. Paired(new)
  BY DEF KeysTrusted, Paired, RollStep
<1>4. Replaced(new)
  <2> SUFFICES ASSUME NEW x \in DOMAIN set.rolls, NEW f \in Facets, On(x, f),
                      Mode(x, new.rolls[x].phase, f) # "new"
               PROVE  OldOf(new, f) # {} \/ Bare(new, x)
    BY DEF Replaced, RollStep
  <2>3. Bare(set, x) => Bare(new, x)
    <3>1. \A g \in Facets : OldOf(new, g) \subseteq OldOf(set, g)
      BY StepSides
    <3> QED
      BY <3>1 DEF Bare
  <2>1. CASE x = r
    <3>1. new.rolls[x].phase = phase /\ r \in RollTypes
      BY <2>1 DEF RollStep, SetOK, RollsOK
    <3>2. OldOf(new, f) = OldOf(set, f)
      BY <2>1, <3>1, StepSides
    <3>3. Mode(r, set.rolls[r].phase, f) # "new"
      BY <2>1, <3>1, ModeFollows
    <3> QED
      BY <2>1, <2>3, <3>2, <3>3 DEF KeysTrusted, Replaced
  <2>2. CASE x # r
    <3>1. ~On(r, f)
      BY <2>2, RollOfKey DEF KeysTrusted
    <3>2. OldOf(new, f) = OldOf(set, f)
      BY <3>1, StepSides
    <3>3. new.rolls[x] = set.rolls[x]
      BY <2>2 DEF RollStep
    <3> QED
      BY <2>3, <3>2, <3>3 DEF KeysTrusted, Replaced
  <2> QED
    BY <2>1, <2>2
<1> QED
  BY <1>1, <1>2, <1>3, <1>4 DEF KeysTrusted

-----------------------------------------------------------------------------
(* The versions, when a roll goes from one state to the next.              *)

LEMMA SameShown ==
  ASSUME NEW set, NEW new, NEW f, NewOf(new, f) = NewOf(set, f)
  PROVE  /\ AllShow("new", set, f) => AllShow("new", new, f)
         /\ OldOf(new, f) = OldOf(set, f) =>
              \A mode : AllShow(mode, set, f) => AllShow(mode, new, f)
         /\ \A limit : Sure(set, f, limit) => Sure(new, f, limit)
<1>1. \A v : ShowsNew(set, f, v) <=> ShowsNew(new, f, v)
  BY DEF ShowsNew
<1>2. OldOf(new, f) = OldOf(set, f) => \A v : ShowsOld(set, f, v) <=> ShowsOld(new, f, v)
  BY DEF ShowsOld
<1>3. AllShow("new", set, f) => AllShow("new", new, f)
  BY <1>1 DEF AllShow, Shows
<1>4. OldOf(new, f) = OldOf(set, f) =>
        \A mode : AllShow(mode, set, f) => AllShow(mode, new, f)
  <2> SUFFICES ASSUME OldOf(new, f) = OldOf(set, f), NEW mode, AllShow(mode, set, f)
               PROVE  AllShow(mode, new, f)
    OBVIOUS
  <2>1. \A v : Shows(mode, set, f, v) => Shows(mode, new, f, v)
    BY <1>1, <1>2 DEF Shows
  <2> QED
    BY <2>1 DEF AllShow
<1>5. \A limit : Sure(set, f, limit) => Sure(new, f, limit)
  BY <1>1 DEF Sure
<1> QED
  BY <1>3, <1>4, <1>5

(* When the time is over nothing else is left in a cache. *)
LEMMA SureShows ==
  ASSUME NEW set, NEW f \in Facets, Sure(set, f, 0), DnsOK
  PROVE  AllShow("new", set, f)
<1>1. KindOf[f] \in Kinds
  BY DEF Facets, KindOf, Kinds
<1>2. \A v \in DOMAIN cached[KindOf[f]] : cached[KindOf[f]][v] \in 1 .. TTL
  BY <1>1 DEF DnsOK
<1>3. \A v \in DOMAIN cached[KindOf[f]] : ShowsNew(set, f, v)
  BY <1>2, TtlAssumption DEF Sure
<1> QED
  BY <1>3 DEF AllShow, Shows, Sure, Visible

(* The check of the state before is over. *)
Expired(set, r, p) ==
  \A f \in Facets :
    /\ On(r, f)
    /\ \/ p = "CacheExpire1" /\ KindOf[f] \in Needed(r, "Propagation1")
       \/ p = "CacheExpire2" /\ KindOf[f] \in Needed(r, "Propagation2")
    => Sure(set, f, 0)

LEMMA ModeEnters ==
  ASSUME NEW set, SetOK(set), KeysTrusted(set), NEW r \in DOMAIN set.rolls,
         NEW phase, Follows(set.rolls[r].phase, phase),
         NEW f \in Facets, On(r, f), DnsOK,
         AllShow(Mode(r, set.rolls[r].phase, f), set, f),
         Expired(set, r, set.rolls[r].phase)
  PROVE  AllShow(Mode(r, phase, f), set, f)
<1> DEFINE p == set.rolls[r].phase
<1>1. r \in RollTypes /\ PlanTrusts(r, f)
  BY PlanTrusted DEF SetOK, RollsOK
<1>2. CASE phase \in CacheExpire
  <2>1. Mode(r, phase, f) = Mode(r, p, f)
    BY <1>1, <1>2, ModeFollows
  <2> QED
    BY <2>1
<1>3. CASE p = "CacheExpire1" /\ phase = "Propagation2"
  <2>1. Mode(r, p, f) = "old"
    BY <1>3 DEF Mode, Early
  <2>2. CASE CheckedFirst(r, f)
    <3>1. AllShow("new", set, f)
      BY <1>3, <2>2, SureShows DEF Expired, CheckedFirst
    <3>2. Mode(r, phase, f) \in {"new", "both"}
      BY <1>3, <2>2 DEF Mode, Early
    <3>3. AllShow("old", set, f)
      BY <2>1
    <3> QED
      BY <3>1, <3>2, <3>3 DEF AllShow, Shows
  <2>3. CASE ~CheckedFirst(r, f)
    <3>1. Mode(r, phase, f) = "either"
      BY <1>3, <2>3 DEF Mode, Early
    <3>2. AllShow("old", set, f)
      BY <2>1
    <3> QED
      BY <3>1, <3>2 DEF AllShow, Shows
  <2> QED
    BY <2>2, <2>3
<1>4. CASE p = "CacheExpire2" /\ phase = "Done"
  <2>1. Mode(r, phase, f) = "new"
    BY <1>4 DEF Mode, Early
  <2>2. CASE CheckedFirst(r, f)
    <3>1. Mode(r, p, f) \in {"new", "both"}
      BY <1>4, <2>2 DEF Mode, Early
    <3> QED
      BY <2>1, <3>1 DEF AllShow, Shows
  <2>3. CASE ~CheckedFirst(r, f)
    <3>1. KindOf[f] \in Needed(r, "Propagation2")
      BY <1>1, <2>3 DEF PlanTrusts
    <3>2. AllShow("new", set, f)
      BY <1>4, <3>1, SureShows DEF Expired
    <3> QED
      BY <2>1, <3>2
  <2> QED
    BY <2>2, <2>3
<1> QED
  BY <1>2, <1>3, <1>4 DEF Follows, CacheExpire

LEMMA StepModes ==
  ASSUME NEW set, SetOK(set), KeysTrusted(set), NEW r \in DOMAIN set.rolls,
         NEW phase, Follows(set.rolls[r].phase, phase), NEW wait, NEW new,
         RollStep(new, set, r, phase, wait), DnsOK, ModesHold(set),
         Expired(set, r, set.rolls[r].phase)
  PROVE  ModesHold(new)
<1>1. DOMAIN new.rolls = DOMAIN set.rolls
  BY DEF RollStep
<1>2. ASSUME NEW f \in Facets, \A x \in DOMAIN set.rolls : ~On(x, f)
      PROVE  AllShow("new", new, f)
  <2>1. NewOf(new, f) = NewOf(set, f)
    BY StepSides
  <2>2. AllShow("new", set, f)
    BY <1>2 DEF ModesHold
  <2> QED
    BY <2>1, <2>2, SameShown
<1>3. ASSUME NEW f \in Facets, NEW x \in DOMAIN set.rolls, On(x, f)
      PROVE  AllShow(Mode(x, new.rolls[x].phase, f), new, f)
  <2>1. NewOf(new, f) = NewOf(set, f)
    BY StepSides
  <2>2. AllShow(Mode(x, set.rolls[x].phase, f), set, f)
    BY <1>3 DEF ModesHold
  <2>3. CASE x = r
    <3>1. new.rolls[x].phase = phase
      BY <2>3 DEF RollStep
    <3>2. AllShow(Mode(r, phase, f), set, f)
      BY <1>3, <2>2, <2>3, ModeEnters
    <3>3. CASE Mode(r, phase, f) = "new"
      BY <2>1, <2>3, <3>1, <3>2, <3>3, SameShown
    <3>4. CASE Mode(r, phase, f) # "new"
      <4>1. OldOf(new, f) = OldOf(set, f)
        BY <3>4, StepSides
      <4> QED
        BY <2>1, <2>3, <3>1, <3>2, <4>1, SameShown
    <3> QED
      BY <3>3, <3>4
  <2>4. CASE x # r
    <3>1. ~On(r, f)
      BY <1>3, <2>4, RollOfKey DEF KeysTrusted
    <3>2. OldOf(new, f) = OldOf(set, f)
      BY <3>1, StepSides
    <3>3. new.rolls[x] = set.rolls[x]
      BY <2>4 DEF RollStep
    <3> QED
      BY <2>1, <2>2, <3>2, <3>3, SameShown
  <2> QED
    BY <2>3, <2>4
<1> QED
  BY <1>1, <1>2, <1>3 DEF ModesHold

-----------------------------------------------------------------------------
(* All of it, when a roll goes from one state to the next.                 *)

LEMMA NoZskDs == \A x \in ZskRolls, phase \in Phases : "ds" \notin Needed(x, phase)
<1> SUFFICES ASSUME NEW x \in ZskRolls, NEW phase \in Phases, "ds" \in Needed(x, phase)
             PROVE  FALSE
  OBVIOUS
<1>1. PICK a \in actions(x, phase) \intersect DOMAIN CheckOf : CheckOf[a] = "ds"
  BY DEF Needed
<1>2. a \in {"ReportDsPropagated", "WaitDsPropagated"} /\ phase \notin CacheExpire
      /\ a \in Plan[x][phase].actions
  BY <1>1 DEF CheckOf, actions
<1> QED
  BY <1>2 DEF ZskRolls, Phases, Propagation, CacheExpire, Plan, Step

(* What CdsThere asks of a roll that is not alone. *)
LEMMA CdsOfOther ==
  ASSUME NEW rolls, NEW r \in DOMAIN rolls, NEW x \in DOMAIN rolls \ {r},
         r \in Compatible(x), rolls[x].phase \in Phases,
         \A y \in {r, x} : /\ y \in KskRolls => "Ksk" \in config.rolled
                           /\ y \in ZskRolls => "Zsk" \in config.rolled,
         "ds" \in Needed(x, rolls[x].phase)
  PROVE  x \in KskRolls /\ {"Ksk", "Zsk"} \subseteq config.rolled
<1>1. x \notin ZskRolls
  BY NoZskDs
<1>2. x \in KskRolls /\ r \in ZskRolls
  BY <1>1 DEF Compatible
<1> QED
  BY <1>2

LEMMA StepChecks ==
  ASSUME NEW s, NEW gone, Fine(s, gone), Trusted(s), NEW r \in DOMAIN s.keyset.rolls,
         NEW phase, Follows(s.keyset.rolls[r].phase, phase), NEW wait,
         phase \in CacheExpire =>
           /\ wait = TTL
           /\ \A f \in Facets :
                On(r, f) /\ KindOf[f] \in Needed(r, s.keyset.rolls[r].phase)
                  => Sure(s.keyset, f, TTL),
         NEW t, RollStep(t.keyset, s.keyset, r, phase, wait), t.internal = s.internal
  PROVE  ChecksHold(t)
<1> DEFINE set == s.keyset
           new == t.keyset
           p == set.rolls[r].phase
<1>1. SetOK(set) /\ KeysTrusted(set) /\ DOMAIN new.rolls = DOMAIN set.rolls
      /\ new.rolls[r] = [phase |-> phase, wait |-> wait]
      /\ \A x \in DOMAIN set.rolls \ {r} : new.rolls[x] = set.rolls[x]
  BY DEF Fine, Sound, Trusted, RollStep
<1> SUFFICES ASSUME NEW x \in DOMAIN set.rolls, NEW f \in Facets, On(x, f),
                    Settled(t, x, KindOf[f])
             PROVE  Sure(new, f, Limit(new.rolls[x]))
  BY <1>1 DEF ChecksHold
<1>2. NewOf(new, f) = NewOf(set, f)
  BY <1>1, StepSides
<1>3. CASE x = r
  <2>1. phase \in CacheExpire
    <3>1. CASE phase = "Propagation2"
      <4>1. p = "CacheExpire1"
        BY <3>1 DEF Follows
      <4>2. KindOf[f] \in s.internal[r][phase]
        BY <1>1, <1>3, <3>1 DEF Settled
      <4>3. Reached(p, phase)
        BY <3>1, <4>2 DEF Fine, Reports, Changing
      <4> QED
        BY <3>1, <4>1, <4>3 DEF Reached
    <3>2. CASE phase = "Done"
      BY <1>1, <1>3, <3>2 DEF Settled, Propagation
    <3> QED
      BY <3>1, <3>2 DEF Follows, CacheExpire
  <2>2. KindOf[f] \in Needed(r, p)
    BY <1>1, <1>3, <2>1 DEF Settled, Follows, CacheExpire, Propagation
  <2>3. Sure(set, f, TTL)
    BY <1>3, <2>1, <2>2
  <2>4. Limit(new.rolls[x]) = TTL
    BY <1>1, <1>3, <2>1 DEF Limit
  <2> QED
    BY <1>2, <2>3, <2>4, SameShown
<1>4. CASE x # r
  <2>1. new.rolls[x] = set.rolls[x]
    BY <1>1, <1>4
  <2>2. Settled(s, x, KindOf[f])
    BY <2>1 DEF Settled
  <2>3. Sure(set, f, Limit(set.rolls[x]))
    BY <2>2 DEF Trusted, ChecksHold
  <2> QED
    BY <1>2, <2>1, <2>3, SameShown
<1> QED
  BY <1>3, <1>4

LEMMA StepTrusted ==
  ASSUME NEW s, NEW gone, Fine(s, gone), Trusted(s), DnsOK, NEW r \in DOMAIN s.keyset.rolls,
         NEW phase \in Phases, Follows(s.keyset.rolls[r].phase, phase), NEW wait \in 0 .. TTL,
         phase \in CacheExpire =>
           /\ wait = TTL
           /\ \A f \in Facets :
                On(r, f) /\ KindOf[f] \in Needed(r, s.keyset.rolls[r].phase)
                  => Sure(s.keyset, f, TTL),
         Expired(s.keyset, r, s.keyset.rolls[r].phase)
  PROVE  Trusted(Stepped(s, r, Entered(s.keyset, r, phase, wait)))
<1> DEFINE set == s.keyset
           new == Entered(set, r, phase, wait)
           t == Stepped(s, r, new)
           p == set.rolls[r].phase
           acts == actions(r, phase)
<1>1. SetOK(set) /\ KeysTrusted(set) /\ r \in RollTypes /\ DOMAIN s = Fields
  BY DEF Fine, Sound, Trusted, SetOK, RollsOK
<1>2. RollStep(new, set, r, phase, wait)
  BY <1>1, EnteredIsStep
<1> HIDE DEF new
<1>3. /\ DOMAIN new.rolls = DOMAIN set.rolls
      /\ new.rolls[r] = [phase |-> phase, wait |-> wait]
      /\ \A x \in DOMAIN set.rolls \ {r} : new.rolls[x] = set.rolls[x]
  BY <1>2 DEF RollStep
<1>4. acts = actions(r, new.rolls[r].phase)
  BY <1>3
<1>5. /\ t.keyset = new /\ t.internal = s.internal
      /\ t.cds_rrset = IF "CreateCdsRrset" \in acts THEN ParentKeys(new)
                       ELSE IF "RemoveCdsRrset" \in acts THEN {} ELSE s.cds_rrset
  <2> HIDE DEF acts
  <2> QED
    BY <1>1, <1>4, SteppedFields
<1> HIDE DEF t
<1>6. \A f \in Facets : NewOf(new, f) = NewOf(set, f)
  BY <1>1, <1>2, StepSides
<1>7. KeysTrusted(new)
  BY <1>1, <1>2, StepKeys
<1>8. Manned(new)
  BY <1>6 DEF Trusted, Manned
<1>9. ModesHold(new)
  BY <1>1, <1>2, StepModes DEF Trusted
<1>10. ChecksHold(t)
  BY <1>2, <1>5, StepChecks
<1>11. CdsInOrder(new)
  <2> SUFFICES ASSUME config.channel = "cds", NEW x \in DOMAIN set.rolls, On(x, "ds"),
                      new.rolls[x].phase # "Done"
               PROVE  /\ Unseen(new) \/ zone_cds = {} \/ NewOf(new, "ds") \subseteq zone_cds
                      /\ "at_parent" \notin Given(x, new.rolls[x].phase) => Unseen(new)
    BY <1>3 DEF CdsInOrder
  <2>1. NewOf(new, "ds") = NewOf(set, "ds")
    BY <1>6 DEF Facets
  <2>2. Unseen(new) <=> Unseen(set)
    BY <2>1 DEF Unseen
  <2>3. CASE x = r
    <3>1. p # "Done"
      BY DEF Follows
    <3>2. /\ Unseen(set) \/ zone_cds = {} \/ NewOf(set, "ds") \subseteq zone_cds
          /\ "at_parent" \notin Given(r, p) => Unseen(set)
      BY <2>3, <3>1 DEF Trusted, CdsInOrder
    <3>3. Given(r, p) \subseteq Given(r, phase)
      BY PassedFollows
    <3> QED
      BY <1>3, <2>1, <2>2, <2>3, <3>2, <3>3
  <2>4. CASE x # r
    <3>1. new.rolls[x] = set.rolls[x]
      BY <1>3, <2>4
    <3> QED
      BY <2>1, <2>2, <3>1 DEF Trusted, CdsInOrder
  <2> QED
    BY <2>3, <2>4
<1>12. CdsThere(t)
  <2>1. ASSUME NEW x \in DOMAIN set.rolls
        PROVE  /\ x \in KskRolls => "Ksk" \in config.rolled
               /\ x \in ZskRolls => "Zsk" \in config.rolled
    BY DEF Trusted, CdsThere
  <2>2. ASSUME NEW x \in DOMAIN set.rolls, "ds" \in Needed(x, new.rolls[x].phase)
        PROVE  \/ t.cds_rrset = ParentKeys(new)
               \/ x \in KskRolls /\ {"Ksk", "Zsk"} \subseteq config.rolled
    <3>1. CASE x = r
      <4>1. "ds" \in Needed(r, phase)
        BY <1>3, <2>2, <3>1
      <4>2. phase \in Changing
        BY <4>1 DEF Needed, actions, Phases, Propagation, CacheExpire, Changing
      <4>3. "CreateCdsRrset" \in Plan[r][phase].actions
        BY <1>1, <4>1, <4>2, PlanEnded DEF PlanEnds
      <4>4. "CreateCdsRrset" \in acts
        BY <4>2, <4>3 DEF actions, Changing, CacheExpire
      <4> QED
        BY <1>5, <4>4
    <3>2. CASE x # r
      <4>1. new.rolls[x] = set.rolls[x] /\ set.rolls[x].phase \in Phases
        BY <1>1, <1>3, <3>2 DEF SetOK, RollsOK, RollState
      <4>2. r \in Compatible(x)
        BY <1>1, <3>2 DEF KeysTrusted, Paired
      <4>3. "ds" \in Needed(x, set.rolls[x].phase)
        BY <2>2, <4>1
      <4>4. x \in KskRolls /\ {"Ksk", "Zsk"} \subseteq config.rolled
        BY <2>1, <3>2, <4>1, <4>2, <4>3, CdsOfOther
      <4> QED
        BY <4>4
    <3> QED
      BY <3>1, <3>2
  <2> QED
    BY <1>3, <1>5, <2>1, <2>2 DEF CdsThere
<1>13. Trusted(t)
  BY <1>5, <1>7, <1>8, <1>9, <1>10, <1>11, <1>12 DEF Trusted
<1> QED
  BY <1>13 DEF t, new

-----------------------------------------------------------------------------
(* The checks find out what they are there for.                            *)

(* While it is being replaced a side is not without DS records. *)
LEMMA DsNotEmpty ==
  ASSUME NEW s, NEW gone, Fine(s, gone), Trusted(s), NEW r \in DOMAIN s.keyset.rolls,
         r # "AlgorithmRoll", On(r, "ds"), {} \in served["ds"]
  PROVE  FALSE
<1> DEFINE set == s.keyset
           mode == Mode(r, set.rolls[r].phase, "ds")
<1>1. NewOf(set, "ds") # {}
  BY DEF Trusted, Manned, Facets
<1>2. mode # "new" => OldOf(set, "ds") # {}
  BY DEF Trusted, KeysTrusted, Replaced, Bare, Facets
<1>3. Shows(mode, set, "ds", {})
  <2>1. AllShow(mode, set, "ds")
    BY DEF Trusted, ModesHold, Facets
  <2>2. {} \in Visible(KindOf["ds"])
    BY DEF Visible, KindOf
  <2> HIDE DEF mode
  <2> QED
    BY <2>1, <2>2 DEF AllShow
<1>4. mode \in {"old", "either", "new", "both"}
  BY DEF Mode
<1>5. Shown("ds", {}) = {}
  BY DEF Shown
<1> HIDE DEF mode
<1> QED
  BY <1>1, <1>2, <1>3, <1>4, <1>5 DEF Shows, ShowsOld, ShowsNew

LEMMA CdsCompared ==
  ASSUME NEW s, NEW gone, Fine(s, gone), Trusted(s), NEW r \in DOMAIN s.keyset.rolls,
         On(r, "ds"), "ds" \in Needed(r, s.keyset.rolls[r].phase), Confirmed(s, "ds")
  PROVE  s.cds_rrset = ParentKeys(s.keyset)
<1>1. served["ds"] = {s.cds_rrset}
  BY DEF Confirmed, Propagated, Target
<1>2. s.cds_rrset \in {{}, ParentKeys(s.keyset)}
  BY DEF Fine, Sound, DsFollows
<1>3. \/ s.cds_rrset = ParentKeys(s.keyset)
      \/ r \in KskRolls
  BY DEF Trusted, CdsThere
<1>4. CASE r \in KskRolls /\ s.cds_rrset = {}
  <2>1. r # "AlgorithmRoll" /\ {} \in served["ds"]
    BY <1>1, <1>4 DEF KskRolls
  <2> QED
    BY <2>1, DsNotEmpty
<1> QED
  BY <1>2, <1>3, <1>4

LEMMA ConfirmedSure ==
  ASSUME NEW s, NEW gone, Fine(s, gone), Trusted(s), DnsOK, NEW r,
         InPhase(s, r, Propagation), NEW f \in Facets, On(r, f),
         KindOf[f] \in Needed(r, s.keyset.rolls[r].phase), Confirmed(s, KindOf[f])
  PROVE  Sure(s.keyset, f, TTL)
<1> DEFINE set == s.keyset
           phase == set.rolls[r].phase
<1>1. r \in DOMAIN set.rolls /\ phase \in Propagation /\ SetOK(set) /\ KeysTrusted(set)
  BY DEF InPhase, Fine, Sound, Trusted
<1>2. Relied(r, phase, f)
  BY <1>1 DEF Relied, CheckedFirst, Early, Propagation
<1>3. ShowsNew(set, f, NowOf(set, f))
  BY <1>1, <1>2, NowGood
<1>4. served[KindOf[f]] = {Target(s, KindOf[f])}
  BY DEF Confirmed, Propagated
<1>5. Target(s, KindOf[f]) = NowOf(set, f)
  <2>1. CASE f \in {"ksk", "zsk"}
    BY <2>1 DEF Target, NowOf, KindOf, Fine, Sound, DnskeyFollows
  <2>2. CASE f = "ds"
    <3>1. "ds" \in Needed(r, set.rolls[r].phase) /\ Confirmed(s, "ds")
      BY <2>2 DEF KindOf
    <3>2. s.cds_rrset = ParentKeys(set)
      BY <1>1, <2>2, <3>1, CdsCompared
    <3> QED
      BY <2>2, <3>2 DEF Target, NowOf, KindOf
  <2>3. CASE f = "rrsig"
    BY <2>3 DEF Target, NowOf, KindOf
  <2> QED
    BY <2>1, <2>2, <2>3 DEF Facets
<1>6. ASSUME NEW v \in Coming(KindOf[f]) PROVE ShowsNew(set, f, v)
  <2>1. config.channel = "cds" /\ v = zone_cds /\ zone_cds # {} /\ f = "ds"
    BY DEF Coming, KindOf, Facets
  <2>2. phase # "Done"
    BY <1>1 DEF Propagation
  <2>3. Unseen(set) \/ NewOf(set, "ds") \subseteq zone_cds
    BY <1>1, <2>1, <2>2 DEF Trusted, CdsInOrder
  <2>4. ~Unseen(set)
    <3>1. NowOf(set, f) \in Visible("ds")
      BY <1>4, <1>5, <2>1 DEF Visible, KindOf
    <3>2. NewOf(set, "ds") \subseteq NowOf(set, f) /\ NewOf(set, "ds") # {}
      BY <1>3, <2>1 DEF ShowsNew, Shown, Trusted, Manned
    <3> QED
      BY <3>1, <3>2 DEF Unseen
  <2> QED
    BY <2>1, <2>3, <2>4 DEF ShowsNew, Shown
<1>7. \A v \in DOMAIN cached[KindOf[f]] : cached[KindOf[f]][v] <= TTL
  <2>1. KindOf[f] \in Kinds
    BY DEF Facets, KindOf, Kinds
  <2> QED
    BY <2>1 DEF DnsOK
<1> QED
  BY <1>3, <1>4, <1>5, <1>6, <1>7 DEF Sure

-----------------------------------------------------------------------------
(* The stages of a roll keep all of it.                                    *)

LEMMA CompleteTrusted ==
  ASSUME NEW s, NEW gone, Fine(s, gone), Trusted(s), DnsOK, NEW r,
         InPhase(s, r, Propagation),
         \A c \in Needed(r, s.keyset.rolls[r].phase) :
           Confirmed(s, c) \/ c \in s.internal[r][s.keyset.rolls[r].phase]
  PROVE  Trusted(Stepped(s, r, propagation_complete(s.keyset, r, TTL)))
<1> DEFINE at == s.keyset.rolls[r].phase
           phase == IF at = "Propagation1" THEN "CacheExpire1" ELSE "CacheExpire2"
<1>1. r \in DOMAIN s.keyset.rolls /\ at \in {"Propagation1", "Propagation2"}
  BY DEF InPhase, Propagation
<1>2. phase \in Phases /\ TTL \in 0 .. TTL /\ Follows(at, phase)
  BY <1>1, TtlAssumption DEF Phases, CacheExpire, Follows
<1>3. ASSUME NEW f \in Facets, On(r, f), KindOf[f] \in Needed(r, at)
      PROVE  Sure(s.keyset, f, TTL)
  <2>1. CASE Confirmed(s, KindOf[f])
    BY <1>3, <2>1, ConfirmedSure
  <2>2. CASE KindOf[f] \in s.internal[r][at]
    <3>1. Settled(s, r, KindOf[f])
      BY <1>1, <1>3, <2>2 DEF Settled, Propagation
    <3>2. Limit(s.keyset.rolls[r]) = TTL
      BY <1>1 DEF Limit, CacheExpire
    <3> QED
      BY <1>1, <1>3, <3>1, <3>2 DEF Trusted, ChecksHold
  <2> QED
    BY <1>3, <2>1, <2>2
<1>4. Expired(s.keyset, r, at)
  BY <1>1 DEF Expired
<1>5. Trusted(Stepped(s, r, Entered(s.keyset, r, phase, TTL)))
  <2> HIDE DEF phase
  <2> QED
    BY <1>1, <1>2, <1>3, <1>4, StepTrusted
<1> QED
  BY <1>5 DEF propagation_complete

LEMMA ExpiredTrusted ==
  ASSUME NEW s, NEW gone, Fine(s, gone), Trusted(s), DnsOK, NEW r,
         InPhase(s, r, CacheExpire), s.keyset.rolls[r].wait = 0
  PROVE  Trusted(Stepped(s, r, cache_expired(s.keyset, r)))
<1> DEFINE at == s.keyset.rolls[r].phase
           phase == IF at = "CacheExpire1" THEN "Propagation2" ELSE "Done"
<1>1. r \in DOMAIN s.keyset.rolls /\ at \in {"CacheExpire1", "CacheExpire2"}
  BY DEF InPhase, CacheExpire
<1>2. phase \in Phases /\ 0 \in 0 .. TTL /\ Follows(at, phase) /\ phase \notin CacheExpire
  BY <1>1, TtlAssumption DEF Phases, CacheExpire, Propagation, Follows
<1>3. Expired(s.keyset, r, at)
  <2> SUFFICES ASSUME NEW f \in Facets, On(r, f),
                      \/ at = "CacheExpire1" /\ KindOf[f] \in Needed(r, "Propagation1")
                      \/ at = "CacheExpire2" /\ KindOf[f] \in Needed(r, "Propagation2")
               PROVE  Sure(s.keyset, f, 0)
    BY DEF Expired
  <2>1. Settled(s, r, KindOf[f])
    BY DEF Settled
  <2>2. Limit(s.keyset.rolls[r]) = 0
    BY <1>1 DEF Limit, CacheExpire
  <2> QED
    BY <1>1, <2>1, <2>2 DEF Trusted, ChecksHold
<1>4. Trusted(Stepped(s, r, Entered(s.keyset, r, phase, 0)))
  <2> HIDE DEF phase
  <2> QED
    BY <1>1, <1>2, <1>3, StepTrusted
<1> QED
  BY <1>4 DEF cache_expired

LEMMA ReportedFields ==
  ASSUME NEW s, NEW gone, Fine(s, gone), NEW r, InPhase(s, r, Changing), NEW answers,
         NEW t, t = Reported(s, r, answers)
  PROVE  /\ t.keyset = s.keyset /\ t.cds_rrset = s.cds_rrset
         /\ \A x \in DOMAIN s.keyset.rolls \ {r} : t.internal[x] = s.internal[x]
         /\ \A c \in t.internal[r][s.keyset.rolls[r].phase] :
              Confirmed(s, c) \/ c \in s.internal[r][s.keyset.rolls[r].phase]
<1> DEFINE phase == s.keyset.rolls[r].phase
           open == Needed(r, phase) \ s.internal[r][phase]
           waiting == {c \in open : c \notin answers \/ ~Confirmed(s, c)}
           done == {c \in open : \A w \in waiting : CheckOrder[c] < CheckOrder[w]}
<1>1. DOMAIN s = Fields
  BY DEF Fine, Sound
<1>2. t = [s EXCEPT !.internal[r][phase] = @ \union done]
  BY DEF Reported
<1>3. \A c \in done : Confirmed(s, c)
  <2>1. Needed(r, phase) \subseteq Checks
    BY DEF Needed, CheckOf, Checks
  <2>2. \A c \in Checks : ~(CheckOrder[c] < CheckOrder[c])
    BY DEF Checks, CheckOrder
  <2> QED
    BY <2>1, <2>2
<1>4. r \in DOMAIN s.keyset.rolls /\ phase \in Changing
  BY DEF InPhase
<1>5. DOMAIN s.internal = DOMAIN s.keyset.rolls /\ s.internal[r] \in [Changing -> SUBSET Checks]
  BY <1>4 DEF Fine, Reports
<1> HIDE DEF done, phase
<1>6. /\ t.keyset = s.keyset /\ t.cds_rrset = s.cds_rrset
      /\ t.internal = [s.internal EXCEPT ![r][phase] = @ \union done]
  BY <1>1, <1>2 DEF Fields
<1>7. t.internal[r][phase] = s.internal[r][phase] \union done
  BY <1>4, <1>5, <1>6
<1>8. \A x \in DOMAIN s.keyset.rolls \ {r} : t.internal[x] = s.internal[x]
  BY <1>5, <1>6
<1> QED
  BY <1>3, <1>6, <1>7, <1>8 DEF phase

LEMMA ReportedTrusted ==
  ASSUME NEW s, NEW gone, Fine(s, gone), Trusted(s), DnsOK, NEW r, InPhase(s, r, Changing),
         NEW answers
  PROVE  Trusted(Reported(s, r, answers))
<1> DEFINE t == Reported(s, r, answers)
           phase == s.keyset.rolls[r].phase
<1>1. /\ t.keyset = s.keyset /\ t.cds_rrset = s.cds_rrset
      /\ \A x \in DOMAIN s.keyset.rolls \ {r} : t.internal[x] = s.internal[x]
      /\ \A c \in t.internal[r][phase] : Confirmed(s, c) \/ c \in s.internal[r][phase]
  BY ReportedFields
<1> HIDE DEF t
<1>2. ChecksHold(t)
  <2> SUFFICES ASSUME NEW x \in DOMAIN s.keyset.rolls, NEW f \in Facets, On(x, f),
                      Settled(t, x, KindOf[f])
               PROVE  Sure(s.keyset, f, Limit(s.keyset.rolls[x]))
    BY <1>1 DEF ChecksHold
  <2>1. CASE Settled(s, x, KindOf[f])
    BY <2>1 DEF Trusted, ChecksHold
  <2>2. CASE ~Settled(s, x, KindOf[f])
    <3>1. /\ x = r /\ phase \in Propagation
          /\ KindOf[f] \in Needed(r, phase) /\ Confirmed(s, KindOf[f])
      BY <1>1, <2>2 DEF Settled
    <3>2. InPhase(s, r, Propagation)
      BY <3>1 DEF InPhase
    <3>3. Sure(s.keyset, f, TTL)
      BY <3>1, <3>2, ConfirmedSure
    <3>4. Limit(s.keyset.rolls[x]) = TTL
      BY <3>1 DEF Limit, Propagation, CacheExpire
    <3> QED
      BY <3>3, <3>4
  <2> QED
    BY <2>1, <2>2
<1>3. CdsThere(t)
  BY <1>1 DEF Trusted, CdsThere
<1> QED
  BY <1>1, <1>2, <1>3 DEF Trusted, t

(* The keys of a roll that has come to its end. *)
LEMMA DoneKeys ==
  ASSUME NEW set, SetOK(set), KeysTrusted(set), NEW r \in DOMAIN set.rolls,
         set.rolls[r].phase = "Done", NEW new, new.keys = set.keys,
         DOMAIN new.rolls = DOMAIN set.rolls \ {r},
         \A x \in DOMAIN new.rolls : new.rolls[x] = set.rolls[x]
  PROVE  KeysTrusted(new)
<1>1. FlagsFollow(new)
  <2> SUFFICES ASSUME NEW k \in DOMAIN set.keys PROVE KeyFollows(set.keys[k], new.rolls)
    BY DEF FlagsFollow
  <2> DEFINE key == set.keys[k]
  <2>1. KeyFollows(key, set.rolls)
    BY DEF KeysTrusted, FlagsFollow
  <2>2. key.flags \subseteq Capability[key.type]
    BY DEF SetOK, KeysOK, KeyOK
  <2> HIDE DEF key
  <2>3. CASE key.type \in Rolls(r)
    <3>1. IF key.old THEN key.flags \in {{}, Capability[key.type] \ Taken(r, "Done")}
          ELSE key.flags = Given(r, "Done") \intersect Capability[key.type]
      BY <2>1, <2>3 DEF KeyFollows
    <3>2. /\ Capability[key.type] \subseteq Given(r, "Done")
          /\ Capability[key.type] \subseteq Taken(r, "Done")
      BY <2>3, PlanEnded DEF PlanEnds, SetOK, RollsOK
    <3>3. key.flags = IF key.old THEN {} ELSE Capability[key.type]
      BY <3>1, <3>2
    <3>4. \A x \in DOMAIN new.rolls : key.type \notin Rolls(x)
      BY <2>3, RollOfKey DEF KeysTrusted
    <3> QED
      BY <3>3, <3>4 DEF KeyFollows, key
  <2>4. CASE key.type \notin Rolls(r)
    BY <2>1, <2>4 DEF KeyFollows, key
  <2> QED
    BY <2>3, <2>4
<1>2. CsksGone(new) /\ Paired(new)
  BY DEF KeysTrusted, CsksGone, Paired
<1>3. Replaced(new)
  BY DEF KeysTrusted, Replaced, Bare, OldOf
<1> QED
  BY <1>1, <1>2, <1>3 DEF KeysTrusted

LEMMA DoneTrusted ==
  ASSUME NEW s, NEW gone, Fine(s, gone), Trusted(s), NEW r, InPhase(s, r, {"Done"})
  PROVE  Trusted(do_done(s, r))
<1> DEFINE t == do_done(s, r)
           set == s.keyset
           new == t.keyset
<1>1. DOMAIN s = Fields /\ DOMAIN set = {"keys", "rolls"} /\ SetOK(set) /\ KeysTrusted(set)
      /\ r \in DOMAIN set.rolls /\ set.rolls[r].phase = "Done"
  BY DEF Fine, Sound, SetOK, Trusted, InPhase
<1>2. /\ new.keys = set.keys
      /\ DOMAIN new.rolls = DOMAIN set.rolls \ {r}
      /\ \A x \in DOMAIN new.rolls : new.rolls[x] = set.rolls[x]
      /\ t.cds_rrset = {}
      /\ \A x \in DOMAIN s.internal \ {r} : t.internal[x] = s.internal[x]
  BY <1>1 DEF do_done, roll_done, Fields
<1>3. DOMAIN s.internal = DOMAIN set.rolls
  BY DEF Fine, Reports
<1> HIDE DEF t
<1>4. KeysTrusted(new)
  BY <1>1, <1>2, DoneKeys
<1>5. \A f : NewOf(new, f) = NewOf(set, f) /\ OldOf(new, f) = OldOf(set, f)
  BY <1>2 DEF NewOf, OldOf
<1>6. ModesHold(new)
  <2>1. ASSUME NEW f \in Facets, \A x \in DOMAIN new.rolls : ~On(x, f)
        PROVE  AllShow("new", new, f)
    <3>1. AllShow("new", set, f)
      <4>1. CASE On(r, f)
        <5>1. AllShow(Mode(r, "Done", f), set, f)
          BY <1>1, <4>1 DEF Trusted, ModesHold
        <5>2. Mode(r, "Done", f) = "new"
          BY DEF Mode, Early
        <5> QED
          BY <5>1, <5>2
      <4>2. CASE ~On(r, f)
        BY <1>2, <2>1, <4>2 DEF Trusted, ModesHold
      <4> QED
        BY <4>1, <4>2
    <3> QED
      BY <1>5, <3>1, SameShown
  <2>2. ASSUME NEW f \in Facets, NEW x \in DOMAIN new.rolls, On(x, f)
        PROVE  AllShow(Mode(x, new.rolls[x].phase, f), new, f)
    <3>1. AllShow(Mode(x, set.rolls[x].phase, f), set, f)
      BY <1>2, <2>2 DEF Trusted, ModesHold
    <3> QED
      BY <1>2, <1>5, <3>1, SameShown
  <2> QED
    BY <2>1, <2>2 DEF ModesHold
<1>7. ChecksHold(t)
  <2> SUFFICES ASSUME NEW x \in DOMAIN new.rolls, NEW f \in Facets, On(x, f),
                      Settled(t, x, KindOf[f])
               PROVE  Sure(new, f, Limit(new.rolls[x]))
    BY DEF ChecksHold
  <2>1. x \in DOMAIN set.rolls /\ new.rolls[x] = set.rolls[x] /\ t.internal[x] = s.internal[x]
    BY <1>2, <1>3
  <2>2. Settled(s, x, KindOf[f])
    BY <2>1 DEF Settled
  <2>3. Sure(set, f, Limit(set.rolls[x]))
    BY <2>1, <2>2 DEF Trusted, ChecksHold
  <2> QED
    BY <1>5, <2>1, <2>3, SameShown
<1>8. Manned(new)
  BY <1>5 DEF Trusted, Manned
<1>9. CdsInOrder(new)
  BY <1>2, <1>5 DEF Trusted, CdsInOrder, Unseen
<1>10. CdsThere(t)
  <2> SUFFICES ASSUME NEW x \in DOMAIN new.rolls
               PROVE  /\ x \in KskRolls => "Ksk" \in config.rolled
                      /\ x \in ZskRolls => "Zsk" \in config.rolled
                      /\ "ds" \in Needed(x, new.rolls[x].phase) =>
                           x \in KskRolls /\ {"Ksk", "Zsk"} \subseteq config.rolled
    BY DEF CdsThere
  <2>1. x \in DOMAIN set.rolls \ {r} /\ new.rolls[x] = set.rolls[x]
        /\ set.rolls[x].phase \in Phases
    BY <1>1, <1>2 DEF SetOK, RollsOK, RollState
  <2>2. \A y \in {r, x} : /\ y \in KskRolls => "Ksk" \in config.rolled
                          /\ y \in ZskRolls => "Zsk" \in config.rolled
    BY <1>1, <2>1 DEF Trusted, CdsThere
  <2>3. r \in Compatible(x)
    BY <1>1, <2>1 DEF KeysTrusted, Paired
  <2>4. "ds" \in Needed(x, set.rolls[x].phase) =>
          x \in KskRolls /\ {"Ksk", "Zsk"} \subseteq config.rolled
    BY <1>1, <2>1, <2>2, <2>3, CdsOfOther
  <2> QED
    BY <2>1, <2>2, <2>4
<1>11. Trusted(t)
  BY <1>4, <1>6, <1>7, <1>8, <1>9, <1>10 DEF Trusted
<1> QED
  BY <1>11 DEF t

LEMMA RemovedTrusted ==
  ASSUME NEW s, NEW gone, Fine(s, gone), Trusted(s)
  PROVE  Trusted(RemoveKeys(s, gone))
<1> DEFINE t == RemoveKeys(s, gone)
           set == s.keyset
           new == t.keyset
<1>1. DOMAIN s = Fields /\ DOMAIN set = {"keys", "rolls"}
  BY DEF Fine, Sound, SetOK
<1>2. /\ DOMAIN new.keys = DOMAIN set.keys \ gone
      /\ \A k \in DOMAIN new.keys : new.keys[k] = set.keys[k]
      /\ new.rolls = set.rolls
      /\ t.cds_rrset = s.cds_rrset /\ t.internal = s.internal
  BY <1>1 DEF RemoveKeys, Fields
<1> HIDE DEF t
<1>3. \A k \in gone : set.keys[k].old /\ set.keys[k].flags = {}
  BY DEF Fine, StaleKeys, stale
<1>4. \A f : NewOf(new, f) = NewOf(set, f) /\ OldOf(new, f) = OldOf(set, f)
  BY <1>2, <1>3 DEF NewOf, OldOf
<1>5. ParentKeys(new) = ParentKeys(set)
  BY <1>2, <1>3 DEF ParentKeys, With
<1>6. KeysTrusted(new)
  <2>1. FlagsFollow(new)
    BY <1>2 DEF Trusted, KeysTrusted, FlagsFollow
  <2>2. CsksGone(new) /\ Paired(new)
    BY <1>2 DEF Trusted, KeysTrusted, CsksGone, Paired
  <2>3. Replaced(new)
    BY <1>2, <1>4 DEF Trusted, KeysTrusted, Replaced, Bare
  <2> QED
    BY <2>1, <2>2, <2>3 DEF KeysTrusted
<1>7. ModesHold(new)
  <2>1. \A f \in Facets : \A mode : AllShow(mode, set, f) => AllShow(mode, new, f)
    BY <1>4, SameShown
  <2> QED
    BY <1>2, <2>1 DEF Trusted, ModesHold
<1>8. ChecksHold(t)
  <2>1. \A f \in Facets : \A limit : Sure(set, f, limit) => Sure(new, f, limit)
    BY <1>4, SameShown
  <2>2. \A r \in DOMAIN set.rolls : \A f \in Facets :
          Settled(t, r, KindOf[f]) <=> Settled(s, r, KindOf[f])
    BY <1>2 DEF Settled
  <2> QED
    BY <1>2, <2>1, <2>2 DEF Trusted, ChecksHold
<1>9. Manned(new)
  BY <1>4 DEF Trusted, Manned
<1>10. CdsInOrder(new)
  BY <1>2, <1>4 DEF Trusted, CdsInOrder, Unseen
<1>11. CdsThere(t)
  BY <1>2, <1>5 DEF Trusted, CdsThere
<1>12. Trusted(t)
  BY <1>6, <1>7, <1>8, <1>9, <1>10, <1>11 DEF Trusted
<1> QED
  BY <1>12 DEF t

(* What the stages of a roll keep. *)
Kept(s, gone) == Fine(s, gone) /\ Trusted(s)

LEMMA AutoReportKept ==
  ASSUME NEW s, NEW gone, Kept(s, gone), DnsOK, NEW r, NEW auto, NEW answers
  PROVE  Kept(AutoReport(auto, s, r, answers), gone)
<1> DEFINE t == Reported(s, r, answers)
<1>1. Fine(s, gone) /\ Trusted(s)
  BY DEF Kept
<1>2. Fine(AutoReport(auto, s, r, answers), gone)
  BY <1>1, AutoReportFine
<1>3. Trusted(AutoReport(auto, s, r, answers))
  <2>1. CASE "report" \notin auto \/ ~InPhase(s, r, Propagation)
    BY <1>1, <2>1 DEF AutoReport
  <2>2. CASE "report" \in auto /\ InPhase(s, r, Propagation)
    <3>1. InPhase(s, r, Changing)
      BY <2>2 DEF InPhase, Propagation, Changing
    <3>2. Fine(t, gone) /\ t.keyset = s.keyset
      BY <1>1, <3>1, ReportedFine
    <3>3. Trusted(t)
      BY <1>1, <3>1, ReportedTrusted
    <3>4. InPhase(t, r, Propagation)
      BY <2>2, <3>2 DEF InPhase
    <3> HIDE DEF t
    <3>5. AllReported(t, r) => Trusted(Stepped(t, r, propagation_complete(t.keyset, r, TTL)))
      BY <3>2, <3>3, <3>4, CompleteTrusted DEF AllReported
    <3> QED
      BY <2>2, <3>3, <3>5 DEF AutoReport, t
  <2> QED
    BY <2>1, <2>2
<1> QED
  BY <1>2, <1>3 DEF Kept

LEMMA AutoExpireKept ==
  ASSUME NEW s, NEW gone, Kept(s, gone), DnsOK, NEW r, NEW auto
  PROVE  Kept(AutoExpire(auto, s, r), gone)
BY AutoExpireFine, ExpiredTrusted DEF Kept, AutoExpire

LEMMA AutoDoneKept ==
  ASSUME NEW s, NEW gone, Kept(s, gone), DnsOK, NEW r, NEW auto, NEW answers
  PROVE  Kept(AutoDone(auto, s, r, answers), gone)
<1> DEFINE t == Reported(s, r, answers)
<1>1. Fine(s, gone) /\ Trusted(s)
  BY DEF Kept
<1>2. Fine(AutoDone(auto, s, r, answers), gone)
  BY <1>1, AutoDoneFine
<1>3. Trusted(AutoDone(auto, s, r, answers))
  <2>1. CASE "done" \notin auto \/ ~InPhase(s, r, {"Done"})
    BY <1>1, <2>1 DEF AutoDone
  <2>2. CASE "done" \in auto /\ InPhase(s, r, {"Done"})
    <3>1. InPhase(s, r, Changing)
      BY <2>2 DEF InPhase, Changing
    <3>2. Fine(t, gone) /\ t.keyset = s.keyset
      BY <1>1, <3>1, ReportedFine
    <3>3. Trusted(t)
      BY <1>1, <3>1, ReportedTrusted
    <3>4. InPhase(t, r, {"Done"})
      BY <2>2, <3>2 DEF InPhase
    <3> HIDE DEF t
    <3>5. Trusted(do_done(t, r))
      BY <3>2, <3>3, <3>4, DoneTrusted
    <3> QED
      BY <2>2, <3>3, <3>5 DEF AutoDone, t
  <2> QED
    BY <2>1, <2>2
<1> QED
  BY <1>2, <1>3 DEF Kept

LEMMA StagesKept ==
  ASSUME NEW S, NEW gone, \A s \in S : Kept(s, gone), DnsOK, NEW r, NEW auto, NEW answers
  PROVE  \A t \in auto_report_expire_done(S, auto, r, answers) : Kept(t, gone)
<1> SUFFICES ASSUME NEW t \in auto_report_expire_done(S, auto, r, answers)
             PROVE  Kept(t, gone)
  OBVIOUS
<1>1. PICK s \in S :
        t = AutoDone(auto, AutoExpire(auto, AutoReport(auto, s, r, answers), r), r, answers)
  BY DEF auto_report_expire_done
<1>2. Kept(AutoReport(auto, s, r, answers), gone)
  BY AutoReportKept
<1>3. Kept(AutoExpire(auto, AutoReport(auto, s, r, answers), r), gone)
  BY <1>2, AutoExpireKept
<1> QED
  BY <1>1, <1>3, AutoDoneKept

LEMMA RollsKept ==
  ASSUME NEW S, NEW gone, \A s \in S : Kept(s, gone), DnsOK, NEW answers
  PROVE  \A t \in AutoRolls(S, answers) : Kept(t, gone)
<1> DEFINE ksk1 == auto_report_expire_done(S, Automatic["Ksk"], "KskRoll", answers)
           ksk2 == auto_report_expire_done(ksk1, Automatic["Ksk"], "KskDoubleDsRoll", answers)
           zsk1 == auto_report_expire_done(ksk2, Automatic["Zsk"], "ZskRoll", answers)
           zsk2 == auto_report_expire_done(zsk1, Automatic["Zsk"], "ZskDoubleSignatureRoll",
                                           answers)
           csk  == auto_report_expire_done(zsk2, Automatic["Csk"], "CskRoll", answers)
           alg  == auto_report_expire_done(csk, Automatic["Algorithm"], "AlgorithmRoll", answers)
<1>1. AutoRolls(S, answers) = alg
  BY DEF AutoRolls
<1>2. \A t \in ksk1 : Kept(t, gone)
  BY StagesKept
<1> HIDE DEF ksk1
<1>3. \A t \in ksk2 : Kept(t, gone)
  BY <1>2, StagesKept
<1> HIDE DEF ksk2
<1>4. \A t \in zsk1 : Kept(t, gone)
  BY <1>3, StagesKept
<1> HIDE DEF zsk1
<1>5. \A t \in zsk2 : Kept(t, gone)
  BY <1>4, StagesKept
<1> HIDE DEF zsk2
<1>6. \A t \in csk : Kept(t, gone)
  BY <1>5, StagesKept
<1> HIDE DEF csk
<1>7. \A t \in alg : Kept(t, gone)
  BY <1>6, StagesKept
<1> QED
  BY <1>1, <1>7

-----------------------------------------------------------------------------
(* The start of a roll.                                                    *)

(* The key set e of a roll that has started. *)
IsStarted(e, set, r, types, pick) ==
  /\ DOMAIN e.keys = DOMAIN set.keys \union Names(pick)
  /\ \A k \in DOMAIN set.keys :
       /\ e.keys[k].type = set.keys[k].type
       /\ e.keys[k].flags = set.keys[k].flags
       /\ e.keys[k].old <=> (set.keys[k].old \/ set.keys[k].type \in Rolls(r))
  /\ \A x \in types :
       /\ e.keys[pick[x]].type = x /\ ~e.keys[pick[x]].old
       /\ e.keys[pick[x]].flags = Plan[r]["Propagation1"].give \intersect Capability[x]
  /\ DOMAIN e.rolls = DOMAIN set.rolls \union {r}
  /\ e.rolls[r] = [phase |-> "Propagation1", wait |-> 0]
  /\ \A x \in DOMAIN set.rolls \ {r} : e.rolls[x] = set.rolls[x]

(* The names are new to everybody, and no CSK stands in for what is rolled. *)
CanRoll(s, r, pick) ==
  /\ r \in KskRolls \union ZskRolls => ~config.use_csk /\ ActiveKeys(s, {"CSK"}) = {}
  /\ DOMAIN s.keyset.rolls \subseteq Compatible(r)
  /\ pick \in [NewTypes(r) -> KeyNames]
  /\ \A x \in NewTypes(r) : pick[x] \in Unused(s, x)

LEMMA PreparedIsStarted ==
  ASSUME NEW s, NEW r \in RollTypes, SetOK(s.keyset), NEW types, types \subseteq Rolls(r),
         NEW pick \in [types -> KeyNames], \A x \in types : pick[x] \notin DOMAIN s.keyset.keys,
         NEW new, SetOK(new),
         IsPrepared(new, s.keyset, types, pick, ActiveKeys(s, Rolls(r)))
  PROVE  IsStarted(Entered(new, r, "Propagation1", 0), s.keyset, r, types, pick)
<1> DEFINE set == s.keyset
           old == ActiveKeys(s, Rolls(r))
           e == Entered(new, r, "Propagation1", 0)
<1>1. "Propagation1" \in Changing /\ "Propagation1" \notin CacheExpire
  BY DEF Changing, CacheExpire
<1>2. /\ e.keys = Applied(new.keys, r, "Propagation1")
      /\ DOMAIN e.rolls = DOMAIN new.rolls \union {r}
      /\ e.rolls[r] = [phase |-> "Propagation1", wait |-> 0]
      /\ \A x \in DOMAIN new.rolls \ {r} : e.rolls[x] = new.rolls[x]
  BY <1>1, EnteredFields DEF NewKeys
<1>3. DOMAIN e.keys = DOMAIN new.keys
  BY <1>2 DEF Applied
<1> HIDE DEF e
<1>4. \A k \in DOMAIN new.keys :
        /\ e.keys[k].type = new.keys[k].type
        /\ e.keys[k].old = new.keys[k].old
        /\ e.keys[k].flags = NewFlags(new.keys[k], r, "Propagation1")
  BY <1>1, <1>2, AppliedKey DEF SetOK
<1>5. Plan[r]["Propagation1"].take = {}
  <2>1. Taken(r, "Propagation1") = Plan[r]["Propagation1"].take
    BY DEF Taken, Passed, Early
  <2> QED
    BY <2>1, PlanEnded DEF PlanEnds
<1>6. ASSUME NEW k \in DOMAIN set.keys
      PROVE  /\ e.keys[k].type = set.keys[k].type
             /\ e.keys[k].flags = set.keys[k].flags
             /\ e.keys[k].old <=> (set.keys[k].old \/ set.keys[k].type \in Rolls(r))
  <2>1. /\ k \in DOMAIN new.keys
        /\ new.keys[k].type = set.keys[k].type /\ new.keys[k].flags = set.keys[k].flags
        /\ new.keys[k].old <=> (set.keys[k].old \/ k \in old)
    BY DEF IsPrepared
  <2>2. k \in old <=> set.keys[k].type \in Rolls(r) /\ ~stale(set.keys[k])
    BY DEF ActiveKeys
  <2>3. stale(set.keys[k]) => set.keys[k].old
    BY DEF stale
  <2> HIDE DEF old
  <2>4. new.keys[k].old <=> (set.keys[k].old \/ set.keys[k].type \in Rolls(r))
    BY <2>1, <2>2, <2>3
  <2>5. NewFlags(new.keys[k], r, "Propagation1") = set.keys[k].flags
    <3>1. set.keys[k].type \in Rolls(r) => new.keys[k].old
      BY <2>4
    <3> QED
      BY <1>5, <2>1, <3>1 DEF NewFlags
  <2>6. e.keys[k].old <=> new.keys[k].old
    BY <1>4, <2>1
  <2> QED
    BY <1>4, <2>1, <2>4, <2>5, <2>6
<1>7. ASSUME NEW x \in types
      PROVE  /\ e.keys[pick[x]].type = x /\ ~e.keys[pick[x]].old
             /\ e.keys[pick[x]].flags = Plan[r]["Propagation1"].give \intersect Capability[x]
  <2>1. /\ new.keys[pick[x]].type = x /\ new.keys[pick[x]].flags = {}
        /\ new.keys[pick[x]].old <=> pick[x] \in old
    BY DEF IsPrepared
  <2>2. pick[x] \in DOMAIN new.keys
    BY DEF IsPrepared, Names
  <2>3. pick[x] \notin old
    BY DEF ActiveKeys
  <2> HIDE DEF old
  <2>4. ~new.keys[pick[x]].old
    BY <2>1, <2>3
  <2>5. NewFlags(new.keys[pick[x]], r, "Propagation1")
          = Plan[r]["Propagation1"].give \intersect Capability[x]
    BY <2>1, <2>4 DEF NewFlags
  <2> QED
    BY <1>4, <2>1, <2>2, <2>4, <2>5
<1>8. IsStarted(e, set, r, types, pick)
  <2>1. new.rolls = set.rolls /\ DOMAIN new.keys = DOMAIN set.keys \union Names(pick)
    BY DEF IsPrepared
  <2> QED
    BY <1>2, <1>3, <1>6, <1>7, <2>1 DEF IsStarted
<1> QED
  BY <1>8 DEF e

LEMMA StartIs ==
  ASSUME NEW s, NEW r \in RollTypes, Startable(s, r), config \in Configs,
         NEW t \in start_roll_command(s, r)
  PROVE  \E pick :
           /\ CanRoll(s, r, pick)
           /\ IsStarted(t.keyset, s.keyset, r, NewTypes(r), pick)
           /\ \A x \in DOMAIN s.internal \ {r} : t.internal[x] = s.internal[x]
           /\ t.internal[r] = NoReports
           /\ t.cds_rrset = IF "CreateCdsRrset" \in actions(r, "Propagation1")
                            THEN ParentKeys(t.keyset)
                            ELSE IF "RemoveCdsRrset" \in actions(r, "Propagation1") THEN {}
                            ELSE s.cds_rrset
<1> DEFINE set == s.keyset
           old == ActiveKeys(s, Rolls(r))
           alg == config.algorithm
           types == NewTypes(r)
<1>1. PICK pick \in new_keys(s, types) :
        /\ CanStart(AddKeys(set, pick, alg), r, old, {pick[x] : x \in DOMAIN pick})
        /\ t = [Stepped(s, r, start_roll(AddKeys(set, pick, alg), r, old))
                  EXCEPT !.internal = [x \in DOMAIN s.internal \union {r} |->
                                         IF x = r THEN NoReports ELSE s.internal[x]]]
        /\ r \in KskRolls \union ZskRolls => ~config.use_csk /\ ActiveKeys(s, {"CSK"}) = {}
  BY DEF start_roll_command
<1> DEFINE new == Prepared(set, pick, alg, old)
           entered == Entered(new, r, "Propagation1", 0)
           u == Stepped(s, r, entered)
<1>2. start_roll(AddKeys(set, pick, alg), r, old) = entered
  BY DEF start_roll, Prepared
<1>3. alg \in Algorithms
  BY DEF Configs
<1>4. /\ pick \in [types -> KeyNames]
      /\ \A x \in types : /\ pick[x] \in Pool[x] /\ pick[x] \notin DOMAIN set.keys
                          /\ pick[x] \in Unused(s, x)
  BY DEF new_keys, Unused
<1>5. types \subseteq Rolls(r) /\ types # {} /\ types \in SUBSET KeyTypes
  BY NewTypesIs
<1>6. SetOK(set) /\ DOMAIN s = Fields
  BY DEF Startable
<1>7. DOMAIN set.rolls \subseteq Compatible(r)
  <2>1. AddKeys(set, pick, alg).rolls = set.rolls
    BY <1>6, AddedFields
  <2> QED
    BY <1>1, <2>1 DEF CanStart
<1>8. CanRoll(s, r, pick)
  BY <1>1, <1>4, <1>7 DEF CanRoll
<1>9. SetOK(new)
  <2> HIDE DEF alg, types
  <2>1. MayEnter(s, new, r, "Propagation1")
    BY <1>3, <1>4, <1>5, <1>7, PreparedMayEnter
  <2> QED
    BY <2>1 DEF MayEnter
<1>10. IsPrepared(new, set, types, pick, old)
  <2> HIDE DEF alg, types, old
  <2> QED
    BY <1>3, <1>4, <1>5, <1>6, PreparedFields
<1>11. IsStarted(entered, set, r, types, pick)
  <2> HIDE DEF alg, types, new
  <2> QED
    BY <1>4, <1>5, <1>6, <1>9, <1>10, PreparedIsStarted
<1>12. t = [u EXCEPT !.internal = [x \in DOMAIN s.internal \union {r} |->
                                     IF x = r THEN NoReports ELSE s.internal[x]]]
  BY <1>1, <1>2
<1> HIDE DEF old, alg, types, new, entered
<1> DEFINE acts == actions(r, "Propagation1")
<1>13. acts = actions(r, entered.rolls[r].phase)
  BY <1>11 DEF IsStarted
<1> HIDE DEF acts
<1>14. /\ DOMAIN u = Fields /\ u.keyset = entered
       /\ u.cds_rrset = IF "CreateCdsRrset" \in acts THEN ParentKeys(entered)
                        ELSE IF "RemoveCdsRrset" \in acts THEN {} ELSE s.cds_rrset
  BY <1>6, <1>13, SteppedFields
<1> HIDE DEF u
<1>15. /\ t.keyset = entered /\ t.cds_rrset = u.cds_rrset
       /\ t.internal[r] = NoReports
       /\ \A x \in DOMAIN s.internal \ {r} : t.internal[x] = s.internal[x]
  BY <1>12, <1>14 DEF Fields
<1> QED
  BY <1>8, <1>11, <1>14, <1>15 DEF types, acts

(* Who takes part: the keys of a side that is rolled become the old ones,  *)
(* and those with the new names the new ones.                              *)
LEMMA StartSides ==
  ASSUME NEW s, NEW r \in RollTypes, SetOK(s.keyset), KeysTrusted(s.keyset), NEW pick,
         CanRoll(s, r, pick), NEW e, IsStarted(e, s.keyset, r, NewTypes(r), pick),
         NEW f \in Facets
  PROVE  /\ On(r, f) => /\ NewOf(e, f) # {} /\ NewOf(e, f) \subseteq Names(pick)
                        /\ OldOf(e, f) = NewOf(s.keyset, f)
         /\ ~On(r, f) => NewOf(e, f) = NewOf(s.keyset, f) /\ OldOf(e, f) = OldOf(s.keyset, f)
         /\ \A x \in DOMAIN s.keyset.rolls :
              /\ x \in RollTypes /\ x # r /\ Rolls(x) \intersect Rolls(r) = {}
              /\ r \in Compatible(x) /\ ~(On(r, f) /\ On(x, f))
<1> DEFINE set == s.keyset
           types == NewTypes(r)
<1>1. types \subseteq Rolls(r) /\ types \subseteq KeyTypes
  BY NewTypesIs
<1>2. ASSUME NEW x \in DOMAIN set.rolls
      PROVE  /\ x \in RollTypes /\ x # r /\ Rolls(x) \intersect Rolls(r) = {}
             /\ r \in Compatible(x) /\ ~(On(r, f) /\ On(x, f))
  <2>1. x \in Compatible(r) /\ x \in RollTypes
    BY DEF CanRoll, SetOK, RollsOK
  <2>2. r \in Compatible(x)
    BY <2>1 DEF RollTypes, KskRolls, ZskRolls, Compatible
  <2> QED
    BY <2>1, <2>2, CompatibleRolls, OnOne
<1>3. Names(pick) = {pick[x] : x \in types} /\ \A x \in types : pick[x] \notin DOMAIN set.keys
  BY DEF CanRoll, Names, Unused
<1>4. \A k \in DOMAIN set.keys : set.keys[k].old \in BOOLEAN
  BY DEF SetOK, KeysOK, KeyOK, Key
<1>5. \A k \in DOMAIN set.keys : set.keys[k].type \in SideOf(f) /\ On(r, f) /\ ~stale(set.keys[k])
        => set.keys[k].type \in Rolls(r)
  <2> SUFFICES ASSUME NEW k \in DOMAIN set.keys, set.keys[k].type \in SideOf(f), On(r, f),
                      ~stale(set.keys[k])
               PROVE  set.keys[k].type \in Rolls(r)
    OBVIOUS
  <2>1. r \in KskRolls \union ZskRolls => set.keys[k].type # "CSK"
    BY DEF CanRoll, ActiveKeys
  <2> QED
    BY <2>1 DEF On, Rolls, SideOf, RollTypes, KskRolls, ZskRolls
<1> HIDE DEF types
<1>6. CASE On(r, f)
  <2>1. NewOf(e, f) \subseteq Names(pick)
    <3> SUFFICES ASSUME NEW k \in NewOf(e, f), k \in DOMAIN set.keys PROVE FALSE
      BY <1>3 DEF NewOf, IsStarted, types
    <3>1. set.keys[k].type \in SideOf(f) /\ ~set.keys[k].old /\ set.keys[k].type \notin Rolls(r)
      BY <1>3 DEF NewOf, IsStarted
    <3> QED
      BY <1>5, <1>6, <3>1 DEF stale
  <2>2. NewOf(e, f) # {}
    <3>1. PICK x \in types : x \in SideOf(f)
      BY <1>6 DEF On, types, NewTypes, Rolls, SideOf, Facets, RollTypes, KskRolls, ZskRolls
    <3>2. pick[x] \in NewOf(e, f)
      BY <1>3, <3>1 DEF NewOf, IsStarted, types
    <3> QED
      BY <3>2
  <2>3. ASSUME NEW k \in DOMAIN set.keys, set.keys[k].type \in SideOf(f)
        PROVE  set.keys[k].flags = IF set.keys[k].old THEN {} ELSE Capability[set.keys[k].type]
    <3>1. \A x \in DOMAIN set.rolls : set.keys[k].type \notin Rolls(x)
      BY <1>2, <1>6, <2>3 DEF On
    <3> QED
      BY <3>1 DEF KeysTrusted, FlagsFollow, KeyFollows
  <2>4. ASSUME NEW k \in OldOf(e, f) PROVE k \in NewOf(set, f)
    <3>1. /\ k \in DOMAIN e.keys /\ e.keys[k].type \in SideOf(f)
          /\ e.keys[k].old /\ e.keys[k].flags # {}
      BY DEF OldOf
    <3>2. k \in DOMAIN set.keys
      BY <1>3, <3>1 DEF IsStarted, types
    <3>3. set.keys[k].type \in SideOf(f) /\ set.keys[k].flags # {}
      BY <3>1, <3>2 DEF IsStarted
    <3> QED
      BY <2>3, <3>2, <3>3 DEF NewOf
  <2>5. ASSUME NEW k \in NewOf(set, f) PROVE k \in OldOf(e, f)
    <3>1. k \in DOMAIN set.keys /\ set.keys[k].type \in SideOf(f) /\ ~set.keys[k].old
      BY DEF NewOf
    <3>2. set.keys[k].type \in Rolls(r)
      BY <1>5, <1>6, <3>1 DEF stale
    <3>3. set.keys[k].flags = Capability[set.keys[k].type] /\ Capability[set.keys[k].type] # {}
      BY <2>3, <3>1, FlagsUsed, CapabilityIs
    <3>4. /\ k \in DOMAIN e.keys /\ e.keys[k].type = set.keys[k].type
          /\ e.keys[k].old /\ e.keys[k].flags = set.keys[k].flags
      BY <3>1, <3>2 DEF IsStarted
    <3> QED
      BY <3>1, <3>3, <3>4 DEF OldOf
  <2> QED
    BY <1>2, <1>6, <2>1, <2>2, <2>4, <2>5
<1>7. CASE ~On(r, f)
  <2>1. \A x \in types : x \notin SideOf(f)
    BY <1>1, <1>7 DEF On, types
  <2>2. \A k \in DOMAIN set.keys : set.keys[k].type \in SideOf(f) => set.keys[k].type \notin Rolls(r)
    BY <1>7 DEF On
  <2>3. \A k \in DOMAIN e.keys : e.keys[k].type \in SideOf(f) => k \in DOMAIN set.keys
    BY <1>3, <2>1 DEF IsStarted, types
  <2>4. DOMAIN set.keys \subseteq DOMAIN e.keys
    BY DEF IsStarted
  <2>5. \A k \in DOMAIN set.keys : set.keys[k].type \in SideOf(f) =>
          (/\ e.keys[k].type = set.keys[k].type /\ e.keys[k].flags = set.keys[k].flags
           /\ e.keys[k].old <=> set.keys[k].old)
    BY <2>2 DEF IsStarted
  <2>6. \A k \in DOMAIN set.keys : e.keys[k].type = set.keys[k].type
    BY DEF IsStarted
  <2>7. NewOf(e, f) = NewOf(set, f)
    BY <2>3, <2>4, <2>5, <2>6 DEF NewOf
  <2>8. OldOf(e, f) = OldOf(set, f)
    BY <2>3, <2>4, <2>5, <2>6 DEF OldOf
  <2> QED
    BY <1>2, <1>7, <2>7, <2>8
<1> QED
  BY <1>6, <1>7

LEMMA StartFollows ==
  ASSUME NEW s, NEW r \in RollTypes, SetOK(s.keyset), KeysTrusted(s.keyset), NEW pick,
         CanRoll(s, r, pick), NEW e, IsStarted(e, s.keyset, r, NewTypes(r), pick)
  PROVE  FlagsFollow(e)
<1> DEFINE set == s.keyset
           types == NewTypes(r)
<1>1. types \subseteq Rolls(r)
  BY NewTypesIs
<1>2. \A x \in DOMAIN set.rolls : x # r /\ Rolls(x) \intersect Rolls(r) = {}
  BY StartSides DEF Facets
<1>3. /\ DOMAIN e.rolls = DOMAIN set.rolls \union {r}
      /\ e.rolls[r].phase = "Propagation1"
      /\ \A x \in DOMAIN set.rolls : e.rolls[x] = set.rolls[x]
  BY <1>2 DEF IsStarted
<1>4. Given(r, "Propagation1") = Plan[r]["Propagation1"].give /\ Taken(r, "Propagation1") = {}
  BY PlanEnded DEF Given, Passed, Early, PlanEnds
<1>5. ASSUME NEW k \in DOMAIN set.keys PROVE KeyFollows(e.keys[k], e.rolls)
  <2>1. KeyFollows(set.keys[k], set.rolls)
    BY DEF KeysTrusted, FlagsFollow
  <2>2. /\ e.keys[k].type = set.keys[k].type /\ e.keys[k].flags = set.keys[k].flags
        /\ e.keys[k].old <=> (set.keys[k].old \/ set.keys[k].type \in Rolls(r))
    BY DEF IsStarted
  <2>3. CASE set.keys[k].type \in Rolls(r)
    <3>1. \A x \in DOMAIN set.rolls : set.keys[k].type \notin Rolls(x)
      BY <1>2, <2>3
    <3>2. set.keys[k].flags = IF set.keys[k].old THEN {} ELSE Capability[set.keys[k].type]
      BY <2>1, <3>1 DEF KeyFollows
    <3>3. e.keys[k].old
      BY <2>2, <2>3
    <3>4. e.keys[k].flags \in {{}, Capability[e.keys[k].type] \ Taken(r, "Propagation1")}
      BY <1>4, <2>2, <3>2
    <3> QED
      BY <1>3, <2>2, <2>3, <3>1, <3>3, <3>4 DEF KeyFollows
  <2>4. CASE set.keys[k].type \notin Rolls(r)
    BY <1>3, <2>1, <2>2, <2>4 DEF KeyFollows
  <2> QED
    BY <2>3, <2>4
<1>6. ASSUME NEW x \in types PROVE KeyFollows(e.keys[pick[x]], e.rolls)
  <2>1. /\ e.keys[pick[x]].type = x /\ ~e.keys[pick[x]].old
        /\ e.keys[pick[x]].flags = Given(r, "Propagation1") \intersect Capability[x]
    BY <1>4 DEF IsStarted
  <2>2. \A y \in DOMAIN set.rolls : x \notin Rolls(y)
    BY <1>1, <1>2
  <2>3. x \in Rolls(r)
    BY <1>1
  <2> HIDE DEF types
  <2> QED
    BY <1>3, <2>1, <2>2, <2>3 DEF KeyFollows
<1>7. DOMAIN e.keys = DOMAIN set.keys \union {pick[x] : x \in types}
  BY DEF IsStarted, Names, CanRoll
<1> QED
  BY <1>5, <1>6, <1>7 DEF FlagsFollow

FromNothing(set, r) == r = "AlgorithmRoll" /\ \A f \in Facets : NewOf(set, f) = {}

LEMMA StartKeys ==
  ASSUME NEW s, NEW r \in RollTypes, SetOK(s.keyset), KeysTrusted(s.keyset), NEW pick,
         CanRoll(s, r, pick), NEW e, IsStarted(e, s.keyset, r, NewTypes(r), pick),
         Manned(s.keyset) \/ FromNothing(s.keyset, r)
  PROVE  KeysTrusted(e)
<1> DEFINE set == s.keyset
<1>1. FlagsFollow(e)
  BY StartFollows
<1>2. \A x \in DOMAIN set.rolls : x # r /\ r \in Compatible(x)
  BY StartSides DEF Facets
<1>3. /\ DOMAIN e.rolls = DOMAIN set.rolls \union {r}
      /\ e.rolls[r].phase = "Propagation1"
      /\ \A x \in DOMAIN set.rolls : e.rolls[x] = set.rolls[x]
  BY <1>2 DEF IsStarted
<1>4. CsksGone(e)
  <2> SUFFICES ASSUME NEW y \in DOMAIN e.rolls, y \in KskRolls \union ZskRolls,
                      NEW k \in DOMAIN e.keys, e.keys[k].type = "CSK"
               PROVE  stale(e.keys[k])
    BY DEF CsksGone
  <2>1. r \in KskRolls \union ZskRolls
    <3>1. y = r \/ r \in Compatible(y)
      BY <1>2, <1>3
    <3> QED
      BY <3>1 DEF Compatible, KskRolls, ZskRolls
  <2>2. k \in DOMAIN set.keys
    BY <2>1 DEF IsStarted, Names, NewTypes, CanRoll, KskRolls, ZskRolls
  <2>3. stale(set.keys[k])
    BY <2>1, <2>2 DEF CanRoll, ActiveKeys, IsStarted
  <2> QED
    BY <2>2, <2>3 DEF stale, IsStarted
<1>5. Paired(e)
  BY <1>2, <1>3 DEF KeysTrusted, Paired, CanRoll
<1>7. ASSUME NEW g \in Facets
      PROVE  On(r, g) => OldOf(e, g) = NewOf(s.keyset, g)
  <2>1. On(r, g) => /\ NewOf(e, g) # {} /\ NewOf(e, g) \subseteq Names(pick)
                    /\ OldOf(e, g) = NewOf(s.keyset, g)
    BY StartSides, SMTT(30)
  <2> QED
    BY <2>1
<1>6. Replaced(e)
  <2> SUFFICES ASSUME NEW x \in DOMAIN e.rolls, NEW f \in Facets, On(x, f),
                      Mode(x, e.rolls[x].phase, f) # "new"
               PROVE  OldOf(e, f) # {} \/ Bare(e, x)
    BY DEF Replaced
  <2>1. CASE x = r
    <3>1. \A g \in Facets : On(r, g) => OldOf(e, g) = NewOf(set, g)
      BY <1>7
    <3>2. r = "AlgorithmRoll" => \A g \in Facets : On(r, g)
      BY DEF On, Rolls, KskRolls, ZskRolls, SideOf, Facets
    <3>3. CASE Manned(set)
      BY <2>1, <3>1, <3>3 DEF Manned
    <3>4. CASE FromNothing(set, r)
      BY <2>1, <3>1, <3>2, <3>4 DEF FromNothing, Bare
    <3> QED
      BY <3>3, <3>4
  <2>2. CASE x # r
    <3>1. x \in DOMAIN set.rolls /\ e.rolls[x] = set.rolls[x]
      BY <1>3, <2>2
    <3>2. ~On(r, f)
      BY <3>1, StartSides
    <3>3. OldOf(e, f) = OldOf(set, f)
      BY <3>2, StartSides
    <3>4. x # "AlgorithmRoll"
      BY <1>2, <3>1 DEF Compatible, KskRolls, ZskRolls
    <3> QED
      BY <3>1, <3>3, <3>4 DEF KeysTrusted, Replaced, Bare
  <2> QED
    BY <2>1, <2>2
<1> QED
  BY <1>1, <1>4, <1>5, <1>6 DEF KeysTrusted

(* What a state is like in which the roll r may start: the algorithm roll  *)
(* of init starts without keys, and then nobody has seen a DS record.      *)
StartsFrom(s, r) ==
  /\ SetOK(s.keyset) /\ KeysTrusted(s.keyset)
  /\ DOMAIN s.internal = DOMAIN s.keyset.rolls
  /\ Manned(s.keyset) \/ FromNothing(s.keyset, r)
  /\ Manned(s.keyset) \/ \A v \in Visible("ds") \union Coming("ds") : v = {}
  /\ ModesHold(s.keyset)
  /\ ChecksHold(s)
  /\ CdsInOrder(s.keyset)
  /\ CdsThere(s)
  /\ r \in KskRolls => "Ksk" \in config.rolled
  /\ r \in ZskRolls => "Zsk" \in config.rolled

LEMMA StartModes ==
  ASSUME NEW s, NEW r \in RollTypes, StartsFrom(s, r), NEW pick,
         CanRoll(s, r, pick), NEW e, IsStarted(e, s.keyset, r, NewTypes(r), pick)
  PROVE  ModesHold(e)
<1> DEFINE set == s.keyset
<1>1. SetOK(set) /\ KeysTrusted(set)
  BY DEF StartsFrom
<1>2. \A x \in DOMAIN set.rolls : x # r
  BY <1>1, StartSides DEF Facets
<1>3. /\ DOMAIN e.rolls = DOMAIN set.rolls \union {r}
      /\ e.rolls[r].phase = "Propagation1"
      /\ \A x \in DOMAIN set.rolls : e.rolls[x] = set.rolls[x]
  BY <1>2 DEF IsStarted
<1>4. ASSUME NEW f \in Facets, \A x \in DOMAIN e.rolls : ~On(x, f)
      PROVE  AllShow("new", e, f)
  <2>1. NewOf(e, f) = NewOf(set, f)
    BY <1>1, <1>3, <1>4, StartSides
  <2>2. AllShow("new", set, f)
    BY <1>3, <1>4 DEF StartsFrom, ModesHold
  <2> QED
    BY <2>1, <2>2, SameShown
<1>5. ASSUME NEW f \in Facets, On(r, f) PROVE AllShow("old", e, f)
  <2>1. \A x \in DOMAIN set.rolls : ~On(x, f)
    BY <1>1, <1>5, StartSides
  <2>2. AllShow("new", set, f)
    BY <2>1 DEF StartsFrom, ModesHold
  <2>3. OldOf(e, f) = NewOf(set, f)
    BY <1>1, <1>5, StartSides
  <2>4. ASSUME NEW v \in Visible(KindOf[f]) \union Coming(KindOf[f])
        PROVE  ShowsOld(e, f, v)
    <3>1. NewOf(set, f) \subseteq Shown(f, v)
      BY <2>2 DEF AllShow, Shows, ShowsNew
    <3>2. f = "ds" /\ OldOf(e, f) = {} => v = {}
      BY <2>3, <2>4 DEF StartsFrom, Manned, KindOf
    <3> QED
      BY <2>3, <3>1, <3>2 DEF ShowsOld
  <2> QED
    BY <2>4 DEF AllShow, Shows
<1>6. ASSUME NEW f \in Facets, NEW x \in DOMAIN e.rolls, On(x, f)
      PROVE  AllShow(Mode(x, e.rolls[x].phase, f), e, f)
  <2>1. CASE x = r
    <3>1. Mode(x, e.rolls[x].phase, f) = "old"
      BY <1>3, <2>1 DEF Mode, Early
    <3> QED
      BY <1>5, <1>6, <2>1, <3>1
  <2>2. CASE x # r
    <3>1. x \in DOMAIN set.rolls /\ e.rolls[x] = set.rolls[x]
      BY <1>3, <2>2
    <3>2. ~On(r, f)
      BY <1>1, <1>6, <3>1, StartSides
    <3>3. NewOf(e, f) = NewOf(set, f) /\ OldOf(e, f) = OldOf(set, f)
      BY <1>1, <3>2, StartSides
    <3>4. AllShow(Mode(x, set.rolls[x].phase, f), set, f)
      BY <1>6, <3>1 DEF StartsFrom, ModesHold
    <3> QED
      BY <3>1, <3>3, <3>4, SameShown
  <2> QED
    BY <2>1, <2>2
<1> QED
  BY <1>4, <1>6 DEF ModesHold

LEMMA StartTrusted ==
  ASSUME NEW s, NEW r \in RollTypes, Startable(s, r), config \in Configs, StartsFrom(s, r),
         NEW t \in start_roll_command(s, r)
  PROVE  Trusted(t)
<1> DEFINE set == s.keyset
           e == t.keyset
<1>1. PICK pick :
        /\ CanRoll(s, r, pick)
        /\ IsStarted(e, set, r, NewTypes(r), pick)
        /\ \A x \in DOMAIN s.internal \ {r} : t.internal[x] = s.internal[x]
        /\ t.internal[r] = NoReports
        /\ t.cds_rrset = IF "CreateCdsRrset" \in actions(r, "Propagation1")
                         THEN ParentKeys(e)
                         ELSE IF "RemoveCdsRrset" \in actions(r, "Propagation1") THEN {}
                         ELSE s.cds_rrset
  BY StartIs
<1>2. SetOK(set) /\ KeysTrusted(set) /\ DOMAIN s.internal = DOMAIN set.rolls
  BY DEF StartsFrom
<1>3. \A x \in DOMAIN set.rolls : x # r /\ r \in Compatible(x)
  BY <1>1, <1>2, StartSides DEF Facets
<1>4. /\ DOMAIN e.rolls = DOMAIN set.rolls \union {r}
      /\ e.rolls[r].phase = "Propagation1"
      /\ \A x \in DOMAIN set.rolls : e.rolls[x] = set.rolls[x]
  BY <1>1, <1>3 DEF IsStarted
<1>5. KeysTrusted(e)
  BY <1>1, <1>2, StartKeys DEF StartsFrom
<1>6. ModesHold(e)
  BY <1>1, StartModes
<1>7. Manned(e)
  <2> SUFFICES ASSUME NEW f \in Facets PROVE NewOf(e, f) # {}
    BY DEF Manned
  <2>1. CASE On(r, f)
    BY <1>1, <1>2, <2>1, StartSides
  <2>2. CASE ~On(r, f)
    <3>1. NewOf(e, f) = NewOf(set, f)
      BY <1>1, <1>2, <2>2, StartSides
    <3>2. r # "AlgorithmRoll"
      BY <2>2 DEF On, Rolls, SideOf, KskRolls, ZskRolls
    <3> QED
      BY <3>1, <3>2 DEF StartsFrom, FromNothing, Manned
  <2> QED
    BY <2>1, <2>2
<1>8. ASSUME NEW x \in DOMAIN e.rolls, x # r, NEW f \in Facets, On(x, f)
      PROVE  x \in DOMAIN set.rolls /\ e.rolls[x] = set.rolls[x] /\ NewOf(e, f) = NewOf(set, f)
  <2>1. x \in DOMAIN set.rolls /\ e.rolls[x] = set.rolls[x]
    BY <1>4, <1>8
  <2>2. ~On(r, f)
    BY <1>1, <1>2, <1>8, <2>1, StartSides
  <2>3. NewOf(e, f) = NewOf(set, f)
    BY <1>1, <1>2, <2>2, StartSides
  <2> QED
    BY <2>1, <2>3
<1>9. ChecksHold(t)
  <2> SUFFICES ASSUME NEW x \in DOMAIN e.rolls, NEW f \in Facets, On(x, f),
                      Settled(t, x, KindOf[f])
               PROVE  Sure(e, f, Limit(e.rolls[x]))
    BY DEF ChecksHold
  <2>1. CASE x = r
    BY <1>1, <1>4, <2>1 DEF Settled, NoReports, Propagation
  <2>2. CASE x # r
    <3>1. x \in DOMAIN set.rolls /\ e.rolls[x] = set.rolls[x] /\ NewOf(e, f) = NewOf(set, f)
      BY <1>8, <2>2
    <3>2. t.internal[x] = s.internal[x]
      BY <1>1, <1>2, <2>2, <3>1
    <3>3. Settled(s, x, KindOf[f])
      BY <3>1, <3>2 DEF Settled
    <3>4. Sure(set, f, Limit(set.rolls[x]))
      BY <3>1, <3>3 DEF StartsFrom, ChecksHold
    <3> QED
      BY <3>1, <3>4, SameShown
  <2> QED
    BY <2>1, <2>2
<1>10. CdsInOrder(e)
  <2> SUFFICES ASSUME config.channel = "cds", NEW x \in DOMAIN e.rolls, On(x, "ds"),
                      e.rolls[x].phase # "Done"
               PROVE  /\ Unseen(e) \/ zone_cds = {} \/ NewOf(e, "ds") \subseteq zone_cds
                      /\ "at_parent" \notin Given(x, e.rolls[x].phase) => Unseen(e)
    BY DEF CdsInOrder
  <2>1. "ds" \in Facets
    BY DEF Facets
  <2>2. CASE x = r
    <3>1. NewOf(e, "ds") \subseteq Names(pick)
      BY <1>1, <1>2, <2>1, <2>2, StartSides
    <3>2. \A k \in Names(pick) : k \notin zone_cds /\ \A v \in Visible("ds") : k \notin v
      BY <1>1 DEF Names, CanRoll, Unused
    <3>3. Unseen(e)
      BY <3>1, <3>2 DEF Unseen
    <3> QED
      BY <3>3
  <2>3. CASE x # r
    <3>1. x \in DOMAIN set.rolls /\ e.rolls[x] = set.rolls[x]
          /\ NewOf(e, "ds") = NewOf(set, "ds")
      BY <1>8, <2>1, <2>3
    <3>2. Unseen(e) <=> Unseen(set)
      BY <3>1 DEF Unseen
    <3> QED
      BY <3>1, <3>2 DEF StartsFrom, CdsInOrder
  <2> QED
    BY <2>2, <2>3
<1>11. CdsThere(t)
  <2>1. ASSUME NEW x \in DOMAIN e.rolls
        PROVE  /\ x \in KskRolls => "Ksk" \in config.rolled
               /\ x \in ZskRolls => "Zsk" \in config.rolled
    BY <1>4 DEF StartsFrom, CdsThere
  <2>2. ASSUME NEW x \in DOMAIN e.rolls, "ds" \in Needed(x, e.rolls[x].phase)
        PROVE  \/ t.cds_rrset = ParentKeys(e)
               \/ x \in KskRolls /\ {"Ksk", "Zsk"} \subseteq config.rolled
    <3>1. CASE x = r
      <4>1. "ds" \in Needed(r, "Propagation1") /\ "Propagation1" \in Changing
        BY <1>4, <2>2, <3>1 DEF Changing
      <4>2. "CreateCdsRrset" \in Plan[r]["Propagation1"].actions
        BY <4>1, PlanEnded DEF PlanEnds
      <4>3. "CreateCdsRrset" \in actions(r, "Propagation1")
        BY <4>2 DEF actions, CacheExpire
      <4> QED
        BY <1>1, <4>3
    <3>2. CASE x # r
      <4>1. r \in DOMAIN e.rolls /\ x \in DOMAIN set.rolls /\ e.rolls[x] = set.rolls[x]
        BY <1>4, <3>2
      <4>2. r \in Compatible(x) /\ e.rolls[x].phase \in Phases
        BY <1>2, <1>3, <4>1 DEF SetOK, RollsOK, RollState
      <4>3. x \in KskRolls /\ {"Ksk", "Zsk"} \subseteq config.rolled
        <5> HIDE DEF e
        <5> QED
          BY <2>1, <2>2, <3>2, <4>1, <4>2, CdsOfOther
      <4> QED
        BY <4>3
    <3> QED
      BY <3>1, <3>2
  <2> QED
    BY <2>1, <2>2 DEF CdsThere
<1> QED
  BY <1>5, <1>6, <1>7, <1>9, <1>10, <1>11 DEF Trusted

(* Cron only starts a roll of keys with a validity. *)
RolledWhenAged(aged) ==
  ("KSK" \in aged => "Ksk" \in config.rolled) /\ ("ZSK" \in aged => "Zsk" \in config.rolled)

LEMMA KeptStarts ==
  ASSUME NEW s, NEW gone, Kept(s, gone), NEW r \in RollTypes, config \in Configs,
         r \in KskRolls => "Ksk" \in config.rolled, r \in ZskRolls => "Zsk" \in config.rolled
  PROVE  \A t \in start_roll_command(s, r) : Kept(t, gone)
<1> SUFFICES ASSUME NEW t \in start_roll_command(s, r) PROVE Kept(t, gone)
  OBVIOUS
<1>1. Fine(s, gone) /\ Trusted(s)
  BY DEF Kept
<1>2. Startable(s, r)
  BY <1>1, FineStartable
<1>3. Fine(t, gone)
  BY <1>1, <1>2, StartFine DEF Fine
<1>4. StartsFrom(s, r)
  BY <1>1 DEF Fine, Sound, Reports, Trusted, StartsFrom
<1>5. Trusted(t)
  BY <1>2, <1>4, StartTrusted
<1> QED
  BY <1>3, <1>5 DEF Kept

LEMMA AutoStartKept ==
  ASSUME NEW S, NEW gone, \A s \in S : Kept(s, gone), config \in Configs,
         NEW aged, NEW type, NEW auto, NEW allowed, NEW r \in RollTypes,
         type \in aged => /\ r \in KskRolls => "Ksk" \in config.rolled
                          /\ r \in ZskRolls => "Zsk" \in config.rolled
  PROVE  \A t \in auto_start(S, aged, type, auto, allowed, r) : Kept(t, gone)
<1> SUFFICES ASSUME NEW t \in auto_start(S, aged, type, auto, allowed, r)
             PROVE  Kept(t, gone)
  OBVIOUS
<1>1. PICK s \in S : (type \in aged /\ t \in start_roll_command(s, r)) \/ t = s
  BY DEF auto_start
<1>2. Kept(s, gone)
  OBVIOUS
<1>3. type \in aged => \A x \in start_roll_command(s, r) : Kept(x, gone)
  BY <1>2, KeptStarts
<1> QED
  BY <1>1, <1>2, <1>3

LEMMA StartsKept ==
  ASSUME NEW s, NEW gone, Kept(s, gone), config \in Configs, NEW aged, RolledWhenAged(aged)
  PROVE  \A t \in AutoStarts(s, aged) : Kept(t, gone)
<1> DEFINE needAlg == algorithm_roll_needed(s)
           auto == IF needAlg THEN Automatic["Algorithm"] ELSE Automatic["Csk"]
           roll == IF needAlg THEN "AlgorithmRoll" ELSE "CskRoll"
           whole == config.use_csk \/ needAlg
           ksk == IF whole THEN auto_start({s}, aged, "KSK", auto, {}, roll)
                  ELSE auto_start({s}, aged, "KSK", Automatic["Ksk"], ZskRolls,
                                  config.ksk_roll_type)
           zsk == IF whole THEN auto_start(ksk, aged, "ZSK", auto, {}, roll)
                  ELSE auto_start(ksk, aged, "ZSK", Automatic["Zsk"], KskRolls,
                                  config.zsk_roll_type)
           csk == auto_start(zsk, aged, "CSK", auto, {}, roll)
<1>1. AutoStarts(s, aged) = csk
  BY DEF AutoStarts
<1>2. roll \in RollTypes /\ roll \notin KskRolls \union ZskRolls
  BY DEF RollTypes, KskRolls, ZskRolls
<1>3. /\ config.ksk_roll_type \in KskRolls /\ config.zsk_roll_type \in ZskRolls
      /\ config.ksk_roll_type \in RollTypes /\ config.zsk_roll_type \in RollTypes
      /\ config.ksk_roll_type \notin ZskRolls /\ config.zsk_roll_type \notin KskRolls
  BY KeysetAssumption DEF Configs, RollTypes, KskRolls, ZskRolls
<1> HIDE DEF needAlg, auto, roll, whole
<1>4. \A t \in {s} : Kept(t, gone)
  OBVIOUS
<1>5. \A t \in ksk : Kept(t, gone)
  <2>1. CASE whole
    BY <1>2, <1>4, <2>1, AutoStartKept
  <2>2. CASE ~whole
    BY <1>3, <1>4, <2>2, AutoStartKept DEF RolledWhenAged
  <2> QED
    BY <2>1, <2>2
<1> HIDE DEF ksk
<1>6. \A t \in zsk : Kept(t, gone)
  <2>1. CASE whole
    BY <1>2, <1>5, <2>1, AutoStartKept
  <2>2. CASE ~whole
    BY <1>3, <1>5, <2>2, AutoStartKept DEF RolledWhenAged
  <2> QED
    BY <2>1, <2>2
<1> HIDE DEF zsk
<1>7. \A t \in csk : Kept(t, gone)
  BY <1>2, <1>6, AutoStartKept
<1> QED
  BY <1>1, <1>7

-----------------------------------------------------------------------------
(* Before init only the zone as it was has been seen.                      *)

PristineDns(s) ==
  /\ zone_cds = {}
  /\ \A kind \in Kinds : served[kind] = {latest[kind]} /\ DOMAIN cached[kind] = {}
  /\ latest["dnskey"].keys = Imported /\ latest["dnskey"].sigs = Of({"KSK", "CSK"})
  /\ latest["ds"] = Of({"KSK", "CSK"}) /\ latest["rrsig"] = Of({"ZSK", "CSK"})
  /\ \A k \in DOMAIN s.keyset.keys :
       /\ s.keyset.keys[k].type = TypeOfName(k)
       /\ s.keyset.keys[k].type # "Include" => k \in Imported

LEMMA PristineKeys ==
  ASSUME NEW s, Pristine(s), PristineDns(s)
  PROVE  /\ KeysTrusted(s.keyset) /\ ModesHold(s.keyset)
         /\ ChecksHold(s) /\ CdsInOrder(s.keyset) /\ CdsThere(s)
<1> DEFINE set == s.keyset
<1>1. DOMAIN set.rolls = {}
  BY DEF Pristine
<1>2. KeysTrusted(set)
  BY <1>1 DEF Pristine, KeysTrusted, FlagsFollow, KeyFollows, CsksGone, Paired, Replaced
<1>3. ModesHold(set)
  <2> SUFFICES ASSUME NEW f \in Facets,
                      NEW v \in Visible(KindOf[f]) \union Coming(KindOf[f])
               PROVE  ShowsNew(set, f, v)
    BY <1>1 DEF ModesHold, AllShow, Shows
  <2>1. Coming(KindOf[f]) = {}
    BY DEF PristineDns, Coming
  <2>2. v = latest[KindOf[f]]
    <3>1. KindOf[f] \in Kinds
      BY DEF Facets, KindOf, Kinds
    <3> QED
      BY <2>1, <3>1 DEF PristineDns, Visible
  <2>3. ASSUME NEW k \in NewOf(set, f)
        PROVE  k \in Of(SideOf(f)) /\ k \in Imported
    <3>1. k \in DOMAIN set.keys /\ set.keys[k].type \in SideOf(f)
      BY DEF NewOf
    <3>2. set.keys[k].type # "Include"
      BY <3>1 DEF SideOf
    <3> QED
      BY <3>1, <3>2 DEF PristineDns, Of
  <2>4. Of(SideOf(f)) \intersect Imported \subseteq Shown(f, v)
    BY <2>2 DEF PristineDns, Shown, SideOf, KindOf, Facets
  <2> QED
    BY <2>3, <2>4 DEF ShowsNew
<1>4. ChecksHold(s) /\ CdsInOrder(set) /\ CdsThere(s)
  BY <1>1 DEF ChecksHold, CdsInOrder, CdsThere
<1> QED
  BY <1>2, <1>3, <1>4

-----------------------------------------------------------------------------
(* The signer, the parent, the servers and the clock.                      *)

(* Only the clock changes the state file, and only the waits in it. *)
Alike(t, s) ==
  /\ t.keyset.keys = s.keyset.keys
  /\ DOMAIN t.keyset.rolls = DOMAIN s.keyset.rolls
  /\ \A r \in DOMAIN s.keyset.rolls : t.keyset.rolls[r].phase = s.keyset.rolls[r].phase
  /\ t.internal = s.internal /\ t.cds_rrset = s.cds_rrset

LEMMA AlikeKeys ==
  ASSUME NEW s, NEW t, Alike(t, s)
  PROVE  /\ KeysTrusted(s.keyset) => KeysTrusted(t.keyset)
         /\ Manned(s.keyset) => Manned(t.keyset)
         /\ \A f : NewOf(t.keyset, f) = NewOf(s.keyset, f) /\ OldOf(t.keyset, f) = OldOf(s.keyset, f)
         /\ \A r \in DOMAIN s.keyset.rolls : \A kind :
              Settled(t, r, kind) <=> Settled(s, r, kind)
         /\ ParentKeys(t.keyset) = ParentKeys(s.keyset)
<1>1. \A f : NewOf(t.keyset, f) = NewOf(s.keyset, f) /\ OldOf(t.keyset, f) = OldOf(s.keyset, f)
  BY DEF Alike, NewOf, OldOf
<1>2. ASSUME KeysTrusted(s.keyset) PROVE KeysTrusted(t.keyset)
  <2>1. FlagsFollow(t.keyset)
    BY <1>2 DEF Alike, KeysTrusted, FlagsFollow, KeyFollows
  <2>2. CsksGone(t.keyset) /\ Paired(t.keyset)
    BY <1>2 DEF Alike, KeysTrusted, CsksGone, Paired
  <2>3. Replaced(t.keyset)
    BY <1>1, <1>2 DEF Alike, KeysTrusted, Replaced, Bare
  <2> QED
    BY <2>1, <2>2, <2>3 DEF KeysTrusted
<1>3. \A r \in DOMAIN s.keyset.rolls : \A kind : Settled(t, r, kind) <=> Settled(s, r, kind)
  BY DEF Alike, Settled
<1>4. ParentKeys(t.keyset) = ParentKeys(s.keyset)
  BY DEF Alike, ParentKeys, With
<1> QED
  BY <1>1, <1>2, <1>3, <1>4 DEF Manned

(* No version is seen but those that were, and those of now. *)
SeenOrNow(s, f, v) ==
  v \in Visible(KindOf[f]) \union Coming(KindOf[f]) \/ v = NowOf(s.keyset, f)

LEMMA SeenShows ==
  ASSUME NEW s, NEW gone, Fine(s, gone), Trusted(s), NEW f \in Facets, NEW v,
         SeenOrNow(s, f, v)
  PROVE  /\ (\A r \in DOMAIN s.keyset.rolls : ~On(r, f)) => ShowsNew(s.keyset, f, v)
         /\ \A r \in DOMAIN s.keyset.rolls :
              On(r, f) => Shows(Mode(r, s.keyset.rolls[r].phase, f), s.keyset, f, v)
<1>1. SetOK(s.keyset) /\ KeysTrusted(s.keyset) /\ ModesHold(s.keyset)
  BY DEF Fine, Sound, Trusted
<1>2. CASE v = NowOf(s.keyset, f)
  BY <1>1, <1>2, NowGood
<1>3. CASE v \in Visible(KindOf[f]) \union Coming(KindOf[f])
  BY <1>1, <1>3 DEF ModesHold, AllShow, Shows
<1> QED
  BY <1>2, <1>3 DEF SeenOrNow

(* Who is asked about has to show the new keys when it is up to date. *)
LEMMA SettledShows ==
  ASSUME NEW s, NEW gone, Fine(s, gone), Trusted(s), NEW r \in DOMAIN s.keyset.rolls,
         NEW f \in Facets, On(r, f), Settled(s, r, KindOf[f])
  PROVE  ShowsNew(s.keyset, f, NowOf(s.keyset, f))
<1>1. SetOK(s.keyset) /\ KeysTrusted(s.keyset)
  BY DEF Fine, Sound, Trusted
<1>2. Relied(r, s.keyset.rolls[r].phase, f)
  BY DEF Settled, Relied, CheckedFirst, Early, Propagation
<1> QED
  BY <1>1, <1>2, NowGood

LEMMA AlikeTrusted ==
  ASSUME NEW s, NEW gone, Fine(s, gone), Trusted(s), NEW t, Alike(t, s), config' = config,
         \A f \in Facets : \A v \in (Visible(KindOf[f]) \union Coming(KindOf[f]))' :
           SeenOrNow(s, f, v),
         \A r \in DOMAIN s.keyset.rolls : \A f \in Facets :
           On(r, f) /\ Settled(s, r, KindOf[f])
             => Sure(s.keyset, f, Limit(t.keyset.rolls[r]))',
         CdsInOrder(s.keyset)'
  PROVE  Trusted(t)'
<1> DEFINE set == s.keyset
           new == t.keyset
<1>1. KeysTrusted(new) /\ Manned(new)
  BY AlikeKeys DEF Trusted
<1>2. /\ \A f : NewOf(new, f) = NewOf(set, f) /\ OldOf(new, f) = OldOf(set, f)
      /\ \A r \in DOMAIN set.rolls : \A kind : Settled(t, r, kind) <=> Settled(s, r, kind)
      /\ ParentKeys(new) = ParentKeys(set)
  BY AlikeKeys
<1>3. /\ DOMAIN new.rolls = DOMAIN set.rolls
      /\ \A r \in DOMAIN set.rolls : new.rolls[r].phase = set.rolls[r].phase
  BY DEF Alike
<1>4. \A f, v, mode : /\ ShowsNew(new, f, v) <=> ShowsNew(set, f, v)
                      /\ Shows(mode, new, f, v) <=> Shows(mode, set, f, v)
  BY <1>2 DEF Shows, ShowsOld, ShowsNew
<1>5. ModesHold(new)'
  <2>1. ASSUME NEW f \in Facets, NEW v \in (Visible(KindOf[f]) \union Coming(KindOf[f]))'
        PROVE  /\ (\A r \in DOMAIN new.rolls : ~On(r, f)) => ShowsNew(new, f, v)
               /\ \A r \in DOMAIN new.rolls :
                    On(r, f) => Shows(Mode(r, new.rolls[r].phase, f), new, f, v)
    <3>1. SeenOrNow(s, f, v)
      OBVIOUS
    <3>2. /\ (\A r \in DOMAIN set.rolls : ~On(r, f)) => ShowsNew(set, f, v)
          /\ \A r \in DOMAIN set.rolls :
               On(r, f) => Shows(Mode(r, set.rolls[r].phase, f), set, f, v)
      BY <3>1, SeenShows
    <3> QED
      BY <1>3, <1>4, <3>2
  <2>2. \A f, v : Shows("new", new, f, v) <=> ShowsNew(new, f, v)
    BY DEF Shows
  <2> QED
    BY <2>1, <2>2 DEF ModesHold, AllShow
<1>6. ChecksHold(t)'
  <2>1. \A f, limit : Sure(set, f, limit)' => Sure(new, f, limit)'
    BY <1>4 DEF Sure
  <2> QED
    BY <1>2, <1>3, <2>1 DEF ChecksHold
<1>7. CdsInOrder(new)'
  BY <1>2, <1>3 DEF CdsInOrder, Unseen
<1>8. CdsThere(t)'
  BY <1>2, <1>3 DEF Trusted, CdsThere, Alike
<1> QED
  BY <1>1, <1>5, <1>6, <1>7, <1>8 DEF Trusted

(* A new version is that of now, or one that is on its way. *)
ComingOrNow(s, f, v) ==
  v \in served[KindOf[f]] \union Coming(KindOf[f]) \/ v = NowOf(s.keyset, f)

LEMMA Published ==
  ASSUME DnsOK, NEW versions, DOMAIN versions = Kinds, Publish(versions)
  PROVE  /\ DnsOK'
         /\ \A kind \in Kinds :
              /\ served'[kind] = served[kind] \union {versions[kind]}
              /\ DOMAIN cached'[kind] \subseteq DOMAIN cached[kind]
              /\ \A v \in DOMAIN cached'[kind] : cached'[kind][v] = cached[kind][v]
<1>1. /\ latest' = versions /\ DOMAIN served' = Kinds /\ DOMAIN cached' = Kinds
      /\ \A kind \in Kinds :
           /\ served'[kind] = served[kind] \union {versions[kind]}
           /\ cached'[kind] = [v \in DOMAIN cached[kind] \ {versions[kind]} |-> cached[kind][v]]
  BY DEF Publish
<1>2. \A kind \in Kinds :
        /\ DOMAIN cached'[kind] \subseteq DOMAIN cached[kind]
        /\ \A v \in DOMAIN cached'[kind] : cached'[kind][v] = cached[kind][v]
  BY <1>1
<1>3. DnsOK'
  BY <1>1, <1>2 DEF DnsOK
<1> QED
  BY <1>1, <1>2, <1>3

LEMMA PublishTrusted ==
  ASSUME NEW s, NEW gone, Fine(s, gone), Trusted(s), DnsOK,
         NEW versions, DOMAIN versions = Kinds, Publish(versions), config' = config,
         \A f \in Facets : ComingOrNow(s, f, versions[KindOf[f]]),
         \A f \in Facets : \A v \in Coming(KindOf[f])' : ComingOrNow(s, f, v),
         CdsInOrder(s.keyset)'
  PROVE  Trusted(s)' /\ DnsOK'
<1> DEFINE set == s.keyset
<1>1. \A kind \in Kinds :
        /\ served'[kind] = served[kind] \union {versions[kind]}
        /\ DOMAIN cached'[kind] \subseteq DOMAIN cached[kind]
        /\ \A v \in DOMAIN cached'[kind] : cached'[kind][v] = cached[kind][v]
  BY Published
<1>2. \A f \in Facets : KindOf[f] \in Kinds
  BY DEF Facets, KindOf, Kinds
<1>3. ASSUME NEW f \in Facets, NEW v \in served'[KindOf[f]] \union Coming(KindOf[f])'
      PROVE  ComingOrNow(s, f, v)
  BY <1>1, <1>2 DEF ComingOrNow
<1>4. ASSUME NEW f \in Facets, NEW v \in (Visible(KindOf[f]) \union Coming(KindOf[f]))'
      PROVE  SeenOrNow(s, f, v)
  <2>1. CASE v \in served'[KindOf[f]] \union Coming(KindOf[f])'
    <3>1. ComingOrNow(s, f, v)
      BY <1>3, <2>1
    <3> QED
      BY <3>1 DEF ComingOrNow, SeenOrNow, Visible
  <2>2. CASE v \in DOMAIN cached'[KindOf[f]]
    BY <1>1, <1>2, <2>2 DEF SeenOrNow, Visible
  <2> QED
    BY <2>1, <2>2 DEF Visible
<1>5. ASSUME NEW r \in DOMAIN set.rolls, NEW f \in Facets, On(r, f), Settled(s, r, KindOf[f])
      PROVE  Sure(set, f, Limit(set.rolls[r]))'
  <2>1. Sure(set, f, Limit(set.rolls[r]))
    BY <1>5 DEF Trusted, ChecksHold
  <2>2. ShowsNew(set, f, NowOf(set, f))
    BY <1>5, SettledShows
  <2>3. \A v \in served'[KindOf[f]] \union Coming(KindOf[f])' : ShowsNew(set, f, v)
    BY <1>3, <2>1, <2>2 DEF ComingOrNow, Sure
  <2>4. \A v \in DOMAIN cached'[KindOf[f]] :
          ShowsNew(set, f, v) \/ cached'[KindOf[f]][v] <= Limit(set.rolls[r])
    BY <1>1, <1>2, <2>1 DEF Sure
  <2> QED
    BY <2>3, <2>4 DEF Sure
<1>6. Alike(s, s)
  BY DEF Alike
<1>7. Trusted(s)'
  BY <1>4, <1>5, <1>6, AlikeTrusted
<1>8. DnsOK'
  BY Published
<1> QED
  BY <1>7, <1>8

LEMMA SignZoneTrusted ==
  ASSUME NEW s, s = kss, Fine(s, {}), Trusted(s), DnsOK, SignZone
  PROVE  Trusted(s)' /\ DnsOK'
<1> DEFINE set == s.keyset
           versions == [latest EXCEPT !["dnskey"] = s.dnskey_rrset,
                                      !["rrsig"] = With(s.keyset, "zone_signer")]
<1>1. Publish(versions) /\ zone_cds' = s.cds_rrset /\ config' = config
  BY DEF SignZone, Signed
<1>2. /\ DOMAIN versions = Kinds /\ versions["dnskey"] = DnskeyRrset(set)
      /\ versions["rrsig"] = With(set, "zone_signer") /\ versions["ds"] = latest["ds"]
  BY DEF DnsOK, Kinds, Fine, Sound, DnskeyFollows
<1> HIDE DEF versions
<1>3. s.cds_rrset \in {{}, ParentKeys(set)} /\ SetOK(set) /\ KeysTrusted(set)
  BY DEF Fine, Sound, DsFollows, Trusted
<1>4. \A f \in Facets : ComingOrNow(s, f, versions[KindOf[f]])
  BY <1>2 DEF ComingOrNow, NowOf, KindOf, Facets, DnsOK, Kinds
<1>5. \A f \in Facets : \A v \in Coming(KindOf[f])' : ComingOrNow(s, f, v)
  BY <1>1, <1>3 DEF Coming, ComingOrNow, NowOf, KindOf, Facets
<1>6. Visible("ds")' \subseteq Visible("ds")
  <2>1. /\ served'["ds"] = served["ds"] \union {versions["ds"]}
        /\ DOMAIN cached'["ds"] \subseteq DOMAIN cached["ds"]
    BY <1>1, <1>2, Published DEF Kinds
  <2> QED
    BY <1>2, <2>1 DEF Visible, DnsOK, Kinds
<1>7. CdsInOrder(set)'
  <2> SUFFICES ASSUME config.channel = "cds", NEW r \in DOMAIN set.rolls, On(r, "ds"),
                      set.rolls[r].phase # "Done"
               PROVE  /\ Unseen(set)' \/ zone_cds' = {} \/ NewOf(set, "ds") \subseteq zone_cds'
                      /\ "at_parent" \notin Given(r, set.rolls[r].phase) => Unseen(set)'
    BY <1>1 DEF CdsInOrder
  <2>1. "at_parent" \notin Given(r, set.rolls[r].phase) => Unseen(set)
    BY DEF Trusted, CdsInOrder
  <2>2. \A k \in NewOf(set, "ds") :
          set.keys[k].flags
            = Given(r, set.rolls[r].phase) \intersect Capability[set.keys[k].type]
    BY <1>3, SideFlags DEF Facets, KeysTrusted
  <2>3. \A k \in NewOf(set, "ds") :
          k \in DOMAIN set.keys /\ "at_parent" \in Capability[set.keys[k].type]
    BY FlagsUsed DEF NewOf, Facets, FlagsOf
  <2>4. CASE "at_parent" \in Given(r, set.rolls[r].phase)
    <3>1. NewOf(set, "ds") \subseteq ParentKeys(set)
      BY <2>2, <2>3, <2>4 DEF ParentKeys, With
    <3> QED
      BY <1>1, <1>3, <2>4, <3>1
  <2>5. CASE "at_parent" \notin Given(r, set.rolls[r].phase)
    <3>1. NewOf(set, "ds") \intersect ParentKeys(set) = {}
      BY <2>2, <2>5 DEF ParentKeys, With
    <3>2. NewOf(set, "ds") \intersect zone_cds' = {}
      BY <1>1, <1>3, <3>1
    <3>3. Unseen(set)'
      BY <1>6, <2>1, <2>5, <3>2 DEF Unseen
    <3> QED
      BY <3>3
  <2> QED
    BY <2>4, <2>5
<1> QED
  BY <1>1, <1>2, <1>4, <1>5, <1>7, PublishTrusted

LEMMA ParentUpdateTrusted ==
  ASSUME NEW s, s = kss, Fine(s, {}), Trusted(s), DnsOK, ParentUpdate
  PROVE  Trusted(s)' /\ DnsOK'
<1> DEFINE set == s.keyset
<1>1. PICK ds : /\ ds = IF config.channel = "cds" THEN zone_cds ELSE s.ds_rrset
                /\ ds # {} /\ Publish([latest EXCEPT !["ds"] = ds])
                /\ config' = config /\ zone_cds' = zone_cds
  BY DEF ParentUpdate
<1> DEFINE versions == [latest EXCEPT !["ds"] = ds]
<1>2. /\ DOMAIN versions = Kinds /\ versions["dnskey"] = latest["dnskey"]
      /\ versions["rrsig"] = latest["rrsig"] /\ versions["ds"] = ds
  BY DEF DnsOK, Kinds
<1>3. Publish(versions)
  BY <1>1
<1> HIDE DEF versions
<1>4. \A f \in Facets : ComingOrNow(s, f, versions[KindOf[f]])
  <2>1. ComingOrNow(s, "ds", ds)
    BY <1>1 DEF ComingOrNow, Coming, KindOf, NowOf, Fine, Sound, DsFollows
  <2> QED
    BY <1>2, <2>1 DEF ComingOrNow, KindOf, Facets, DnsOK, Kinds
<1>5. \A f \in Facets : \A v \in Coming(KindOf[f])' : ComingOrNow(s, f, v)
  BY <1>1 DEF Coming, ComingOrNow
<1>6. config.channel = "cds" => Visible("ds")' \subseteq Visible("ds") \union {zone_cds}
  <2>1. /\ served'["ds"] = served["ds"] \union {versions["ds"]}
        /\ DOMAIN cached'["ds"] \subseteq DOMAIN cached["ds"]
    BY <1>2, <1>3, Published DEF Kinds
  <2> QED
    BY <1>1, <1>2, <2>1 DEF Visible
<1>7. CdsInOrder(set)'
  <2>1. config.channel = "cds" /\ Unseen(set) => Unseen(set)'
    BY <1>1, <1>6 DEF Unseen
  <2> QED
    BY <1>1, <2>1 DEF Trusted, CdsInOrder
<1> QED
  BY <1>1, <1>2, <1>3, <1>4, <1>5, <1>7, PublishTrusted

LEMMA ServersUpdateTrusted ==
  ASSUME NEW s, s = kss, Fine(s, {}), Trusted(s), DnsOK, NEW kind \in Kinds,
         ServersUpdate(kind)
  PROVE  Trusted(s)' /\ DnsOK'
<1> DEFINE set == s.keyset
<1>1. PICK v \in served[kind] \ {latest[kind]} :
        /\ served' = [served EXCEPT ![kind] = @ \ {v}]
        /\ cached' = [cached EXCEPT ![kind] =
                        [w \in DOMAIN @ \union {v} |-> IF w = v THEN TTL ELSE @[w]]]
        /\ latest' = latest /\ config' = config /\ zone_cds' = zone_cds
  BY DEF ServersUpdate, Propagate
<1>2. /\ DOMAIN served' = Kinds /\ DOMAIN cached' = Kinds
      /\ \A k \in Kinds \ {kind} : served'[k] = served[k] /\ cached'[k] = cached[k]
      /\ served'[kind] = served[kind] \ {v}
      /\ DOMAIN cached'[kind] = DOMAIN cached[kind] \union {v}
      /\ cached'[kind][v] = TTL
      /\ \A w \in DOMAIN cached'[kind] : w # v => cached'[kind][w] = cached[kind][w]
  <2>1. cached'[kind] = [w \in DOMAIN cached[kind] \union {v} |->
                           IF w = v THEN TTL ELSE cached[kind][w]]
    BY <1>1 DEF DnsOK
  <2> QED
    BY <1>1, <2>1 DEF DnsOK
<1>3. DnsOK'
  <2>1. \A k \in Kinds : latest'[k] \in served'[k]
    BY <1>1, <1>2 DEF DnsOK
  <2>2. \A k \in Kinds : \A w \in DOMAIN cached'[k] : cached'[k][w] \in 1 .. TTL
    BY <1>1, <1>2, TtlAssumption DEF DnsOK
  <2> QED
    BY <1>1, <1>2, <2>1, <2>2 DEF DnsOK
<1>4. \A f \in Facets : KindOf[f] \in Kinds
  BY DEF Facets, KindOf, Kinds
<1>5. /\ \A k \in Kinds : Visible(k)' \subseteq Visible(k)
      /\ \A k : Coming(k)' = Coming(k)
  BY <1>1, <1>2 DEF Visible, Coming
<1>6. ASSUME NEW f \in Facets, NEW x \in (Visible(KindOf[f]) \union Coming(KindOf[f]))'
      PROVE  SeenOrNow(s, f, x)
  BY <1>4, <1>5 DEF SeenOrNow
<1>7. ASSUME NEW r \in DOMAIN set.rolls, NEW f \in Facets, On(r, f), Settled(s, r, KindOf[f])
      PROVE  Sure(set, f, Limit(set.rolls[r]))'
  <2>1. Sure(set, f, Limit(set.rolls[r]))
    BY <1>7 DEF Trusted, ChecksHold
  <2>2. \A x \in served'[KindOf[f]] \union Coming(KindOf[f])' : ShowsNew(set, f, x)
    BY <1>2, <1>4, <1>5, <2>1 DEF Sure
  <2>3. \A w \in DOMAIN cached'[KindOf[f]] :
          ShowsNew(set, f, w) \/ cached'[KindOf[f]][w] <= Limit(set.rolls[r])
    BY <1>1, <1>2, <1>4, <2>1 DEF Sure
  <2> QED
    BY <2>2, <2>3 DEF Sure
<1>8. CdsInOrder(set)'
  <2>1. Unseen(set) => Unseen(set)'
    BY <1>1, <1>5 DEF Unseen, Kinds
  <2> QED
    BY <1>1, <2>1 DEF Trusted, CdsInOrder
<1>9. Alike(s, s)
  BY DEF Alike
<1>10. Trusted(s)'
  BY <1>1, <1>6, <1>7, <1>8, <1>9, AlikeTrusted
<1> QED
  BY <1>3, <1>10

LEMMA TickTrusted ==
  ASSUME NEW s, s = kss, Fine(s, {}), Trusted(s), DnsOK, Tick, NEW t, t = kss'
  PROVE  Trusted(t)' /\ DnsOK'
<1> DEFINE set == s.keyset
           new == t.keyset
<1>1. DOMAIN s = Fields /\ DOMAIN set = {"keys", "rolls"} /\ SetOK(set)
  BY DEF Fine, Sound, SetOK
<1>2. /\ latest' = latest /\ served' = served /\ config' = config /\ zone_cds' = zone_cds
      /\ cached' = [kind \in Kinds |->
                      [v \in {w \in DOMAIN cached[kind] : cached[kind][w] > 1} |->
                         cached[kind][v] - 1]]
      /\ t = [s EXCEPT !.keyset.rolls = Waited(@)]
  BY DEF Tick, Age
<1>3. /\ new.keys = set.keys /\ new.rolls = Waited(set.rolls)
      /\ t.internal = s.internal /\ t.cds_rrset = s.cds_rrset
  BY <1>1, <1>2 DEF Fields
<1>4. /\ DOMAIN new.rolls = DOMAIN set.rolls
      /\ \A r \in DOMAIN set.rolls :
           /\ new.rolls[r].phase = set.rolls[r].phase
           /\ set.rolls[r].wait \in 0 .. TTL
           /\ new.rolls[r].wait = IF set.rolls[r].wait = 0 THEN 0 ELSE set.rolls[r].wait - 1
  <2> SUFFICES ASSUME NEW r \in DOMAIN set.rolls
               PROVE  /\ new.rolls[r].phase = set.rolls[r].phase
                      /\ set.rolls[r].wait \in 0 .. TTL
                      /\ new.rolls[r].wait
                           = IF set.rolls[r].wait = 0 THEN 0 ELSE set.rolls[r].wait - 1
    BY <1>3 DEF Waited
  <2>1. PICK roll \in RollState(TTL) : roll = set.rolls[r]
    BY <1>1 DEF SetOK, RollsOK
  <2>2. new.rolls[r] = [roll EXCEPT !.wait = IF @ = 0 THEN 0 ELSE @ - 1]
    BY <1>3, <2>1 DEF Waited
  <2> QED
    BY <2>1, <2>2 DEF RollState
<1>5. Alike(t, s)
  BY <1>3, <1>4 DEF Alike
<1>6. \A kind \in Kinds : \A v \in DOMAIN cached'[kind] :
        /\ v \in DOMAIN cached[kind] /\ cached[kind][v] > 1
        /\ cached'[kind][v] = cached[kind][v] - 1
  BY <1>2
<1>7. DnsOK'
  <2>1. \A kind \in Kinds : \A v \in DOMAIN cached'[kind] : cached'[kind][v] \in 1 .. TTL
    BY <1>6, TtlAssumption DEF DnsOK
  <2> QED
    BY <1>2, <2>1 DEF DnsOK
<1>8. \A f \in Facets : KindOf[f] \in Kinds
  BY DEF Facets, KindOf, Kinds
<1>9. /\ \A k \in Kinds : Visible(k)' \subseteq Visible(k)
      /\ \A k : Coming(k)' = Coming(k)
  BY <1>2, <1>6 DEF Visible, Coming
<1>10. ASSUME NEW f \in Facets, NEW x \in (Visible(KindOf[f]) \union Coming(KindOf[f]))'
       PROVE  SeenOrNow(s, f, x)
  BY <1>8, <1>9 DEF SeenOrNow
<1>11. ASSUME NEW r \in DOMAIN set.rolls, NEW f \in Facets, On(r, f), Settled(s, r, KindOf[f])
       PROVE  Sure(set, f, Limit(new.rolls[r]))'
  <2>1. Sure(set, f, Limit(set.rolls[r]))
    BY <1>11 DEF Trusted, ChecksHold
  <2>2. \A x \in served'[KindOf[f]] \union Coming(KindOf[f])' : ShowsNew(set, f, x)
    BY <1>2, <1>9, <2>1 DEF Sure
  <2>3. ASSUME NEW v \in DOMAIN cached'[KindOf[f]]
        PROVE  ShowsNew(set, f, v) \/ cached'[KindOf[f]][v] <= Limit(new.rolls[r])
    <3>1. /\ v \in DOMAIN cached[KindOf[f]]
          /\ cached[KindOf[f]][v] \in 1 .. TTL /\ cached[KindOf[f]][v] > 1
          /\ cached'[KindOf[f]][v] = cached[KindOf[f]][v] - 1
      BY <1>6, <1>8 DEF DnsOK
    <3>2. ShowsNew(set, f, v) \/ cached[KindOf[f]][v] <= Limit(set.rolls[r])
      BY <2>1, <3>1 DEF Sure
    <3> QED
      BY <1>4, <3>1, <3>2, TtlAssumption DEF Limit
  <2> QED
    BY <2>2, <2>3 DEF Sure
<1>12. CdsInOrder(set)'
  <2>1. Unseen(set) => Unseen(set)'
    BY <1>2, <1>9 DEF Unseen, Kinds
  <2> QED
    BY <1>2, <2>1 DEF Trusted, CdsInOrder
<1>13. Trusted(t)'
  BY <1>2, <1>5, <1>10, <1>11, <1>12, AlikeTrusted
<1> QED
  BY <1>7, <1>13

-----------------------------------------------------------------------------
(* Every action preserves all of it.                                       *)

TrustInv ==
  /\ Inv
  /\ DnsOK
  /\ config \in Settings
  /\ (Pristine(kss) /\ PristineDns(kss)) \/ Kept(kss, {})

LEMMA StaysTrusted ==
  ASSUME NEW t, Trusted(t), UNCHANGED <<config, zone_cds, dnsVars>>
  PROVE  Trusted(t)'
<1>1. UNCHANGED <<config, zone_cds, latest, served, cached>>
  BY DEF dnsVars
<1>2. /\ \A kind : Visible(kind)' = Visible(kind) /\ Coming(kind)' = Coming(kind)
      /\ \A f, limit : Sure(t.keyset, f, limit)' <=> Sure(t.keyset, f, limit)
  BY <1>1 DEF Visible, Coming, Sure
<1>3. ModesHold(t.keyset)'
  BY <1>2 DEF Trusted, ModesHold, AllShow
<1>4. ChecksHold(t)'
  BY <1>2 DEF Trusted, ChecksHold
<1>5. CdsInOrder(t.keyset)'
  BY <1>1, <1>2 DEF Trusted, CdsInOrder, Unseen
<1>6. CdsThere(t)'
  BY <1>1 DEF Trusted, CdsThere
<1> QED
  BY <1>3, <1>4, <1>5, <1>6 DEF Trusted

LEMMA StaysDns ==
  ASSUME NEW t, UNCHANGED <<config, zone_cds, dnsVars>>
  PROVE  (DnsOK => DnsOK') /\ (PristineDns(t) => PristineDns(t)')
BY DEF dnsVars, DnsOK, PristineDns

(* A command that writes a state in which all is well. *)
LEMMA WriteTrust ==
  ASSUME TrustInv, NEW t, Kept(t, {}), Write(t)
  PROVE  TrustInv'
<1>1. kss' = t /\ UNCHANGED <<config, zone_cds, dnsVars>>
  BY DEF Write
<1>2. Fine(t, {}) /\ Trusted(t)
  BY DEF Kept
<1>3. Inv'
  BY <1>2, WriteInv DEF TrustInv
<1>4. Trusted(t)' /\ DnsOK'
  BY <1>1, <1>2, StaysTrusted, StaysDns DEF TrustInv
<1>5. Kept(t, {})'
  BY <1>2, <1>4 DEF Kept
<1> QED
  BY <1>1, <1>3, <1>4, <1>5 DEF TrustInv

LEMMA InitTrust == Init => TrustInv
<1> SUFFICES ASSUME Init PROVE TrustInv
  OBVIOUS
<1>1. Pristine(kss)
  BY DEF Init, Pristine, Fields, SetOK, KeysOK, RollsOK
<1>2. PICK first : first = [dnskey |-> [keys |-> Imported, sigs |-> Of({"KSK", "CSK"})],
                            ds     |-> Of({"KSK", "CSK"}),
                            rrsig  |-> Of({"ZSK", "CSK"})]
  OBVIOUS
<1>3. /\ latest = first
      /\ served = [kind \in Kinds |-> {first[kind]}]
      /\ cached = [kind \in Kinds |-> [v \in {} |-> 0]]
  BY <1>2 DEF Init, DnsInit
<1>4. DnsOK
  BY <1>2, <1>3 DEF DnsOK, Kinds
<1>5. PristineDns(kss)
  BY <1>2, <1>3 DEF Init, PristineDns, Kinds
<1> QED
  BY <1>1, <1>4, <1>5, InitInv DEF Init, TrustInv

(* Only what init has not been run on is pristine. *)
LEMMA TrustInitialized == TrustInv /\ Initialized => Kept(kss, {})
BY PristineInitialized DEF TrustInv

LEMMA TrustInPhase ==
  ASSUME TrustInv, NEW r, NEW phases, InPhase(kss, r, phases)
  PROVE  Kept(kss, {})
BY DEF TrustInv, Pristine, InPhase

LEMMA StartRollTrust == ASSUME TrustInv, NEW variant, StartRoll(variant) PROVE TrustInv'
<1>1. Kept(kss, {})
  BY TrustInitialized DEF StartRoll
<1>2. config \in Configs /\ variant \in config.rolled
  BY DEF TrustInv, Inv, StartRoll
<1>3. RollOf(variant) \in RollTypes
  BY RollOfType DEF TrustInv
<1>4. /\ RollOf(variant) \in KskRolls => "Ksk" \in config.rolled
      /\ RollOf(variant) \in ZskRolls => "Zsk" \in config.rolled
  BY <1>2, KeysetAssumption DEF RollOf, Configs, KskRolls, ZskRolls
<1>5. \A t \in start_roll_command(kss, RollOf(variant)) : Kept(t, {})
  BY <1>1, <1>2, <1>3, <1>4, KeptStarts
<1> QED
  BY <1>5, WriteTrust DEF StartRoll

LEMMA PropagationCompleteTrust ==
  ASSUME TrustInv, NEW variant, PropagationComplete(variant) PROVE TrustInv'
<1> DEFINE r == RollOf(variant)
<1>1. /\ InPhase(kss, r, Propagation)
      /\ \A c \in Needed(r, kss.keyset.rolls[r].phase) : Confirmed(kss, c)
      /\ Write(Stepped(kss, r, propagation_complete(kss.keyset, r, TTL)))
  BY DEF PropagationComplete
<1> HIDE DEF r
<1>2. Fine(kss, {}) /\ Trusted(kss) /\ DnsOK
  BY <1>1, TrustInPhase DEF Kept, TrustInv
<1>3. Fine(Stepped(kss, r, propagation_complete(kss.keyset, r, TTL)), {})
  BY <1>1, <1>2, CompleteFine
<1>4. Trusted(Stepped(kss, r, propagation_complete(kss.keyset, r, TTL)))
  BY <1>1, <1>2, CompleteTrusted
<1>5. Kept(Stepped(kss, r, propagation_complete(kss.keyset, r, TTL)), {})
  BY <1>3, <1>4 DEF Kept
<1> QED
  BY <1>1, <1>5, WriteTrust

LEMMA CacheExpiredTrust ==
  ASSUME TrustInv, NEW variant, CacheExpired(variant) PROVE TrustInv'
<1> DEFINE r == RollOf(variant)
<1>1. /\ InPhase(kss, r, CacheExpire) /\ kss.keyset.rolls[r].wait = 0
      /\ Write(Stepped(kss, r, cache_expired(kss.keyset, r)))
  BY DEF CacheExpired
<1> HIDE DEF r
<1>2. Fine(kss, {}) /\ Trusted(kss) /\ DnsOK
  BY <1>1, TrustInPhase DEF Kept, TrustInv
<1>3. Fine(Stepped(kss, r, cache_expired(kss.keyset, r)), {})
  BY <1>1, <1>2, ExpiredFine
<1>4. Trusted(Stepped(kss, r, cache_expired(kss.keyset, r)))
  BY <1>1, <1>2, ExpiredTrusted
<1>5. Kept(Stepped(kss, r, cache_expired(kss.keyset, r)), {})
  BY <1>3, <1>4 DEF Kept
<1> QED
  BY <1>1, <1>5, WriteTrust

LEMMA RollDoneTrust == ASSUME TrustInv, NEW variant, RollDone(variant) PROVE TrustInv'
<1> DEFINE r == RollOf(variant)
<1>1. InPhase(kss, r, {"Done"}) /\ Write(do_done(kss, r))
  BY DEF RollDone
<1> HIDE DEF r
<1>2. Fine(kss, {}) /\ Trusted(kss)
  BY <1>1, TrustInPhase DEF Kept
<1>3. Kept(do_done(kss, r), {})
  BY <1>1, <1>2, DoneFine, DoneTrusted DEF Kept
<1> QED
  BY <1>1, <1>3, WriteTrust

LEMMA RemoveKeyTrust == ASSUME TrustInv, RemoveKey PROVE TrustInv'
<1>1. PICK k \in StaleKeys(kss) : Write([kss EXCEPT !.keyset = delete_key(@, k)])
  BY DEF RemoveKey
<1>2. Kept(kss, {})
  BY DEF TrustInv, Pristine, StaleKeys, stale
<1>3. [kss EXCEPT !.keyset = delete_key(@, k)] = RemoveKeys(kss, {k})
  BY <1>2 DEF Kept, delete_key, RemoveKeys
<1>4. Fine(kss, {k}) /\ Trusted(kss)
  BY <1>2 DEF Kept, Fine
<1>5. Kept(RemoveKeys(kss, {k}), {})
  BY <1>4, RemovedFine, RemovedTrusted DEF Kept
<1> QED
  BY <1>1, <1>3, <1>5, WriteTrust

LEMMA CronTrust == ASSUME TrustInv, CronAny PROVE TrustInv'
<1>1. PICK answers \in SUBSET Asked, aged \in SUBSET Expiring, gone \in {{}, StaleKeys(kss)} :
        Cron(answers, aged, gone)
  BY DEF CronAny
<1>2. PICK s \in AutoRolls(AutoStarts(kss, aged), answers) : Write(RemoveKeys(s, gone))
  BY <1>1 DEF Cron
<1>3. Kept(kss, {}) /\ DnsOK /\ config \in Configs
  BY <1>1, TrustInitialized DEF Cron, TrustInv, Inv
<1>4. Kept(kss, gone)
  BY <1>1, <1>3 DEF Kept, Fine
<1>5. RolledWhenAged(aged)
  BY <1>1 DEF RolledWhenAged, Expiring
<1>6. \A t \in AutoStarts(kss, aged) : Kept(t, gone)
  BY <1>3, <1>4, <1>5, StartsKept
<1>7. Fine(s, gone) /\ Trusted(s)
  BY <1>3, <1>6, RollsKept DEF Kept
<1>8. Kept(RemoveKeys(s, gone), {})
  BY <1>7, RemovedFine, RemovedTrusted DEF Kept
<1> QED
  BY <1>2, <1>8, WriteTrust

LEMMA InitCommandTrust == ASSUME TrustInv, InitCommand PROVE TrustInv'
<1> DEFINE set == kss.keyset
           types == {set.keys[k].type : k \in DOMAIN set.keys} \ {"Include"}
           acts == {"UpdateDnskeyRrset", "UpdateDsRrset"}
           s == handle_actions(kss, acts)
<1>1. Pristine(kss) /\ PristineDns(kss)
  BY FineInitialized DEF InitCommand, TrustInv, Kept
<1>2. /\ KeysTrusted(set) /\ ModesHold(set)
      /\ ChecksHold(kss) /\ CdsInOrder(set) /\ CdsThere(kss)
  BY <1>1, PristineKeys
<1>3. CASE ({"KSK", "ZSK"} \subseteq types \/ "CSK" \in types) /\ Write(s)
  <2>1. /\ DOMAIN s = Fields /\ s.keyset = set /\ s.internal = kss.internal
        /\ s.dnskey_rrset = DnskeyRrset(set) /\ s.ds_rrset = ParentKeys(set)
        /\ s.cds_rrset = kss.cds_rrset
    BY <1>1, HandledFields DEF Pristine
  <2>2. PICK k \in DOMAIN set.keys : TRUE
    BY <1>3
  <2>3. "present" \in set.keys[k].flags
    BY <1>1, CapabilityIs DEF Pristine, SetOK, KeysOK, KeyOK, Key
  <2> HIDE DEF s
  <2>4. With(set, "present") # {}
    BY <2>3 DEF With
  <2>5. Sound(s)
    BY <1>1, <2>1, <2>4 DEF Pristine, Sound, DnskeyFollows, DsFollows, Succeeded
  <2>6. Fine(s, {})
    BY <1>1, <2>1, <2>5 DEF Fine, Pristine, Reports
  <2>7. Manned(set)
    <3> SUFFICES ASSUME NEW f \in Facets PROVE NewOf(set, f) # {}
      BY DEF Manned
    <3>1. PICK x \in DOMAIN set.keys : set.keys[x].type \in SideOf(f)
      BY <1>3 DEF SideOf
    <3>2. x \in NewOf(set, f)
      BY <1>1, <3>1 DEF NewOf, Pristine
    <3> QED
      BY <3>2
  <2>8. DOMAIN set.rolls = {}
    BY <1>1 DEF Pristine
  <2>9. ChecksHold(s) /\ CdsThere(s)
    BY <2>1, <2>8 DEF ChecksHold, CdsThere
  <2>10. Kept(s, {})
    BY <1>2, <2>1, <2>6, <2>7, <2>9 DEF Kept, Trusted
  <2> QED
    BY <1>3, <2>10, WriteTrust
<1>4. CASE /\ types = {} /\ Imported = {}
           /\ \E t \in start_roll_command(kss, "AlgorithmRoll") : Write(t)
  <2>1. \A k \in DOMAIN set.keys : set.keys[k].flags = {"present"}
    BY <1>1, <1>4 DEF Pristine, Capability
  <2>2. ParentKeys(set) = {}
    BY <2>1 DEF ParentKeys, With
  <2>3. Startable(kss, "AlgorithmRoll")
    BY <1>1, <2>2 DEF Pristine, Startable, Succeeded, DsFollows
  <2>4. Reports(kss.internal, kss.keyset.rolls)
    BY <1>1 DEF Pristine, Reports
  <2>5. "AlgorithmRoll" \in RollTypes /\ config \in Configs
        /\ "AlgorithmRoll" \notin KskRolls \union ZskRolls
    BY DEF RollTypes, KskRolls, ZskRolls, TrustInv, Inv
  <2>6. \A v \in Visible("ds") \union Coming("ds") : v = {}
    BY <1>1, <1>4 DEF PristineDns, Visible, Coming, Of, Kinds
  <2>7. StartsFrom(kss, "AlgorithmRoll")
    <3>1. \A f \in Facets : NewOf(set, f) = {}
      BY <1>4 DEF NewOf, SideOf
    <3>2. FromNothing(set, "AlgorithmRoll")
      BY <3>1 DEF FromNothing
    <3> QED
      BY <1>1, <1>2, <2>5, <2>6, <3>2 DEF Pristine, StartsFrom
  <2>8. ASSUME NEW t \in start_roll_command(kss, "AlgorithmRoll") PROVE Kept(t, {})
    <3>1. Fine(t, {})
      BY <2>3, <2>4, <2>5, StartFine
    <3>2. Trusted(t)
      BY <2>3, <2>5, <2>7, StartTrusted
    <3> QED
      BY <3>1, <3>2 DEF Kept
  <2> QED
    BY <1>4, <2>8, WriteTrust
<1> QED
  BY <1>3, <1>4 DEF InitCommand

(* The key that is imported, and what else changes. *)
LEMMA ImportIs ==
  ASSUME Inv, Import, NEW s, s = kss, NEW t, t = kss'
  PROVE  /\ UNCHANGED <<config, zone_cds, dnsVars>>
         /\ \E k \in (Imported \union Pool["Include"]) \ DOMAIN s.keyset.keys :
              /\ TypeOfName(k) = "Include" \/ ~Initialized
              /\ t.keyset.rolls = s.keyset.rolls /\ t.internal = s.internal
              /\ DOMAIN t.keyset.keys = DOMAIN s.keyset.keys \union {k}
              /\ t.keyset.keys[k].type = TypeOfName(k) /\ ~t.keyset.keys[k].old
              /\ t.keyset.keys[k].flags = Capability[TypeOfName(k)]
              /\ \A x \in DOMAIN s.keyset.keys : t.keyset.keys[x] = s.keyset.keys[x]
              /\ t.cds_rrset \in {s.cds_rrset, ParentKeys(t.keyset)}
              /\ Initialized <=> t.dnskey_rrset.keys # {}
<1>1. PICK k \in (Imported \union Pool["Include"]) \ DOMAIN s.keyset.keys,
           alg \in Algorithms :
        /\ TypeOfName(k) = "Include" \/ ~Initialized
        /\ Write(handle_actions([s EXCEPT !.keyset = import_key(@, k, alg)],
                    {"UpdateDnskeyRrset" : x \in s.dnskey_rrset.keys} \union
                    {"UpdateDsRrset" : x \in s.ds_rrset} \union
                    {"CreateCdsRrset" : x \in s.cds_rrset}))
  BY DEF Import
<1> DEFINE acts == {"UpdateDnskeyRrset" : x \in s.dnskey_rrset.keys} \union
                   {"UpdateDsRrset" : x \in s.ds_rrset} \union
                   {"CreateCdsRrset" : x \in s.cds_rrset}
           key == [type |-> TypeOfName(k), alg |-> alg, old |-> FALSE,
                   flags |-> Capability[TypeOfName(k)]]
           set == s.keyset
           new == import_key(set, k, alg)
           u == [s EXCEPT !.keyset = new]
<1>2. t = handle_actions(u, acts) /\ UNCHANGED <<config, zone_cds, dnsVars>>
  BY <1>1 DEF Write
<1>3. k \in KeyNames /\ k \notin DOMAIN set.keys
  BY KeysetAssumption DEF KeyNames, KeyTypes
<1>4. DOMAIN s = Fields /\ SetOK(set)
  BY DEF Inv, Pristine, Fine, Sound
<1>5. /\ DOMAIN new = {"keys", "rolls"} /\ new.rolls = set.rolls
      /\ DOMAIN new.keys = DOMAIN set.keys \union {k}
      /\ new.keys[k] = key
      /\ \A x \in DOMAIN set.keys : new.keys[x] = set.keys[x]
  BY <1>3, <1>4 DEF SetOK, import_key
<1> HIDE DEF new
<1>6. /\ DOMAIN u = Fields /\ u.keyset = new /\ u.internal = s.internal
      /\ u.dnskey_rrset = s.dnskey_rrset /\ u.cds_rrset = s.cds_rrset
  BY <1>4 DEF Fields
<1> HIDE DEF u
<1>7. /\ t.keyset = new /\ t.internal = s.internal
      /\ t.dnskey_rrset =
           IF "UpdateDnskeyRrset" \in acts THEN DnskeyRrset(new) ELSE s.dnskey_rrset
      /\ t.cds_rrset = IF "CreateCdsRrset" \in acts THEN ParentKeys(new)
                       ELSE IF "RemoveCdsRrset" \in acts THEN {} ELSE s.cds_rrset
  <2> HIDE DEF acts
  <2> QED
    BY <1>2, <1>6, HandledFields
<1>8. "RemoveCdsRrset" \notin acts
  OBVIOUS
<1>9. "UpdateDnskeyRrset" \in acts <=> s.dnskey_rrset.keys # {}
  OBVIOUS
<1> HIDE DEF acts
<1>10. k \in DnskeyRrset(new).keys
  <2>1. "present" \in key.flags
    <3>1. PICK type \in KeyTypes : k \in Pool[type]
      BY <1>3, KeysetAssumption DEF KeyNames
    <3> QED
      BY <3>1, PoolOfName, CapabilityIs
  <2> HIDE DEF key
  <2> QED
    BY <1>5, <2>1 DEF DnskeyRrset, With
<1>11. Initialized <=> t.dnskey_rrset.keys # {}
  BY <1>7, <1>9, <1>10 DEF Initialized
<1> QED
  BY <1>1, <1>2, <1>5, <1>7, <1>8, <1>11

LEMMA ImportTrust == ASSUME TrustInv, Import PROVE TrustInv'
<1>1. PICK s, t : s = kss /\ t = kss'
  OBVIOUS
<1>2. Inv /\ Inv' /\ UNCHANGED <<config, zone_cds, dnsVars>>
  BY <1>1, ImportInv, ImportIs DEF TrustInv
<1>3. PICK k \in (Imported \union Pool["Include"]) \ DOMAIN s.keyset.keys :
        /\ TypeOfName(k) = "Include" \/ ~Initialized
        /\ t.keyset.rolls = s.keyset.rolls /\ t.internal = s.internal
        /\ DOMAIN t.keyset.keys = DOMAIN s.keyset.keys \union {k}
        /\ t.keyset.keys[k].type = TypeOfName(k) /\ ~t.keyset.keys[k].old
        /\ t.keyset.keys[k].flags = Capability[TypeOfName(k)]
        /\ \A x \in DOMAIN s.keyset.keys : t.keyset.keys[x] = s.keyset.keys[x]
        /\ t.cds_rrset \in {s.cds_rrset, ParentKeys(t.keyset)}
        /\ Initialized <=> t.dnskey_rrset.keys # {}
  BY <1>1, <1>2, ImportIs
<1>4. DnsOK'
  BY <1>2, StaysDns DEF TrustInv
<1>5. CASE Pristine(s) /\ PristineDns(s)
  <2>1. ~Initialized
    BY <1>1, <1>5, PristineInitialized
  <2>2. Pristine(t)
    BY <1>1, <1>2, <1>3, <2>1 DEF Inv, Fine, Sound, DnskeyFollows, DnskeyRrset
  <2>3. TypeOfName(k) # "Include" => k \in Imported
    BY PoolOfName DEF KeyTypes
  <2>4. PristineDns(t)
    BY <1>3, <1>5, <2>3 DEF PristineDns
  <2>5. PristineDns(t)'
    BY <1>2, <2>4, StaysDns
  <2> QED
    BY <1>1, <1>2, <1>4, <2>2, <2>5 DEF TrustInv
<1>6. CASE Kept(s, {})
  <2> DEFINE set == s.keyset
             new == t.keyset
  <2>1. Fine(s, {}) /\ Trusted(s) /\ Initialized
    BY <1>1, <1>6, FineInitialized DEF Kept
  <2>2. Fine(t, {})
    BY <1>1, <1>2, <1>3, <2>1 DEF Inv, Pristine
  <2>3. TypeOfName(k) = "Include" /\ \A r : TypeOfName(k) \notin Rolls(r)
    BY <1>3, <2>1 DEF Rolls
  <2>4. \A f : TypeOfName(k) \notin SideOf(f)
    BY <2>3 DEF SideOf
  <2>5. \A f : NewOf(new, f) = NewOf(set, f) /\ OldOf(new, f) = OldOf(set, f)
    BY <1>3, <2>4 DEF NewOf, OldOf
  <2>6. ParentKeys(new) = ParentKeys(set)
    <3>1. "at_parent" \notin new.keys[k].flags
      BY <1>3, <2>3 DEF Capability
    <3> QED
      BY <1>3, <3>1 DEF ParentKeys, With
  <2>7. KeysTrusted(new)
    <3>1. FlagsFollow(new)
      <4>1. KeyFollows(new.keys[k], new.rolls)
        BY <1>3, <2>3 DEF KeyFollows
      <4> QED
        BY <1>3, <2>1, <4>1 DEF Trusted, KeysTrusted, FlagsFollow
    <3>2. CsksGone(new)
      BY <1>3, <2>1, <2>3 DEF Trusted, KeysTrusted, CsksGone
    <3>3. Paired(new)
      BY <1>3, <2>1 DEF Trusted, KeysTrusted, Paired
    <3>4. Replaced(new)
      BY <1>3, <2>1, <2>5 DEF Trusted, KeysTrusted, Replaced, Bare
    <3> QED
      BY <3>1, <3>2, <3>3, <3>4 DEF KeysTrusted
  <2>8. ModesHold(new)
    <3>1. \A f \in Facets : \A mode : AllShow(mode, set, f) => AllShow(mode, new, f)
      BY <2>5, SameShown
    <3> QED
      BY <1>3, <2>1, <3>1 DEF Trusted, ModesHold
  <2>9. ChecksHold(t)
    <3>1. \A f \in Facets : \A limit : Sure(set, f, limit) => Sure(new, f, limit)
      BY <2>5, SameShown
    <3>2. \A r \in DOMAIN set.rolls : \A f \in Facets :
            Settled(t, r, KindOf[f]) <=> Settled(s, r, KindOf[f])
      BY <1>3 DEF Settled
    <3> QED
      BY <1>3, <2>1, <3>1, <3>2 DEF Trusted, ChecksHold
  <2>10. Manned(new)
    BY <2>1, <2>5 DEF Trusted, Manned
  <2>11. CdsInOrder(new)
    BY <1>3, <2>1, <2>5 DEF Trusted, CdsInOrder, Unseen
  <2>12. CdsThere(t)
    BY <1>3, <2>1, <2>6 DEF Trusted, CdsThere
  <2>13. Trusted(t)
    BY <2>7, <2>8, <2>9, <2>10, <2>11, <2>12 DEF Trusted
  <2>14. Trusted(t)'
    BY <1>2, <2>13, StaysTrusted
  <2>15. Kept(t, {})'
    BY <2>2, <2>14 DEF Kept
  <2> QED
    BY <1>1, <1>2, <1>4, <2>15 DEF TrustInv
<1> QED
  BY <1>1, <1>5, <1>6 DEF TrustInv

LEMMA SetConfigTrust == ASSUME TrustInv, SetConfig PROVE TrustInv'
<1>1. PICK s : s = kss
  OBVIOUS
<1>2. /\ config' \in Settings /\ config'.rolled = config.rolled
      /\ config'.channel = config.channel
      /\ UNCHANGED <<kss, zone_cds, latest, served, cached>>
  BY DEF SetConfig, dnsVars
<1>3. Inv'
  BY <1>2, SettingsAssumption DEF TrustInv, Inv
<1>4. DnsOK'
  BY <1>2 DEF TrustInv, DnsOK
<1>5. CASE Pristine(s) /\ PristineDns(s)
  <2>1. PristineDns(s)'
    BY <1>2, <1>5 DEF PristineDns
  <2> QED
    BY <1>1, <1>2, <1>3, <1>4, <1>5, <2>1 DEF TrustInv
<1>6. CASE Kept(s, {})
  <2>1. Fine(s, {}) /\ Trusted(s)
    BY <1>6 DEF Kept
  <2>2. /\ \A kind : Visible(kind)' = Visible(kind) /\ Coming(kind)' = Coming(kind)
        /\ \A f, limit : Sure(s.keyset, f, limit)' <=> Sure(s.keyset, f, limit)
    BY <1>2 DEF Visible, Coming, Sure
  <2>3. ModesHold(s.keyset)'
    BY <2>1, <2>2 DEF Trusted, ModesHold, AllShow
  <2>4. ChecksHold(s)'
    BY <2>1, <2>2 DEF Trusted, ChecksHold
  <2>5. CdsInOrder(s.keyset)'
    BY <1>2, <2>1, <2>2 DEF Trusted, CdsInOrder, Unseen
  <2>6. CdsThere(s)'
    BY <1>2, <2>1 DEF Trusted, CdsThere
  <2>7. Trusted(s)'
    BY <2>1, <2>3, <2>4, <2>5, <2>6 DEF Trusted
  <2>8. Kept(s, {})'
    BY <2>1, <2>7 DEF Kept
  <2> QED
    BY <1>1, <1>2, <1>3, <1>4, <2>8 DEF TrustInv
<1> QED
  BY <1>1, <1>5, <1>6 DEF TrustInv

(* The state file as it is, in other surroundings. *)
LEMMA SurroundTrust ==
  ASSUME TrustInv, NEW s, s = kss, kss' = kss, config' = config, Inv', DnsOK',
         Fine(s, {}), Trusted(s)'
  PROVE  TrustInv'
<1>1. Kept(s, {})'
  BY DEF Kept
<1> QED
  BY <1>1 DEF TrustInv

LEMMA SignZoneTrust == ASSUME TrustInv, SignZone PROVE TrustInv'
<1>1. PICK s : s = kss
  OBVIOUS
<1>2. Initialized /\ kss' = kss /\ config' = config
  BY DEF SignZone
<1>3. Fine(s, {}) /\ Trusted(s) /\ DnsOK /\ Inv
  BY <1>1, <1>2, TrustInitialized DEF Kept, TrustInv
<1>4. Inv'
  BY <1>3, SignZoneInv
<1>5. Trusted(s)' /\ DnsOK'
  BY <1>1, <1>3, SignZoneTrusted
<1> QED
  BY <1>1, <1>2, <1>3, <1>4, <1>5, SurroundTrust

LEMMA ParentUpdateTrust == ASSUME TrustInv, ParentUpdate PROVE TrustInv'
<1>1. PICK s : s = kss
  OBVIOUS
<1>2. Initialized /\ kss' = kss /\ config' = config /\ zone_cds' = zone_cds
  BY DEF ParentUpdate
<1>3. Fine(s, {}) /\ Trusted(s) /\ DnsOK /\ Inv
  BY <1>1, <1>2, TrustInitialized DEF Kept, TrustInv
<1>4. Inv'
  BY <1>2, <1>3 DEF Inv
<1>5. Trusted(s)' /\ DnsOK'
  BY <1>1, <1>3, ParentUpdateTrusted
<1> QED
  BY <1>1, <1>2, <1>3, <1>4, <1>5, SurroundTrust

LEMMA ServersUpdateTrust ==
  ASSUME TrustInv, NEW kind \in Kinds, ServersUpdate(kind) PROVE TrustInv'
<1>1. PICK s : s = kss
  OBVIOUS
<1>2. kss' = kss /\ config' = config /\ zone_cds' = zone_cds
      /\ served[kind] \ {latest[kind]} # {}
  BY DEF ServersUpdate, Propagate
<1>3. ~PristineDns(s)
  BY <1>2 DEF PristineDns
<1>4. Fine(s, {}) /\ Trusted(s) /\ DnsOK /\ Inv
  BY <1>1, <1>3 DEF Kept, TrustInv
<1>5. Inv'
  BY <1>2, <1>4 DEF Inv
<1>6. Trusted(s)' /\ DnsOK'
  BY <1>1, <1>4, ServersUpdateTrusted
<1> QED
  BY <1>1, <1>2, <1>4, <1>5, <1>6, SurroundTrust

LEMMA TickTrust == ASSUME TrustInv, Tick PROVE TrustInv'
<1>1. PICK s, t : s = kss /\ t = kss'
  OBVIOUS
<1>2. /\ t = [s EXCEPT !.keyset.rolls = Waited(@)]
      /\ latest' = latest /\ served' = served /\ config' = config /\ zone_cds' = zone_cds
      /\ cached' = [kind \in Kinds |->
                      [v \in {w \in DOMAIN cached[kind] : cached[kind][w] > 1} |->
                         cached[kind][v] - 1]]
  BY <1>1 DEF Tick, Age
<1>3. Inv' /\ Inv
  BY TickInv DEF TrustInv
<1>4. DOMAIN s = Fields /\ SetOK(s.keyset)
  BY <1>1, <1>3 DEF Inv, Pristine, Fine, Sound
<1>5. /\ t.keyset.keys = s.keyset.keys /\ t.dnskey_rrset = s.dnskey_rrset
      /\ t.keyset.rolls = Waited(s.keyset.rolls)
  BY <1>2, <1>4 DEF Fields, SetOK
<1>6. CASE Pristine(s) /\ PristineDns(s)
  <2>1. Pristine(t)
    <3>1. DOMAIN t.keyset.rolls = {}
      BY <1>5, <1>6 DEF Pristine, Waited
    <3>2. t.dnskey_rrset.keys = {}
      BY <1>5, <1>6 DEF Pristine
    <3>3. ~Fine(t, {})
      BY <3>2 DEF Fine, Sound, DnskeyFollows, DnskeyRrset
    <3> QED
      BY <1>1, <1>3, <3>3 DEF Inv
  <2>2. \A kind \in Kinds : DOMAIN cached'[kind] = {}
    BY <1>2, <1>6 DEF PristineDns
  <2>3. PristineDns(t)'
    BY <1>2, <1>5, <1>6, <2>2 DEF PristineDns
  <2>4. DnsOK'
    BY <1>2, <2>2 DEF TrustInv, DnsOK
  <2> QED
    BY <1>1, <1>2, <1>3, <2>1, <2>3, <2>4 DEF TrustInv
<1>7. CASE Kept(s, {})
  <2>1. Fine(s, {}) /\ Trusted(s) /\ DnsOK
    BY <1>7 DEF Kept, TrustInv
  <2>2. Trusted(t)' /\ DnsOK'
    BY <1>1, <2>1, TickTrusted
  <2>3. Fine(t, {})
    <3>1. ~Pristine(t)
      BY <1>5, <2>1 DEF Pristine, Fine, Sound, DnskeyFollows, DnskeyRrset
    <3> QED
      BY <1>1, <1>3, <3>1 DEF Inv
  <2>4. Kept(t, {})'
    BY <2>2, <2>3 DEF Kept
  <2> QED
    BY <1>1, <1>2, <1>3, <2>2, <2>4 DEF TrustInv
<1> QED
  BY <1>1, <1>6, <1>7 DEF TrustInv

LEMMA StaysTrust == ASSUME TrustInv, UNCHANGED vars PROVE TrustInv'
<1>1. PICK s : s = kss
  OBVIOUS
<1>2. kss' = kss /\ UNCHANGED <<config, zone_cds, dnsVars>>
  BY DEF vars
<1>3. Inv' /\ DnsOK'
  BY <1>2, StaysDns DEF TrustInv, Inv
<1>4. Pristine(s) /\ PristineDns(s) => (Pristine(s) /\ PristineDns(s))'
  BY <1>2, StaysDns
<1>5. Kept(s, {}) => Kept(s, {})'
  BY <1>2, StaysTrusted DEF Kept
<1> QED
  BY <1>1, <1>2, <1>3, <1>4, <1>5 DEF TrustInv

LEMMA TrustStep == TrustInv /\ [Next]_vars => TrustInv'
<1> SUFFICES ASSUME TrustInv, [Next]_vars PROVE TrustInv'
  OBVIOUS
<1>1. CASE Import
  BY <1>1, ImportTrust
<1>2. CASE InitCommand
  BY <1>2, InitCommandTrust
<1>3. ASSUME NEW variant \in Variants,
             StartRoll(variant) \/ PropagationComplete(variant)
               \/ CacheExpired(variant) \/ RollDone(variant)
      PROVE  TrustInv'
  BY <1>3, StartRollTrust, PropagationCompleteTrust, CacheExpiredTrust, RollDoneTrust
<1>4. CASE RemoveKey
  BY <1>4, RemoveKeyTrust
<1>5. CASE CronAny
  BY <1>5, CronTrust
<1>6. CASE SetConfig
  BY <1>6, SetConfigTrust
<1>7. CASE SignZone
  BY <1>7, SignZoneTrust
<1>8. CASE ParentUpdate
  BY <1>8, ParentUpdateTrust
<1>9. ASSUME NEW kind \in Kinds, ServersUpdate(kind) PROVE TrustInv'
  BY <1>9, ServersUpdateTrust
<1>10. CASE Tick
  BY <1>10, TickTrust
<1>11. CASE UNCHANGED vars
  BY <1>11, StaysTrust
<1> QED
  BY <1>1, <1>2, <1>3, <1>4, <1>5, <1>6, <1>7, <1>8, <1>9, <1>10, <1>11 DEF Next

LEMMA TrustInvariance == Spec => []TrustInv
<1>1. Init => TrustInv
  BY InitTrust
<1>2. TrustInv /\ [Next]_vars => TrustInv'
  BY TrustStep
<1> QED
  BY <1>1, <1>2, PTL DEF Spec

-----------------------------------------------------------------------------
(* The two RRsets of a side have keys in common.                           *)

Pairs == {<<"ksk", "ds">>, <<"zsk", "rrsig">>}

Starting(set) ==
  \E r \in DOMAIN set.rolls : Bare(set, r) /\ set.rolls[r].phase \in Early

LEMMA FirstOfPair ==
  ASSUME NEW r \in RollTypes, NEW f, NEW g, <<f, g>> \in Pairs, On(r, f)
  PROVE  /\ CheckedFirst(r, f) \/ CheckedFirst(r, g)
         /\ r = "AlgorithmRoll" => CheckedFirst(r, f) /\ (g = "ds" \/ CheckedFirst(r, g))
<1> USE NeededIs DEF Pairs, On, Rolls, SideOf, KskRolls, ZskRolls, CheckedFirst, KindOf
<1>1. CASE r = "KskRoll"
  BY <1>1
<1>2. CASE r = "KskDoubleDsRoll"
  BY <1>2
<1>3. CASE r = "ZskRoll"
  BY <1>3
<1>4. CASE r = "ZskDoubleSignatureRoll"
  BY <1>4
<1>5. CASE r = "CskRoll"
  BY <1>5
<1>6. CASE r = "AlgorithmRoll"
  BY <1>6
<1> QED
  BY <1>1, <1>2, <1>3, <1>4, <1>5, <1>6 DEF RollTypes

LEMMA PairShows ==
  ASSUME NEW s, SetOK(s.keyset), Trusted(s), NEW f, NEW g, <<f, g>> \in Pairs,
         NEW v \in Visible(KindOf[f]), NEW w \in Visible(KindOf[g])
  PROVE  \/ ShowsNew(s.keyset, f, v) /\ ShowsNew(s.keyset, g, w)
         \/ /\ ShowsOld(s.keyset, f, v) /\ ShowsOld(s.keyset, g, w)
            /\ OldOf(s.keyset, f) # {} \/ g = "ds" \/ Starting(s.keyset)
<1> DEFINE set == s.keyset
<1>1. f \in Facets /\ g \in Facets /\ \A r : On(r, f) <=> On(r, g)
  BY DEF Pairs, Facets, On, SideOf
<1>2. CASE \A r \in DOMAIN set.rolls : ~On(r, f)
  <2>1. AllShow("new", set, f) /\ AllShow("new", set, g)
    BY <1>1, <1>2 DEF Trusted, ModesHold
  <2> QED
    BY <2>1 DEF AllShow, Shows
<1>3. ASSUME NEW r \in DOMAIN set.rolls, On(r, f)
      PROVE  \/ ShowsNew(set, f, v) /\ ShowsNew(set, g, w)
             \/ /\ ShowsOld(set, f, v) /\ ShowsOld(set, g, w)
                /\ OldOf(set, f) # {} \/ g = "ds" \/ Starting(set)
  <2> DEFINE phase == set.rolls[r].phase
             m == Mode(r, phase, f)
             n == Mode(r, phase, g)
  <2>1. r \in RollTypes
    BY DEF SetOK, RollsOK
  <2>2. AllShow(m, set, f) /\ AllShow(n, set, g)
    BY <1>1, <1>3 DEF Trusted, ModesHold
  <2>3. Shows(m, set, f, v) /\ Shows(n, set, g, w)
    <3> HIDE DEF m, n
    <3> QED
      BY <2>2 DEF AllShow
  <2>4. /\ CheckedFirst(r, f) \/ CheckedFirst(r, g)
        /\ r = "AlgorithmRoll" => CheckedFirst(r, f) /\ (g = "ds" \/ CheckedFirst(r, g))
    BY <1>3, <2>1, FirstOfPair
  <2>5. m # "new" => OldOf(set, f) # {} \/ Bare(set, r)
    BY <1>1, <1>3 DEF Trusted, KeysTrusted, Replaced
  <2>6. Bare(set, r) /\ phase \in Early => Starting(set)
    BY DEF Starting
  <2> HIDE DEF phase
  <2>7. CASE phase \in Early
    <3>1. m = "old" /\ n = "old"
      BY <2>7 DEF Mode
    <3> QED
      BY <2>3, <2>5, <2>6, <2>7, <3>1 DEF Shows
  <2>8. CASE phase = "Done"
    <3>1. m = "new" /\ n = "new"
      BY <2>8 DEF Mode, Early
    <3> QED
      BY <2>3, <3>1 DEF Shows
  <2>9. CASE phase \notin Early /\ phase # "Done"
    <3>1. /\ CheckedFirst(r, f) => m \in {"new", "both"}
          /\ CheckedFirst(r, g) => n \in {"new", "both"}
          /\ ~CheckedFirst(r, f) => m = "either"
          /\ ~CheckedFirst(r, g) => n = "either"
      BY <2>9 DEF Mode
    <3>2. CASE CheckedFirst(r, f) /\ CheckedFirst(r, g)
      BY <2>3, <3>1, <3>2 DEF Shows
    <3>3. CASE CheckedFirst(r, f) /\ ~CheckedFirst(r, g)
      <4>1. m = "both"
        <5>1. r = "ZskDoubleSignatureRoll" => CheckedFirst(r, g)
          BY <1>3, NeededIs DEF Pairs, On, Rolls, KskRolls, ZskRolls, SideOf, CheckedFirst, KindOf
        <5> QED
          BY <2>9, <3>3, <5>1 DEF Mode
      <4>2. n = "either"
        BY <3>1, <3>3
      <4>3. r = "AlgorithmRoll" => g = "ds"
        BY <2>4, <3>3
      <4>4. OldOf(set, f) # {} \/ g = "ds"
        BY <2>5, <4>1, <4>3 DEF Bare
      <4> QED
        BY <2>3, <4>1, <4>2, <4>4 DEF Shows
    <3>4. CASE ~CheckedFirst(r, f)
      <4>1. CheckedFirst(r, g) /\ r # "AlgorithmRoll"
        BY <2>4, <3>4
      <4>2. m = "either"
        BY <3>1, <3>4
      <4>3. n = "both"
        <5>1. r # "ZskDoubleSignatureRoll"
          BY <1>3, <3>4, NeededIs
             DEF Pairs, On, Rolls, KskRolls, ZskRolls, SideOf, CheckedFirst, KindOf
        <5> QED
          BY <2>9, <4>1, <5>1 DEF Mode
      <4>4. OldOf(set, f) # {}
        BY <2>5, <4>1, <4>2 DEF Bare
      <4> QED
        BY <2>3, <4>2, <4>3, <4>4 DEF Shows
    <3> QED
      BY <3>2, <3>3, <3>4
  <2> QED
    BY <2>7, <2>8, <2>9
<1> QED
  BY <1>2, <1>3

LEMMA PairMeets ==
  ASSUME NEW s, SetOK(s.keyset), Trusted(s), NEW f, NEW g, <<f, g>> \in Pairs,
         NEW v \in Visible(KindOf[f]), NEW w \in Visible(KindOf[g]),
         g = "ds" => w # {}, ~Starting(s.keyset)
  PROVE  Shown(f, v) \intersect Shown(g, w) # {}
<1> DEFINE set == s.keyset
<1>1. f \in Facets /\ NewOf(set, f) = NewOf(set, g) /\ OldOf(set, f) = OldOf(set, g)
  BY DEF Pairs, Facets, NewOf, OldOf, SideOf
<1>2. \/ ShowsNew(set, f, v) /\ ShowsNew(set, g, w)
      \/ /\ ShowsOld(set, f, v) /\ ShowsOld(set, g, w)
         /\ OldOf(set, f) # {} \/ g = "ds" \/ Starting(set)
  BY PairShows
<1>3. NewOf(set, f) # {}
  BY <1>1 DEF Trusted, Manned
<1>4. CASE ShowsNew(set, f, v) /\ ShowsNew(set, g, w)
  BY <1>1, <1>3, <1>4 DEF ShowsNew
<1>5. CASE /\ ShowsOld(set, f, v) /\ ShowsOld(set, g, w)
           /\ OldOf(set, f) # {} \/ g = "ds" \/ Starting(set)
  <2>1. OldOf(set, f) # {}
    BY <1>1, <1>5 DEF ShowsOld
  <2> QED
    BY <1>1, <1>5, <2>1 DEF ShowsOld
<1> QED
  BY <1>2, <1>4, <1>5

(* The algorithm roll of init: until it is checked, there is no DS record. *)
LEMMA NoDsYet ==
  ASSUME NEW s, Trusted(s), Starting(s.keyset), NEW ds \in Visible("ds")
  PROVE  ds = {}
<1> DEFINE set == s.keyset
<1>1. PICK r \in DOMAIN set.rolls : Bare(set, r) /\ set.rolls[r].phase \in Early
  BY DEF Starting
<1>2. On(r, "ds")
  BY <1>1 DEF Bare, On, Rolls, KskRolls, ZskRolls, SideOf
<1>3. Mode(r, set.rolls[r].phase, "ds") = "old"
  BY <1>1 DEF Mode
<1>4. AllShow("old", set, "ds")
  BY <1>2, <1>3 DEF Trusted, ModesHold, Facets
<1>5. ShowsOld(set, "ds", ds)
  BY <1>4 DEF AllShow, Shows, KindOf
<1>6. OldOf(set, "ds") = {}
  BY <1>1 DEF Bare, Facets
<1> QED
  BY <1>5, <1>6 DEF ShowsOld

LEMMA TrustHolds == TrustInv => ChainOfTrust
<1> SUFFICES ASSUME TrustInv,
                    NEW ds \in Visible("ds"), NEW dnskey \in Visible("dnskey"),
                    NEW rrsig \in Visible("rrsig"), ds # {}
             PROVE  /\ ds \intersect dnskey.keys \intersect dnskey.sigs # {}
                    /\ rrsig \intersect dnskey.keys # {}
  BY DEF ChainOfTrust
<1>1. CASE Pristine(kss) /\ PristineDns(kss)
  <2>1. ds = latest["ds"] /\ dnskey = latest["dnskey"] /\ rrsig = latest["rrsig"]
    BY <1>1 DEF PristineDns, Visible, Kinds
  <2>2. /\ ds = Of({"KSK", "CSK"}) /\ dnskey.keys = Imported
        /\ dnskey.sigs = Of({"KSK", "CSK"}) /\ rrsig = Of({"ZSK", "CSK"})
    BY <1>1, <2>1 DEF PristineDns
  <2>3. Of({"ZSK", "CSK"}) # {}
    BY <2>2, SignedAssumption
  <2> QED
    BY <2>2, <2>3 DEF Of
<1>2. CASE Kept(kss, {})
  <2>1. Trusted(kss) /\ SetOK(kss.keyset)
    BY <1>2 DEF Kept, Fine, Sound
  <2>2. ~Starting(kss.keyset)
    BY <2>1, NoDsYet
  <2>3. Shown("ksk", dnskey) \intersect Shown("ds", ds) # {}
    <3>1. <<"ksk", "ds">> \in Pairs /\ KindOf["ksk"] = "dnskey" /\ KindOf["ds"] = "ds"
      BY DEF Pairs, KindOf
    <3> QED
      BY <2>1, <2>2, <3>1, PairMeets
  <2>4. Shown("zsk", dnskey) \intersect Shown("rrsig", rrsig) # {}
    <3>1. <<"zsk", "rrsig">> \in Pairs /\ KindOf["zsk"] = "dnskey" /\ KindOf["rrsig"] = "rrsig"
      BY DEF Pairs, KindOf
    <3> QED
      BY <2>1, <2>2, <3>1, PairMeets
  <2> QED
    BY <2>3, <2>4 DEF Shown
<1> QED
  BY <1>1, <1>2 DEF TrustInv

(* Whatever DS, DNSKEY and zone signature versions a resolver combines,    *)
(* among those that servers answer with or that are left in caches, it     *)
(* finds a chain of trust: the propagation checks and TTL waits of the key *)
(* rolls (auto_report_actions, cache_expired1 and cache_expired2) suffice, *)
(* by hand and by cron, in parallel rolls and when settings change.        *)
THEOREM ChainOfTrustAlways == Spec => []ChainOfTrust
BY TrustInvariance, TrustHolds, PTL

(* Where KSKs and ZSKs are not both rolled, the CDS RRset is that of the   *)
(* keys as long as a roll waits for its DS records: do_done, which removes *)
(* it whatever roll ends, then ends no roll next to one that needs it.     *)
THEOREM CdsWhileNeededAlways ==
  (\A c \in Settings : ~({"Ksk", "Zsk"} \subseteq c.rolled)) => (Spec => []CdsWhileNeeded)
<1> SUFFICES ASSUME \A c \in Settings : ~({"Ksk", "Zsk"} \subseteq c.rolled)
             PROVE  Spec => []CdsWhileNeeded
  OBVIOUS
<1>1. TrustInv => CdsWhileNeeded
  <2> SUFFICES ASSUME TrustInv, NEW r \in DOMAIN kss.keyset.rolls,
                      "ds" \in Needed(r, kss.keyset.rolls[r].phase)
               PROVE  kss.cds_rrset = ParentKeys(kss.keyset)
    BY DEF CdsWhileNeeded
  <2>1. ~({"Ksk", "Zsk"} \subseteq config.rolled)
    BY DEF TrustInv
  <2>2. CdsThere(kss)
    BY DEF TrustInv, Pristine, Kept, Trusted
  <2> QED
    BY <2>1, <2>2 DEF CdsThere
<1> QED
  BY <1>1, TrustInvariance, PTL
=============================================================================
