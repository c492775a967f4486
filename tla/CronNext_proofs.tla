-------------------------- MODULE CronNext_proofs --------------------------
(***************************************************************************)
(* Proofs about CronNext, for any configurations and any times: its type   *)
(* invariant, that cron-next is neither too late nor there for nothing,    *)
(* and that a run of cron that acts makes a difference.                    *)
(***************************************************************************)
EXTENDS CronNext, WellFoundedInduction, TLAPS

-----------------------------------------------------------------------------
(* What the state holds.                                                   *)

(* What the new keys have got and the old ones have lost in a phase of a   *)
(* roll, from its start on.                                                *)
Early == {"Propagation1", "CacheExpire1"}
Middle == {"Propagation2", "CacheExpire2"}

Given(r, phase) ==
  IF phase \in Early THEN Plan[r]["Propagation1"].give
  ELSE IF phase \in Middle
  THEN Plan[r]["Propagation1"].give \union Plan[r]["Propagation2"].give
  ELSE Plan[r]["Propagation1"].give \union Plan[r]["Propagation2"].give
         \union Plan[r]["Done"].give

Taken(r, phase) ==
  IF phase \in Early THEN Plan[r]["Propagation1"].take
  ELSE IF phase \in Middle
  THEN Plan[r]["Propagation1"].take \union Plan[r]["Propagation2"].take
  ELSE Plan[r]["Propagation1"].take \union Plan[r]["Propagation2"].take
         \union Plan[r]["Done"].take

RolledFlags(key, r, phase) ==
  IF key.old THEN Capability[key.type] \ Taken(r, phase)
  ELSE Capability[key.type] \intersect Given(r, phase)

(* A key has been rolled out, or it is where the roll of its type is, or   *)
(* it is in use.                                                           *)
FlagsFine(key, rolls) ==
  \/ stale(key)
  \/ /\ \A r \in DOMAIN rolls :
          key.type \in Rolls(r) => key.flags = RolledFlags(key, r, rolls[r].phase)
     /\ (\A r \in DOMAIN rolls : key.type \notin Rolls(r))
          => ~key.old /\ key.flags = Capability[key.type]

KeyFields == {"type", "alg", "old", "flags", "published", "withdrawn"}

KeyTyped(k, key) ==
  /\ DOMAIN key = KeyFields
  /\ key.type = k[1] /\ key.alg \in Algorithms
  /\ key.old \in BOOLEAN /\ key.flags \subseteq Flags
  /\ key.published \in KeyAges /\ key.withdrawn \in KeyAges

KeyFine(k, key, rolls) ==
  /\ KeyTyped(k, key)
  /\ k[2] = "previous" => key.old
  /\ key.old => "present" \in key.flags \/ key.withdrawn # {}
  /\ FlagsFine(key, rolls)

SetSound(set) ==
  /\ DOMAIN set = {"keys", "rolls"}
  /\ DOMAIN set.keys \subseteq Names
  /\ \A k \in DOMAIN set.keys : KeyFine(k, set.keys[k], set.rolls)
  /\ set.rolls \in [DOMAIN set.rolls -> RollState(TTL)]
  /\ DOMAIN set.rolls \subseteq RollTypes
  /\ \A r \in DOMAIN set.rolls : DOMAIN set.rolls \subseteq Compatible(r) \union {r}

Statuses == {x \in [form : RrsigForms \union {"none"}, until : 0 .. Retry] :
               x.form = "none" => x.until = 0}

Sigs == Optional(Remain - 1 .. Lifetime)

StateFields == {"keyset", "dnskey_rrset", "cds_rrset", "internal", "changed"}

IsState(s) == DOMAIN s = StateFields /\ s = [f \in StateFields |-> s[f]]

Sound(s) ==
  /\ IsState(s)
  /\ s.changed \in BOOLEAN
  /\ s.dnskey_rrset \in Sigs /\ s.cds_rrset \in Sigs
  /\ SetSound(s.keyset)
  /\ s.internal \in [DOMAIN s.keyset.rolls -> [Checks -> Statuses]]

(* The times at which cron acts: once they have passed, or have come. *)
ActsAfter(c, s) ==
  compute_cron_next(s.dnskey_rrset) \union compute_cron_next(s.cds_rrset)
    \union NextStarts(c, s)

ActsAt(c, s) ==
  NextRemovals(c, s)
    \union UNION {cron_next_auto_report_expire_done(c, s, r) : r \in DOMAIN s.keyset.rolls}

Due(c, s) == (\E u \in ActsAfter(c, s) : u < 0) \/ (\E u \in ActsAt(c, s) : u <= 0)

(* cron-next is there for the first of these times, and only then. *)
InTime(next, c, s) ==
  \A u \in ActsAfter(c, s) \union ActsAt(c, s) : \E t \in next : t <= 0 \/ t <= u

Wanted(next, c, s) ==
  \A t \in next : \/ \E u \in ActsAfter(c, s) : u <= t \/ u < 0
                  \/ \E u \in ActsAt(c, s) : u <= t \/ u <= 0

StateInv ==
  /\ config \in Configs /\ torn \in BOOLEAN /\ cron_next \in Optional(Left)
  /\ Sound(kss) /\ kss.changed = FALSE

TimesInv == ~torn => InTime(cron_next, config, kss) /\ Wanted(cron_next, config, kss)

CronNextInv == StateInv /\ TimesInv
-----------------------------------------------------------------------------
(* The plan of a roll.                                                     *)

Changing == {"Propagation1", "Propagation2", "Done"}

(* Each step only gives and takes flags there are, the first one takes     *)
(* none, and in the end the old keys of a roll have no flags left and the  *)
(* new ones have all of theirs.                                            *)
Complete(r) ==
  /\ \A phase \in Changing : Plan[r][phase].give \subseteq Flags
  /\ Plan[r]["Propagation1"].take = {}
  /\ \A t \in Rolls(r) : /\ Capability[t] \subseteq Taken(r, "Done")
                         /\ Capability[t] \subseteq Given(r, "Done")

LEMMA PlanComplete == \A r \in RollTypes : Complete(r)
<1> SUFFICES ASSUME NEW r \in RollTypes
             PROVE  Complete(r)
  OBVIOUS
<1>1. CASE r = "KskRoll"
  BY <1>1 DEF Plan, Step, Complete, Changing, Flags, Capability, Rolls, Given, Taken, Early,
             Middle, KskRolls, ZskRolls
<1>2. CASE r = "KskDoubleDsRoll"
  BY <1>2 DEF Plan, Step, Complete, Changing, Flags, Capability, Rolls, Given, Taken, Early,
             Middle, KskRolls, ZskRolls
<1>3. CASE r = "ZskRoll"
  BY <1>3 DEF Plan, Step, Complete, Changing, Flags, Capability, Rolls, Given, Taken, Early,
             Middle, KskRolls, ZskRolls
<1>4. CASE r = "ZskDoubleSignatureRoll"
  BY <1>4 DEF Plan, Step, Complete, Changing, Flags, Capability, Rolls, Given, Taken, Early,
             Middle, KskRolls, ZskRolls
<1>5. CASE r = "CskRoll"
  BY <1>5 DEF Plan, Step, Complete, Changing, Flags, Capability, Rolls, Given, Taken, Early,
             Middle, KskRolls, ZskRolls
<1>6. CASE r = "AlgorithmRoll"
  BY <1>6 DEF Plan, Step, Complete, Changing, Flags, Capability, Rolls, Given, Taken, Early,
             Middle, KskRolls, ZskRolls
<1> QED
  BY <1>1, <1>2, <1>3, <1>4, <1>5, <1>6 DEF RollTypes, KskRolls, ZskRolls

(* The phase after another one. *)
Follows(p, phase) ==
  \/ p = "Propagation1" /\ phase = "CacheExpire1"
  \/ p = "CacheExpire1" /\ phase = "Propagation2"
  \/ p = "Propagation2" /\ phase = "CacheExpire2"
  \/ p = "CacheExpire2" /\ phase = "Done"

LEMMA PhaseFollows ==
  ASSUME NEW r, NEW p, NEW phase, Follows(p, phase)
  PROVE  /\ phase \in Phases /\ p # phase
         /\ phase \notin CacheExpire => phase \in Changing
         /\ Given(r, phase) = IF phase \in CacheExpire THEN Given(r, p)
                              ELSE Given(r, p) \union Plan[r][phase].give
         /\ Taken(r, phase) = IF phase \in CacheExpire THEN Taken(r, p)
                              ELSE Taken(r, p) \union Plan[r][phase].take
BY DEF Follows, Phases, Propagation, CacheExpire, Changing, Given, Taken, Early, Middle

(* Two rolls that can be in progress together are of different key types.  *)
LEMMA CompatibleDisjoint ==
  \A r \in RollTypes : \A x \in Compatible(r) :
    x \in RollTypes /\ x # r /\ r \in Compatible(x) /\ Rolls(r) \intersect Rolls(x) = {}
BY DEF RollTypes, Compatible, Rolls, KskRolls, ZskRolls

LEMMA CapabilityIs ==
  \A t \in {"KSK", "ZSK", "CSK"} : "present" \in Capability[t] /\ Capability[t] \subseteq Flags
BY DEF Capability, Flags

-----------------------------------------------------------------------------
(* What a step of a roll does to a key.                                    *)

NewFlags(key, r, phase) ==
  IF phase \in CacheExpire \/ key.type \notin Rolls(r) THEN key.flags
  ELSE IF key.old THEN key.flags \ Plan[r][phase].take
  ELSE key.flags \union (Plan[r][phase].give \intersect Capability[key.type])

LEMMA AppliedKey ==
  ASSUME NEW set, NEW r, NEW phase, NEW wait, NEW k \in DOMAIN set.keys,
         DOMAIN set.keys[k] = KeyFields
  PROVE  LET new == Entered(set, r, phase, wait).keys[k]
         IN  /\ DOMAIN new = KeyFields
             /\ \A f \in KeyFields \ {"flags"} : new[f] = set.keys[k][f]
             /\ new.flags = NewFlags(set.keys[k], r, phase)
<1> DEFINE key == set.keys[k]
           new == Entered(set, r, phase, wait).keys[k]
           step == Plan[r][phase]
<1>1. CASE phase \in CacheExpire
  <2>1. new = key
    BY <1>1 DEF Entered
  <2> QED
    BY <1>1, <2>1 DEF NewFlags
<1>2. CASE phase \notin CacheExpire
  <2>1. new = IF key.type \notin Rolls(r) THEN key
              ELSE IF key.old THEN [key EXCEPT !.flags = @ \ step.take]
              ELSE [key EXCEPT !.flags = @ \union (step.give \intersect Capability[key.type])]
    BY <1>2 DEF Entered, Applied
  <2>2. DOMAIN key = KeyFields
    OBVIOUS
  <2>3. NewFlags(key, r, phase) =
          IF key.type \notin Rolls(r) THEN key.flags
          ELSE IF key.old THEN key.flags \ step.take
          ELSE key.flags \union (step.give \intersect Capability[key.type])
    BY <1>2 DEF NewFlags
  <2> HIDE DEF key, new, step
  <2>4. CASE key.type \notin Rolls(r)
    BY <2>1, <2>2, <2>3, <2>4 DEF key, new
  <2>5. CASE key.type \in Rolls(r) /\ key.old
    <3>1. new = [key EXCEPT !.flags = key.flags \ step.take]
      BY <2>1, <2>5
    <3> QED
      BY <2>2, <2>3, <2>5, <3>1 DEF KeyFields, key, new
  <2>6. CASE key.type \in Rolls(r) /\ ~key.old
    <3>1. new = [key EXCEPT !.flags =
                   key.flags \union (step.give \intersect Capability[key.type])]
      BY <2>1, <2>6
    <3> QED
      BY <2>2, <2>3, <2>6, <3>1 DEF KeyFields, key, new
  <2> QED
    BY <2>4, <2>5, <2>6
<1> QED
  BY <1>1, <1>2
(* A key before a roll enters a phase: of the flags of its type, the new   *)
(* keys have got these and the old ones have lost those.                   *)
BeforeStep(k, key, r, rolls, got, lost) ==
  /\ KeyTyped(k, key)
  /\ k[2] = "previous" => key.old
  /\ key.old => "present" \in key.flags \/ key.withdrawn # {}
  /\ key.type \in Rolls(r) =>
       \/ stale(key)
       \/ key.flags = IF key.old THEN Capability[key.type] \ lost
                      ELSE Capability[key.type] \intersect got
  /\ key.type \notin Rolls(r) => FlagsFine(key, rolls)

LEMMA StampedKey ==
  ASSUME NEW before, NEW set, NEW k \in DOMAIN set.keys, DOMAIN set.keys[k] = KeyFields,
         "keys" \in DOMAIN set
  PROVE  LET key == set.keys[k]
             new == Stamped(before, set).keys[k]
         IN  /\ DOMAIN new = KeyFields
             /\ new.type = key.type /\ new.alg = key.alg
             /\ new.old = key.old /\ new.flags = key.flags
             /\ new.published = IF "present" \in key.flags \ before.keys[k].flags
                                THEN {0} ELSE key.published
             /\ new.withdrawn = IF "present" \in before.keys[k].flags \ key.flags
                                THEN {0} ELSE key.withdrawn
<1> DEFINE key == set.keys[k]
           new == Stamped(before, set).keys[k]
           published == IF "present" \in key.flags \ before.keys[k].flags
                        THEN {0} ELSE key.published
           withdrawn == IF "present" \in before.keys[k].flags \ key.flags
                        THEN {0} ELSE key.withdrawn
<1>1. new = [key EXCEPT !.published = published, !.withdrawn = withdrawn]
  BY DEF Stamped
<1>2. DOMAIN key = KeyFields
  OBVIOUS
<1> HIDE DEF key, new, published, withdrawn
<1>3. /\ DOMAIN new = KeyFields /\ new.type = key.type /\ new.alg = key.alg
      /\ new.old = key.old /\ new.flags = key.flags
      /\ new.published = published /\ new.withdrawn = withdrawn
  BY <1>1, <1>2 DEF KeyFields
<1> QED
  BY <1>3 DEF key, new, published, withdrawn

LEMMA StampedFields ==
  ASSUME NEW before, NEW set, DOMAIN set = {"keys", "rolls"}
  PROVE  /\ DOMAIN Stamped(before, set) = {"keys", "rolls"}
         /\ DOMAIN Stamped(before, set).keys = DOMAIN set.keys
         /\ Stamped(before, set).rolls = set.rolls
BY DEF Stamped

LEMMA EnteredFields ==
  ASSUME NEW set, NEW r, NEW phase, NEW wait
  PROVE  LET new == Entered(set, r, phase, wait)
         IN  /\ DOMAIN new = {"keys", "rolls"}
             /\ DOMAIN new.keys = DOMAIN set.keys
             /\ DOMAIN new.rolls = DOMAIN set.rolls \union {r}
             /\ new.rolls[r] = [phase |-> phase, wait |-> wait]
             /\ \A x \in DOMAIN set.rolls \ {r} : new.rolls[x] = set.rolls[x]
BY DEF Entered, Applied

LEMMA NowIsAge == {0} \in KeyAges
<1>1. 0 \in 0 .. MaxAge
  BY CronNextAssumption
<1>2. {0} \in SUBSET (0 .. MaxAge) /\ \A t, u \in {0} : t = u
  BY <1>1
<1> QED
  BY <1>2 DEF KeyAges, Optional

LEMMA KeyEntered ==
  ASSUME NEW before, NEW set, NEW r \in RollTypes, NEW phase \in Phases, NEW wait,
         NEW k \in DOMAIN set.keys, k \in Names, NEW got, NEW lost,
         BeforeStep(k, set.keys[k], r, set.rolls, got, lost),
         before.keys[k].flags = set.keys[k].flags,
         DOMAIN set.rolls \subseteq Compatible(r) \union {r},
         phase \notin CacheExpire => phase \in Changing,
         Given(r, phase) = IF phase \in CacheExpire THEN got
                           ELSE got \union Plan[r][phase].give,
         Taken(r, phase) = IF phase \in CacheExpire THEN lost
                           ELSE lost \union Plan[r][phase].take
  PROVE  LET new == Entered(set, r, phase, wait)
         IN  KeyFine(k, Stamped(before, new).keys[k], new.rolls)
<1> DEFINE new == Entered(set, r, phase, wait)
           key == set.keys[k]
           mid == new.keys[k]
           fin == Stamped(before, new).keys[k]
<1>1. /\ KeyTyped(k, key)
      /\ k[2] = "previous" => key.old
      /\ key.old => "present" \in key.flags \/ key.withdrawn # {}
      /\ key.type \in Rolls(r) =>
           \/ stale(key)
           \/ key.flags = IF key.old THEN Capability[key.type] \ lost
                          ELSE Capability[key.type] \intersect got
      /\ key.type \notin Rolls(r) => FlagsFine(key, set.rolls)
  BY DEF BeforeStep
<1>2. DOMAIN key = KeyFields /\ key.type = k[1] /\ key.alg \in Algorithms
      /\ key.old \in BOOLEAN /\ key.flags \subseteq Flags
      /\ key.published \in KeyAges /\ key.withdrawn \in KeyAges
  BY <1>1 DEF KeyTyped
<1>3. /\ DOMAIN mid = KeyFields
      /\ mid.type = key.type /\ mid.alg = key.alg /\ mid.old = key.old
      /\ mid.published = key.published /\ mid.withdrawn = key.withdrawn
      /\ mid.flags = NewFlags(key, r, phase)
  BY <1>2, AppliedKey DEF KeyFields
<1>4. /\ DOMAIN new = {"keys", "rolls"}
      /\ DOMAIN new.keys = DOMAIN set.keys
      /\ DOMAIN new.rolls = DOMAIN set.rolls \union {r}
      /\ new.rolls[r] = [phase |-> phase, wait |-> wait]
      /\ \A x \in DOMAIN set.rolls \ {r} : new.rolls[x] = set.rolls[x]
  BY EnteredFields
<1>5. /\ DOMAIN fin = KeyFields
      /\ fin.type = mid.type /\ fin.alg = mid.alg
      /\ fin.old = mid.old /\ fin.flags = mid.flags
      /\ fin.published = IF "present" \in mid.flags \ before.keys[k].flags
                         THEN {0} ELSE mid.published
      /\ fin.withdrawn = IF "present" \in before.keys[k].flags \ mid.flags
                         THEN {0} ELSE mid.withdrawn
  BY <1>3, <1>4, StampedKey
<1>6. before.keys[k].flags = key.flags
  OBVIOUS
<1> HIDE DEF new, key, mid, fin
<1>7. key.type \in {"KSK", "ZSK", "CSK"}
  BY <1>2 DEF Names
<1>8. Capability[key.type] \subseteq Flags
  BY <1>7, CapabilityIs
<1>9. KeyTyped(k, fin)
  <2>1. fin.flags \subseteq Flags
    BY <1>2, <1>3, <1>5, <1>8 DEF NewFlags
  <2>2. fin.published \in KeyAges /\ fin.withdrawn \in KeyAges
    BY <1>2, <1>3, <1>5, NowIsAge
  <2> QED
    BY <1>2, <1>3, <1>5, <2>1, <2>2 DEF KeyTyped
<1>10. fin.old => "present" \in fin.flags \/ fin.withdrawn # {}
  BY <1>1, <1>3, <1>5, <1>6
<1>11. FlagsFine(fin, new.rolls)
  <2>1. CASE stale(key)
    <3>1. fin.flags = {}
      BY <1>3, <1>5, <2>1 DEF NewFlags, stale
    <3> QED
      BY <1>3, <1>5, <2>1, <3>1 DEF FlagsFine, stale
  <2>2. CASE ~stale(key) /\ key.type \in Rolls(r)
    <3>1. fin.flags = RolledFlags(fin, r, phase)
      <4>1. key.flags = IF key.old THEN Capability[key.type] \ lost
                        ELSE Capability[key.type] \intersect got
        BY <1>1, <2>2
      <4>2. fin.flags = IF phase \in CacheExpire THEN key.flags
                        ELSE IF key.old THEN key.flags \ Plan[r][phase].take
                        ELSE key.flags \union (Plan[r][phase].give \intersect Capability[key.type])
        BY <1>3, <1>5, <2>2 DEF NewFlags
      <4>3. CASE key.old
        BY <1>3, <1>5, <4>1, <4>2, <4>3 DEF RolledFlags
      <4>4. CASE ~key.old
        BY <1>3, <1>5, <4>1, <4>2, <4>4 DEF RolledFlags
      <4> QED
        BY <4>3, <4>4
    <3>2. ASSUME NEW x \in DOMAIN new.rolls, fin.type \in Rolls(x)
          PROVE  x = r
      <4>1. x \in Compatible(r) => Rolls(r) \intersect Rolls(x) = {}
        BY CompatibleDisjoint
      <4> QED
        BY <1>3, <1>4, <1>5, <2>2, <3>2, <4>1
    <3>3. new.rolls[r].phase = phase
      BY <1>4
    <3> QED
      BY <1>3, <1>4, <1>5, <2>2, <3>1, <3>2, <3>3 DEF FlagsFine
  <2>3. CASE ~stale(key) /\ key.type \notin Rolls(r)
    <3>1. FlagsFine(key, set.rolls)
      BY <1>1, <2>3
    <3>2. fin.flags = key.flags
      BY <1>3, <1>5, <2>3 DEF NewFlags
    <3>3. \A x : RolledFlags(fin, r, x) = RolledFlags(key, r, x)
      BY <1>3, <1>5 DEF RolledFlags
    <3>4. ASSUME NEW x \in DOMAIN new.rolls, fin.type \in Rolls(x)
          PROVE  fin.flags = RolledFlags(fin, x, new.rolls[x].phase)
      <4>1. x \in DOMAIN set.rolls /\ new.rolls[x] = set.rolls[x]
        BY <1>3, <1>4, <1>5, <2>3, <3>4
      <4>2. key.flags = RolledFlags(key, x, set.rolls[x].phase)
        BY <1>3, <1>5, <2>3, <3>1, <3>4, <4>1 DEF FlagsFine
      <4> QED
        BY <1>3, <1>5, <3>2, <4>1, <4>2 DEF RolledFlags
    <3>5. ASSUME \A x \in DOMAIN new.rolls : fin.type \notin Rolls(x)
          PROVE  ~fin.old /\ fin.flags = Capability[fin.type]
      BY <1>3, <1>4, <1>5, <2>3, <3>1, <3>2, <3>5 DEF FlagsFine
    <3> QED
      BY <3>4, <3>5 DEF FlagsFine
  <2> QED
    BY <2>1, <2>2, <2>3
<1>12. k[2] = "previous" => fin.old
  BY <1>1, <1>3, <1>5
<1>13. KeyFine(k, fin, new.rolls)
  BY <1>9, <1>10, <1>11, <1>12 DEF KeyFine
<1> QED
  BY <1>13 DEF new, fin
-----------------------------------------------------------------------------
(* The key set after a step, a start and the end of a roll.                *)

LEMMA RollsEntered ==
  ASSUME NEW set, NEW r \in RollTypes, NEW phase \in Phases, NEW wait \in 0 .. TTL,
         set.rolls \in [DOMAIN set.rolls -> RollState(TTL)],
         DOMAIN set.rolls \subseteq RollTypes,
         \A x \in DOMAIN set.rolls : DOMAIN set.rolls \subseteq Compatible(x) \union {x},
         DOMAIN set.rolls \subseteq Compatible(r) \union {r}
  PROVE  LET new == Entered(set, r, phase, wait)
         IN  /\ new.rolls \in [DOMAIN new.rolls -> RollState(TTL)]
             /\ DOMAIN new.rolls \subseteq RollTypes
             /\ \A x \in DOMAIN new.rolls : DOMAIN new.rolls \subseteq Compatible(x) \union {x}
<1> DEFINE new == Entered(set, r, phase, wait)
           state == [phase |-> phase, wait |-> wait]
<1>1. new.rolls = [x \in DOMAIN set.rolls \union {r} |-> IF x = r THEN state ELSE set.rolls[x]]
  BY DEF Entered
<1>2. state \in RollState(TTL)
  BY DEF RollState
<1> HIDE DEF new, state
<1>3. DOMAIN new.rolls = DOMAIN set.rolls \union {r}
  BY <1>1
<1>4. new.rolls \in [DOMAIN new.rolls -> RollState(TTL)]
  BY <1>1, <1>2
<1>5. ASSUME NEW x \in DOMAIN new.rolls, NEW y \in DOMAIN new.rolls
      PROVE  y \in Compatible(x) \union {x}
  BY <1>3, CompatibleDisjoint
<1> QED
  BY <1>3, <1>4, <1>5 DEF new

LEMMA SetStepped ==
  ASSUME NEW set, SetSound(set), NEW r \in DOMAIN set.rolls, NEW phase,
         Follows(set.rolls[r].phase, phase), NEW wait \in 0 .. TTL
  PROVE  SetSound(Stamped(set, Entered(set, r, phase, wait)))
<1> DEFINE new == Entered(set, r, phase, wait)
           fin == Stamped(set, new)
           p == set.rolls[r].phase
<1>1. r \in RollTypes /\ DOMAIN set.rolls \subseteq Compatible(r) \union {r}
  BY DEF SetSound
<1>2. /\ phase \in Phases /\ p # phase
      /\ phase \notin CacheExpire => phase \in Changing
      /\ Given(r, phase) = IF phase \in CacheExpire THEN Given(r, p)
                           ELSE Given(r, p) \union Plan[r][phase].give
      /\ Taken(r, phase) = IF phase \in CacheExpire THEN Taken(r, p)
                           ELSE Taken(r, p) \union Plan[r][phase].take
  BY PhaseFollows
<1>3. /\ DOMAIN new = {"keys", "rolls"}
      /\ DOMAIN new.keys = DOMAIN set.keys
      /\ DOMAIN new.rolls = DOMAIN set.rolls \union {r}
      /\ new.rolls[r] = [phase |-> phase, wait |-> wait]
      /\ \A x \in DOMAIN set.rolls \ {r} : new.rolls[x] = set.rolls[x]
  BY EnteredFields
<1>4. /\ DOMAIN fin = {"keys", "rolls"} /\ DOMAIN fin.keys = DOMAIN set.keys
      /\ fin.rolls = new.rolls
  BY <1>3, StampedFields
<1>5. /\ new.rolls \in [DOMAIN new.rolls -> RollState(TTL)]
      /\ DOMAIN new.rolls \subseteq RollTypes
      /\ \A x \in DOMAIN new.rolls : DOMAIN new.rolls \subseteq Compatible(x) \union {x}
  BY <1>1, <1>2, RollsEntered DEF SetSound
<1>6. ASSUME NEW k \in DOMAIN set.keys
      PROVE  KeyFine(k, fin.keys[k], new.rolls)
  <2> DEFINE key == set.keys[k]
  <2>1. k \in Names /\ KeyFine(k, key, set.rolls)
    BY DEF SetSound
  <2>2. BeforeStep(k, key, r, set.rolls, Given(r, p), Taken(r, p))
    BY <2>1 DEF KeyFine, BeforeStep, FlagsFine, RolledFlags
  <2> QED
    BY <1>1, <1>2, <2>1, <2>2, KeyEntered
<1> HIDE DEF new, fin
<1>7. SetSound(fin)
  BY <1>4, <1>5, <1>6 DEF SetSound
<1> QED
  BY <1>7 DEF new, fin

LEMMA SetStarted ==
  ASSUME NEW set, SetSound(set), NEW r \in RollTypes, DOMAIN set.rolls \subseteq Compatible(r),
         NEW types, types \subseteq Rolls(r) \intersect {"KSK", "ZSK", "CSK"},
         NEW alg \in Algorithms,
         NEW added, added = AddKeys(set, types, alg),
         NEW old, old = {k \in DOMAIN added.keys :
                           added.keys[k].type \in Rolls(r) /\ ~stale(added.keys[k])}
                          \ (types \X {"new"})
  PROVE  SetSound(Stamped(added, start_roll(added, r, old)))
<1> DEFINE marked == [added EXCEPT !.keys =
                        [k \in DOMAIN added.keys |->
                           [added.keys[k] EXCEPT !.old = @ \/ k \in old]]]
           new == Entered(marked, r, "Propagation1", 0)
           fin == Stamped(added, new)
           fresh(k) == [type |-> k[1], alg |-> alg, old |-> FALSE, flags |-> {},
                        published |-> {}, withdrawn |-> {}]
           moved == {<<t, "previous">> : t \in {u \in types : <<u, "new">> \in DOMAIN set.keys}}
<1>1. /\ DOMAIN added = {"keys", "rolls"} /\ added.rolls = set.rolls
      /\ DOMAIN added.keys = DOMAIN set.keys \union (types \X {"new"}) \union moved
      /\ \A k \in DOMAIN added.keys :
           added.keys[k] = IF k \in types \X {"new"} THEN fresh(k)
                           ELSE IF k \in moved THEN set.keys[<<k[1], "new">>]
                           ELSE set.keys[k]
  BY DEF AddKeys, SetSound
<1> HIDE DEF moved
<1>2. /\ DOMAIN marked = {"keys", "rolls"} /\ marked.rolls = set.rolls
      /\ DOMAIN marked.keys = DOMAIN added.keys
      /\ \A k \in DOMAIN added.keys :
           marked.keys[k] = [added.keys[k] EXCEPT !.old = @ \/ k \in old]
  BY <1>1
<1>3. start_roll(added, r, old) = new
  BY DEF start_roll
<1>4. DOMAIN added.keys \subseteq Names
  <2>1. types \X {"new"} \subseteq Names
    BY DEF Names
  <2>2. ASSUME NEW k \in moved
        PROVE  k \in Names
    <3>1. PICK t \in types : k = <<t, "previous">>
      BY <2>2 DEF moved
    <3> QED
      BY <3>1 DEF Names
  <2> QED
    BY <1>1, <2>1, <2>2 DEF SetSound
<1> HIDE DEF marked
<1>5. ASSUME NEW k \in DOMAIN added.keys
      PROVE  /\ BeforeStep(k, marked.keys[k], r, set.rolls, {}, {})
             /\ added.keys[k].flags = marked.keys[k].flags
  <2> DEFINE a == added.keys[k]
             m == marked.keys[k]
  <2>1. CASE k \in types \X {"new"}
    <3>1. a = fresh(k) /\ k \notin old
      BY <1>1, <2>1
    <3>2. k[2] = "new" /\ k[1] \in types
      BY <2>1
    <3>3. fresh(k).old = FALSE /\ DOMAIN fresh(k) = KeyFields
      BY DEF KeyFields
    <3>4. /\ fresh(k).type = k[1] /\ fresh(k).alg = alg /\ fresh(k).flags = {}
          /\ fresh(k).published = {} /\ fresh(k).withdrawn = {}
      OBVIOUS
    <3> HIDE DEF fresh
    <3>5. m = [fresh(k) EXCEPT !.old = fresh(k).old \/ k \in old]
      BY <1>2, <3>1
    <3>6. /\ DOMAIN m = KeyFields /\ m.type = k[1] /\ m.alg = alg /\ m.flags = {}
          /\ m.published = {} /\ m.withdrawn = {} /\ m.old = (fresh(k).old \/ k \in old)
      BY <3>3, <3>4, <3>5 DEF KeyFields
    <3>7. {} \in KeyAges
      BY DEF KeyAges, Optional
    <3> HIDE DEF m
    <3>8. m.old = FALSE
      BY <3>1, <3>3, <3>6
    <3>9. KeyTyped(k, m)
      BY <3>6, <3>7, <3>8 DEF KeyTyped
    <3>10. BeforeStep(k, m, r, set.rolls, {}, {})
      BY <3>2, <3>6, <3>8, <3>9 DEF BeforeStep
    <3> QED
      BY <3>1, <3>4, <3>6, <3>10 DEF m
  <2>2. CASE k \notin types \X {"new"}
    <3>1. PICK source : /\ source \in DOMAIN set.keys /\ a = set.keys[source]
                        /\ source[1] = k[1]
                        /\ source = k \/ (k[1] \in types /\ source[2] = "new")
      <4>1. CASE k \in moved
        <5>1. PICK t \in types : k = <<t, "previous">> /\ <<t, "new">> \in DOMAIN set.keys
          BY <4>1 DEF moved
        <5>2. k[1] = t
          BY <5>1
        <5>3. a = set.keys[<<t, "new">>]
          BY <1>1, <2>2, <4>1, <5>2
        <5> QED
          BY <5>1, <5>2, <5>3
      <4>2. CASE k \notin moved
        BY <1>1, <2>2, <4>2
      <4> QED
        BY <4>1, <4>2
    <3>2. KeyFine(source, a, set.rolls)
      BY <3>1 DEF SetSound
    <3>3. /\ DOMAIN a = KeyFields /\ a.type = k[1] /\ a.alg \in Algorithms
          /\ a.old \in BOOLEAN /\ a.flags \subseteq Flags
          /\ a.published \in KeyAges /\ a.withdrawn \in KeyAges
          /\ a.old => "present" \in a.flags \/ a.withdrawn # {}
          /\ FlagsFine(a, set.rolls)
      BY <3>1, <3>2 DEF KeyFine, KeyTyped
    <3>4. k \in old <=> a.type \in Rolls(r) /\ ~stale(a)
      BY <2>2
    <3>5. k \in Names
      BY <1>4
    <3>6. m = [a EXCEPT !.old = @ \/ k \in old]
      BY <1>2
    <3> HIDE DEF a, m
    <3>7. /\ DOMAIN m = KeyFields /\ m.type = a.type /\ m.alg = a.alg
          /\ m.old = (a.old \/ k \in old) /\ m.flags = a.flags
          /\ m.published = a.published /\ m.withdrawn = a.withdrawn
      BY <3>3, <3>6 DEF KeyFields
    <3>8. KeyTyped(k, m)
      BY <3>3, <3>7 DEF KeyTyped
    <3>9. a.type \in Rolls(r) => stale(a) \/ (~a.old /\ a.flags = Capability[a.type])
      <4>1. \A x \in DOMAIN set.rolls : a.type \in Rolls(r) => a.type \notin Rolls(x)
        BY CompatibleDisjoint
      <4> QED
        BY <3>3, <4>1 DEF FlagsFine
    <3>10. "present" \in Capability[a.type]
      <4>1. a.type \in {"KSK", "ZSK", "CSK"}
        BY <3>3, <3>5 DEF Names
      <4> QED
        BY <4>1, CapabilityIs
    <3>11. k[2] = "previous" => m.old
      <4>1. CASE source = k
        BY <3>2, <3>7, <4>1 DEF KeyFine
      <4>2. CASE k[1] \in types
        BY <3>3, <3>4, <3>7, <4>2 DEF stale
      <4> QED
        BY <3>1, <4>1, <4>2
    <3>12. m.old => "present" \in m.flags \/ m.withdrawn # {}
      BY <3>3, <3>4, <3>7, <3>9, <3>10
    <3>13. m.type \in Rolls(r) =>
             stale(m) \/ (m.old /\ m.flags = Capability[m.type])
      BY <3>4, <3>7, <3>9 DEF stale
    <3>14. m.type \notin Rolls(r) => FlagsFine(m, set.rolls)
      <4>1. m.type \notin Rolls(r) => m.old = a.old
        BY <3>3, <3>4, <3>7
      <4> QED
        BY <3>3, <3>7, <4>1 DEF FlagsFine, RolledFlags, stale
    <3>15. BeforeStep(k, m, r, set.rolls, {}, {})
      BY <3>8, <3>11, <3>12, <3>13, <3>14 DEF BeforeStep
    <3> QED
      BY <3>7, <3>15 DEF a, m
  <2> QED
    BY <2>1, <2>2
<1>6. /\ "Propagation1" \in Phases /\ "Propagation1" \notin CacheExpire
      /\ "Propagation1" \in Changing
      /\ Given(r, "Propagation1") = {} \union Plan[r]["Propagation1"].give
      /\ Taken(r, "Propagation1") = {} \union Plan[r]["Propagation1"].take
  BY DEF Phases, Propagation, CacheExpire, Changing, Given, Taken, Early
<1>7. 0 \in 0 .. TTL
  BY CronNextAssumption
<1>8. /\ DOMAIN new = {"keys", "rolls"} /\ DOMAIN new.keys = DOMAIN added.keys
  <2>1. /\ DOMAIN new = {"keys", "rolls"}
        /\ DOMAIN new.keys = DOMAIN marked.keys
        /\ DOMAIN new.rolls = DOMAIN marked.rolls \union {r}
        /\ new.rolls[r] = [phase |-> "Propagation1", wait |-> 0]
        /\ \A x \in DOMAIN marked.rolls \ {r} : new.rolls[x] = marked.rolls[x]
    BY EnteredFields
  <2> QED
    BY <1>2, <2>1
<1>9. /\ DOMAIN fin = {"keys", "rolls"} /\ DOMAIN fin.keys = DOMAIN added.keys
      /\ fin.rolls = new.rolls
  BY <1>8, StampedFields
<1>10. /\ new.rolls \in [DOMAIN new.rolls -> RollState(TTL)]
       /\ DOMAIN new.rolls \subseteq RollTypes
       /\ \A x \in DOMAIN new.rolls : DOMAIN new.rolls \subseteq Compatible(x) \union {x}
  <2>1. /\ marked.rolls \in [DOMAIN marked.rolls -> RollState(TTL)]
        /\ DOMAIN marked.rolls \subseteq RollTypes
        /\ \A x \in DOMAIN marked.rolls : DOMAIN marked.rolls \subseteq Compatible(x) \union {x}
        /\ DOMAIN marked.rolls \subseteq Compatible(r) \union {r}
    BY <1>2 DEF SetSound
  <2> QED
    BY <1>6, <1>7, <2>1, RollsEntered
<1>11. ASSUME NEW k \in DOMAIN added.keys
       PROVE  KeyFine(k, fin.keys[k], new.rolls)
  <2>1. /\ BeforeStep(k, marked.keys[k], r, marked.rolls, {}, {})
        /\ added.keys[k].flags = marked.keys[k].flags
    BY <1>2, <1>5
  <2>2. k \in Names /\ k \in DOMAIN marked.keys
    BY <1>2, <1>4
  <2>3. DOMAIN marked.rolls \subseteq Compatible(r) \union {r}
    BY <1>2
  <2> QED
    BY <1>6, <2>1, <2>2, <2>3, KeyEntered
<1> HIDE DEF new, fin
<1>12. SetSound(fin)
  BY <1>4, <1>9, <1>10, <1>11 DEF SetSound
<1> QED
  BY <1>3, <1>12 DEF fin
LEMMA SetDone ==
  ASSUME NEW set, SetSound(set), NEW r \in DOMAIN set.rolls, set.rolls[r].phase = "Done"
  PROVE  /\ SetSound(roll_done(set, r))
         /\ DOMAIN roll_done(set, r).rolls = DOMAIN set.rolls \ {r}
         /\ \A x \in DOMAIN set.rolls \ {r} : roll_done(set, r).rolls[x] = set.rolls[x]
<1> DEFINE fin == roll_done(set, r)
<1>1. /\ DOMAIN fin = {"keys", "rolls"} /\ fin.keys = set.keys
      /\ fin.rolls = [x \in DOMAIN set.rolls \ {r} |-> set.rolls[x]]
  BY DEF roll_done, SetSound
<1> HIDE DEF fin
<1>2. /\ DOMAIN fin.rolls = DOMAIN set.rolls \ {r}
      /\ \A x \in DOMAIN set.rolls \ {r} : fin.rolls[x] = set.rolls[x]
  BY <1>1
<1>3. ASSUME NEW k \in DOMAIN set.keys
      PROVE  KeyFine(k, set.keys[k], fin.rolls)
  <2> DEFINE key == set.keys[k]
  <2>1. k \in Names /\ KeyFine(k, key, set.rolls)
    BY DEF SetSound
  <2>2. key.type \in {"KSK", "ZSK", "CSK"} /\ key.flags \subseteq Flags /\ key.old \in BOOLEAN
    BY <2>1 DEF KeyFine, KeyTyped, Names
  <2>3. ASSUME key.type \in Rolls(r)
        PROVE  stale(key) \/ (~key.old /\ key.flags = Capability[key.type])
    <3>1. stale(key) \/ key.flags = RolledFlags(key, r, "Done")
      BY <2>1, <2>3 DEF KeyFine, FlagsFine
    <3>2. Capability[key.type] \subseteq Taken(r, "Done")
          /\ Capability[key.type] \subseteq Given(r, "Done")
      BY <2>3, PlanComplete DEF Complete, SetSound
    <3> HIDE DEF key
    <3> QED
      BY <2>2, <3>1, <3>2 DEF RolledFlags, stale
  <2>4. key.type \in Rolls(r) => \A x \in DOMAIN fin.rolls : key.type \notin Rolls(x)
    <3>1. \A x \in DOMAIN fin.rolls : x \in Compatible(r)
      BY <1>2 DEF SetSound
    <3>2. r \in RollTypes
      BY DEF SetSound
    <3> QED
      BY <3>1, <3>2, CompatibleDisjoint
  <2> HIDE DEF key
  <2>5. FlagsFine(key, fin.rolls)
    <3>1. CASE stale(key)
      BY <3>1 DEF FlagsFine
    <3>2. CASE ~stale(key) /\ key.type \in Rolls(r)
      BY <2>3, <2>4, <3>2 DEF FlagsFine
    <3>3. CASE ~stale(key) /\ key.type \notin Rolls(r)
      BY <1>2, <2>1, <3>3 DEF KeyFine, FlagsFine
    <3> QED
      BY <3>1, <3>2, <3>3
  <2> QED
    BY <2>1, <2>5 DEF KeyFine, key
<1>4. fin.rolls \in [DOMAIN fin.rolls -> RollState(TTL)]
  BY <1>1, <1>2 DEF SetSound
<1>5. SetSound(fin)
  BY <1>1, <1>2, <1>3, <1>4 DEF SetSound
<1> QED
  BY <1>2, <1>5 DEF fin

LEMMA SetRemoved ==
  ASSUME NEW set, SetSound(set), NEW gone
  PROVE  SetSound([set EXCEPT !.keys = [k \in DOMAIN @ \ gone |-> @[k]]])
<1> DEFINE fin == [set EXCEPT !.keys = [k \in DOMAIN @ \ gone |-> @[k]]]
<1>1. /\ DOMAIN fin = {"keys", "rolls"} /\ fin.rolls = set.rolls
      /\ DOMAIN fin.keys = DOMAIN set.keys \ gone
      /\ \A k \in DOMAIN fin.keys : fin.keys[k] = set.keys[k]
  BY DEF SetSound
<1> HIDE DEF fin
<1>2. SetSound(fin)
  BY <1>1 DEF SetSound
<1> QED
  BY <1>2 DEF fin

-----------------------------------------------------------------------------
(* The state after a step, a start and the end of a roll.                  *)

Number == [Propagation1 |-> 1, CacheExpire1 |-> 2, Propagation2 |-> 3,
           CacheExpire2 |-> 4, Done |-> 5]

(* How far a roll has come. *)
Rank(s, r) == IF r \in DOMAIN s.keyset.rolls THEN Number[s.keyset.rolls[r].phase] ELSE 0

(* The other rolls, and their reports, are as before. *)
OthersSame(s, t, r) ==
  /\ DOMAIN t.keyset.rolls \ {r} = DOMAIN s.keyset.rolls \ {r}
  /\ \A x \in DOMAIN s.keyset.rolls \ {r} :
       t.keyset.rolls[x] = s.keyset.rolls[x] /\ t.internal[x] = s.internal[x]

LEMMA FollowsNumber ==
  ASSUME NEW p, NEW phase, Follows(p, phase)
  PROVE  Number[phase] = Number[p] + 1 /\ Number[p] \in 1 .. 4
BY DEF Follows, Number

LEMMA SigsHave == {} \in Sigs /\ {Lifetime} \in Sigs
<1>1. Lifetime \in Remain - 1 .. Lifetime
  BY CronNextAssumption
<1> DEFINE S == Remain - 1 .. Lifetime
<1> HIDE DEF S
<1>2. {Lifetime} \in SUBSET S /\ {} \in SUBSET S
  BY <1>1 DEF S
<1>3. {} \in Optional(S) /\ {Lifetime} \in Optional(S)
  BY <1>2 DEF Optional
<1> QED
  BY <1>3 DEF Sigs, S

LEMMA NoReportsTyped == NoReports \in [Checks -> Statuses]
<1>1. NoStatus \in Statuses
  BY CronNextAssumption DEF NoStatus, Statuses, RrsigForms
<1> QED
  BY <1>1 DEF NoReports

LEMMA SteppedFields ==
  ASSUME NEW s, DOMAIN s = StateFields, NEW r, NEW set
  PROVE  LET t == Stepped(s, r, set)
         IN  /\ IsState(t)
             /\ t.keyset = Stamped(s.keyset, set)
             /\ t.dnskey_rrset \in {s.dnskey_rrset, {Lifetime}}
             /\ t.cds_rrset \in {s.cds_rrset, {Lifetime}, {}}
             /\ t.internal = [x \in DOMAIN s.internal \union {r} |->
                                IF x = r THEN NoReports ELSE s.internal[x]]
             /\ t.changed = TRUE
<1> DEFINE acts == actions(r, set.rolls[r].phase)
           mid == handle_actions(s, acts)
           t == Stepped(s, r, set)
<1>1. /\ DOMAIN mid = StateFields
      /\ mid.dnskey_rrset \in {s.dnskey_rrset, {Lifetime}}
      /\ mid.cds_rrset \in {s.cds_rrset, {Lifetime}, {}}
      /\ mid.internal = s.internal
  BY DEF handle_actions, StateFields
<1>2. t = [mid EXCEPT !.keyset = Stamped(s.keyset, set),
                      !.internal = [x \in DOMAIN @ \union {r} |->
                                      IF x = r THEN NoReports ELSE @[x]],
                      !.changed = TRUE]
  BY DEF Stepped
<1> HIDE DEF mid, t
<1>3. /\ IsState(t)
      /\ t.keyset = Stamped(s.keyset, set)
      /\ t.dnskey_rrset = mid.dnskey_rrset /\ t.cds_rrset = mid.cds_rrset
      /\ t.internal = [x \in DOMAIN mid.internal \union {r} |->
                                IF x = r THEN NoReports ELSE mid.internal[x]]
      /\ t.changed = TRUE
  BY <1>1, <1>2 DEF StateFields, IsState
<1> QED
  BY <1>1, <1>3 DEF t

(* A state without the soundness of the key set. *)
RestSound(s) ==
  /\ DOMAIN s = StateFields
  /\ s.changed \in BOOLEAN
  /\ s.dnskey_rrset \in Sigs /\ s.cds_rrset \in Sigs
  /\ s.internal \in [DOMAIN s.internal -> [Checks -> Statuses]]

LEMMA SteppedSound ==
  ASSUME NEW s, RestSound(s), NEW r, NEW set, DOMAIN set = {"keys", "rolls"},
         DOMAIN set.rolls = DOMAIN s.internal \union {r},
         SetSound(Stamped(s.keyset, set))
  PROVE  Sound(Stepped(s, r, set))
<1> DEFINE t == Stepped(s, r, set)
<1>1. /\ IsState(t)
      /\ t.keyset = Stamped(s.keyset, set)
      /\ t.dnskey_rrset \in {s.dnskey_rrset, {Lifetime}}
      /\ t.cds_rrset \in {s.cds_rrset, {Lifetime}, {}}
      /\ t.internal = [x \in DOMAIN s.internal \union {r} |->
                         IF x = r THEN NoReports ELSE s.internal[x]]
      /\ t.changed = TRUE
  BY SteppedFields DEF RestSound
<1>2. DOMAIN t.keyset.rolls = DOMAIN s.internal \union {r}
  BY <1>1, StampedFields
<1> HIDE DEF t
<1>3. t.dnskey_rrset \in Sigs /\ t.cds_rrset \in Sigs
  BY <1>1, SigsHave DEF RestSound
<1>4. t.internal \in [DOMAIN t.keyset.rolls -> [Checks -> Statuses]]
  BY <1>1, <1>2, NoReportsTyped DEF RestSound
<1>5. t.changed \in BOOLEAN
  BY <1>1
<1>6. Sound(t)
  BY <1>1, <1>3, <1>4, <1>5 DEF Sound
<1> QED
  BY <1>6 DEF t

LEMMA SoundRest ==
  ASSUME NEW s, Sound(s)
  PROVE  RestSound(s) /\ SetSound(s.keyset) /\ DOMAIN s.internal = DOMAIN s.keyset.rolls
BY DEF Sound, RestSound, IsState

(* The roll r moves from one phase to the next, or there is none. *)
Moved(s, t, r, from, to) ==
  /\ Sound(t) /\ t.changed = TRUE
  /\ OthersSame(s, t, r)
  /\ Rank(s, r) = from /\ Rank(t, r) = to

LEMMA StepMoves ==
  ASSUME NEW s, Sound(s), NEW r \in DOMAIN s.keyset.rolls, NEW phase,
         Follows(s.keyset.rolls[r].phase, phase), NEW wait \in 0 .. TTL
  PROVE  Moved(s, Stepped(s, r, Entered(s.keyset, r, phase, wait)), r,
               Rank(s, r), Rank(s, r) + 1)
<1> DEFINE set == s.keyset
           new == Entered(set, r, phase, wait)
           t == Stepped(s, r, new)
<1>1. RestSound(s) /\ SetSound(set) /\ DOMAIN s.internal = DOMAIN set.rolls
  BY SoundRest
<1>2. SetSound(Stamped(set, new))
  BY <1>1, SetStepped
<1>3. /\ DOMAIN new = {"keys", "rolls"}
      /\ DOMAIN new.keys = DOMAIN set.keys
      /\ DOMAIN new.rolls = DOMAIN set.rolls \union {r}
      /\ new.rolls[r] = [phase |-> phase, wait |-> wait]
      /\ \A x \in DOMAIN set.rolls \ {r} : new.rolls[x] = set.rolls[x]
  BY EnteredFields
<1>4. Stamped(set, new).rolls = new.rolls
  BY <1>3, StampedFields
<1>5. /\ IsState(t)
      /\ t.keyset = Stamped(set, new)
      /\ t.dnskey_rrset \in {s.dnskey_rrset, {Lifetime}}
      /\ t.cds_rrset \in {s.cds_rrset, {Lifetime}, {}}
      /\ t.internal = [x \in DOMAIN s.internal \union {r} |->
                         IF x = r THEN NoReports ELSE s.internal[x]]
      /\ t.changed = TRUE
  BY <1>1, SteppedFields DEF RestSound
<1>6. Sound(t)
  BY <1>1, <1>2, <1>3, SteppedSound
<1> HIDE DEF new, t
<1>7. OthersSame(s, t, r)
  BY <1>1, <1>3, <1>4, <1>5 DEF OthersSame
<1>8. Rank(t, r) = Rank(s, r) + 1
  BY <1>3, <1>4, <1>5, FollowsNumber DEF Rank
<1> QED
  BY <1>5, <1>6, <1>7, <1>8 DEF Moved, t, new

(* Nothing but the types of the keys differs between the rolls that start. *)
LEMMA StartMoves ==
  ASSUME NEW s, Sound(s), config \in Configs, NEW r \in RollTypes,
         DOMAIN s.keyset.rolls \subseteq Compatible(r)
  PROVE  Moved(s, start_roll_command(s, r), r, 0, 1)
<1> DEFINE set == s.keyset
           types == NewTypes(r)
           alg == config.algorithm
           more == AddKeys(set, types, alg)
           old == {k \in DOMAIN more.keys :
                     more.keys[k].type \in Rolls(r) /\ ~stale(more.keys[k])}
                    \ (types \X {"new"})
           added == [s EXCEPT !.keyset = AddKeys(@, types, alg)]
           new == start_roll(more, r, old)
           t == Stepped(added, r, new)
<1>1. RestSound(s) /\ SetSound(set) /\ DOMAIN s.internal = DOMAIN set.rolls
  BY SoundRest
<1>2. /\ DOMAIN added = StateFields /\ added.keyset = more
      /\ added.dnskey_rrset = s.dnskey_rrset /\ added.cds_rrset = s.cds_rrset
      /\ added.internal = s.internal /\ added.changed = s.changed
  BY <1>1 DEF RestSound, StateFields
<1>3. RestSound(added)
  BY <1>1, <1>2 DEF RestSound
<1>4. start_roll_command(s, r) = t
  BY <1>2 DEF start_roll_command, ActiveKeys
<1>5. types \subseteq Rolls(r) \intersect {"KSK", "ZSK", "CSK"}
  BY DEF NewTypes, Rolls, RollTypes, KskRolls, ZskRolls
<1>6. alg \in Algorithms
  BY DEF Algorithms
<1>7. SetSound(Stamped(more, new))
  BY <1>1, <1>5, <1>6, SetStarted
<1>8. /\ DOMAIN new = {"keys", "rolls"}
      /\ DOMAIN new.rolls = DOMAIN set.rolls \union {r}
      /\ new.rolls[r] = [phase |-> "Propagation1", wait |-> 0]
      /\ \A x \in DOMAIN set.rolls \ {r} : new.rolls[x] = set.rolls[x]
  <2>1. more.rolls = set.rolls /\ DOMAIN more = {"keys", "rolls"}
    BY <1>1 DEF AddKeys, SetSound
  <2> HIDE DEF more, old
  <2>2. PICK marked : marked = [more EXCEPT !.keys =
             [k \in DOMAIN more.keys |-> [more.keys[k] EXCEPT !.old = @ \/ k \in old]]]
    OBVIOUS
  <2>3. marked.rolls = set.rolls
    BY <2>1, <2>2
  <2>4. new = Entered(marked, r, "Propagation1", 0)
    BY <2>2 DEF start_roll
  <2>5. /\ DOMAIN new = {"keys", "rolls"}
        /\ DOMAIN new.keys = DOMAIN marked.keys
        /\ DOMAIN new.rolls = DOMAIN marked.rolls \union {r}
        /\ new.rolls[r] = [phase |-> "Propagation1", wait |-> 0]
        /\ \A x \in DOMAIN marked.rolls \ {r} : new.rolls[x] = marked.rolls[x]
    BY <2>4, EnteredFields
  <2> QED
    BY <2>3, <2>5
<1> HIDE DEF new, more, added
<1>9. Stamped(more, new).rolls = new.rolls
  BY <1>8, StampedFields
<1>10. /\ IsState(t)
       /\ t.keyset = Stamped(added.keyset, new)
       /\ t.dnskey_rrset \in {added.dnskey_rrset, {Lifetime}}
       /\ t.cds_rrset \in {added.cds_rrset, {Lifetime}, {}}
       /\ t.internal = [x \in DOMAIN added.internal \union {r} |->
                          IF x = r THEN NoReports ELSE added.internal[x]]
       /\ t.changed = TRUE
  BY <1>2, SteppedFields
<1>11. Sound(t)
  BY <1>1, <1>2, <1>3, <1>7, <1>8, SteppedSound
<1> HIDE DEF t
<1>12. r \notin DOMAIN set.rolls
  BY CompatibleDisjoint
<1>13. OthersSame(s, t, r)
  BY <1>1, <1>2, <1>8, <1>9, <1>10 DEF OthersSame
<1>14. Rank(s, r) = 0 /\ Rank(t, r) = 1
  BY <1>2, <1>8, <1>9, <1>10, <1>12 DEF Rank, Number
<1> QED
  BY <1>4, <1>10, <1>11, <1>13, <1>14 DEF Moved

LEMMA DoneMoves ==
  ASSUME NEW s, Sound(s), NEW r \in DOMAIN s.keyset.rolls, s.keyset.rolls[r].phase = "Done"
  PROVE  Moved(s, do_done(s, r), r, 5, 0)
<1> DEFINE set == s.keyset
           new == roll_done(set, r)
           t == do_done(s, r)
<1>1. RestSound(s) /\ SetSound(set) /\ DOMAIN s.internal = DOMAIN set.rolls
  BY SoundRest
<1>2. /\ SetSound(new)
      /\ DOMAIN new.rolls = DOMAIN set.rolls \ {r}
      /\ \A x \in DOMAIN set.rolls \ {r} : new.rolls[x] = set.rolls[x]
  BY <1>1, SetDone
<1>3. /\ IsState(t) /\ t.keyset = new
      /\ t.dnskey_rrset = s.dnskey_rrset /\ t.cds_rrset = {}
      /\ t.internal = [x \in DOMAIN s.internal \ {r} |-> s.internal[x]]
      /\ t.changed = TRUE
  BY <1>1 DEF do_done, RestSound, StateFields, IsState
<1> HIDE DEF new, t
<1>4. Sound(t)
  <2>1. t.internal \in [DOMAIN t.keyset.rolls -> [Checks -> Statuses]]
    BY <1>1, <1>2, <1>3 DEF RestSound
  <2>2. t.changed \in BOOLEAN
    BY <1>3
  <2> QED
    BY <1>1, <1>2, <1>3, <2>1, <2>2, SigsHave DEF Sound, RestSound
<1>5. OthersSame(s, t, r)
  BY <1>1, <1>2, <1>3 DEF OthersSame
<1>6. Rank(s, r) = 5 /\ Rank(t, r) = 0
  BY <1>2, <1>3 DEF Rank, Number
<1> QED
  BY <1>3, <1>4, <1>5, <1>6 DEF Moved, t

LEMMA PropagationMoves ==
  ASSUME NEW s, Sound(s), NEW r, InPhase(s, r, Propagation)
  PROVE  /\ Moved(s, Stepped(s, r, propagation_complete(s.keyset, r, TTL)), r,
                  Rank(s, r), Rank(s, r) + 1)
         /\ Rank(s, r) \in {1, 3}
<1> DEFINE p == s.keyset.rolls[r].phase
<1>1. r \in DOMAIN s.keyset.rolls /\ p \in Propagation
  BY DEF InPhase
<1>2. PICK phase : phase = IF p = "Propagation1" THEN "CacheExpire1" ELSE "CacheExpire2"
  OBVIOUS
<1>3. Follows(p, phase)
  BY <1>1, <1>2 DEF Propagation, Follows
<1>4. propagation_complete(s.keyset, r, TTL) = Entered(s.keyset, r, phase, TTL)
  BY <1>2 DEF propagation_complete
<1>5. TTL \in 0 .. TTL
  BY CronNextAssumption
<1>6. Rank(s, r) \in {1, 3}
  BY <1>1 DEF Rank, Number, Propagation
<1> QED
  BY <1>1, <1>3, <1>4, <1>5, <1>6, StepMoves

LEMMA ExpireMoves ==
  ASSUME NEW s, Sound(s), NEW r, InPhase(s, r, CacheExpire)
  PROVE  /\ Moved(s, Stepped(s, r, cache_expired(s.keyset, r)), r,
                  Rank(s, r), Rank(s, r) + 1)
         /\ Rank(s, r) \in {2, 4}
<1> DEFINE p == s.keyset.rolls[r].phase
<1>1. r \in DOMAIN s.keyset.rolls /\ p \in CacheExpire
  BY DEF InPhase
<1>2. PICK phase : phase = IF p = "CacheExpire1" THEN "Propagation2" ELSE "Done"
  OBVIOUS
<1>3. Follows(p, phase)
  BY <1>1, <1>2 DEF CacheExpire, Follows
<1>4. cache_expired(s.keyset, r) = Entered(s.keyset, r, phase, 0)
  BY <1>2 DEF cache_expired
<1>5. 0 \in 0 .. TTL
  BY CronNextAssumption
<1>6. Rank(s, r) \in {2, 4}
  BY <1>1 DEF Rank, Number, CacheExpire
<1> QED
  BY <1>1, <1>3, <1>4, <1>5, <1>6, StepMoves
-----------------------------------------------------------------------------
(* The checks of a roll.                                                   *)

LEMMA OutcomesTyped == \A out \in Outcomes : out.simple \in BOOLEAN /\ out.rrsig \in RrsigForms
<1> SUFFICES ASSUME NEW out \in Outcomes
             PROVE  out.simple \in BOOLEAN /\ out.rrsig \in RrsigForms
  OBVIOUS
<1>1. CASE \E f \in RrsigForms \ {"wait"} : out = [simple |-> TRUE, rrsig |-> f]
  BY <1>1
<1>2. CASE out = [simple |-> FALSE, rrsig |-> "wait"]
  BY <1>2 DEF RrsigForms
<1> QED
  BY <1>1, <1>2 DEF Outcomes

LEMMA StatusParts ==
  \A x \in Statuses : /\ DOMAIN x = {"form", "until"} /\ x.form \in RrsigForms \union {"none"}
                      /\ x.until \in 0 .. Retry /\ (x.form = "none" => x.until = 0)
BY DEF Statuses

LEMMA StatusMade ==
  ASSUME NEW form \in RrsigForms, NEW until \in 0 .. Retry
  PROVE  [form |-> form, until |-> until] \in Statuses
BY DEF Statuses, RrsigForms

(* What a check that is made leaves: a status. It differs from the one     *)
(* before it, but for the two cases of FollowUp.                           *)
LEMMA CheckTyped ==
  ASSUME NEW status \in Statuses, NEW c, NEW phase, NEW out \in Outcomes
  PROVE  Check(status, c, phase, out) \in Statuses
<1>1. out.simple \in BOOLEAN /\ out.rrsig \in RrsigForms
  BY OutcomesTyped
<1>2. 0 \in 0 .. Retry /\ Retry \in 0 .. Retry
  BY CronNextAssumption
<1>3. \A form \in RrsigForms : /\ [form |-> form, until |-> 0] \in Statuses
                               /\ [form |-> form, until |-> Retry] \in Statuses
  BY <1>2, StatusMade
<1>4. "report" \in RrsigForms /\ "wait" \in RrsigForms
  BY DEF RrsigForms
<1>5. [form |-> out.rrsig, until |-> IF out.rrsig = "report" THEN 0 ELSE Retry] \in Statuses
  BY <1>1, <1>3
<1>6. ASSUME status.form \in {"soa", "record", "serial"}
      PROVE  FollowUp(status, phase, out) \in Statuses
  <2>1. DOMAIN status = {"form", "until"} /\ status.form \in RrsigForms
    BY <1>6, StatusParts DEF RrsigForms
  <2>2. [status EXCEPT !.until = Retry] = [form |-> status.form, until |-> Retry]
    BY <2>1, StatusParts DEF Statuses
  <2>3. [status EXCEPT !.until = Retry] \in Statuses
    BY <1>3, <2>1, <2>2
  <2> QED
    BY <1>3, <1>4, <1>5, <2>3 DEF FollowUp
<1> QED
  BY <1>3, <1>4, <1>5, <1>6 DEF Check

OldTime(status, phase) ==
  /\ ~Blocked(status)
  /\ status.form = "serial" \/ (status.form = "soa" /\ phase = "Done")

LEMMA CheckDiffers ==
  ASSUME NEW status \in Statuses, NEW c, NEW phase, NEW out \in Outcomes,
         ~Reported(status), ~Blocked(status)
  PROVE  \/ Check(status, c, phase, out) # status
         \/ ~out.simple /\ c = "rrsig" /\ OldTime(status, phase)
<1> SUFFICES ASSUME Check(status, c, phase, out) = status
             PROVE  ~out.simple /\ c = "rrsig" /\ OldTime(status, phase)
  OBVIOUS
<1>1. out.simple \in BOOLEAN /\ out.rrsig \in RrsigForms
  BY OutcomesTyped
<1>2. /\ status.form # "report"
      /\ status.form = "none" \/ ~(status.until > 0)
  BY DEF Reported, Blocked
<1>3. Retry \in Nat /\ Retry > 0 /\ status.until \in Nat
  BY CronNextAssumption, StatusParts
<1>4. status # [form |-> "report", until |-> 0]
  BY <1>2
<1>5. status # [form |-> "wait", until |-> Retry]
  BY <1>2, <1>3
<1>6. status # [form |-> out.rrsig, until |-> IF out.rrsig = "report" THEN 0 ELSE Retry]
  BY <1>1, <1>2, <1>3 DEF RrsigForms
<1>7. c = "rrsig" /\ status.form \in {"soa", "record", "serial"}
  BY <1>4, <1>5, <1>6 DEF Check
<1>8. FollowUp(status, phase, out) = status
  BY <1>7 DEF Check
<1>9. ~out.simple
  BY <1>4, <1>6, <1>8 DEF FollowUp
<1>10. status # [status EXCEPT !.until = Retry]
  BY <1>2, <1>3, <1>7, StatusParts
<1>11. status.form = "serial" \/ (status.form = "soa" /\ phase = "Done")
  BY <1>8, <1>9, <1>10 DEF FollowUp
<1> QED
  BY <1>7, <1>9, <1>11 DEF OldTime

LEMMA FirstCheck ==
  ASSUME NEW S, S \subseteq Checks, S # {}
  PROVE  \E x \in S : \A y \in S : CheckOrder[x] <= CheckOrder[y]
<1>1. CASE "dnskey" \in S
  BY <1>1 DEF Checks, CheckOrder
<1>2. CASE "dnskey" \notin S /\ "ds" \in S
  BY <1>2 DEF Checks, CheckOrder
<1>3. CASE "dnskey" \notin S /\ "ds" \notin S
  <2>1. "rrsig" \in S /\ \A y \in S : y = "rrsig"
    BY <1>3 DEF Checks
  <2> QED
    BY <2>1 DEF CheckOrder
<1> QED
  BY <1>1, <1>2, <1>3

LEMMA OrderOfChecks ==
  \A x, y \in Checks : /\ CheckOrder[x] \in Nat
                       /\ CheckOrder[x] = CheckOrder[y] => x = y
BY DEF Checks, CheckOrder

LEMMA NeededChecks == \A r, phase : Needed(r, phase) \subseteq Checks
BY DEF Needed, CheckOf, Checks

(* The checks that have not succeeded, and the first of them. *)
Open(s, r) == {x \in Needed(r, s.keyset.rolls[r].phase) : ~Reported(s.internal[r][x])}
First(s, r) ==
  CHOOSE x \in Open(s, r) : \A y \in Open(s, r) : CheckOrder[x] <= CheckOrder[y]

LEMMA CheckTime ==
  ASSUME NEW s, NEW r
  PROVE  check_auto_actions(s, r) = IF Open(s, r) = {} THEN 0
                                    ELSE s.internal[r][First(s, r)].until
BY DEF check_auto_actions, Open, First

LEMMA FirstOpen ==
  ASSUME NEW s, NEW r, Open(s, r) # {}
  PROVE  First(s, r) \in Open(s, r)
         /\ \A y \in Open(s, r) : CheckOrder[First(s, r)] <= CheckOrder[y]
<1>1. Open(s, r) \subseteq Checks
  BY NeededChecks DEF Open
<1>2. \E x \in Open(s, r) : \A y \in Open(s, r) : CheckOrder[x] <= CheckOrder[y]
  BY <1>1, FirstCheck
<1> QED
  BY <1>2 DEF First
(* Two states that differ in no more than the reports of the roll r, and   *)
(* in whether that is to be written.                                       *)
OnlyReports(s, t, r) ==
  /\ Sound(t)
  /\ t.keyset = s.keyset
  /\ t.dnskey_rrset = s.dnskey_rrset /\ t.cds_rrset = s.cds_rrset
  /\ \A x \in DOMAIN s.internal \ {r} : t.internal[x] = s.internal[x]
  /\ s.changed => t.changed

(* A check is made that leaves what it found. *)
Circles(s, r, out) ==
  /\ ~out.simple /\ r \in DOMAIN s.keyset.rolls
  /\ OldTime(s.internal[r]["rrsig"], s.keyset.rolls[r].phase)

CheckDue(s, r) == check_auto_actions(s, r) <= 0

LEMMA CheckAllWorks ==
  ASSUME NEW s, Sound(s), NEW r \in DOMAIN s.keyset.rolls, NEW out \in Outcomes,
         NEW t, t = CheckAll(s, r, out)
  PROVE  /\ OnlyReports(s, t, r)
         /\ CheckDue(s, r) => t.changed \/ AllReported(t, r)
         /\ ~CheckDue(s, r) => t = s /\ ~AllReported(t, r)
         /\ t.internal = s.internal => t.changed = s.changed \/ Circles(s, r, out)
<1> DEFINE phase == s.keyset.rolls[r].phase
           was == s.internal[r]
           needed == Needed(r, phase)
           due == {c \in needed : ~Reported(was[c]) /\ ~Blocked(was[c])}
           now == [c \in Checks |-> IF c \in due THEN Check(was[c], c, phase, out) ELSE was[c]]
           waiting == {c \in needed : ~Reported(now[c])}
           done == {c \in due : \A w \in waiting : CheckOrder[c] <= CheckOrder[w]}
           new == [c \in Checks |-> IF c \in done THEN now[c] ELSE was[c]]
           first == First(s, r)
<1>1. t = [s EXCEPT !.internal[r] = new, !.changed = @ \/ done # {}]
  BY DEF CheckAll
<1>2. /\ IsState(s) /\ s.changed \in BOOLEAN
      /\ s.internal \in [DOMAIN s.keyset.rolls -> [Checks -> Statuses]]
  BY DEF Sound
<1>3. was \in [Checks -> Statuses]
  BY <1>2
<1>4. needed \subseteq Checks
  BY NeededChecks
<1>5. \A c \in Checks : Check(was[c], c, phase, out) \in Statuses
  BY <1>3, CheckTyped
<1>6. \A c \in Checks : now[c] = IF c \in due THEN Check(was[c], c, phase, out) ELSE was[c]
  OBVIOUS
<1>7. Open(s, r) = {c \in needed : ~Reported(was[c])}
  BY DEF Open
<1>8. waiting \subseteq Open(s, r) /\ due \subseteq Open(s, r)
  BY <1>4, <1>6, <1>7
<1>9. new \in [Checks -> Statuses] /\ \A c \in Checks : new[c] = IF c \in done THEN now[c] ELSE was[c]
  BY <1>3, <1>5
<1>10. done \subseteq due
  OBVIOUS
<1>11. check_auto_actions(s, r) = IF Open(s, r) = {} THEN 0 ELSE was[first].until
  BY CheckTime
<1>12. Open(s, r) # {} => /\ first \in Open(s, r)
                          /\ \A y \in Open(s, r) : CheckOrder[first] <= CheckOrder[y]
  BY FirstOpen
<1>13. Open(s, r) # {} /\ ~Blocked(was[first]) => first \in done
  BY <1>7, <1>8, <1>12
<1>14. Open(s, r) # {} /\ Blocked(was[first]) => done = {} /\ first \in waiting
  <2> SUFFICES ASSUME Open(s, r) # {}, Blocked(was[first])
               PROVE  done = {} /\ first \in waiting
    OBVIOUS
  <2>1. first \in needed /\ ~Reported(was[first]) /\ first \notin due
    BY <1>7, <1>12
  <2>2. first \in waiting
    BY <1>4, <1>6, <2>1
  <2>3. ASSUME NEW c \in done
        PROVE  FALSE
    <3>1. CheckOrder[c] <= CheckOrder[first] /\ c \in due /\ c \in Open(s, r)
      BY <1>8, <1>10, <2>2
    <3>2. c = first
      BY <1>4, <1>7, <1>12, <3>1, OrderOfChecks
    <3> QED
      BY <2>1, <3>1, <3>2
  <2> QED
    BY <2>2, <2>3
<1>15. CheckDue(s, r) <=> Open(s, r) = {} \/ ~Blocked(was[first])
  <2>1. CASE Open(s, r) = {}
    BY <1>11, <2>1 DEF CheckDue
  <2>2. CASE Open(s, r) # {}
    <3>1. first \in Checks
      BY <1>4, <1>7, <1>12, <2>2
    <3>2. was[first].until \in Nat /\ (was[first].form = "none" => was[first].until = 0)
      BY <1>3, <3>1, StatusParts
    <3> QED
      BY <1>11, <2>2, <3>2 DEF CheckDue, Blocked
  <2> QED
    BY <2>1, <2>2
<1>16. ASSUME NEW c \in done
       PROVE  now[c] # was[c] \/ Circles(s, r, out)
  <2>1. c \in Checks /\ now[c] = Check(was[c], c, phase, out) /\ ~Reported(was[c]) /\ ~Blocked(was[c])
    BY <1>4, <1>6, <1>10
  <2>2. was[c] \in Statuses
    BY <1>3, <2>1
  <2>3. \/ Check(was[c], c, phase, out) # was[c]
        \/ ~out.simple /\ c = "rrsig" /\ OldTime(was[c], phase)
    BY <2>1, <2>2, CheckDiffers
  <2> QED
    BY <2>1, <2>3 DEF Circles
<1> HIDE DEF was, due, now, waiting, done, new, first
<1>17. /\ IsState(t)
       /\ t.keyset = s.keyset
       /\ t.dnskey_rrset = s.dnskey_rrset /\ t.cds_rrset = s.cds_rrset
       /\ t.internal = [s.internal EXCEPT ![r] = new]
       /\ t.changed = (s.changed \/ done # {})
  BY <1>1, <1>2 DEF StateFields, IsState
<1>18. AllReported(t, r) <=> \A c \in needed : Reported(new[c])
  <2>1. t.keyset = s.keyset /\ t.internal[r] = new
    BY <1>2, <1>17
  <2> QED
    BY <2>1 DEF AllReported
<1> HIDE DEF phase, needed
<1>19. OnlyReports(s, t, r)
  <2>1. t.internal \in [DOMAIN s.keyset.rolls -> [Checks -> Statuses]]
    BY <1>2, <1>9, <1>17
  <2>2. Sound(t)
    <3>1. t.changed \in BOOLEAN
      BY <1>17
    <3> QED
      BY <1>17, <2>1, <3>1 DEF Sound
  <2> QED
    BY <1>2, <1>17, <2>2 DEF OnlyReports
<1>20. CheckDue(s, r) => t.changed \/ AllReported(t, r)
  <2>1. CASE Open(s, r) = {}
    <3>1. done = {} /\ \A c \in needed : Reported(was[c])
      BY <1>7, <1>8, <1>10, <2>1
    <3>2. \A c \in needed : Reported(new[c])
      BY <1>4, <1>9, <3>1
    <3> QED
      BY <1>18, <3>2
  <2>2. CASE Open(s, r) # {} /\ CheckDue(s, r)
    BY <1>13, <1>15, <1>17, <2>2
  <2> QED
    BY <2>1, <2>2
<1>21. ASSUME ~CheckDue(s, r)
       PROVE  t = s /\ ~AllReported(t, r)
  <2>1. Open(s, r) # {} /\ done = {}
    BY <1>14, <1>15, <1>21
  <2>2. first \in needed /\ ~Reported(was[first])
    BY <1>7, <1>12, <2>1
  <2>3. new = was
    BY <1>3, <1>9, <2>1
  <2>4. ~AllReported(t, r)
    BY <1>18, <2>2, <2>3
  <2>5. t = s
    <3>1. (s.changed \/ done # {}) = s.changed
      BY <1>2, <2>1
    <3>2. [s.internal EXCEPT ![r] = new] = s.internal
      BY <1>2, <2>3 DEF was
    <3>3. \A f \in StateFields : t[f] = s[f]
      BY <1>17, <3>1, <3>2 DEF StateFields
    <3>4. t = [f \in StateFields |-> t[f]] /\ s = [f \in StateFields |-> s[f]]
      BY <1>2, <1>17 DEF IsState
    <3> QED
      BY <3>3, <3>4
  <2> QED
    BY <2>4, <2>5
<1>22. t.internal = s.internal => t.changed = s.changed \/ Circles(s, r, out)
  <2>1. CASE done = {}
    BY <1>2, <1>17, <2>1
  <2>2. CASE done # {} /\ t.internal = s.internal
    <3>1. PICK c \in done : TRUE
      BY <2>2
    <3>2. new = was
      BY <1>2, <1>17, <2>2 DEF was
    <3>3. now[c] = was[c]
      BY <1>4, <1>8, <1>7, <1>9, <1>10, <3>1, <3>2
    <3> QED
      BY <1>16, <3>1, <3>3
  <2> QED
    BY <2>1, <2>2
<1> QED
  BY <1>19, <1>20, <1>21, <1>22
-----------------------------------------------------------------------------
(* The stages of a run of cron for a roll.                                 *)

(* A stage that does not move the roll: it makes a difference if it acts,  *)
(* or it goes in circles.                                                  *)
Calm(s, t, r, out) ==
  /\ OnlyReports(s, t, r)
  /\ t.internal = s.internal => (t.changed => s.changed) \/ Circles(s, r, out)

LEMMA CalmSame ==
  ASSUME NEW s, Sound(s), NEW r, NEW out
  PROVE  Calm(s, s, r, out)
BY DEF Calm, OnlyReports

LEMMA RankPhases ==
  ASSUME NEW s, Sound(s), NEW r
  PROVE  /\ Rank(s, r) \in 0 .. 5
         /\ Rank(s, r) = 0 <=> r \notin DOMAIN s.keyset.rolls
         /\ InPhase(s, r, Propagation) <=> Rank(s, r) \in {1, 3}
         /\ InPhase(s, r, CacheExpire) <=> Rank(s, r) \in {2, 4}
         /\ InPhase(s, r, {"Done"}) <=> Rank(s, r) = 5
         /\ InPhase(s, r, Phases) <=> r \in DOMAIN s.keyset.rolls
<1>1. CASE r \notin DOMAIN s.keyset.rolls
  BY <1>1 DEF Rank, InPhase
<1>2. CASE r \in DOMAIN s.keyset.rolls
  <2>1. s.keyset.rolls[r] \in RollState(TTL)
    BY <1>2 DEF Sound, SetSound
  <2>2. s.keyset.rolls[r].phase \in Phases
    BY <2>1 DEF RollState
  <2> QED
    BY <1>2, <2>2 DEF Rank, InPhase, Number, Phases, Propagation, CacheExpire
<1> QED
  BY <1>1, <1>2

(* A stage moves the roll by one phase, from one of these, or is calm.     *)
Stage(s, t, r, from, out) ==
  /\ Sound(t)
  /\ s.changed => t.changed
  /\ OthersSame(s, t, r)
  /\ Rank(s, r) \notin from => t = s
  /\ \/ Rank(s, r) \in from /\ Rank(t, r) = (Rank(s, r) + 1) % 6
     \/ Rank(t, r) = Rank(s, r) /\ Calm(s, t, r, out)

LEMMA CalmStage ==
  ASSUME NEW s, Sound(s), NEW t, NEW r, NEW from, NEW out,
         Calm(s, t, r, out), Rank(s, r) \notin from => t = s
  PROVE  Stage(s, t, r, from, out)
<1>1. DOMAIN s.internal = DOMAIN s.keyset.rolls
  BY SoundRest
<1> QED
  BY <1>1 DEF Stage, Calm, OnlyReports, OthersSame, Rank

LEMMA MovedTwice ==
  ASSUME NEW s, Sound(s), NEW t, NEW u, NEW r, NEW from, NEW to,
         OnlyReports(s, t, r), Moved(t, u, r, from, to)
  PROVE  Moved(s, u, r, from, to)
<1>1. DOMAIN s.internal = DOMAIN s.keyset.rolls
  BY SoundRest
<1> QED
  BY <1>1 DEF Moved, OnlyReports, OthersSame, Rank

LEMMA MovedStage ==
  ASSUME NEW s, NEW t, NEW r, NEW a, NEW b, NEW from, NEW out,
         Moved(s, t, r, a, b), a \in from, b = (a + 1) % 6
  PROVE  Stage(s, t, r, from, out)
BY DEF Moved, Stage

ReportDue(s, auto, r) ==
  "report" \in auto /\ InPhase(s, r, Propagation) /\ CheckDue(s, r)
ExpireDue(s, auto, r) ==
  "expire" \in auto /\ InPhase(s, r, CacheExpire) /\ s.keyset.rolls[r].wait = 0
DoneDue(s, auto, r) ==
  "done" \in auto /\ InPhase(s, r, {"Done"}) /\ CheckDue(s, r)

LEMMA ReportStage ==
  ASSUME NEW s, Sound(s), NEW auto, NEW r, NEW out \in Outcomes,
         NEW t, t = AutoReport(s, auto, r, out)
  PROVE  /\ Stage(s, t, r, {1, 3}, out)
         /\ ReportDue(s, auto, r) => t.changed
         /\ ~ReportDue(s, auto, r) => t = s
<1>1. CASE "report" \notin auto \/ ~InPhase(s, r, Propagation)
  <2>1. t = s
    BY <1>1 DEF AutoReport
  <2>2. Stage(s, t, r, {1, 3}, out)
    BY <2>1, CalmSame, CalmStage
  <2> QED
    BY <1>1, <2>1, <2>2 DEF ReportDue
<1>2. CASE "report" \in auto /\ InPhase(s, r, Propagation)
  <2>1. r \in DOMAIN s.keyset.rolls
    BY <1>2 DEF InPhase
  <2>2. PICK u : u = CheckAll(s, r, out)
    OBVIOUS
  <2>3. /\ OnlyReports(s, u, r)
        /\ CheckDue(s, r) => u.changed \/ AllReported(u, r)
        /\ ~CheckDue(s, r) => u = s /\ ~AllReported(u, r)
        /\ u.internal = s.internal => u.changed = s.changed \/ Circles(s, r, out)
    BY <2>1, <2>2, CheckAllWorks
  <2>4. t = IF AllReported(u, r)
            THEN Stepped(u, r, propagation_complete(u.keyset, r, TTL)) ELSE u
    BY <1>2, <2>2 DEF AutoReport
  <2>5. Rank(s, r) \in {1, 3}
    BY <1>2, RankPhases
  <2>6. CASE AllReported(u, r)
    <3>1. Sound(u) /\ InPhase(u, r, Propagation) /\ Rank(u, r) = Rank(s, r)
      BY <1>2, <2>3 DEF OnlyReports, InPhase, Rank
    <3>2. Moved(u, t, r, Rank(s, r), Rank(s, r) + 1)
      BY <2>4, <2>6, <3>1, PropagationMoves
    <3>3. Moved(s, t, r, Rank(s, r), Rank(s, r) + 1)
      BY <2>3, <3>2, MovedTwice
    <3>4. Rank(s, r) + 1 = (Rank(s, r) + 1) % 6
      BY <2>5
    <3>5. Stage(s, t, r, {1, 3}, out)
      BY <2>5, <3>3, <3>4, MovedStage
    <3> QED
      BY <1>2, <2>3, <2>6, <3>3, <3>5 DEF Moved, ReportDue
  <2>7. CASE ~AllReported(u, r)
    <3>1. t = u
      BY <2>4, <2>7
    <3>2. Calm(s, t, r, out)
      BY <2>3, <3>1 DEF Calm
    <3>3. Stage(s, t, r, {1, 3}, out)
      BY <2>5, <3>2, CalmStage
    <3> QED
      BY <1>2, <2>3, <2>7, <3>1, <3>3 DEF ReportDue
  <2> QED
    BY <2>6, <2>7
<1> QED
  BY <1>1, <1>2

LEMMA ExpireStage ==
  ASSUME NEW s, Sound(s), NEW auto, NEW r, NEW out \in Outcomes,
         NEW t, t = AutoExpire(s, auto, r)
  PROVE  /\ Stage(s, t, r, {2, 4}, out)
         /\ ExpireDue(s, auto, r) => t.changed
         /\ ~ExpireDue(s, auto, r) => t = s
<1>1. CASE ~ExpireDue(s, auto, r)
  <2>1. t = s
    BY <1>1 DEF AutoExpire, ExpireDue
  <2>2. Stage(s, t, r, {2, 4}, out)
    BY <2>1, CalmSame, CalmStage
  <2> QED
    BY <1>1, <2>1, <2>2
<1>2. CASE ExpireDue(s, auto, r)
  <2>1. t = Stepped(s, r, cache_expired(s.keyset, r))
    BY <1>2 DEF AutoExpire, ExpireDue
  <2>2. Moved(s, t, r, Rank(s, r), Rank(s, r) + 1) /\ Rank(s, r) \in {2, 4}
    BY <1>2, <2>1, ExpireMoves DEF ExpireDue
  <2>3. Rank(s, r) + 1 = (Rank(s, r) + 1) % 6
    BY <2>2
  <2>4. Stage(s, t, r, {2, 4}, out)
    BY <2>2, <2>3, MovedStage
  <2> QED
    BY <1>2, <2>2, <2>4 DEF Moved
<1> QED
  BY <1>1, <1>2

LEMMA DoneStage ==
  ASSUME NEW s, Sound(s), NEW auto, NEW r, NEW out \in Outcomes,
         NEW t, t = AutoDone(s, auto, r, out)
  PROVE  /\ Stage(s, t, r, {5}, out)
         /\ DoneDue(s, auto, r) => t.changed
         /\ ~DoneDue(s, auto, r) => t = s
<1>1. CASE "done" \notin auto \/ ~InPhase(s, r, {"Done"})
  <2>1. t = s
    BY <1>1 DEF AutoDone
  <2>2. Stage(s, t, r, {5}, out)
    BY <2>1, CalmSame, CalmStage
  <2> QED
    BY <1>1, <2>1, <2>2 DEF DoneDue
<1>2. CASE "done" \in auto /\ InPhase(s, r, {"Done"})
  <2>1. r \in DOMAIN s.keyset.rolls
    BY <1>2 DEF InPhase
  <2>2. PICK u : u = CheckAll(s, r, out)
    OBVIOUS
  <2>3. /\ OnlyReports(s, u, r)
        /\ CheckDue(s, r) => u.changed \/ AllReported(u, r)
        /\ ~CheckDue(s, r) => u = s /\ ~AllReported(u, r)
        /\ u.internal = s.internal => u.changed = s.changed \/ Circles(s, r, out)
    BY <2>1, <2>2, CheckAllWorks
  <2>4. t = IF AllReported(u, r) THEN do_done(u, r) ELSE u
    BY <1>2, <2>2 DEF AutoDone
  <2>5. Rank(s, r) = 5
    BY <1>2, RankPhases
  <2>6. CASE AllReported(u, r)
    <3>1. Sound(u) /\ r \in DOMAIN u.keyset.rolls /\ u.keyset.rolls[r].phase = "Done"
      BY <1>2, <2>3 DEF OnlyReports, InPhase
    <3>2. Moved(u, t, r, 5, 0)
      BY <2>4, <2>6, <3>1, DoneMoves
    <3>3. Moved(s, t, r, 5, 0)
      BY <2>3, <3>2, MovedTwice
    <3>4. Stage(s, t, r, {5}, out)
      BY <3>3, MovedStage
    <3> QED
      BY <1>2, <2>3, <2>6, <3>3, <3>4 DEF Moved, DoneDue
  <2>7. CASE ~AllReported(u, r)
    <3>1. t = u
      BY <2>4, <2>7
    <3>2. Calm(s, t, r, out)
      BY <2>3, <3>1 DEF Calm
    <3>3. Stage(s, t, r, {5}, out)
      BY <2>5, <3>2, CalmStage
    <3> QED
      BY <1>2, <2>3, <2>7, <3>1, <3>3 DEF DoneDue
  <2> QED
    BY <2>6, <2>7
<1> QED
  BY <1>1, <1>2
(* The three stages for a roll: it comes no further than to one that it    *)
(* has not been in, so that it is where it was only if it never moved.     *)
Advance(a, b) == b = a \/ (a \in 1 .. 2 /\ b \in 1 .. 3) \/ (a \in 3 .. 5 /\ b \in {0, 3, 4, 5})

Handled(s, auto, r, out) ==
  AutoDone(AutoExpire(AutoReport(s, auto, r, out), auto, r), auto, r, out)

RollDue(s, auto, r) == ReportDue(s, auto, r) \/ ExpireDue(s, auto, r) \/ DoneDue(s, auto, r)

LEMMA RanksThrough ==
  ASSUME NEW a \in 0 .. 5, NEW b \in 0 .. 5, NEW c \in 0 .. 5, NEW d \in 0 .. 5,
         b = a \/ (a \in {1, 3} /\ b = (a + 1) % 6),
         c = b \/ (b \in {2, 4} /\ c = (b + 1) % 6),
         d = c \/ (c \in {5} /\ d = (c + 1) % 6)
  PROVE  Advance(a, d) /\ (d = a => b = a /\ c = a)
<1>1. /\ b = a \/ (a = 1 /\ b = 2) \/ (a = 3 /\ b = 4)
      /\ c = b \/ (b = 2 /\ c = 3) \/ (b = 4 /\ c = 5)
      /\ d = c \/ (c = 5 /\ d = 0)
  OBVIOUS
<1> QED
  BY <1>1 DEF Advance

LEMMA StageRank ==
  ASSUME NEW s, NEW t, NEW r, NEW from, NEW out, Stage(s, t, r, from, out)
  PROVE  \/ Rank(t, r) = Rank(s, r) /\ Calm(s, t, r, out)
         \/ Rank(s, r) \in from /\ Rank(t, r) = (Rank(s, r) + 1) % 6
BY DEF Stage

LEMMA HandledWorks ==
  ASSUME NEW s, Sound(s), NEW auto, NEW r, NEW out \in Outcomes,
         NEW w, w = Handled(s, auto, r, out)
  PROVE  /\ Sound(w)
         /\ s.changed => w.changed
         /\ RollDue(s, auto, r) => w.changed
         /\ ~RollDue(s, auto, r) => w = s
         /\ OthersSame(s, w, r)
         /\ Advance(Rank(s, r), Rank(w, r))
         /\ Rank(w, r) = Rank(s, r) => Calm(s, w, r, out)
<1>1. PICK t : t = AutoReport(s, auto, r, out)
  OBVIOUS
<1>2. PICK u : u = AutoExpire(t, auto, r)
  OBVIOUS
<1>3. w = AutoDone(u, auto, r, out)
  BY <1>1, <1>2 DEF Handled
<1>4. /\ Stage(s, t, r, {1, 3}, out)
      /\ ReportDue(s, auto, r) => t.changed
      /\ ~ReportDue(s, auto, r) => t = s
  BY <1>1, ReportStage
<1>5. Sound(t)
  BY <1>4 DEF Stage
<1>6. /\ Stage(t, u, r, {2, 4}, out)
      /\ ExpireDue(t, auto, r) => u.changed
      /\ ~ExpireDue(t, auto, r) => u = t
  BY <1>2, <1>5, ExpireStage
<1>7. Sound(u)
  BY <1>6 DEF Stage
<1>8. /\ Stage(u, w, r, {5}, out)
      /\ DoneDue(u, auto, r) => w.changed
      /\ ~DoneDue(u, auto, r) => w = u
  BY <1>3, <1>7, DoneStage
<1>9. /\ Sound(w) /\ (s.changed => t.changed) /\ (t.changed => u.changed)
      /\ (u.changed => w.changed)
      /\ OthersSame(s, t, r) /\ OthersSame(t, u, r) /\ OthersSame(u, w, r)
  BY <1>4, <1>6, <1>8 DEF Stage
<1>10. /\ Rank(s, r) \in 0 .. 5 /\ Rank(t, r) \in 0 .. 5
       /\ Rank(u, r) \in 0 .. 5 /\ Rank(w, r) \in 0 .. 5
  BY <1>5, <1>7, <1>9, RankPhases
<1>11. /\ \/ Rank(t, r) = Rank(s, r) /\ Calm(s, t, r, out)
          \/ Rank(s, r) \in {1, 3} /\ Rank(t, r) = (Rank(s, r) + 1) % 6
       /\ \/ Rank(u, r) = Rank(t, r) /\ Calm(t, u, r, out)
          \/ Rank(t, r) \in {2, 4} /\ Rank(u, r) = (Rank(t, r) + 1) % 6
       /\ \/ Rank(w, r) = Rank(u, r) /\ Calm(u, w, r, out)
          \/ Rank(u, r) \in {5} /\ Rank(w, r) = (Rank(u, r) + 1) % 6
  BY <1>4, <1>6, <1>8, StageRank
<1>12. /\ Advance(Rank(s, r), Rank(w, r))
       /\ Rank(w, r) = Rank(s, r) => Rank(t, r) = Rank(s, r) /\ Rank(u, r) = Rank(s, r)
  BY <1>10, <1>11, RanksThrough
<1>13. OthersSame(s, w, r)
  BY <1>9 DEF OthersSame
<1>14. RollDue(s, auto, r) => w.changed
  <2>1. CASE ReportDue(s, auto, r)
    BY <1>4, <1>9, <2>1
  <2>2. CASE ~ReportDue(s, auto, r) /\ ExpireDue(s, auto, r)
    BY <1>4, <1>6, <1>9, <2>2
  <2>3. CASE ~ReportDue(s, auto, r) /\ ~ExpireDue(s, auto, r) /\ DoneDue(s, auto, r)
    BY <1>4, <1>6, <1>8, <2>3
  <2> QED
    BY <2>1, <2>2, <2>3 DEF RollDue
<1>15. ~RollDue(s, auto, r) => w = s
  BY <1>4, <1>6, <1>8 DEF RollDue
<1>16. ASSUME Rank(w, r) = Rank(s, r)
       PROVE  Calm(s, w, r, out)
  <2>1. Rank(t, r) = Rank(s, r) /\ Rank(u, r) = Rank(s, r)
    BY <1>12, <1>16
  <2>2. /\ Rank(s, r) \notin {1, 3} => t = s
        /\ Rank(s, r) \notin {2, 4} => u = t
        /\ Rank(s, r) \notin {5} => w = u
    BY <1>4, <1>6, <1>8, <2>1 DEF Stage
  <2>3. /\ (Rank(s, r) + 1) % 6 # Rank(s, r)
    BY <1>10
  <2>4. Calm(s, t, r, out) /\ Calm(t, u, r, out) /\ Calm(u, w, r, out)
    BY <1>11, <1>16, <2>1, <2>3
  <2>5. CASE Rank(s, r) \in {1, 3}
    <3>1. w = t
      BY <2>2, <2>5
    <3> QED
      BY <2>4, <3>1
  <2>6. CASE Rank(s, r) \in {2, 4}
    <3>1. t = s /\ w = u
      BY <2>2, <2>6
    <3> QED
      BY <2>4, <3>1
  <2>7. CASE Rank(s, r) \notin {1, 2, 3, 4}
    <3>1. t = s /\ u = s
      BY <2>2, <2>7
    <3> QED
      BY <2>4, <3>1
  <2> QED
    BY <2>5, <2>6, <2>7
<1> QED
  BY <1>9, <1>12, <1>13, <1>14, <1>15, <1>16
(* The stages for one variant after the other: those in these variants     *)
(* have been run.                                                          *)
CalmRun(s, t, out) ==
  /\ t.keyset = s.keyset
  /\ t.dnskey_rrset = s.dnskey_rrset /\ t.cds_rrset = s.cds_rrset
  /\ t.internal = s.internal =>
       (t.changed => s.changed) \/ \E r \in DOMAIN s.keyset.rolls : Circles(s, r, out)

Passed(s, t, variants, out) ==
  /\ Sound(t)
  /\ s.changed => t.changed
  /\ \A r \in RollTypes : Advance(Rank(s, r), Rank(t, r))
  /\ \A r \in RollTypes : VariantOf(r) \notin variants =>
       /\ r \in DOMAIN s.keyset.rolls <=> r \in DOMAIN t.keyset.rolls
       /\ r \in DOMAIN s.keyset.rolls =>
            t.keyset.rolls[r] = s.keyset.rolls[r] /\ t.internal[r] = s.internal[r]
  /\ (\A r \in RollTypes : Rank(t, r) = Rank(s, r)) => CalmRun(s, t, out)

LEMMA PassedRank ==
  ASSUME NEW s, NEW t, NEW variants, NEW out, Passed(s, t, variants, out),
         NEW r \in RollTypes, VariantOf(r) \notin variants
  PROVE  Rank(t, r) = Rank(s, r)
BY DEF Passed, Rank

LEMMA PassedBoth ==
  ASSUME NEW s, Sound(s), NEW t, NEW u, NEW v1, NEW v2, NEW out,
         Passed(s, t, v1, out), Passed(t, u, v2, out), v1 \intersect v2 = {}
  PROVE  Passed(s, u, v1 \union v2, out)
<1>1. Sound(t) /\ Sound(u) /\ (s.changed => t.changed) /\ (t.changed => u.changed)
  BY DEF Passed
<1>2. \A r \in RollTypes : VariantOf(r) \notin v1 => Rank(t, r) = Rank(s, r)
  BY PassedRank
<1>3. \A r \in RollTypes : VariantOf(r) \notin v2 => Rank(u, r) = Rank(t, r)
  BY PassedRank
<1>4. ASSUME NEW r \in RollTypes
      PROVE  Advance(Rank(s, r), Rank(u, r))
  <2>1. Advance(Rank(s, r), Rank(t, r)) /\ Advance(Rank(t, r), Rank(u, r))
    BY DEF Passed
  <2>2. Rank(t, r) = Rank(s, r) \/ Rank(u, r) = Rank(t, r)
    BY <1>2, <1>3
  <2> QED
    BY <2>1, <2>2
<1>5. ASSUME NEW r \in RollTypes, VariantOf(r) \notin v1 \union v2
      PROVE  /\ r \in DOMAIN s.keyset.rolls <=> r \in DOMAIN u.keyset.rolls
             /\ r \in DOMAIN s.keyset.rolls =>
                  u.keyset.rolls[r] = s.keyset.rolls[r] /\ u.internal[r] = s.internal[r]
  BY <1>5 DEF Passed
<1>6. ASSUME \A r \in RollTypes : Rank(u, r) = Rank(s, r)
      PROVE  CalmRun(s, u, out)
  <2>1. \A r \in RollTypes : Rank(t, r) = Rank(s, r) /\ Rank(u, r) = Rank(t, r)
    BY <1>2, <1>3, <1>6
  <2>2. CalmRun(s, t, out) /\ CalmRun(t, u, out)
    BY <2>1 DEF Passed
  <2>3. DOMAIN s.internal = DOMAIN s.keyset.rolls /\ DOMAIN s.keyset.rolls \subseteq RollTypes
        /\ s.internal \in [DOMAIN s.keyset.rolls -> [Checks -> Statuses]]
        /\ t.internal \in [DOMAIN t.keyset.rolls -> [Checks -> Statuses]]
    BY <1>1 DEF Sound, SetSound
  <2>4. t.keyset = s.keyset
    BY <2>2 DEF CalmRun
  <2>5. ASSUME u.internal = s.internal
        PROVE  t.internal = s.internal
    <3>1. ASSUME NEW r \in DOMAIN s.keyset.rolls
          PROVE  t.internal[r] = s.internal[r]
      <4>1. VariantOf(r) \notin v1 \/ VariantOf(r) \notin v2
        OBVIOUS
      <4> QED
        BY <2>3, <2>4, <2>5, <4>1 DEF Passed
    <3> QED
      BY <2>3, <2>4, <3>1
  <2>6. ASSUME u.internal = s.internal
        PROVE  (u.changed => s.changed) \/ \E r \in DOMAIN s.keyset.rolls : Circles(s, r, out)
    <3>1. t.internal = s.internal /\ u.internal = t.internal
      BY <2>5, <2>6
    <3>2. (t.changed => s.changed) \/ \E r \in DOMAIN s.keyset.rolls : Circles(s, r, out)
      BY <2>2, <3>1 DEF CalmRun
    <3>3. (u.changed => t.changed) \/ \E r \in DOMAIN t.keyset.rolls : Circles(t, r, out)
      BY <2>2, <3>1 DEF CalmRun
    <3>4. \A r : Circles(t, r, out) => Circles(s, r, out)
      BY <2>4, <3>1 DEF Circles
    <3> QED
      BY <2>4, <3>2, <3>3, <3>4
  <2> QED
    BY <2>2, <2>6 DEF CalmRun
<1> QED
  BY <1>1, <1>4, <1>5, <1>6 DEF Passed

(* Whether cron has something to do for the roll of a variant. *)
VariantDue(c, s, variant) ==
  \E r \in DOMAIN s.keyset.rolls : VariantOf(r) = variant /\ RollDue(s, c.auto[variant], r)

LEMMA SameVariant ==
  ASSUME NEW s, Sound(s), NEW r \in DOMAIN s.keyset.rolls, NEW x \in DOMAIN s.keyset.rolls,
         VariantOf(x) = VariantOf(r)
  PROVE  x = r
<1>1. r \in RollTypes /\ x \in RollTypes /\ x \in Compatible(r) \union {r}
  BY DEF Sound, SetSound
<1> QED
  BY <1>1 DEF VariantOf, Compatible, KskRolls, ZskRolls, RollTypes

LEMMA SamePassed ==
  ASSUME NEW s, Sound(s), NEW variants, NEW out
  PROVE  Passed(s, s, variants, out)
BY DEF Passed, CalmRun, Advance

VariantRun(s, t, variant, out) ==
  /\ auto_report_expire_done({s}, variant, out) = {t}
  /\ Passed(s, t, {variant}, out)
  /\ VariantDue(config, s, variant) => t.changed
  /\ ~VariantDue(config, s, variant) => t = s

LEMMA VariantStage ==
  ASSUME NEW s, Sound(s), NEW variant, NEW out \in Outcomes
  PROVE  \E t : VariantRun(s, t, variant, out)
<1> DEFINE auto == config.auto[variant]
           mine == {r \in RollTypes : VariantOf(r) = variant /\ \E x \in {s} : InPhase(x, r, Phases)}
           one == CHOOSE x \in mine : TRUE
<1>1. DOMAIN s.keyset.rolls \subseteq RollTypes
  BY DEF Sound, SetSound
<1>2. \A r : r \in mine <=> r \in DOMAIN s.keyset.rolls /\ VariantOf(r) = variant
  BY <1>1, RankPhases
<1>3. auto_report_expire_done({s}, variant, out) =
        IF mine = {} THEN {s}
        ELSE {AutoDone(u, auto, one, out) :
                u \in {AutoExpire(t, auto, one) : t \in {AutoReport(x, auto, one, out) : x \in {s}}}}
  BY DEF auto_report_expire_done
<1> HIDE DEF mine
<1>4. CASE mine = {}
  <2>1. ~VariantDue(config, s, variant)
    BY <1>2, <1>4 DEF VariantDue
  <2> QED
    BY <1>3, <1>4, <2>1, SamePassed DEF VariantRun
<1>5. CASE mine # {}
  <2>1. one \in mine
    BY <1>5
  <2> HIDE DEF one
  <2>2. one \in DOMAIN s.keyset.rolls /\ VariantOf(one) = variant
    BY <1>2, <2>1
  <2>3. PICK w : w = Handled(s, auto, one, out)
    OBVIOUS
  <2>4. auto_report_expire_done({s}, variant, out) = {w}
    BY <1>3, <1>5, <2>3 DEF Handled
  <2>5. /\ Sound(w)
        /\ s.changed => w.changed
        /\ RollDue(s, auto, one) => w.changed
        /\ ~RollDue(s, auto, one) => w = s
        /\ OthersSame(s, w, one)
        /\ Advance(Rank(s, one), Rank(w, one))
        /\ Rank(w, one) = Rank(s, one) => Calm(s, w, one, out)
    BY <2>3, HandledWorks
  <2>6. VariantDue(config, s, variant) <=> RollDue(s, auto, one)
    BY <2>2, SameVariant DEF VariantDue
  <2>7. ASSUME NEW r \in RollTypes, r # one
        PROVE  /\ r \in DOMAIN s.keyset.rolls <=> r \in DOMAIN w.keyset.rolls
               /\ r \in DOMAIN s.keyset.rolls =>
                    w.keyset.rolls[r] = s.keyset.rolls[r] /\ w.internal[r] = s.internal[r]
               /\ Rank(w, r) = Rank(s, r)
    BY <2>5, <2>7 DEF OthersSame, Rank
  <2>8. \A r \in RollTypes : Advance(Rank(s, r), Rank(w, r))
    BY <2>5, <2>7 DEF Advance
  <2>9. (\A r \in RollTypes : Rank(w, r) = Rank(s, r)) => CalmRun(s, w, out)
    <3>1. one \in RollTypes
      BY <1>1, <2>2
    <3>2. Calm(s, w, one, out) => CalmRun(s, w, out)
      BY <2>2 DEF Calm, CalmRun, OnlyReports
    <3> QED
      BY <2>5, <3>1, <3>2
  <2>10. Passed(s, w, {variant}, out)
    BY <2>2, <2>5, <2>7, <2>8, <2>9 DEF Passed
  <2> QED
    BY <2>4, <2>5, <2>6, <2>10 DEF VariantRun
<1> QED
  BY <1>4, <1>5
(* All variants. *)
RollsDue(c, s) == \E v \in Variants : VariantDue(c, s, v)

LEMMA RollStages ==
  ASSUME NEW s, Sound(s), NEW out \in Outcomes
  PROVE  \E t : /\ AutoRolls({s}, out) = {t}
                /\ Passed(s, t, Variants, out)
                /\ RollsDue(config, s) => t.changed
                /\ ~RollsDue(config, s) => t = s
<1>1. PICK t1 : VariantRun(s, t1, "Ksk", out)
  BY VariantStage
<1>2. /\ auto_report_expire_done({s}, "Ksk", out) = {t1}
      /\ Passed(s, t1, {"Ksk"}, out)
      /\ VariantDue(config, s, "Ksk") => t1.changed
      /\ ~VariantDue(config, s, "Ksk") => t1 = s
      /\ Sound(t1) /\ (s.changed => t1.changed)
  BY <1>1 DEF VariantRun, Passed
<1>3. PICK t2 : VariantRun(t1, t2, "Zsk", out)
  BY <1>2, VariantStage
<1>4. /\ auto_report_expire_done({t1}, "Zsk", out) = {t2}
      /\ Passed(t1, t2, {"Zsk"}, out)
      /\ VariantDue(config, t1, "Zsk") => t2.changed
      /\ ~VariantDue(config, t1, "Zsk") => t2 = t1
      /\ Sound(t2) /\ (t1.changed => t2.changed)
  BY <1>3 DEF VariantRun, Passed
<1>5. PICK t3 : VariantRun(t2, t3, "Csk", out)
  BY <1>4, VariantStage
<1>6. /\ auto_report_expire_done({t2}, "Csk", out) = {t3}
      /\ Passed(t2, t3, {"Csk"}, out)
      /\ VariantDue(config, t2, "Csk") => t3.changed
      /\ ~VariantDue(config, t2, "Csk") => t3 = t2
      /\ Sound(t3) /\ (t2.changed => t3.changed)
  BY <1>5 DEF VariantRun, Passed
<1>7. PICK t4 : VariantRun(t3, t4, "Algorithm", out)
  BY <1>6, VariantStage
<1>8. /\ auto_report_expire_done({t3}, "Algorithm", out) = {t4}
      /\ Passed(t3, t4, {"Algorithm"}, out)
      /\ VariantDue(config, t3, "Algorithm") => t4.changed
      /\ ~VariantDue(config, t3, "Algorithm") => t4 = t3
      /\ Sound(t4) /\ (t3.changed => t4.changed)
  BY <1>7 DEF VariantRun, Passed
<1>9. AutoRolls({s}, out) = {t4}
  BY <1>2, <1>4, <1>6, <1>8 DEF AutoRolls
<1>10. Passed(s, t4, Variants, out)
  <2>1. Passed(s, t2, {"Ksk"} \union {"Zsk"}, out)
    BY <1>2, <1>4, PassedBoth
  <2>2. Passed(s, t3, ({"Ksk"} \union {"Zsk"}) \union {"Csk"}, out)
    BY <1>6, <2>1, PassedBoth
  <2>3. Passed(s, t4, (({"Ksk"} \union {"Zsk"}) \union {"Csk"}) \union {"Algorithm"}, out)
    BY <1>8, <2>2, PassedBoth
  <2>4. (({"Ksk"} \union {"Zsk"}) \union {"Csk"}) \union {"Algorithm"} = Variants
    BY DEF Variants
  <2> QED
    BY <2>3, <2>4
<1>11. RollsDue(config, s) <=> \/ VariantDue(config, s, "Ksk") \/ VariantDue(config, s, "Zsk")
                               \/ VariantDue(config, s, "Csk") \/ VariantDue(config, s, "Algorithm")
  BY DEF RollsDue, Variants
<1>12. RollsDue(config, s) => t4.changed
  <2>1. t1.changed \/ t1 = s
    BY <1>2
  <2>2. t2.changed \/ t2 = s
    BY <1>4, <2>1
  <2>3. t3.changed \/ t3 = s
    BY <1>6, <2>2
  <2> QED
    BY <1>2, <1>4, <1>6, <1>8, <1>11, <2>1, <2>2, <2>3
<1>13. ~RollsDue(config, s) => t4 = s
  BY <1>2, <1>4, <1>6, <1>8, <1>11
<1> QED
  BY <1>9, <1>10, <1>12, <1>13

-----------------------------------------------------------------------------
(* The other stages of a run.                                              *)

(* Rolls may have started, and nothing else has been done. *)
Began(s, t) ==
  /\ Sound(t)
  /\ s.changed => t.changed
  /\ \A r \in RollTypes : Rank(t, r) = Rank(s, r) \/ (Rank(s, r) = 0 /\ Rank(t, r) = 1)
  /\ (\A r \in RollTypes : Rank(t, r) = Rank(s, r)) => t = s

StartDue(s, type, auto, allowed) ==
  \E t \in cron_next_auto_start(config, s, type, auto, allowed) : t < 0

LEMMA StartStage ==
  ASSUME NEW s, Sound(s), config \in Configs, NEW type, NEW auto, NEW allowed,
         NEW r \in RollTypes, allowed \subseteq Compatible(r)
  PROVE  \E t : /\ auto_start({s}, type, auto, allowed, r) = {t}
                /\ Began(s, t)
                /\ StartDue(s, type, auto, allowed) => t.changed
                /\ ~StartDue(s, type, auto, allowed) => t = s
<1> DEFINE due == StartDue(s, type, auto, allowed)
<1>1. PICK t : t = IF due THEN start_roll_command(s, r) ELSE s
  OBVIOUS
<1>2. due <=> /\ "start" \in auto /\ DOMAIN s.keyset.rolls \subseteq allowed
              /\ \E u \in Validity(config, s, type) : u < 0
  BY DEF StartDue, cron_next_auto_start
<1>3. auto_start({s}, type, auto, allowed, r) = {t}
  BY <1>1, <1>2 DEF auto_start
<1> HIDE DEF due
<1>4. CASE due
  <2>1. Moved(s, t, r, 0, 1)
    BY <1>1, <1>2, <1>4, StartMoves
  <2>2. \A x \in RollTypes \ {r} : Rank(t, x) = Rank(s, x)
    BY <2>1 DEF Moved, OthersSame, Rank
  <2>3. Began(s, t)
    BY <2>1, <2>2 DEF Moved, Began
  <2> QED
    BY <1>3, <1>4, <2>1, <2>3 DEF Moved, due
<1>5. CASE ~due
  <2>1. t = s
    BY <1>1, <1>5
  <2>2. Began(s, t)
    BY <2>1 DEF Began
  <2> QED
    BY <1>3, <1>5, <2>1, <2>2 DEF due
<1> QED
  BY <1>4, <1>5

LEMMA BeganBoth ==
  ASSUME NEW s, NEW t, NEW u, Began(s, t), Began(t, u)
  PROVE  Began(s, u)
<1>1. ASSUME \A r \in RollTypes : Rank(u, r) = Rank(s, r)
      PROVE  u = s
  <2>1. \A r \in RollTypes : Rank(t, r) = Rank(s, r)
    BY <1>1 DEF Began
  <2>2. \A r \in RollTypes : Rank(u, r) = Rank(t, r)
    BY <1>1, <2>1
  <2> QED
    BY <2>1, <2>2 DEF Began
<1> QED
  BY <1>1 DEF Began

StartsDue(s) == \E u \in NextStarts(config, s) : u < 0

LEMMA StartStages ==
  ASSUME NEW s, Sound(s), config \in Configs
  PROVE  \E t : /\ AutoStarts({s}) = {t}
                /\ Began(s, t)
                /\ StartsDue(s) => t.changed
                /\ ~StartsDue(s) => t = s
<1> DEFINE needAlg == algorithm_roll_needed(config, s)
<1>1. PICK auto : auto = config.auto[IF needAlg THEN "Algorithm" ELSE "Csk"]
  OBVIOUS
<1>2. PICK roll : roll = IF needAlg THEN "AlgorithmRoll" ELSE "CskRoll"
  OBVIOUS
<1>3. PICK whole \in BOOLEAN : whole <=> config.use_csk \/ needAlg
  OBVIOUS
<1>4. PICK kskAuto, kskAllowed, kskRoll :
        /\ kskAuto = IF whole THEN auto ELSE config.auto["Ksk"]
        /\ kskAllowed = IF whole THEN {} ELSE ZskRolls
        /\ kskRoll = IF whole THEN roll ELSE config.ksk_roll_type
  OBVIOUS
<1>5. PICK zskAuto, zskAllowed, zskRoll :
        /\ zskAuto = IF whole THEN auto ELSE config.auto["Zsk"]
        /\ zskAllowed = IF whole THEN {} ELSE KskRolls
        /\ zskRoll = IF whole THEN roll ELSE config.zsk_roll_type
  OBVIOUS
<1>6. /\ roll \in RollTypes /\ {} \subseteq Compatible(roll)
      /\ kskRoll \in RollTypes /\ kskAllowed \subseteq Compatible(kskRoll)
      /\ zskRoll \in RollTypes /\ zskAllowed \subseteq Compatible(zskRoll)
  <2>1. config.ksk_roll_type \in KskRolls /\ config.zsk_roll_type \in ZskRolls
    BY CronNextAssumption
  <2> QED
    BY <1>2, <1>4, <1>5, <2>1 DEF RollTypes, Compatible, KskRolls, ZskRolls
<1>7. AutoStarts({s}) =
        auto_start(auto_start(auto_start({s}, "KSK", kskAuto, kskAllowed, kskRoll),
                              "ZSK", zskAuto, zskAllowed, zskRoll),
                   "CSK", auto, {}, roll)
  <2>1. (\A x \in {s} : algorithm_roll_needed(config, x)) <=> needAlg
    OBVIOUS
  <2>2. AutoStarts({s}) =
          LET ksk == IF whole THEN auto_start({s}, "KSK", auto, {}, roll)
                     ELSE auto_start({s}, "KSK", config.auto["Ksk"], ZskRolls, config.ksk_roll_type)
              zsk == IF whole THEN auto_start(ksk, "ZSK", auto, {}, roll)
                     ELSE auto_start(ksk, "ZSK", config.auto["Zsk"], KskRolls, config.zsk_roll_type)
          IN  auto_start(zsk, "CSK", auto, {}, roll)
    BY <1>1, <1>2, <1>3, <2>1, Zenon DEF AutoStarts
  <2>3. CASE whole
    BY <1>4, <1>5, <2>2, <2>3
  <2>4. CASE ~whole
    BY <1>4, <1>5, <2>2, <2>4
  <2> QED
    BY <2>3, <2>4
<1>8. NextStarts(config, s) =
        cron_next_auto_start(config, s, "CSK", auto, {})
          \union cron_next_auto_start(config, s, "KSK", kskAuto, kskAllowed)
          \union cron_next_auto_start(config, s, "ZSK", zskAuto, zskAllowed)
  BY <1>1, <1>3, <1>4, <1>5 DEF NextStarts
<1>9. StartsDue(s) <=> \/ StartDue(s, "KSK", kskAuto, kskAllowed)
                       \/ StartDue(s, "ZSK", zskAuto, zskAllowed)
                       \/ StartDue(s, "CSK", auto, {})
  BY <1>8 DEF StartsDue, StartDue
<1>10. PICK t1 : /\ auto_start({s}, "KSK", kskAuto, kskAllowed, kskRoll) = {t1}
                 /\ Began(s, t1)
                 /\ StartDue(s, "KSK", kskAuto, kskAllowed) => t1.changed
                 /\ ~StartDue(s, "KSK", kskAuto, kskAllowed) => t1 = s
  BY <1>6, StartStage
<1>11. Sound(t1)
  BY <1>10 DEF Began
<1>12. PICK t2 : /\ auto_start({t1}, "ZSK", zskAuto, zskAllowed, zskRoll) = {t2}
                 /\ Began(t1, t2)
                 /\ StartDue(t1, "ZSK", zskAuto, zskAllowed) => t2.changed
                 /\ ~StartDue(t1, "ZSK", zskAuto, zskAllowed) => t2 = t1
  BY <1>6, <1>11, StartStage
<1>13. Sound(t2)
  BY <1>12 DEF Began
<1>14. PICK t3 : /\ auto_start({t2}, "CSK", auto, {}, roll) = {t3}
                 /\ Began(t2, t3)
                 /\ StartDue(t2, "CSK", auto, {}) => t3.changed
                 /\ ~StartDue(t2, "CSK", auto, {}) => t3 = t2
  BY <1>6, <1>13, StartStage
<1>15. AutoStarts({s}) = {t3}
  BY <1>7, <1>10, <1>12, <1>14
<1>16. Began(s, t3)
  BY <1>10, <1>12, <1>14, BeganBoth
<1>17. (t1.changed => t2.changed) /\ (t2.changed => t3.changed)
  BY <1>12, <1>14 DEF Began
<1>18. StartsDue(s) => t3.changed
  <2>1. t1.changed \/ t1 = s
    BY <1>10
  <2>2. t2.changed \/ t2 = s
    BY <1>12, <1>17, <2>1
  <2> QED
    BY <1>9, <1>10, <1>12, <1>14, <1>17, <2>1, <2>2
<1>19. ~StartsDue(s) => t3 = s
  BY <1>9, <1>10, <1>12, <1>14
<1> QED
  BY <1>15, <1>16, <1>18, <1>19
RenewDue(s) ==
  \/ \E u \in compute_cron_next(s.dnskey_rrset) : u < 0
  \/ \E u \in compute_cron_next(s.cds_rrset) : u < 0

LEMMA SigsTyped == \A T \in Sigs : T \subseteq Int /\ \A e \in T : e >= Remain - 1 /\ e <= Lifetime
<1> SUFFICES ASSUME NEW T \in Sigs
             PROVE  T \subseteq Int /\ \A e \in T : e >= Remain - 1 /\ e <= Lifetime
  OBVIOUS
<1>1. T \subseteq Remain - 1 .. Lifetime
  BY DEF Sigs, Optional
<1> QED
  BY <1>1, CronNextAssumption

(* Signatures are renewed once the time is past; then they last longer.    *)
LEMMA Renewal ==
  ASSUME NEW T \in Sigs
  PROVE  /\ sig_renew(T) <=> \E u \in compute_cron_next(T) : u < 0
         /\ sig_renew(T) => T # {Lifetime}
<1>1. Remain \in Nat /\ Lifetime \in Nat /\ Remain < Lifetime
  BY CronNextAssumption
<1>2. \A e \in T : e \in Int
  BY SigsTyped
<1>3. \A e \in T : e < Remain <=> e - Remain < 0
  BY <1>1, <1>2
<1>4. sig_renew(T) <=> \E e \in T : e - Remain < 0
  BY <1>3 DEF sig_renew
<1>5. sig_renew(T) <=> \E u \in compute_cron_next(T) : u < 0
  BY <1>4 DEF compute_cron_next
<1>6. sig_renew(T) => T # {Lifetime}
  BY <1>1 DEF sig_renew
<1> QED
  BY <1>5, <1>6

LEMMA RenewStage ==
  ASSUME NEW s, Sound(s), s.changed = FALSE, NEW t, t = RenewSignatures(s)
  PROVE  /\ Sound(t) /\ t.keyset = s.keyset /\ t.internal = s.internal
         /\ RenewDue(s) => /\ t.changed
                           /\ t.dnskey_rrset # s.dnskey_rrset \/ t.cds_rrset # s.cds_rrset
         /\ ~RenewDue(s) => t = s
<1>1. IsState(s) /\ s.dnskey_rrset \in Sigs /\ s.cds_rrset \in Sigs
  BY DEF Sound
<1> DEFINE a == sig_renew(s.dnskey_rrset)
           b == sig_renew(s.cds_rrset)
<1>2. t = [s EXCEPT !.dnskey_rrset = IF a THEN {Lifetime} ELSE @,
                    !.cds_rrset = IF b THEN {Lifetime} ELSE @,
                    !.changed = a \/ b]
  BY DEF RenewSignatures
<1>3. /\ a => s.dnskey_rrset # {Lifetime}
      /\ b => s.cds_rrset # {Lifetime}
      /\ RenewDue(s) <=> a \/ b
  BY <1>1, Renewal DEF RenewDue
<1> HIDE DEF a, b
<1>4. /\ IsState(t) /\ t.keyset = s.keyset /\ t.internal = s.internal
      /\ t.dnskey_rrset = IF a THEN {Lifetime} ELSE s.dnskey_rrset
      /\ t.cds_rrset = IF b THEN {Lifetime} ELSE s.cds_rrset
      /\ t.changed = (a \/ b)
  BY <1>1, <1>2 DEF IsState, StateFields
<1>5. Sound(t)
  <2>1. t.changed \in BOOLEAN
    BY <1>4
  <2>2. t.dnskey_rrset \in Sigs /\ t.cds_rrset \in Sigs
    BY <1>1, <1>4, SigsHave
  <2> QED
    BY <1>4, <2>1, <2>2 DEF Sound
<1>6. ASSUME ~RenewDue(s)
      PROVE  t = s
  <2>1. \A f \in StateFields : t[f] = s[f]
    BY <1>3, <1>4, <1>6 DEF StateFields
  <2> QED
    BY <1>1, <1>4, <2>1 DEF IsState
<1> QED
  BY <1>3, <1>4, <1>5, <1>6

RemoveDue(s) == \E u \in NextRemovals(config, s) : u <= 0

LEMMA AgesTyped == \A T \in KeyAges : T \subseteq Nat /\ \A a \in T : a <= MaxAge
<1> SUFFICES ASSUME NEW T \in KeyAges
             PROVE  T \subseteq Nat /\ \A a \in T : a <= MaxAge
  OBVIOUS
<1>1. T \subseteq 0 .. MaxAge
  BY DEF KeyAges, Optional
<1> QED
  BY <1>1, CronNextAssumption

LEMMA RemovedKeys ==
  ASSUME NEW s, Sound(s), NEW gone, NEW t, t = RemoveKeys(s, gone)
  PROVE  /\ Sound(t) /\ t.keyset.rolls = s.keyset.rolls /\ t.internal = s.internal
         /\ t.dnskey_rrset = s.dnskey_rrset /\ t.cds_rrset = s.cds_rrset
         /\ t.changed <=> s.changed \/ gone # {}
         /\ gone # {} /\ gone \subseteq DOMAIN s.keyset.keys => t.keyset # s.keyset
<1>1. IsState(s) /\ SetSound(s.keyset) /\ s.changed \in BOOLEAN
  BY DEF Sound
<1> DEFINE set == [s.keyset EXCEPT !.keys = [k \in DOMAIN @ \ gone |-> @[k]]]
<1>2. SetSound(set)
  BY <1>1, SetRemoved
<1>3. /\ set.rolls = s.keyset.rolls
      /\ set.keys = [k \in DOMAIN s.keyset.keys \ gone |-> s.keyset.keys[k]]
  BY <1>1 DEF SetSound
<1>4. t = [s EXCEPT !.keyset = set, !.changed = @ \/ gone # {}]
  BY DEF RemoveKeys
<1> HIDE DEF set
<1>5. /\ IsState(t) /\ t.keyset = set /\ t.internal = s.internal
      /\ t.dnskey_rrset = s.dnskey_rrset /\ t.cds_rrset = s.cds_rrset
      /\ t.changed = (s.changed \/ gone # {})
  BY <1>1, <1>4 DEF IsState, StateFields
<1>6. Sound(t)
  <2>1. t.changed \in BOOLEAN
    BY <1>5
  <2> QED
    BY <1>2, <1>3, <1>5, <2>1 DEF Sound
<1>7. gone # {} /\ gone \subseteq DOMAIN s.keyset.keys => t.keyset # s.keyset
  BY <1>3, <1>5
<1> QED
  BY <1>3, <1>5, <1>6, <1>7
LEMMA RemoveStage ==
  ASSUME NEW s, Sound(s), NEW t, t = AutoRemove(s)
  PROVE  /\ Sound(t) /\ t.keyset.rolls = s.keyset.rolls /\ t.internal = s.internal
         /\ t.dnskey_rrset = s.dnskey_rrset /\ t.cds_rrset = s.cds_rrset
         /\ t.changed <=> s.changed \/ RemoveDue(s)
         /\ RemoveDue(s) => t.keyset # s.keyset
<1> DEFINE gone == {k \in StaleKeys(s) : \E a \in s.keyset.keys[k].withdrawn : a >= Delay}
<1>1. SetSound(s.keyset)
  BY DEF Sound
<1>2. gone \subseteq DOMAIN s.keyset.keys
  BY DEF StaleKeys
<1>3. \A k \in StaleKeys(s) : s.keyset.keys[k].withdrawn \subseteq Nat
  BY <1>1, AgesTyped DEF StaleKeys, SetSound, KeyFine, KeyTyped
<1>4. Delay \in Nat
  BY CronNextAssumption
<1>5. \A k \in StaleKeys(s) : \A a \in s.keyset.keys[k].withdrawn : a >= Delay <=> Delay - a <= 0
  BY <1>3, <1>4
<1>6. (\E u \in {Delay - a : a \in UNION {s.keyset.keys[k].withdrawn : k \in StaleKeys(s)}} : u <= 0)
        <=> \E k \in StaleKeys(s) : \E a \in s.keyset.keys[k].withdrawn : Delay - a <= 0
  OBVIOUS
<1>7. RemoveDue(s) <=> config.autoremove /\ gone # {}
  BY <1>5, <1>6 DEF RemoveDue, NextRemovals
<1>8. t = IF config.autoremove THEN RemoveKeys(s, gone) ELSE s
  BY DEF AutoRemove
<1> HIDE DEF gone
<1>9. CASE config.autoremove
  BY <1>2, <1>7, <1>8, <1>9, RemovedKeys
<1>10. CASE ~config.autoremove
  BY <1>7, <1>8, <1>10
<1> QED
  BY <1>9, <1>10

-----------------------------------------------------------------------------
(* A run of cron: it does something when something is due, and then it     *)
(* makes a difference, or goes in circles.                                 *)

RunDue(s) == RenewDue(s) \/ StartsDue(s) \/ RollsDue(config, s) \/ RemoveDue(s)

Different(s, w, out) ==
  \/ w.keyset # s.keyset \/ w.internal # s.internal
  \/ w.dnskey_rrset # s.dnskey_rrset \/ w.cds_rrset # s.cds_rrset
  \/ \E r \in DOMAIN s.keyset.rolls : Circles(s, r, out)

RanCron(s, w, out) ==
  /\ RunCron(s, out) = {w}
  /\ Sound(w)
  /\ w.changed <=> RunDue(s)
  /\ w.changed => Different(s, w, out)

LEMMA RunWorks ==
  ASSUME NEW s, Sound(s), s.changed = FALSE, config \in Configs, NEW out \in Outcomes
  PROVE  \E w : RanCron(s, w, out)
<1>1. PICK t1 : t1 = RenewSignatures(s)
  OBVIOUS
<1>2. /\ Sound(t1) /\ t1.keyset = s.keyset /\ t1.internal = s.internal
      /\ RenewDue(s) => /\ t1.changed
                        /\ t1.dnskey_rrset # s.dnskey_rrset \/ t1.cds_rrset # s.cds_rrset
      /\ ~RenewDue(s) => t1 = s
  BY <1>1, RenewStage
<1>3. PICK t2 : /\ AutoStarts({t1}) = {t2}
                /\ Began(t1, t2)
                /\ StartsDue(t1) => t2.changed
                /\ ~StartsDue(t1) => t2 = t1
  BY <1>2, StartStages
<1>4. Sound(t2) /\ (t1.changed => t2.changed)
  BY <1>3 DEF Began
<1>5. PICK t3 : /\ AutoRolls({t2}, out) = {t3}
                /\ Passed(t2, t3, Variants, out)
                /\ RollsDue(config, t2) => t3.changed
                /\ ~RollsDue(config, t2) => t3 = t2
  BY <1>4, RollStages
<1>6. Sound(t3) /\ (t2.changed => t3.changed)
  BY <1>5 DEF Passed
<1>7. PICK w : w = AutoRemove(t3)
  OBVIOUS
<1>8. /\ Sound(w) /\ w.keyset.rolls = t3.keyset.rolls /\ w.internal = t3.internal
      /\ w.dnskey_rrset = t3.dnskey_rrset /\ w.cds_rrset = t3.cds_rrset
      /\ w.changed <=> t3.changed \/ RemoveDue(t3)
      /\ RemoveDue(t3) => w.keyset # t3.keyset
  BY <1>6, <1>7, RemoveStage
<1>9. RunCron(s, out) = {w}
  BY <1>1, <1>3, <1>5, <1>7 DEF RunCron
<1>10. w.changed <=> RunDue(s)
  <2>1. t1.changed \/ t1 = s
    BY <1>2
  <2>2. t2.changed \/ t2 = s
    BY <1>3, <1>4, <2>1
  <2>3. t3.changed \/ t3 = s
    BY <1>5, <1>6, <2>2
  <2>4. RunDue(s) => w.changed
    BY <1>2, <1>3, <1>4, <1>5, <1>6, <1>8, <2>1, <2>2, <2>3 DEF RunDue
  <2>5. ~RunDue(s) => ~w.changed
    BY <1>2, <1>3, <1>5, <1>8 DEF RunDue
  <2> QED
    BY <2>4, <2>5
<1>11. ASSUME w.changed, ~Different(s, w, out)
       PROVE  FALSE
  <2>1. /\ w.keyset = s.keyset /\ w.internal = s.internal
        /\ w.dnskey_rrset = s.dnskey_rrset /\ w.cds_rrset = s.cds_rrset
        /\ ~\E r \in DOMAIN s.keyset.rolls : Circles(s, r, out)
    BY <1>11 DEF Different
  <2>2. ASSUME NEW r \in RollTypes
        PROVE  Rank(t2, r) = Rank(t1, r) /\ Rank(t3, r) = Rank(t2, r)
    <3>1. Rank(t3, r) = Rank(t1, r)
      BY <1>2, <1>8, <2>1 DEF Rank
    <3>2. Rank(t2, r) = Rank(t1, r) \/ (Rank(t1, r) = 0 /\ Rank(t2, r) = 1)
      BY <1>3 DEF Began
    <3>3. Advance(Rank(t2, r), Rank(t3, r))
      BY <1>5 DEF Passed
    <3>4. Rank(t1, r) \in 0 .. 5 /\ Rank(t2, r) \in 0 .. 5
      BY <1>2, <1>4, RankPhases
    <3> QED
      BY <3>1, <3>2, <3>3, <3>4 DEF Advance
  <2>3. t2 = t1
    BY <1>3, <2>2 DEF Began
  <2>4. CalmRun(t2, t3, out)
    BY <1>5, <2>2 DEF Passed
  <2>5. t1.dnskey_rrset = s.dnskey_rrset /\ t1.cds_rrset = s.cds_rrset
    BY <1>8, <2>1, <2>3, <2>4 DEF CalmRun
  <2>6. t1 = s
    BY <1>2, <2>5
  <2>7. t3.keyset = s.keyset /\ t3.internal = s.internal
    BY <1>8, <2>1, <2>3, <2>4, <2>6 DEF CalmRun
  <2>8. t3.changed
    BY <1>8, <1>11, <2>1, <2>7
  <2>9. t3.changed => s.changed
    BY <2>1, <2>3, <2>4, <2>6, <2>7 DEF CalmRun
  <2> QED
    BY <2>8, <2>9
<1>12. RanCron(s, w, out)
  BY <1>8, <1>9, <1>10, <1>11 DEF RanCron
<1> QED
  BY <1>12

(* The conditions under which cron acts are those of the times. *)
LEMMA DueWhenCome ==
  ASSUME NEW s, Sound(s)
  PROVE  RunDue(s) <=> Due(config, s)
<1>1. RenewDue(s) \/ StartsDue(s) <=> \E u \in ActsAfter(config, s) : u < 0
  BY DEF RenewDue, StartsDue, ActsAfter
<1>2. ASSUME NEW r \in DOMAIN s.keyset.rolls
      PROVE  RollDue(s, config.auto[VariantOf(r)], r)
               <=> \E u \in cron_next_auto_report_expire_done(config, s, r) : u <= 0
  <2> DEFINE auto == config.auto[VariantOf(r)]
             check == ("report" \in auto /\ InPhase(s, r, Propagation))
                        \/ ("done" \in auto /\ InPhase(s, r, {"Done"}))
             expire == "expire" \in auto /\ InPhase(s, r, CacheExpire)
  <2>1. cron_next_auto_report_expire_done(config, s, r) =
          {t \in {check_auto_actions(s, r)} : check} \union {t \in {s.keyset.rolls[r].wait} : expire}
    BY DEF cron_next_auto_report_expire_done
  <2>2. s.keyset.rolls[r].wait \in Nat
    <3>1. s.keyset.rolls[r] \in RollState(TTL)
      BY DEF Sound, SetSound
    <3> QED
      BY <3>1, CronNextAssumption DEF RollState
  <2>3. RollDue(s, auto, r) <=> (check /\ CheckDue(s, r)) \/ (expire /\ s.keyset.rolls[r].wait = 0)
    BY DEF RollDue, ReportDue, ExpireDue, DoneDue
  <2> HIDE DEF check, expire, auto
  <2>4. (\E u \in cron_next_auto_report_expire_done(config, s, r) : u <= 0)
          <=> (check /\ check_auto_actions(s, r) <= 0) \/ (expire /\ s.keyset.rolls[r].wait <= 0)
    BY <2>1
  <2>5. s.keyset.rolls[r].wait <= 0 <=> s.keyset.rolls[r].wait = 0
    BY <2>2
  <2> QED
    BY <2>3, <2>4, <2>5 DEF CheckDue, auto
<1>3. RollsDue(config, s)
        <=> \E r \in DOMAIN s.keyset.rolls :
              \E u \in cron_next_auto_report_expire_done(config, s, r) : u <= 0
  <2>1. \A r : VariantOf(r) \in Variants
    BY DEF VariantOf, Variants
  <2>2. RollsDue(config, s)
          <=> \E r \in DOMAIN s.keyset.rolls : RollDue(s, config.auto[VariantOf(r)], r)
    BY <2>1 DEF RollsDue, VariantDue
  <2> QED
    BY <1>2, <2>2
<1>4. RollsDue(config, s) \/ RemoveDue(s) <=> \E u \in ActsAt(config, s) : u <= 0
  BY <1>3 DEF RemoveDue, ActsAt
<1> QED
  BY <1>1, <1>4 DEF RunDue, Due
-----------------------------------------------------------------------------
(* The times that are told apart, and the first of them.                   *)

LEMMA EarliestExists ==
  ASSUME NEW T, T \subseteq Int, T # {}, NEW b \in Int, \A t \in T : b <= t
  PROVE  \E m \in T : \A u \in T : m <= u
<1> DEFINE S == {n \in Nat : n + b \in T}
<1>1. S \subseteq Nat /\ S # {}
  <2>1. PICK t \in T : TRUE
    OBVIOUS
  <2>2. t - b \in Nat /\ (t - b) + b = t
    BY <2>1
  <2>3. t - b \in S
    BY <2>1, <2>2
  <2> QED
    BY <2>3
<1>2. PICK R : R = OpToRel(<, Nat)
  OBVIOUS
<1>3. \A x, y \in Nat : <<x, y>> \in R <=> x < y
  BY <1>2 DEF OpToRel
<1>4. IsWellFoundedOn(R, Nat)
  BY <1>2, NatLessThanWellFounded
<1> HIDE DEF S
<1>5. PICK n \in S : \A x \in S : <<x, n>> \notin R
  BY <1>1, <1>4, WFMin
<1>6. ASSUME NEW x \in S
      PROVE  n <= x
  <2>1. x \in Nat /\ n \in Nat
    BY <1>1, <1>5
  <2>2. ~(x < n)
    BY <1>3, <1>5, <2>1
  <2> QED
    BY <2>1, <2>2
<1>7. n \in Nat /\ n + b \in T
  BY <1>5 DEF S
<1>8. ASSUME NEW u \in T
      PROVE  n + b <= u
  <2>1. u - b \in Nat /\ (u - b) + b = u
    BY <1>8
  <2>2. u - b \in S
    BY <1>8, <2>1 DEF S
  <2> QED
    BY <1>6, <1>7, <1>8, <2>1, <2>2
<1> QED
  BY <1>7, <1>8

(* The times that a state can hold. *)
Latest == MaxAge + Lifetime + TTL + Retry
Times == -(MaxAge + 1) .. Latest

LEMMA ConstantsTyped ==
  /\ Lifetime \in Nat /\ Remain \in Nat /\ TTL \in Nat /\ Retry \in Nat
  /\ Delay \in Nat /\ MaxAge \in Nat /\ Latest \in Nat
  /\ Remain < Lifetime /\ Delay < MaxAge /\ Retry > 0
BY CronNextAssumption DEF Latest

LEMMA RenewalTimes ==
  ASSUME NEW T \in Sigs
  PROVE  compute_cron_next(T) \subseteq Times
<1>1. \A e \in T : e \in Int /\ e >= Remain - 1 /\ e <= Lifetime
  BY SigsTyped
<1>2. \A e \in T : e - Remain \in Times
  BY <1>1, ConstantsTyped DEF Times, Latest
<1> QED
  BY <1>2 DEF compute_cron_next

LEMMA ValidityTimes ==
  ASSUME NEW c \in Configs, NEW s, Sound(s), NEW type \in {"KSK", "ZSK", "CSK"}
  PROVE  /\ Validity(c, s, type) \subseteq Times
         /\ \A v \in c.validity[type] : v \in Nat /\ v < MaxAge
<1>1. c.validity \in [{"KSK", "ZSK", "CSK"} -> {{}} \union {{v} : v \in 0 .. MaxAge - 1}]
  BY CronNextAssumption
<1>2. c.validity[type] = {} \/ \E v \in 0 .. MaxAge - 1 : c.validity[type] = {v}
  BY <1>1
<1>3. \A v \in c.validity[type] : v \in Nat /\ v < MaxAge
  BY <1>2, ConstantsTyped
<1>4. ASSUME NEW k \in ActiveKeys(s, {type})
      PROVE  s.keyset.keys[k].published \subseteq Nat
             /\ \A a \in s.keyset.keys[k].published : a <= MaxAge
  <2>1. k \in DOMAIN s.keyset.keys
    BY DEF ActiveKeys
  <2>2. s.keyset.keys[k].published \in KeyAges
    BY <2>1 DEF Sound, SetSound, KeyFine, KeyTyped
  <2> QED
    BY <2>2, AgesTyped
<1>5. \A a \in UNION {s.keyset.keys[k].published : k \in ActiveKeys(s, {type})} :
        a \in Nat /\ a <= MaxAge
  BY <1>4
<1>6. ASSUME NEW v \in c.validity[type],
             NEW a \in UNION {s.keyset.keys[k].published : k \in ActiveKeys(s, {type})}
      PROVE  v - a \in Times
  <2>1. v \in Nat /\ v < MaxAge /\ a \in Nat /\ a <= MaxAge
    BY <1>3, <1>5, <1>6
  <2> QED
    BY <2>1, ConstantsTyped DEF Times, Latest
<1>7. ASSUME NEW u \in Validity(c, s, type)
      PROVE  u \in Times
  <2>1. PICK v \in c.validity[type],
             a \in UNION {s.keyset.keys[k].published : k \in ActiveKeys(s, {type})} :
          u = v - a
    BY <1>7 DEF Validity
  <2> QED
    BY <1>6, <2>1
<1> QED
  BY <1>3, <1>7

LEMMA RemovalTimes ==
  ASSUME NEW c, NEW s, Sound(s)
  PROVE  NextRemovals(c, s) \subseteq Times
<1>1. ASSUME NEW k \in StaleKeys(s)
      PROVE  s.keyset.keys[k].withdrawn \subseteq Nat
             /\ \A a \in s.keyset.keys[k].withdrawn : a <= MaxAge
  <2>1. k \in DOMAIN s.keyset.keys
    BY DEF StaleKeys
  <2>2. s.keyset.keys[k].withdrawn \in KeyAges
    BY <2>1 DEF Sound, SetSound, KeyFine, KeyTyped
  <2> QED
    BY <2>2, AgesTyped
<1>2. ASSUME NEW a \in UNION {s.keyset.keys[k].withdrawn : k \in StaleKeys(s)}
      PROVE  Delay - a \in Times
  <2>1. a \in Nat /\ a <= MaxAge
    BY <1>1
  <2> QED
    BY <2>1, ConstantsTyped DEF Times, Latest
<1> QED
  BY <1>2 DEF NextRemovals

LEMMA CheckTimes ==
  ASSUME NEW s, Sound(s), NEW r \in DOMAIN s.keyset.rolls
  PROVE  /\ check_auto_actions(s, r) \in 0 .. Retry
         /\ s.keyset.rolls[r].wait \in 0 .. TTL
<1>1. s.keyset.rolls[r].wait \in 0 .. TTL
  <2>1. s.keyset.rolls[r] \in RollState(TTL)
    BY DEF Sound, SetSound
  <2> QED
    BY <2>1 DEF RollState
<1>2. CASE Open(s, r) = {}
  BY <1>1, <1>2, CheckTime, ConstantsTyped
<1>3. CASE Open(s, r) # {}
  <2>1. First(s, r) \in Checks
    BY <1>3, FirstOpen, NeededChecks DEF Open
  <2>2. s.internal[r] \in [Checks -> Statuses]
    BY DEF Sound
  <2>3. s.internal[r][First(s, r)].until \in 0 .. Retry
    BY <2>1, <2>2, StatusParts
  <2> QED
    BY <1>1, <1>3, <2>3, CheckTime
<1> QED
  BY <1>2, <1>3

LEMMA RollTimes ==
  ASSUME NEW c, NEW s, Sound(s), NEW r \in DOMAIN s.keyset.rolls
  PROVE  cron_next_auto_report_expire_done(c, s, r) \subseteq Times
<1>1. check_auto_actions(s, r) \in 0 .. Retry /\ s.keyset.rolls[r].wait \in 0 .. TTL
  BY CheckTimes
<1>2. check_auto_actions(s, r) \in Times /\ s.keyset.rolls[r].wait \in Times
  BY <1>1, ConstantsTyped DEF Times, Latest
<1> QED
  BY <1>2 DEF cron_next_auto_report_expire_done

LEMMA AllTimes ==
  ASSUME NEW c \in Configs, NEW s, Sound(s)
  PROVE  ActsAfter(c, s) \subseteq Times /\ ActsAt(c, s) \subseteq Times
<1>1. s.dnskey_rrset \in Sigs /\ s.cds_rrset \in Sigs
  BY DEF Sound
<1>2. NextStarts(c, s) \subseteq Times
  <2>1. \A type \in {"KSK", "ZSK", "CSK"} : Validity(c, s, type) \subseteq Times
    BY ValidityTimes
  <2>2. \A type \in {"KSK", "ZSK", "CSK"} : \A auto, allowed :
          cron_next_auto_start(c, s, type, auto, allowed) \subseteq Times
    BY <2>1 DEF cron_next_auto_start
  <2> QED
    BY <2>2 DEF NextStarts
<1>3. ActsAfter(c, s) \subseteq Times
  BY <1>1, <1>2, RenewalTimes DEF ActsAfter
<1>4. ActsAt(c, s) \subseteq Times
  BY RemovalTimes, RollTimes DEF ActsAt
<1> QED
  BY <1>3, <1>4

(* What the end of a command writes. *)
LEMMA NextWritten ==
  ASSUME NEW c \in Configs, NEW s, Sound(s)
  PROVE  /\ NextCron(c, s) \in Optional(Left)
         /\ InTime(NextCron(c, s), c, s)
         /\ Wanted(NextCron(c, s), c, s)
<1> DEFINE T == ActsAfter(c, s) \union ActsAt(c, s)
           next == NextCron(c, s)
<1>1. T \subseteq Times
  BY AllTimes
<1>2. T = compute_cron_next(s.dnskey_rrset) \union compute_cron_next(s.cds_rrset)
            \union NextStarts(c, s) \union NextRemovals(c, s)
            \union UNION {cron_next_auto_report_expire_done(c, s, r) : r \in DOMAIN s.keyset.rolls}
  BY DEF ActsAfter, ActsAt
<1>3. next = {Floor(t) : t \in Earliest(T)}
  BY <1>2 DEF NextCron
<1>4. \A u \in ActsAfter(c, s) : u \in T
  OBVIOUS
<1>5. \A u \in ActsAt(c, s) : u \in T
  OBVIOUS
<1>6. \A u \in T : u \in ActsAfter(c, s) \/ u \in ActsAt(c, s)
  OBVIOUS
<1> HIDE DEF T, next
<1>7. CASE T = {}
  <2>1. next = {}
    BY <1>3, <1>7 DEF Earliest
  <2>2. next \in Optional(Left)
    BY <2>1 DEF Optional
  <2>3. InTime(next, c, s) /\ Wanted(next, c, s)
    BY <1>4, <1>5, <1>7, <2>1 DEF InTime, Wanted
  <2> QED
    BY <2>2, <2>3 DEF next
<1>8. CASE T # {}
  <2>1. T \subseteq Int /\ \A t \in T : -(MaxAge + 1) <= t /\ t <= Latest
    BY <1>1, ConstantsTyped DEF Times
  <2>2. PICK m \in T : \A u \in T : m <= u
    <3>1. -(MaxAge + 1) \in Int
      BY ConstantsTyped
    <3>2. PICK b \in Int : b = -(MaxAge + 1)
      BY <3>1
    <3>3. \A t \in T : b <= t
      BY <2>1, <3>2
    <3> QED
      BY <1>8, <2>1, <3>3, EarliestExists
  <2>3. Earliest(T) = {m}
    <3>1. m \in Earliest(T)
      BY <2>2 DEF Earliest
    <3>2. \A t \in Earliest(T) : t = m
      BY <2>1, <2>2 DEF Earliest
    <3> QED
      BY <3>1, <3>2
  <2>4. next = {Floor(m)}
    BY <1>3, <2>3
  <2>5. Floor(m) \in Left /\ Floor(m) = IF m < -1 THEN -1 ELSE m
    BY <2>1, <2>2, ConstantsTyped DEF Floor, Past, Left, Latest
  <2>6. next \in Optional(Left)
    BY <2>4, <2>5 DEF Optional
  <2>7. InTime(next, c, s)
    <3>1. ASSUME NEW u \in T
          PROVE  Floor(m) <= 0 \/ Floor(m) <= u
      BY <2>1, <2>2, <2>5, <3>1
    <3> QED
      BY <1>4, <1>5, <2>4, <3>1 DEF InTime
  <2>8. Wanted(next, c, s)
    <3>1. m <= Floor(m)
      BY <2>1, <2>2, <2>5
    <3> QED
      BY <1>6, <2>2, <2>4, <3>1 DEF Wanted
  <2> QED
    BY <2>6, <2>7, <2>8 DEF next
<1> QED
  BY <1>7, <1>8

-----------------------------------------------------------------------------
(* The end of a command: it writes the state, and the first of the times.  *)

SameTimes(c, s, t) == ActsAfter(c, t) = ActsAfter(c, s) /\ ActsAt(c, t) = ActsAt(c, s)

LEMMA WrittenState ==
  ASSUME NEW s, Sound(s), NEW t, t = [s EXCEPT !.changed = FALSE]
  PROVE  /\ Sound(t) /\ t.changed = FALSE
         /\ t.keyset = s.keyset /\ t.internal = s.internal
         /\ t.dnskey_rrset = s.dnskey_rrset /\ t.cds_rrset = s.cds_rrset
<1>1. IsState(s)
  BY DEF Sound
<1>2. /\ IsState(t) /\ t.keyset = s.keyset /\ t.internal = s.internal
      /\ t.dnskey_rrset = s.dnskey_rrset /\ t.cds_rrset = s.cds_rrset
      /\ t.changed = FALSE
  BY <1>1 DEF IsState, StateFields
<1>3. t.changed \in BOOLEAN
  BY <1>2
<1> QED
  BY <1>2, <1>3 DEF Sound

LEMMA WrittenTimes ==
  ASSUME NEW c, NEW s, NEW t, t.keyset = s.keyset, t.internal = s.internal,
         t.dnskey_rrset = s.dnskey_rrset, t.cds_rrset = s.cds_rrset
  PROVE  SameTimes(c, s, t)
<1>1. \A types : ActiveKeys(t, types) = ActiveKeys(s, types)
  BY DEF ActiveKeys
<1>2. algorithm_roll_needed(c, t) <=> algorithm_roll_needed(c, s)
  <2>1. ActiveKeys(t, {"KSK", "ZSK", "CSK"}) = ActiveKeys(s, {"KSK", "ZSK", "CSK"})
    BY <1>1
  <2> QED
    BY <2>1, Zenon DEF algorithm_roll_needed
<1>3. \A type : Validity(c, t, type) = Validity(c, s, type)
  BY <1>1 DEF Validity
<1>4. \A type, auto, allowed :
        cron_next_auto_start(c, t, type, auto, allowed)
          = cron_next_auto_start(c, s, type, auto, allowed)
  BY <1>3 DEF cron_next_auto_start
<1>5. NextStarts(c, t) = NextStarts(c, s)
  BY <1>2, <1>4, Zenon DEF NextStarts
<1>6. StaleKeys(t) = StaleKeys(s)
  BY DEF StaleKeys
<1>7. NextRemovals(c, t) = NextRemovals(c, s)
  BY <1>6 DEF NextRemovals
<1>8. \A r : check_auto_actions(t, r) = check_auto_actions(s, r)
  BY DEF check_auto_actions
<1>9. \A r : cron_next_auto_report_expire_done(c, t, r) = cron_next_auto_report_expire_done(c, s, r)
  BY <1>8 DEF cron_next_auto_report_expire_done, InPhase
<1> QED
  BY <1>5, <1>7, <1>9 DEF SameTimes, ActsAfter, ActsAt

LEMMA SameInTime ==
  ASSUME NEW next, NEW c, NEW s, NEW t, SameTimes(c, s, t)
  PROVE  /\ InTime(next, c, s) => InTime(next, c, t)
         /\ Wanted(next, c, s) => Wanted(next, c, t)
BY DEF SameTimes, InTime, Wanted

LEMMA FinishKeeps ==
  ASSUME NEW c \in Configs, NEW s, Sound(s)
  PROVE  Finish(c, s) => CronNextInv'
<1> SUFFICES ASSUME Finish(c, s)
             PROVE  CronNextInv'
  OBVIOUS
<1>1. PICK t : t = [s EXCEPT !.changed = FALSE]
  OBVIOUS
<1>2. config' = c /\ kss' = t /\ cron_next' = NextCron(c, s) /\ torn' = FALSE
  BY <1>1 DEF Finish
<1>3. /\ Sound(t) /\ t.changed = FALSE
      /\ t.keyset = s.keyset /\ t.internal = s.internal
      /\ t.dnskey_rrset = s.dnskey_rrset /\ t.cds_rrset = s.cds_rrset
  BY <1>1, WrittenState
<1>4. SameTimes(c, s, t)
  BY <1>3, WrittenTimes
<1>5. PICK next : next = NextCron(c, s)
  OBVIOUS
<1>6. next \in Optional(Left) /\ InTime(next, c, s) /\ Wanted(next, c, s)
  BY <1>5, NextWritten
<1>7. InTime(next, c, t) /\ Wanted(next, c, t)
  BY <1>4, <1>6, SameInTime
<1>8. StateInv'
  BY <1>2, <1>3, <1>5, <1>6 DEF StateInv
<1>9. TimesInv'
  BY <1>2, <1>5, <1>7 DEF TimesInv
<1> QED
  BY <1>8, <1>9 DEF CronNextInv

-----------------------------------------------------------------------------
(* A tick of the clock: each time comes closer by one, unless it has       *)
(* passed already.                                                         *)

LEMMA OptionalElapsed ==
  ASSUME NEW lo \in Int, NEW hi \in Int, NEW T \in Optional(lo .. hi)
  PROVE  Elapsed(T, lo) \in Optional(lo .. hi)
<1>1. T \subseteq lo .. hi /\ \A x, y \in T : x = y
  BY DEF Optional
<1>2. \A x \in T : (IF x > lo THEN x - 1 ELSE x) \in lo .. hi
  BY <1>1
<1>3. Elapsed(T, lo) \subseteq lo .. hi
  BY <1>2 DEF Elapsed
<1>4. \A x, y \in Elapsed(T, lo) : x = y
  BY <1>1 DEF Elapsed
<1> QED
  BY <1>3, <1>4 DEF Optional

LEMMA OlderAges ==
  ASSUME NEW T \in KeyAges
  PROVE  Older(T) \in KeyAges /\ (Older(T) = {} <=> T = {})
<1>1. MaxAge \in Nat
  BY CronNextAssumption
<1>2. T \subseteq 0 .. MaxAge /\ \A x, y \in T : x = y
  BY DEF KeyAges, Optional
<1>3. \A a \in T : (IF a < MaxAge THEN a + 1 ELSE a) \in 0 .. MaxAge
  BY <1>1, <1>2
<1>4. Older(T) \subseteq 0 .. MaxAge
  BY <1>3 DEF Older
<1>5. \A x, y \in Older(T) : x = y
  BY <1>2 DEF Older
<1>6. Older(T) = {} <=> T = {}
  BY DEF Older
<1> QED
  BY <1>4, <1>5, <1>6 DEF KeyAges, Optional

SameKey(key, new) ==
  /\ DOMAIN new = KeyFields
  /\ new.type = key.type /\ new.alg = key.alg /\ new.old = key.old /\ new.flags = key.flags

AgedKey(key, new) ==
  /\ SameKey(key, new)
  /\ new.published = Older(key.published) /\ new.withdrawn = Older(key.withdrawn)

WaitedRoll(roll, new) ==
  new.phase = roll.phase /\ new.wait = IF roll.wait = 0 THEN 0 ELSE roll.wait - 1

WaitedStatus(status, new) ==
  new.form = status.form
    /\ new.until = IF status.until > 0 THEN status.until - 1 ELSE status.until

(* The state t is what s is a tick later. *)
Aged(s, t) ==
  /\ Sound(t) /\ t.changed = s.changed
  /\ t.dnskey_rrset = Elapsed(s.dnskey_rrset, Remain - 1)
  /\ t.cds_rrset = Elapsed(s.cds_rrset, Remain - 1)
  /\ DOMAIN t.keyset.keys = DOMAIN s.keyset.keys
  /\ \A k \in DOMAIN s.keyset.keys : AgedKey(s.keyset.keys[k], t.keyset.keys[k])
  /\ DOMAIN t.keyset.rolls = DOMAIN s.keyset.rolls
  /\ \A r \in DOMAIN s.keyset.rolls :
       /\ WaitedRoll(s.keyset.rolls[r], t.keyset.rolls[r])
       /\ \A c \in Checks : WaitedStatus(s.internal[r][c], t.internal[r][c])

LEMMA AgedKeyFine ==
  ASSUME NEW k, NEW key, NEW new, NEW rolls, NEW later, KeyFine(k, key, rolls),
         AgedKey(key, new), DOMAIN later = DOMAIN rolls,
         \A r \in DOMAIN rolls : later[r].phase = rolls[r].phase
  PROVE  KeyFine(k, new, later)
<1>1. KeyTyped(k, key)
  BY DEF KeyFine
<1>2. key.published \in KeyAges /\ key.withdrawn \in KeyAges
  BY <1>1 DEF KeyTyped
<1>3. /\ new.published \in KeyAges /\ new.withdrawn \in KeyAges
      /\ new.withdrawn = {} <=> key.withdrawn = {}
  BY <1>2, OlderAges DEF AgedKey
<1>4. SameKey(key, new)
  BY DEF AgedKey
<1>5. KeyTyped(k, new)
  BY <1>1, <1>3, <1>4 DEF KeyTyped, SameKey
<1>6. stale(new) <=> stale(key)
  BY <1>4 DEF stale, SameKey
<1>7. \A r, phase : RolledFlags(new, r, phase) = RolledFlags(key, r, phase)
  BY <1>4 DEF RolledFlags, SameKey
<1>8. FlagsFine(key, rolls) => FlagsFine(new, later)
  BY <1>4, <1>6, <1>7 DEF FlagsFine, SameKey
<1> QED
  BY <1>3, <1>4, <1>5, <1>8 DEF KeyFine, SameKey

AgedState(s) ==
  [s EXCEPT !.keyset.rolls = Waited(@),
            !.keyset.keys = OlderKeys(@),
            !.dnskey_rrset = Elapsed(@, Remain - 1),
            !.cds_rrset = Elapsed(@, Remain - 1),
            !.internal = WaitedReports(@)]

LEMMA StateAged ==
  ASSUME NEW s, Sound(s), NEW t, t = AgedState(s)
  PROVE  Aged(s, t)
<1>1. /\ IsState(s) /\ s.changed \in BOOLEAN /\ s.dnskey_rrset \in Sigs /\ s.cds_rrset \in Sigs
      /\ SetSound(s.keyset) /\ s.internal \in [DOMAIN s.keyset.rolls -> [Checks -> Statuses]]
  BY DEF Sound
<1>2. DOMAIN s.keyset = {"keys", "rolls"}
  BY <1>1 DEF SetSound
<1>3. PICK keys : keys = OlderKeys(s.keyset.keys)
  OBVIOUS
<1>4. PICK rolls : rolls = Waited(s.keyset.rolls)
  OBVIOUS
<1>5. PICK internal : internal = WaitedReports(s.internal)
  OBVIOUS
<1>6. /\ IsState(t) /\ t.changed = s.changed
      /\ t.dnskey_rrset = Elapsed(s.dnskey_rrset, Remain - 1)
      /\ t.cds_rrset = Elapsed(s.cds_rrset, Remain - 1)
      /\ DOMAIN t.keyset = {"keys", "rolls"}
      /\ t.keyset.keys = keys /\ t.keyset.rolls = rolls /\ t.internal = internal
  <2>1. PICK dnskey, cds : /\ dnskey = Elapsed(s.dnskey_rrset, Remain - 1)
                           /\ cds = Elapsed(s.cds_rrset, Remain - 1)
    OBVIOUS
  <2>2. t = [s EXCEPT !.keyset.rolls = rolls, !.keyset.keys = keys, !.dnskey_rrset = dnskey,
                      !.cds_rrset = cds, !.internal = internal]
    BY <1>2, <1>3, <1>4, <1>5, <2>1 DEF AgedState
  <2>3. t = [s EXCEPT !.keyset = [s.keyset EXCEPT !.rolls = rolls, !.keys = keys],
                      !.dnskey_rrset = dnskey, !.cds_rrset = cds, !.internal = internal]
    BY <1>1, <1>2, <2>2 DEF IsState, StateFields
  <2>4. PICK set : set = [s.keyset EXCEPT !.rolls = rolls, !.keys = keys]
    OBVIOUS
  <2>5. DOMAIN set = {"keys", "rolls"} /\ set.keys = keys /\ set.rolls = rolls
    BY <1>2, <2>4
  <2>6. t = [s EXCEPT !.keyset = set, !.dnskey_rrset = dnskey, !.cds_rrset = cds,
                      !.internal = internal]
    BY <2>3, <2>4
  <2>7. /\ IsState(t) /\ t.changed = s.changed /\ t.keyset = set /\ t.internal = internal
        /\ t.dnskey_rrset = dnskey /\ t.cds_rrset = cds
    BY <1>1, <2>6 DEF IsState, StateFields
  <2> QED
    BY <2>1, <2>5, <2>7
<1>7. ASSUME NEW k \in DOMAIN s.keyset.keys
      PROVE  AgedKey(s.keyset.keys[k], keys[k])
  <2>1. DOMAIN s.keyset.keys[k] = KeyFields
    BY <1>1 DEF SetSound, KeyFine, KeyTyped
  <2>2. PICK key : key = s.keyset.keys[k]
    OBVIOUS
  <2>3. keys[k] = [key EXCEPT !.published = Older(@), !.withdrawn = Older(@)]
    BY <1>3, <2>2 DEF OlderKeys
  <2>4. AgedKey(key, keys[k])
    BY <2>1, <2>2, <2>3 DEF AgedKey, SameKey, KeyFields
  <2> QED
    BY <2>2, <2>4
<1>8. ASSUME NEW r \in DOMAIN s.keyset.rolls
      PROVE  WaitedRoll(s.keyset.rolls[r], rolls[r]) /\ rolls[r] \in RollState(TTL)
  <2>1. s.keyset.rolls[r] \in RollState(TTL)
    BY <1>1 DEF SetSound
  <2>2. rolls[r] = [s.keyset.rolls[r] EXCEPT !.wait = IF @ = 0 THEN 0 ELSE @ - 1]
    BY <1>4 DEF Waited
  <2>3. TTL \in Nat
    BY CronNextAssumption
  <2>4. \A n \in 0 .. TTL : (IF n = 0 THEN 0 ELSE n - 1) \in 0 .. TTL
    BY <2>3
  <2> QED
    BY <2>1, <2>2, <2>4 DEF WaitedRoll, RollState
<1>9. ASSUME NEW r \in DOMAIN s.keyset.rolls, NEW c \in Checks
      PROVE  WaitedStatus(s.internal[r][c], internal[r][c]) /\ internal[r][c] \in Statuses
  <2>1. s.internal[r][c] \in Statuses
    BY <1>1
  <2>2. PICK x : x = s.internal[r][c]
    OBVIOUS
  <2>3. internal[r][c] = [x EXCEPT !.until = IF @ > 0 THEN @ - 1 ELSE @]
    BY <1>1, <1>5, <2>2 DEF WaitedReports
  <2>4. /\ DOMAIN x = {"form", "until"} /\ x.form \in RrsigForms \union {"none"}
        /\ x.until \in 0 .. Retry /\ (x.form = "none" => x.until = 0)
    BY <2>1, <2>2, StatusParts
  <2>5. PICK n : n = IF x.until > 0 THEN x.until - 1 ELSE x.until
    OBVIOUS
  <2>6. n \in 0 .. Retry /\ (x.until = 0 => n = 0)
    BY <2>4, <2>5, CronNextAssumption
  <2>7. internal[r][c] = [form |-> x.form, until |-> n]
    BY <2>1, <2>2, <2>3, <2>5 DEF Statuses
  <2>8. [form |-> x.form, until |-> n] \in Statuses
    BY <2>4, <2>6 DEF Statuses
  <2> QED
    BY <2>2, <2>5, <2>7, <2>8 DEF WaitedStatus
<1>10. DOMAIN keys = DOMAIN s.keyset.keys /\ DOMAIN rolls = DOMAIN s.keyset.rolls
  BY <1>3, <1>4 DEF Waited, OlderKeys
<1>11. SetSound(t.keyset)
  <2>1. DOMAIN t.keyset.keys \subseteq Names
    BY <1>1, <1>6, <1>10 DEF SetSound
  <2>2. ASSUME NEW k \in DOMAIN keys
        PROVE  KeyFine(k, keys[k], rolls)
    <3>1. KeyFine(k, s.keyset.keys[k], s.keyset.rolls)
      BY <1>1, <1>10 DEF SetSound
    <3>2. AgedKey(s.keyset.keys[k], keys[k])
      BY <1>7, <1>10
    <3>3. \A r \in DOMAIN s.keyset.rolls : rolls[r].phase = s.keyset.rolls[r].phase
      BY <1>8 DEF WaitedRoll
    <3> QED
      BY <1>10, <3>1, <3>2, <3>3, AgedKeyFine
  <2>3. rolls \in [DOMAIN rolls -> RollState(TTL)]
    BY <1>4, <1>8, <1>10 DEF Waited
  <2>4. /\ DOMAIN rolls \subseteq RollTypes
        /\ \A r \in DOMAIN rolls : DOMAIN rolls \subseteq Compatible(r) \union {r}
    BY <1>1, <1>10 DEF SetSound
  <2> QED
    BY <1>6, <2>1, <2>2, <2>3, <2>4 DEF SetSound
<1>12. Elapsed(s.dnskey_rrset, Remain - 1) \in Sigs /\ Elapsed(s.cds_rrset, Remain - 1) \in Sigs
  <2>1. Remain - 1 \in Int /\ Lifetime \in Int
    BY CronNextAssumption
  <2> QED
    BY <1>1, <2>1, OptionalElapsed DEF Sigs
<1>13. internal \in [DOMAIN rolls -> [Checks -> Statuses]]
  <2>1. DOMAIN s.internal = DOMAIN rolls
    BY <1>1, <1>10
  <2>2. \A r \in DOMAIN rolls : internal[r] \in [Checks -> Statuses]
    BY <1>5, <1>9, <1>10, <2>1 DEF WaitedReports
  <2> QED
    BY <1>5, <2>1, <2>2 DEF WaitedReports
<1>14. Sound(t)
  BY <1>1, <1>6, <1>11, <1>12, <1>13 DEF Sound
<1> QED
  BY <1>6, <1>7, <1>8, <1>9, <1>10, <1>14 DEF Aged

(* The time v is u a tick later: a time up to last has passed, and may     *)
(* stay where it is.                                                       *)
Comes(u, v, last) == v = u - 1 \/ (u <= last /\ v = u)

Closer(U, V, last) ==
  /\ \A u \in U : \E v \in V : Comes(u, v, last)
  /\ \A v \in V : \E u \in U : Comes(u, v, last)

LEMMA CloserBoth ==
  ASSUME NEW last, NEW U1, NEW V1, NEW U2, NEW V2, Closer(U1, V1, last), Closer(U2, V2, last)
  PROVE  Closer(U1 \union U2, V1 \union V2, last)
BY DEF Closer

LEMMA CloserNone == ASSUME NEW last PROVE Closer({}, {}, last)
BY DEF Closer

LEMMA RenewalComes ==
  ASSUME NEW T \in Sigs
  PROVE  Closer(compute_cron_next(T), compute_cron_next(Elapsed(T, Remain - 1)), -1)
<1>1. Remain \in Nat
  BY ConstantsTyped
<1>2. \A e \in T : e \in Int /\ e >= Remain - 1
  BY SigsTyped
<1>3. \A e \in T : Comes(e - Remain, (IF e > Remain - 1 THEN e - 1 ELSE e) - Remain, -1)
  BY <1>1, <1>2 DEF Comes
<1>4. compute_cron_next(Elapsed(T, Remain - 1))
        = {(IF e > Remain - 1 THEN e - 1 ELSE e) - Remain : e \in T}
  BY DEF compute_cron_next, Elapsed
<1> QED
  BY <1>3, <1>4 DEF Closer, compute_cron_next

(* Ages of keys: one more, up to MaxAge. *)
AgeComes(a, b) == b = IF a < MaxAge THEN a + 1 ELSE a

LEMMA LimitComes ==
  ASSUME NEW limit \in Nat, limit < MaxAge, NEW a \in Nat, a <= MaxAge, NEW b, AgeComes(a, b)
  PROVE  Comes(limit - a, limit - b, -1)
BY ConstantsTyped DEF AgeComes, Comes

LEMMA SameKeys ==
  ASSUME NEW s, NEW t, Aged(s, t)
  PROVE  /\ \A types : ActiveKeys(t, types) = ActiveKeys(s, types)
         /\ StaleKeys(t) = StaleKeys(s)
<1>1. DOMAIN t.keyset.keys = DOMAIN s.keyset.keys
  BY DEF Aged
<1>2. \A k \in DOMAIN s.keyset.keys :
        /\ t.keyset.keys[k].type = s.keyset.keys[k].type
        /\ stale(t.keyset.keys[k]) <=> stale(s.keyset.keys[k])
  BY DEF Aged, AgedKey, SameKey, stale
<1> QED
  BY <1>1, <1>2 DEF ActiveKeys, StaleKeys

LEMMA ValidityComes ==
  ASSUME NEW c \in Configs, NEW s, Sound(s), NEW t, Aged(s, t),
         NEW type \in {"KSK", "ZSK", "CSK"}
  PROVE  Closer(Validity(c, s, type), Validity(c, t, type), -1)
<1> DEFINE old == UNION {s.keyset.keys[k].published : k \in ActiveKeys(s, {type})}
           new == UNION {t.keyset.keys[k].published : k \in ActiveKeys(s, {type})}
<1>1. \A v \in c.validity[type] : v \in Nat /\ v < MaxAge
  BY ValidityTimes
<1>2. \A k \in ActiveKeys(s, {type}) :
        /\ s.keyset.keys[k].published \in KeyAges
        /\ t.keyset.keys[k].published = Older(s.keyset.keys[k].published)
  <2>1. \A k \in ActiveKeys(s, {type}) : k \in DOMAIN s.keyset.keys
    BY DEF ActiveKeys
  <2> QED
    BY <2>1 DEF Aged, AgedKey, Sound, SetSound, KeyFine, KeyTyped
<1>3. \A a \in old : a \in Nat /\ a <= MaxAge
  BY <1>2, AgesTyped
<1>4. \A a \in old : \E b \in new : AgeComes(a, b)
  BY <1>2 DEF Older, AgeComes
<1>5. ASSUME NEW b \in new
      PROVE  \E a \in old : AgeComes(a, b)
  <2>1. PICK k \in ActiveKeys(s, {type}) : b \in t.keyset.keys[k].published
    BY <1>5
  <2>2. b \in Older(s.keyset.keys[k].published)
    BY <1>2, <2>1
  <2>3. PICK a \in s.keyset.keys[k].published : AgeComes(a, b)
    BY <2>2 DEF Older, AgeComes
  <2> QED
    BY <2>1, <2>3
<1>6. Validity(c, s, type) = UNION {{v - a : a \in old} : v \in c.validity[type]}
  BY DEF Validity
<1>7. Validity(c, t, type) = UNION {{v - a : a \in new} : v \in c.validity[type]}
  <2>1. ActiveKeys(t, {type}) = ActiveKeys(s, {type})
    BY SameKeys
  <2> QED
    BY <2>1 DEF Validity
<1> HIDE DEF old, new
<1>8. \A v \in c.validity[type], a \in old, b \in new :
        AgeComes(a, b) => Comes(v - a, v - b, -1)
  BY <1>1, <1>3, LimitComes
<1>9. ASSUME NEW x \in Validity(c, s, type)
      PROVE  \E y \in Validity(c, t, type) : Comes(x, y, -1)
  <2>1. PICK v \in c.validity[type], a \in old : x = v - a
    BY <1>6, <1>9
  <2>2. PICK b \in new : AgeComes(a, b)
    BY <1>4
  <2>3. v - b \in Validity(c, t, type)
    BY <1>7, <2>1, <2>2
  <2> QED
    BY <1>8, <2>1, <2>2, <2>3
<1>10. ASSUME NEW y \in Validity(c, t, type)
       PROVE  \E x \in Validity(c, s, type) : Comes(x, y, -1)
  <2>1. PICK v \in c.validity[type], b \in new : y = v - b
    BY <1>7, <1>10
  <2>2. PICK a \in old : AgeComes(a, b)
    BY <1>5
  <2>3. v - a \in Validity(c, s, type)
    BY <1>6, <2>1, <2>2
  <2> QED
    BY <1>8, <2>1, <2>2, <2>3
<1> QED
  BY <1>9, <1>10 DEF Closer

LEMMA StartsCome ==
  ASSUME NEW c \in Configs, NEW s, Sound(s), NEW t, Aged(s, t)
  PROVE  Closer(NextStarts(c, s), NextStarts(c, t), -1)
<1>1. \A type \in {"KSK", "ZSK", "CSK"} : \A auto, allowed :
        Closer(cron_next_auto_start(c, s, type, auto, allowed),
               cron_next_auto_start(c, t, type, auto, allowed), -1)
  <2>1. DOMAIN t.keyset.rolls = DOMAIN s.keyset.rolls
    BY DEF Aged
  <2> QED
    BY <2>1, ValidityComes, CloserNone DEF cron_next_auto_start
<1>2. algorithm_roll_needed(c, t) <=> algorithm_roll_needed(c, s)
  <2>1. ActiveKeys(t, {"KSK", "ZSK", "CSK"}) = ActiveKeys(s, {"KSK", "ZSK", "CSK"})
    BY SameKeys
  <2>2. \A k \in ActiveKeys(s, {"KSK", "ZSK", "CSK"}) :
          t.keyset.keys[k].alg = s.keyset.keys[k].alg
    BY DEF ActiveKeys, Aged, AgedKey, SameKey
  <2>3. {t.keyset.keys[k].alg : k \in ActiveKeys(t, {"KSK", "ZSK", "CSK"})}
          = {s.keyset.keys[k].alg : k \in ActiveKeys(s, {"KSK", "ZSK", "CSK"})}
    BY <2>1, <2>2
  <2> QED
    BY <2>3, Zenon DEF algorithm_roll_needed
<1> DEFINE needAlg == algorithm_roll_needed(c, s)
<1>3. PICK auto : auto = c.auto[IF needAlg THEN "Algorithm" ELSE "Csk"]
  OBVIOUS
<1>4. PICK whole \in BOOLEAN : whole <=> c.use_csk \/ needAlg
  OBVIOUS
<1>5. PICK kskAuto, kskAllowed, zskAuto, zskAllowed :
        /\ kskAuto = IF whole THEN auto ELSE c.auto["Ksk"]
        /\ kskAllowed = IF whole THEN {} ELSE ZskRolls
        /\ zskAuto = IF whole THEN auto ELSE c.auto["Zsk"]
        /\ zskAllowed = IF whole THEN {} ELSE KskRolls
  OBVIOUS
<1>6. NextStarts(c, s) = cron_next_auto_start(c, s, "CSK", auto, {})
                           \union (cron_next_auto_start(c, s, "KSK", kskAuto, kskAllowed)
                           \union cron_next_auto_start(c, s, "ZSK", zskAuto, zskAllowed))
  BY <1>3, <1>4, <1>5 DEF NextStarts
<1>7. NextStarts(c, t) = cron_next_auto_start(c, t, "CSK", auto, {})
                           \union (cron_next_auto_start(c, t, "KSK", kskAuto, kskAllowed)
                           \union cron_next_auto_start(c, t, "ZSK", zskAuto, zskAllowed))
  <2>1. auto = c.auto[IF algorithm_roll_needed(c, t) THEN "Algorithm" ELSE "Csk"]
    BY <1>2, <1>3
  <2>2. whole <=> c.use_csk \/ algorithm_roll_needed(c, t)
    BY <1>2, <1>4
  <2> QED
    BY <1>5, <2>1, <2>2 DEF NextStarts
<1>8. Closer(cron_next_auto_start(c, s, "KSK", kskAuto, kskAllowed)
               \union cron_next_auto_start(c, s, "ZSK", zskAuto, zskAllowed),
             cron_next_auto_start(c, t, "KSK", kskAuto, kskAllowed)
               \union cron_next_auto_start(c, t, "ZSK", zskAuto, zskAllowed), -1)
  BY <1>1, CloserBoth
<1> QED
  BY <1>1, <1>6, <1>7, <1>8, CloserBoth

LEMMA AfterComes ==
  ASSUME NEW c \in Configs, NEW s, Sound(s), NEW t, Aged(s, t)
  PROVE  Closer(ActsAfter(c, s), ActsAfter(c, t), -1)
<1>1. s.dnskey_rrset \in Sigs /\ s.cds_rrset \in Sigs
  BY DEF Sound
<1>2. /\ Closer(compute_cron_next(s.dnskey_rrset), compute_cron_next(t.dnskey_rrset), -1)
      /\ Closer(compute_cron_next(s.cds_rrset), compute_cron_next(t.cds_rrset), -1)
  BY <1>1, RenewalComes DEF Aged
<1>3. Closer(NextStarts(c, s), NextStarts(c, t), -1)
  BY StartsCome
<1>4. Closer(compute_cron_next(s.dnskey_rrset) \union compute_cron_next(s.cds_rrset),
             compute_cron_next(t.dnskey_rrset) \union compute_cron_next(t.cds_rrset), -1)
  BY <1>2, CloserBoth
<1> QED
  BY <1>3, <1>4, CloserBoth DEF ActsAfter

LEMMA RemovalsCome ==
  ASSUME NEW c, NEW s, Sound(s), NEW t, Aged(s, t)
  PROVE  Closer(NextRemovals(c, s), NextRemovals(c, t), 0)
<1> DEFINE old == UNION {s.keyset.keys[k].withdrawn : k \in StaleKeys(s)}
           new == UNION {t.keyset.keys[k].withdrawn : k \in StaleKeys(s)}
<1>1. \A k \in StaleKeys(s) :
        /\ s.keyset.keys[k].withdrawn \in KeyAges
        /\ t.keyset.keys[k].withdrawn = Older(s.keyset.keys[k].withdrawn)
  <2>1. \A k \in StaleKeys(s) : k \in DOMAIN s.keyset.keys
    BY DEF StaleKeys
  <2> QED
    BY <2>1 DEF Aged, AgedKey, Sound, SetSound, KeyFine, KeyTyped
<1>2. \A a \in old : a \in Nat /\ a <= MaxAge
  BY <1>1, AgesTyped
<1>3. \A a \in old : \E b \in new : AgeComes(a, b)
  BY <1>1 DEF Older, AgeComes
<1>4. ASSUME NEW b \in new
      PROVE  \E a \in old : AgeComes(a, b)
  <2>1. PICK k \in StaleKeys(s) : b \in t.keyset.keys[k].withdrawn
    BY <1>4
  <2>2. b \in Older(s.keyset.keys[k].withdrawn)
    BY <1>1, <2>1
  <2>3. PICK a \in s.keyset.keys[k].withdrawn : AgeComes(a, b)
    BY <2>2 DEF Older, AgeComes
  <2> QED
    BY <2>1, <2>3
<1>5. NextRemovals(c, s) = IF c.autoremove THEN {Delay - a : a \in old} ELSE {}
  BY DEF NextRemovals
<1>6. NextRemovals(c, t) = IF c.autoremove THEN {Delay - a : a \in new} ELSE {}
  <2>1. StaleKeys(t) = StaleKeys(s)
    BY SameKeys
  <2> QED
    BY <2>1 DEF NextRemovals
<1> HIDE DEF old, new
<1>7. \A a \in old, b \in new : AgeComes(a, b) => Comes(Delay - a, Delay - b, 0)
  BY <1>2, ConstantsTyped DEF AgeComes, Comes
<1> QED
  BY <1>3, <1>4, <1>5, <1>6, <1>7 DEF Closer

LEMMA CheckComes ==
  ASSUME NEW s, Sound(s), NEW t, Aged(s, t), NEW r \in DOMAIN s.keyset.rolls
  PROVE  Comes(check_auto_actions(s, r), check_auto_actions(t, r), 0)
<1>1. t.keyset.rolls[r].phase = s.keyset.rolls[r].phase
  BY DEF Aged, WaitedRoll
<1>2. \A c \in Checks : WaitedStatus(s.internal[r][c], t.internal[r][c])
  BY DEF Aged
<1>3. Open(t, r) = Open(s, r)
  <2>1. \A c \in Needed(r, s.keyset.rolls[r].phase) :
          Reported(t.internal[r][c]) <=> Reported(s.internal[r][c])
    BY <1>2, NeededChecks DEF Reported, WaitedStatus
  <2> QED
    BY <1>1, <2>1 DEF Open
<1>4. CASE Open(s, r) = {}
  BY <1>3, <1>4, CheckTime DEF Comes
<1>5. CASE Open(s, r) # {}
  <2>1. PICK first : first = First(s, r)
    OBVIOUS
  <2>2. first \in Checks
    BY <1>5, <2>1, FirstOpen, NeededChecks DEF Open
  <2>3. First(t, r) = first
    BY <1>3, <2>1 DEF First
  <2>4. s.internal[r][first].until \in 0 .. Retry
    <3>1. s.internal[r] \in [Checks -> Statuses]
      BY DEF Sound
    <3> QED
      BY <2>2, <3>1, StatusParts
  <2>5. Comes(s.internal[r][first].until, t.internal[r][first].until, 0)
    BY <1>2, <2>2, <2>4, ConstantsTyped DEF WaitedStatus, Comes
  <2> QED
    BY <1>3, <1>5, <2>1, <2>3, <2>5, CheckTime
<1> QED
  BY <1>4, <1>5

LEMMA RollComes ==
  ASSUME NEW c, NEW s, Sound(s), NEW t, Aged(s, t), NEW r \in DOMAIN s.keyset.rolls
  PROVE  Closer(cron_next_auto_report_expire_done(c, s, r),
                cron_next_auto_report_expire_done(c, t, r), 0)
<1> DEFINE auto == c.auto[VariantOf(r)]
           check == ("report" \in auto /\ InPhase(s, r, Propagation))
                      \/ ("done" \in auto /\ InPhase(s, r, {"Done"}))
           expire == "expire" \in auto /\ InPhase(s, r, CacheExpire)
<1>1. Comes(check_auto_actions(s, r), check_auto_actions(t, r), 0)
  BY CheckComes
<1>2. WaitedRoll(s.keyset.rolls[r], t.keyset.rolls[r]) /\ r \in DOMAIN t.keyset.rolls
  BY DEF Aged
<1>3. Comes(s.keyset.rolls[r].wait, t.keyset.rolls[r].wait, 0)
  BY <1>2, CheckTimes, ConstantsTyped DEF WaitedRoll, Comes
<1>4. cron_next_auto_report_expire_done(c, s, r) =
        {x \in {check_auto_actions(s, r)} : check} \union {x \in {s.keyset.rolls[r].wait} : expire}
  BY DEF cron_next_auto_report_expire_done
<1>5. \A phases : InPhase(t, r, phases) <=> InPhase(s, r, phases)
  BY <1>2 DEF InPhase, WaitedRoll
<1>6. cron_next_auto_report_expire_done(c, t, r) =
        {x \in {check_auto_actions(t, r)} : check} \union {x \in {t.keyset.rolls[r].wait} : expire}
  BY <1>5 DEF cron_next_auto_report_expire_done
<1> HIDE DEF auto, check, expire
<1>7. /\ Closer({x \in {check_auto_actions(s, r)} : check}, {x \in {check_auto_actions(t, r)} : check}, 0)
      /\ Closer({x \in {s.keyset.rolls[r].wait} : expire}, {x \in {t.keyset.rolls[r].wait} : expire}, 0)
  BY <1>1, <1>3 DEF Closer
<1> QED
  BY <1>4, <1>6, <1>7, CloserBoth

LEMMA AtComes ==
  ASSUME NEW c, NEW s, Sound(s), NEW t, Aged(s, t)
  PROVE  Closer(ActsAt(c, s), ActsAt(c, t), 0)
<1> DEFINE S(x, r) == cron_next_auto_report_expire_done(c, x, r)
<1>1. DOMAIN t.keyset.rolls = DOMAIN s.keyset.rolls
  BY DEF Aged
<1>2. \A r \in DOMAIN s.keyset.rolls : Closer(S(s, r), S(t, r), 0)
  BY RollComes
<1> HIDE DEF S
<1>3. Closer(UNION {S(s, r) : r \in DOMAIN s.keyset.rolls},
             UNION {S(t, r) : r \in DOMAIN s.keyset.rolls}, 0)
  <2>1. ASSUME NEW r \in DOMAIN s.keyset.rolls, NEW u \in S(s, r)
        PROVE  \E v \in UNION {S(t, x) : x \in DOMAIN s.keyset.rolls} : Comes(u, v, 0)
    BY <1>2, <2>1 DEF Closer
  <2>2. ASSUME NEW r \in DOMAIN s.keyset.rolls, NEW v \in S(t, r)
        PROVE  \E u \in UNION {S(s, x) : x \in DOMAIN s.keyset.rolls} : Comes(u, v, 0)
    BY <1>2, <2>2 DEF Closer
  <2> QED
    BY <2>1, <2>2 DEF Closer
<1>4. Closer(NextRemovals(c, s), NextRemovals(c, t), 0)
  BY RemovalsCome
<1>5. /\ ActsAt(c, s) = NextRemovals(c, s) \union UNION {S(s, r) : r \in DOMAIN s.keyset.rolls}
      /\ ActsAt(c, t) = NextRemovals(c, t) \union UNION {S(t, r) : r \in DOMAIN s.keyset.rolls}
  BY <1>1 DEF ActsAt, S
<1> QED
  BY <1>3, <1>4, <1>5, CloserBoth

(* What comes closer as cron-next does stays in time, and wanted. *)
LEMMA TimesElapse ==
  ASSUME NEW next, NEW c \in Configs, NEW s, Sound(s), NEW t, Aged(s, t),
         next \in Optional(Left), InTime(next, c, s), Wanted(next, c, s)
  PROVE  InTime(Elapsed(next, Past), c, t) /\ Wanted(Elapsed(next, Past), c, t)
<1>1. Closer(ActsAfter(c, s), ActsAfter(c, t), -1) /\ Closer(ActsAt(c, s), ActsAt(c, t), 0)
  BY AfterComes, AtComes
<1>2. \A u \in ActsAfter(c, s) \union ActsAt(c, s) : u \in Int
  BY AllTimes, ConstantsTyped DEF Times
<1>3. \A x \in next : x \in Int /\ x >= -1
  <2>1. next \subseteq Left
    BY DEF Optional
  <2> QED
    BY <2>1, ConstantsTyped DEF Left, Past
<1>4. Elapsed(next, Past) = {IF x > -1 THEN x - 1 ELSE x : x \in next}
  BY DEF Elapsed, Past
<1>5. ASSUME NEW v \in ActsAfter(c, t) \union ActsAt(c, t)
      PROVE  \E y \in Elapsed(next, Past) : y <= 0 \/ y <= v
  <2>1. PICK u \in ActsAfter(c, s) \union ActsAt(c, s) : Comes(u, v, 0)
    <3>1. CASE v \in ActsAfter(c, t)
      <4>1. PICK u \in ActsAfter(c, s) : Comes(u, v, -1)
        BY <1>1, <3>1 DEF Closer
      <4>2. Comes(u, v, 0)
        BY <1>2, <4>1 DEF Comes
      <4> QED
        BY <4>2
    <3>2. CASE v \in ActsAt(c, t)
      BY <1>1, <3>2 DEF Closer
    <3> QED
      BY <1>5, <3>1, <3>2
  <2>2. PICK x \in next : x <= 0 \/ x <= u
    BY <2>1 DEF InTime
  <2>3. u \in Int /\ x \in Int
    BY <1>2, <1>3, <2>1
  <2>4. PICK y : y = IF x > -1 THEN x - 1 ELSE x
    OBVIOUS
  <2>5. y <= 0 \/ y <= v
    BY <2>1, <2>2, <2>3, <2>4 DEF Comes
  <2> QED
    BY <1>4, <2>2, <2>4, <2>5
<1>6. ASSUME NEW y \in Elapsed(next, Past)
      PROVE  \/ \E v \in ActsAfter(c, t) : v <= y \/ v < 0
             \/ \E v \in ActsAt(c, t) : v <= y \/ v <= 0
  <2>1. PICK x \in next : y = IF x > -1 THEN x - 1 ELSE x
    BY <1>4, <1>6
  <2>2. x \in Int /\ x >= -1
    BY <1>3
  <2>3. CASE \E u \in ActsAfter(c, s) : u <= x \/ u < 0
    <3>1. PICK u \in ActsAfter(c, s) : u <= x \/ u < 0
      BY <2>3
    <3>2. PICK v \in ActsAfter(c, t) : Comes(u, v, -1)
      BY <1>1 DEF Closer
    <3>3. u \in Int
      BY <1>2
    <3>4. v <= y \/ v < 0
      BY <2>1, <2>2, <3>1, <3>2, <3>3 DEF Comes
    <3> QED
      BY <3>4
  <2>4. CASE \E u \in ActsAt(c, s) : u <= x \/ u <= 0
    <3>1. PICK u \in ActsAt(c, s) : u <= x \/ u <= 0
      BY <2>4
    <3>2. PICK v \in ActsAt(c, t) : Comes(u, v, 0)
      BY <1>1 DEF Closer
    <3>3. u \in Int
      BY <1>2
    <3>4. v <= y \/ v <= 0
      BY <2>1, <2>2, <3>1, <3>2, <3>3 DEF Comes
    <3> QED
      BY <3>4
  <2> QED
    BY <2>3, <2>4 DEF Wanted
<1> QED
  BY <1>5, <1>6 DEF InTime, Wanted

LEMMA TickKeeps ==
  CronNextInv /\ Tick => CronNextInv'
<1> SUFFICES ASSUME CronNextInv, Tick
             PROVE  CronNextInv'
  OBVIOUS
<1>1. /\ config \in Configs /\ torn \in BOOLEAN /\ cron_next \in Optional(Left)
      /\ Sound(kss) /\ kss.changed = FALSE
  BY DEF CronNextInv, StateInv
<1>2. PICK s : s = kss
  OBVIOUS
<1>3. PICK t : t = AgedState(s)
  OBVIOUS
<1>4. PICK next : next = Elapsed(cron_next, Past)
  OBVIOUS
<1>5. kss' = t /\ cron_next' = next /\ config' = config /\ torn' = torn
  BY <1>2, <1>3, <1>4 DEF Tick, AgedState
<1>6. Aged(s, t)
  BY <1>1, <1>2, <1>3, StateAged
<1>7. Sound(t) /\ t.changed = FALSE
  BY <1>1, <1>2, <1>6 DEF Aged
<1>8. next \in Optional(Left)
  <2>1. Left = -1 .. Latest /\ Past = -1 /\ Latest \in Int
    BY ConstantsTyped DEF Left, Past, Latest
  <2> QED
    BY <1>1, <1>4, <2>1, OptionalElapsed
<1>9. ~torn => InTime(next, config, t) /\ Wanted(next, config, t)
  <2> SUFFICES ASSUME ~torn
               PROVE  InTime(next, config, t) /\ Wanted(next, config, t)
    OBVIOUS
  <2>1. InTime(cron_next, config, s) /\ Wanted(cron_next, config, s)
    BY <1>2 DEF CronNextInv, TimesInv
  <2> QED
    BY <1>1, <1>2, <1>4, <1>6, <2>1, TimesElapse
<1> QED
  BY <1>1, <1>5, <1>7, <1>8, <1>9 DEF CronNextInv, StateInv, TimesInv

-----------------------------------------------------------------------------
(* The invariant: at first, and step by step.                              *)

LEMMA ImportedSound ==
  ASSUME config \in Configs, NEW types, types \in SUBSET {"KSK", "ZSK", "CSK"}
  PROVE  Sound(ImportKeys(types)) /\ ImportKeys(types).changed = FALSE
<1> DEFINE names == types \X {"new"}
           alg == config.algorithm
<1>1. PICK keys : keys =
        [k \in names |-> [type |-> k[1], alg |-> alg, old |-> FALSE, flags |-> Capability[k[1]],
                          published |-> {0}, withdrawn |-> {}]]
  OBVIOUS
<1>2. PICK s : s = ImportKeys(types)
  OBVIOUS
<1>3. PICK set : set = [[keys |-> Empty, rolls |-> Empty] EXCEPT !.keys = keys]
  OBVIOUS
<1>4. s = [NoKeys EXCEPT !.dnskey_rrset = {Lifetime}, !.keyset.keys = keys]
  BY <1>1, <1>2 DEF ImportKeys
<1>5. s = [NoKeys EXCEPT !.dnskey_rrset = {Lifetime}, !.keyset = set]
  BY <1>3, <1>4 DEF NoKeys
<1>6. /\ IsState(s) /\ s.changed = FALSE /\ s.dnskey_rrset = {Lifetime} /\ s.cds_rrset = {}
      /\ s.keyset = set /\ s.internal = Empty
  BY <1>5 DEF NoKeys, IsState, StateFields
<1>7. DOMAIN set = {"keys", "rolls"} /\ set.keys = keys /\ set.rolls = Empty
  BY <1>3
<1>8. DOMAIN Empty = {} /\ \A S : Empty \in [{} -> S]
  BY DEF Empty
<1>9. alg \in Algorithms
  BY DEF Algorithms
<1>10. ASSUME NEW k \in names
       PROVE  KeyFine(k, keys[k], Empty)
  <2>1. k[1] \in {"KSK", "ZSK", "CSK"} /\ k[2] = "new"
    BY <1>10
  <2>2. PICK flags : flags = Capability[k[1]]
    OBVIOUS
  <2>3. PICK key : key = keys[k]
    OBVIOUS
  <2>4. key = [type |-> k[1], alg |-> alg, old |-> FALSE, flags |-> flags,
               published |-> {0}, withdrawn |-> {}]
    BY <1>1, <2>2, <2>3
  <2>5. flags \subseteq Flags
    BY <2>1, <2>2, CapabilityIs
  <2>6. {0} \in KeyAges /\ {} \in KeyAges
    BY NowIsAge DEF KeyAges, Optional
  <2>7. /\ DOMAIN key = KeyFields /\ key.type = k[1] /\ key.alg = alg /\ key.flags = flags
        /\ key.old = FALSE /\ key.published = {0} /\ key.withdrawn = {}
    BY <2>4 DEF KeyFields
  <2>8. KeyTyped(k, key)
    BY <1>9, <2>5, <2>6, <2>7 DEF KeyTyped
  <2>9. FlagsFine(key, Empty)
    BY <1>8, <2>2, <2>7 DEF FlagsFine
  <2> QED
    BY <2>1, <2>3, <2>7, <2>8, <2>9 DEF KeyFine
<1>11. SetSound(set)
  <2>1. DOMAIN keys = names /\ names \subseteq Names
    BY <1>1 DEF Names
  <2> HIDE DEF names
  <2> QED
    BY <1>7, <1>8, <1>10, <2>1 DEF SetSound
<1>12. s.changed \in BOOLEAN
  BY <1>6
<1>13. Sound(s)
  BY <1>6, <1>7, <1>8, <1>11, <1>12, SigsHave DEF Sound
<1> QED
  BY <1>2, <1>6, <1>13

LEMMA NoKeysSound == Sound(NoKeys) /\ DOMAIN NoKeys.keyset.rolls = {}
<1>1. DOMAIN Empty = {} /\ \A S : Empty \in [{} -> S]
  BY DEF Empty
<1>2. /\ IsState(NoKeys) /\ NoKeys.changed = FALSE
      /\ NoKeys.dnskey_rrset = {} /\ NoKeys.cds_rrset = {}
      /\ NoKeys.keyset = [keys |-> Empty, rolls |-> Empty] /\ NoKeys.internal = Empty
  BY DEF NoKeys, IsState, StateFields
<1>3. PICK set : set = NoKeys.keyset
  OBVIOUS
<1>4. DOMAIN set = {"keys", "rolls"} /\ set.keys = Empty /\ set.rolls = Empty
  BY <1>2, <1>3
<1>5. SetSound(set)
  BY <1>1, <1>4 DEF SetSound
<1>6. NoKeys.changed \in BOOLEAN
  BY <1>2
<1> QED
  BY <1>1, <1>2, <1>3, <1>4, <1>5, <1>6, SigsHave DEF Sound

LEMMA InitWorks ==
  Init => CronNextInv
<1> SUFFICES ASSUME Init
             PROVE  CronNextInv
  OBVIOUS
<1>1. config \in Configs /\ cron_next = NextCron(config, kss) /\ torn = FALSE
  BY DEF Init
<1>2. Sound(kss) /\ kss.changed = FALSE
  <2>1. CASE kss = ImportKeys({"KSK", "ZSK"}) \/ kss = ImportKeys({"CSK"})
    <3>1. PICK types \in SUBSET {"KSK", "ZSK", "CSK"} : kss = ImportKeys(types)
      BY <2>1
    <3> QED
      BY <1>1, <3>1, ImportedSound
  <2>2. CASE kss = [start_roll_command(NoKeys, "AlgorithmRoll") EXCEPT !.changed = FALSE]
    <3>1. "AlgorithmRoll" \in RollTypes /\ {} \subseteq Compatible("AlgorithmRoll")
      BY DEF RollTypes
    <3>2. PICK t : t = start_roll_command(NoKeys, "AlgorithmRoll")
      OBVIOUS
    <3>3. Moved(NoKeys, start_roll_command(NoKeys, "AlgorithmRoll"), "AlgorithmRoll", 0, 1)
      BY <1>1, <3>1, NoKeysSound, StartMoves
    <3>4. Sound(t)
      BY <3>2, <3>3 DEF Moved
    <3>5. kss = [t EXCEPT !.changed = FALSE]
      BY <2>2, <3>2
    <3> QED
      BY <3>4, <3>5, WrittenState
  <2> QED
    BY <2>1, <2>2 DEF Init
<1>3. /\ cron_next \in Optional(Left)
      /\ InTime(cron_next, config, kss) /\ Wanted(cron_next, config, kss)
  BY <1>1, <1>2, NextWritten
<1>4. torn \in BOOLEAN
  BY <1>1
<1> QED
  BY <1>1, <1>2, <1>3, <1>4 DEF CronNextInv, StateInv, TimesInv

LEMMA WriteKeeps ==
  ASSUME config \in Configs, NEW s, Sound(s), Write(s)
  PROVE  CronNextInv'
<1>1. PICK c \in Configs : c = config
  OBVIOUS
<1>2. Finish(c, s)
  BY <1>1 DEF Write
<1> QED
  BY <1>2, FinishKeeps

LEMMA CronKeeps ==
  ASSUME StateInv, NEW out \in Outcomes, Cron(out)
  PROVE  CronNextInv'
<1>1. config \in Configs /\ Sound(kss) /\ kss.changed = FALSE
  BY DEF StateInv
<1>2. PICK s \in RunCron(kss, out) : s.changed /\ Write(s)
  BY DEF Cron
<1>3. PICK k : k = kss
  OBVIOUS
<1>4. PICK w : RanCron(k, w, out)
  BY <1>1, <1>3, RunWorks
<1>5. s = w /\ Sound(w)
  BY <1>2, <1>3, <1>4 DEF RanCron
<1> QED
  BY <1>1, <1>2, <1>5, WriteKeeps

LEMMA RollKeeps ==
  ASSUME StateInv, NEW v \in Variants, RollCommand(v)
  PROVE  CronNextInv'
<1>1. config \in Configs /\ Sound(kss) /\ kss.changed = FALSE
  BY DEF StateInv
<1>2. PICK s : s = kss
  OBVIOUS
<1>3. PICK r : r = RollOf(v)
  OBVIOUS
<1>4. r \in RollTypes
  <2>1. config.ksk_roll_type \in KskRolls /\ config.zsk_roll_type \in ZskRolls
    BY <1>1, CronNextAssumption
  <2> QED
    BY <1>3, <2>1 DEF RollOf, RollTypes
<1>5. CASE StartRoll(v)
  <2>1. CanRoll(s, r)
    BY <1>2, <1>3, <1>5 DEF StartRoll
  <2>2. PICK t : t = start_roll_command(s, r)
    OBVIOUS
  <2>3. Write(t)
    BY <1>2, <1>3, <1>5, <2>2 DEF StartRoll
  <2>4. DOMAIN s.keyset.rolls \subseteq Compatible(r)
    BY <2>1 DEF CanRoll
  <2>5. Moved(s, start_roll_command(s, r), r, 0, 1)
    BY <1>1, <1>2, <1>4, <2>4, StartMoves
  <2>6. Sound(t)
    BY <2>2, <2>5 DEF Moved
  <2> QED
    BY <1>1, <2>3, <2>6, WriteKeeps
<1>6. CASE PropagationComplete(v)
  <2>1. InPhase(s, r, Propagation)
    BY <1>2, <1>3, <1>6 DEF PropagationComplete
  <2>2. PICK t : t = Stepped(s, r, propagation_complete(s.keyset, r, TTL))
    OBVIOUS
  <2>3. Write(t)
    BY <1>2, <1>3, <1>6, <2>2 DEF PropagationComplete
  <2>4. Sound(t)
    BY <1>1, <1>2, <2>1, <2>2, PropagationMoves DEF Moved
  <2> QED
    BY <1>1, <2>3, <2>4, WriteKeeps
<1>7. CASE CacheExpired(v)
  <2>1. InPhase(s, r, CacheExpire)
    BY <1>2, <1>3, <1>7 DEF CacheExpired
  <2>2. PICK t : t = Stepped(s, r, cache_expired(s.keyset, r))
    OBVIOUS
  <2>3. Write(t)
    BY <1>2, <1>3, <1>7, <2>2 DEF CacheExpired
  <2>4. Sound(t)
    BY <1>1, <1>2, <2>1, <2>2, ExpireMoves DEF Moved
  <2> QED
    BY <1>1, <2>3, <2>4, WriteKeeps
<1>8. CASE RollDone(v)
  <2>1. r \in DOMAIN s.keyset.rolls /\ s.keyset.rolls[r].phase = "Done"
    BY <1>2, <1>3, <1>8 DEF RollDone, InPhase
  <2>2. PICK t : t = do_done(s, r)
    OBVIOUS
  <2>3. Write(t)
    BY <1>2, <1>3, <1>8, <2>2 DEF RollDone
  <2>4. Sound(t)
    BY <1>1, <1>2, <2>1, <2>2, DoneMoves DEF Moved
  <2> QED
    BY <1>1, <2>3, <2>4, WriteKeeps
<1> QED
  BY <1>5, <1>6, <1>7, <1>8 DEF RollCommand

LEMMA NextKeeps ==
  CronNextInv /\ [Next]_vars => CronNextInv'
<1> SUFFICES ASSUME CronNextInv, [Next]_vars
             PROVE  CronNextInv'
  OBVIOUS
<1>1. StateInv /\ TimesInv /\ config \in Configs /\ Sound(kss)
  BY DEF CronNextInv, StateInv
<1>2. ASSUME NEW out \in Outcomes, Cron(out)
      PROVE  CronNextInv'
  BY <1>1, <1>2, CronKeeps
<1>3. ASSUME NEW v \in ByHand, RollCommand(v)
      PROVE  CronNextInv'
  <2>1. v \in Variants
    BY CronNextAssumption
  <2> QED
    BY <1>1, <1>3, <2>1, RollKeeps
<1>4. CASE RemoveKey
  <2>1. PICK k \in StaleKeys(kss) : Write(RemoveKeys(kss, {k}))
    BY <1>4 DEF RemoveKey
  <2>2. PICK s : s = kss
    OBVIOUS
  <2>3. PICK t : t = RemoveKeys(s, {k})
    OBVIOUS
  <2>4. Sound(t)
    BY <1>1, <2>2, <2>3, RemovedKeys
  <2>5. Write(t)
    BY <2>1, <2>2, <2>3
  <2> QED
    BY <1>1, <2>4, <2>5, WriteKeeps
<1>5. CASE SetConfig
  <2>1. PICK c \in Settings : Finish(c, kss)
    BY <1>5 DEF SetConfig
  <2>2. c \in Configs
    BY DEF Settings
  <2>3. PICK s : s = kss
    OBVIOUS
  <2>4. Sound(s) /\ Finish(c, s)
    BY <1>1, <2>1, <2>3
  <2> QED
    BY <2>2, <2>4, FinishKeeps
<1>6. CASE SetConfigCutOff
  BY <1>1, <1>6 DEF SetConfigCutOff, Settings, StateInv, TimesInv, CronNextInv
<1>7. CASE Tick
  BY <1>7, TickKeeps
<1>8. CASE UNCHANGED vars
  BY <1>1, <1>8 DEF vars, StateInv, TimesInv, CronNextInv
<1> QED
  BY <1>2, <1>3, <1>4, <1>5, <1>6, <1>7, <1>8 DEF Next

-----------------------------------------------------------------------------
(* What holds in every state.                                              *)

(* Whatever commands are run, and cron at whatever times: the state is one *)
(* that the commands can go on from, its times are in their range, and     *)
(* cron-next is the first of the times at which cron acts, unless a        *)
(* command was cut off between its two files (Keyset::run).                *)
THEOREM CronNextInvAlways == Spec => []CronNextInv
BY InitWorks, NextKeeps, PTL DEF Spec

LEMMA InvTyped == CronNextInv => TypeOK
<1> SUFFICES ASSUME CronNextInv
             PROVE  TypeOK
  OBVIOUS
<1>1. /\ config \in Configs /\ torn \in BOOLEAN /\ cron_next \in Optional(Left)
      /\ Sound(kss) /\ kss.changed = FALSE
  BY DEF CronNextInv, StateInv
<1>2. /\ kss.dnskey_rrset \in Sigs /\ kss.cds_rrset \in Sigs /\ SetSound(kss.keyset)
      /\ kss.internal \in [DOMAIN kss.keyset.rolls -> [Checks -> Statuses]]
  BY <1>1 DEF Sound
<1>3. Sigs \subseteq Optional(Left)
  <2>1. Remain - 1 .. Lifetime \subseteq Left
    BY ConstantsTyped DEF Left, Past
  <2> QED
    BY <2>1 DEF Sigs, Optional
<1>4. ASSUME NEW k \in DOMAIN kss.keyset.keys
      PROVE  LET key == kss.keyset.keys[k]
             IN  /\ key.type = k[1] /\ key.alg \in Algorithms /\ key.flags \subseteq Flags
                 /\ {key.published, key.withdrawn} \subseteq KeyAges
                 /\ stale(key) => key.withdrawn # {}
                 /\ k[2] = "previous" /\ ~stale(key) => kss.keyset.rolls # Empty
  <2>1. PICK key : key = kss.keyset.keys[k]
    OBVIOUS
  <2>2. KeyFine(k, key, kss.keyset.rolls)
    BY <1>2, <2>1 DEF SetSound
  <2>3. stale(key) => key.withdrawn # {}
    BY <2>2 DEF KeyFine, stale
  <2>4. k[2] = "previous" /\ ~stale(key) => kss.keyset.rolls # Empty
    BY <2>2 DEF KeyFine, FlagsFine, Empty
  <2> QED
    BY <2>1, <2>2, <2>3, <2>4 DEF KeyFine, KeyTyped
<1>5. DOMAIN kss.internal = DOMAIN kss.keyset.rolls
  BY <1>2
<1>6. kss.keyset.rolls \in [DOMAIN kss.internal -> RollState(TTL)]
  BY <1>2, <1>5 DEF SetSound
<1>7. ASSUME NEW r \in DOMAIN kss.internal
      PROVE  /\ DOMAIN kss.keyset.rolls \subseteq Compatible(r) \union {r}
             /\ kss.internal[r] \in [Checks -> [form : RrsigForms \union {"none"}, until : 0 .. Retry]]
  <2>1. kss.internal[r] \in [Checks -> Statuses]
    BY <1>2, <1>5
  <2>2. Statuses \subseteq [form : RrsigForms \union {"none"}, until : 0 .. Retry]
    BY DEF Statuses
  <2> QED
    BY <1>2, <1>5, <2>1, <2>2 DEF SetSound
<1>8. DOMAIN kss.keyset.keys \subseteq Names /\ ~kss.changed
  BY <1>1, <1>2 DEF SetSound
<1> QED
  BY <1>1, <1>2, <1>3, <1>4, <1>6, <1>7, <1>8 DEF TypeOK

(* The state and cron-next have their types: a roll and its reports come   *)
(* and go together, no two rolls of the same keys are in progress, and a   *)
(* stale key has been withdrawn at some time, which autoremove needs.      *)
THEOREM TypeCorrect == Spec => []TypeOK
BY CronNextInvAlways, InvTyped, PTL

(* Whether cron acts does not depend on what the servers answer. *)
LEMMA ActsWhenDue ==
  CronNextInv => (WouldAct <=> Due(config, kss))
<1> SUFFICES ASSUME CronNextInv
             PROVE  WouldAct <=> Due(config, kss)
  OBVIOUS
<1>1. config \in Configs /\ Sound(kss) /\ kss.changed = FALSE
  BY DEF CronNextInv, StateInv
<1>2. AllWell \in Outcomes
  BY DEF AllWell, Outcomes, RrsigForms
<1>3. PICK s : s = kss
  OBVIOUS
<1>4. PICK w : RanCron(s, w, AllWell)
  BY <1>1, <1>2, <1>3, RunWorks
<1>5. WouldAct <=> w.changed
  BY <1>3, <1>4 DEF WouldAct, RanCron
<1>6. w.changed <=> RunDue(s)
  BY <1>4 DEF RanCron
<1>7. RunDue(s) <=> Due(config, s)
  BY <1>1, <1>3, DueWhenCome
<1> QED
  BY <1>3, <1>5, <1>6, <1>7

LEMMA TimeTypes ==
  CronNextInv => /\ \A t \in cron_next : t \in Int /\ t >= -1
                 /\ \A u \in ActsAfter(config, kss) \union ActsAt(config, kss) : u \in Int
<1> SUFFICES ASSUME CronNextInv
             PROVE  /\ \A t \in cron_next : t \in Int /\ t >= -1
                    /\ \A u \in ActsAfter(config, kss) \union ActsAt(config, kss) : u \in Int
  OBVIOUS
<1>1. config \in Configs /\ cron_next \in Optional(Left) /\ Sound(kss)
  BY DEF CronNextInv, StateInv
<1>2. cron_next \subseteq -1 .. Latest
  BY <1>1, ConstantsTyped DEF Optional, Left, Past, Latest
<1> QED
  BY <1>1, <1>2, AllTimes, ConstantsTyped DEF Times

LEMMA InvNotLate == CronNextInv => NotLate
<1> SUFFICES ASSUME CronNextInv, ~torn, WouldAct
             PROVE  \E t \in cron_next : t <= 0
  BY DEF NotLate
<1>1. InTime(cron_next, config, kss)
  BY DEF CronNextInv, TimesInv
<1>2. Due(config, kss)
  BY ActsWhenDue
<1>3. PICK u \in ActsAfter(config, kss) \union ActsAt(config, kss) : u <= 0
  <2>1. CASE \E u \in ActsAfter(config, kss) : u < 0
    <3>1. PICK u \in ActsAfter(config, kss) : u < 0
      BY <2>1
    <3>2. u <= 0
      BY <3>1, TimeTypes
    <3> QED
      BY <3>1, <3>2
  <2>2. CASE \E u \in ActsAt(config, kss) : u <= 0
    BY <2>2
  <2> QED
    BY <1>2, <2>1, <2>2 DEF Due
<1>4. PICK t \in cron_next : t <= 0 \/ t <= u
  BY <1>1, <1>3 DEF InTime
<1>5. t <= 0
  BY <1>3, <1>4, TimeTypes
<1> QED
  BY <1>4, <1>5

(* cron-next is not too late: the scheduler that waits for it misses       *)
(* nothing that cron would do, although cron-next is computed by a second  *)
(* set of functions (Keyset::run, cron_next_auto_start and so on).         *)
THEOREM NotLateAlways == Spec => []NotLate
BY CronNextInvAlways, InvNotLate, PTL

LEMMA InvNotForNothing == CronNextInv => NotForNothing
<1> SUFFICES ASSUME CronNextInv, ~torn, NEW t \in cron_next, t < 0
             PROVE  WouldAct
  BY DEF NotForNothing
<1>1. Wanted(cron_next, config, kss)
  BY DEF CronNextInv, TimesInv
<1>2. CASE \E u \in ActsAfter(config, kss) : u <= t \/ u < 0
  <2>1. PICK u \in ActsAfter(config, kss) : u <= t \/ u < 0
    BY <1>2
  <2>2. u < 0
    BY <2>1, TimeTypes
  <2>3. Due(config, kss)
    BY <2>1, <2>2 DEF Due
  <2> QED
    BY <2>3, ActsWhenDue
<1>3. CASE \E u \in ActsAt(config, kss) : u <= t \/ u <= 0
  <2>1. PICK u \in ActsAt(config, kss) : u <= t \/ u <= 0
    BY <1>3
  <2>2. u <= 0
    BY <2>1, TimeTypes
  <2>3. Due(config, kss)
    BY <2>1, <2>2 DEF Due
  <2> QED
    BY <2>3, ActsWhenDue
<1> QED
  BY <1>1, <1>2, <1>3 DEF Wanted

(* cron-next is not there for nothing: once it has passed, a run of cron   *)
(* does something, so that the scheduler does not run it in vain.          *)
THEOREM NotForNothingAlways == Spec => []NotForNothing
BY CronNextInvAlways, InvNotForNothing, PTL

LEMMA InvNoCircles == CronNextInv => NoCircles
<1> SUFFICES ASSUME CronNextInv, NEW out \in Outcomes, NEW x \in RunCron(kss, out), x.changed
             PROVE  \/ [x EXCEPT !.changed = FALSE] # kss
                    \/ ~out.simple /\ \E r \in DOMAIN kss.internal : OldTimeStored(r)
  BY DEF NoCircles
<1>1. config \in Configs /\ Sound(kss) /\ kss.changed = FALSE
  BY DEF CronNextInv, StateInv
<1>2. PICK s : s = kss
  OBVIOUS
<1>3. PICK w : RanCron(s, w, out)
  BY <1>1, <1>2, RunWorks
<1>4. x = w /\ Sound(w) /\ Different(s, w, out)
  BY <1>2, <1>3 DEF RanCron
<1>5. PICK t : t = [w EXCEPT !.changed = FALSE]
  OBVIOUS
<1>6. /\ t.keyset = w.keyset /\ t.internal = w.internal
      /\ t.dnskey_rrset = w.dnskey_rrset /\ t.cds_rrset = w.cds_rrset
  BY <1>4, <1>5, WrittenState
<1>7. ASSUME NEW r \in DOMAIN s.keyset.rolls, Circles(s, r, out)
      PROVE  ~out.simple /\ \E y \in DOMAIN kss.internal : OldTimeStored(y)
  <2>1. r \in DOMAIN kss.internal
    BY <1>1, <1>2, SoundRest
  <2>2. OldTimeStored(r)
    BY <1>2, <1>7 DEF Circles, OldTime, OldTimeStored, InPhase
  <2> QED
    BY <1>7, <2>1, <2>2 DEF Circles
<1> QED
  BY <1>2, <1>4, <1>5, <1>6, <1>7 DEF Different

(* Cron does not go round in circles: a run that acts leaves another       *)
(* state, even when one of its stages could undo what another one did. The *)
(* exceptions are the checks whose old time is stored again.               *)
THEOREM NoCirclesAlways == Spec => []NoCircles
BY CronNextInvAlways, InvNoCircles, PTL
=============================================================================
