------------------------------- MODULE Keyset_proofs -------------------------------
(***************************************************************************)
(* Proofs about Keyset, for any names, algorithms, configurations and any  *)
(* TTL: its type invariant, that the stored RRsets are those of the keys,  *)
(* and that the reports are those of the rolls in progress.                *)
(***************************************************************************)
EXTENDS Keyset, TLAPS

(* The states of a roll in which the flags of keys change. *)
Changing == {"Propagation1", "Propagation2", "Done"}

-----------------------------------------------------------------------------
(* What each step of a roll changes, and what it asks keyset to update.    *)

(* In these states the successor of a key need not be in the zone yet. *)
Late(r, phase) == r # "KskDoubleDsRoll" \/ phase \notin {"Propagation1", "CacheExpire1"}

(* A step that changes who is in or who signs the DNSKEY RRset asks for    *)
(* its update, one that changes who is at the parent for that of the DS    *)
(* and CDS RRsets; and new keys are in the zone before old ones go.        *)
Coherent(r, phase, step) ==
  /\ step.give \subseteq Flags
  /\ "present" \in step.give \union step.take \/ "signer" \in step.give \union step.take
       => "UpdateDnskeyRrset" \in step.actions
  /\ "at_parent" \in step.give \union step.take
       => {"UpdateDsRrset", "CreateCdsRrset"} \subseteq step.actions
  /\ phase = "Propagation1" => step.take = {}
  /\ phase = "Propagation1" /\ Late(r, phase) => "present" \in step.give
  /\ phase = "Propagation2" /\ ~Late(r, "Propagation1") => "present" \in step.give

LEMMA PlanCoherent ==
  \A r \in RollTypes, phase \in Changing : Coherent(r, phase, Plan[r][phase])
<1> SUFFICES ASSUME NEW r \in RollTypes, NEW phase \in Changing
             PROVE  Coherent(r, phase, Plan[r][phase])
  OBVIOUS
<1>1. CASE r = "KskRoll"
  BY <1>1 DEF Plan, Step, Coherent, Late, Changing, Flags
<1>2. CASE r = "KskDoubleDsRoll"
  BY <1>2 DEF Plan, Step, Coherent, Late, Changing, Flags
<1>3. CASE r = "ZskRoll"
  BY <1>3 DEF Plan, Step, Coherent, Late, Changing, Flags
<1>4. CASE r = "ZskDoubleSignatureRoll"
  BY <1>4 DEF Plan, Step, Coherent, Late, Changing, Flags
<1>5. CASE r = "CskRoll"
  BY <1>5 DEF Plan, Step, Coherent, Late, Changing, Flags
<1>6. CASE r = "AlgorithmRoll"
  BY <1>6 DEF Plan, Step, Coherent, Late, Changing, Flags
<1> QED
  BY <1>1, <1>2, <1>3, <1>4, <1>5, <1>6 DEF RollTypes, KskRolls, ZskRolls

-----------------------------------------------------------------------------
(* The types of a key set.                                                 *)

KeyOK(key) == key \in Key(Algorithms) /\ key.flags \subseteq Capability[key.type]

KeysOK(keys) ==
  /\ DOMAIN keys \subseteq KeyNames
  /\ \A k \in DOMAIN keys : KeyOK(keys[k])

RollsOK(rolls) ==
  /\ DOMAIN rolls \subseteq RollTypes
  /\ \A r \in DOMAIN rolls : rolls[r] \in RollState(TTL)

SetOK(set) == DOMAIN set = {"keys", "rolls"} /\ KeysOK(set.keys) /\ RollsOK(set.rolls)

LEMMA CapabilityIs ==
  \A t \in KeyTypes : "present" \in Capability[t] /\ Capability[t] \subseteq Flags
BY DEF KeyTypes, Capability, Flags

(* What a step does to one key. *)
NewFlags(key, r, phase) ==
  IF key.type \notin Rolls(r) THEN key.flags
  ELSE IF key.old THEN key.flags \ Plan[r][phase].take
  ELSE key.flags \union (Plan[r][phase].give \intersect Capability[key.type])

LEMMA AppliedKey ==
  ASSUME NEW keys, KeysOK(keys), NEW r \in RollTypes, NEW phase \in Changing,
         NEW k \in DOMAIN keys
  PROVE  /\ KeyOK(Applied(keys, r, phase)[k])
         /\ Applied(keys, r, phase)[k].type = keys[k].type
         /\ Applied(keys, r, phase)[k].old = keys[k].old
         /\ Applied(keys, r, phase)[k].flags = NewFlags(keys[k], r, phase)
<1> DEFINE key == keys[k]
           step == Plan[r][phase]
<1>1. key \in Key(Algorithms) /\ key.flags \subseteq Capability[key.type]
  BY DEF KeysOK, KeyOK
<1>2. key.type \in KeyTypes /\ key.old \in BOOLEAN /\ key.flags \subseteq Flags
  BY <1>1 DEF Key
<1>3. Capability[key.type] \subseteq Flags
  BY <1>2, CapabilityIs
<1>4. Applied(keys, r, phase)[k] =
        IF key.type \notin Rolls(r) THEN key
        ELSE IF key.old THEN [key EXCEPT !.flags = @ \ step.take]
        ELSE [key EXCEPT !.flags = @ \union (step.give \intersect Capability[key.type])]
  BY DEF Applied
<1> HIDE DEF key, step
<1>5. CASE key.type \notin Rolls(r)
  BY <1>1, <1>4, <1>5 DEF KeyOK, NewFlags, key
<1>6. CASE key.type \in Rolls(r) /\ key.old
  <2>1. Applied(keys, r, phase)[k] = [key EXCEPT !.flags = @ \ step.take]
    BY <1>4, <1>6
  <2> QED
    BY <1>1, <1>2, <1>6, <2>1 DEF KeyOK, Key, NewFlags, key, step
<1>7. CASE key.type \in Rolls(r) /\ ~key.old
  <2>1. Applied(keys, r, phase)[k] =
          [key EXCEPT !.flags = @ \union (step.give \intersect Capability[key.type])]
    BY <1>4, <1>7
  <2> QED
    BY <1>1, <1>2, <1>3, <1>7, <2>1 DEF KeyOK, Key, NewFlags, key, step
<1> QED
  BY <1>5, <1>6, <1>7

LEMMA AppliedKeys ==
  ASSUME NEW keys, KeysOK(keys), NEW r \in RollTypes, NEW phase \in Changing
  PROVE  DOMAIN Applied(keys, r, phase) = DOMAIN keys /\ KeysOK(Applied(keys, r, phase))
<1>1. DOMAIN Applied(keys, r, phase) = DOMAIN keys
  BY DEF Applied
<1>2. \A k \in DOMAIN keys : KeyOK(Applied(keys, r, phase)[k])
  BY AppliedKey
<1> QED
  BY <1>1, <1>2 DEF KeysOK

(* The flags a step does not change. *)
LEMMA AppliedFlag ==
  ASSUME NEW keys, KeysOK(keys), NEW r \in RollTypes, NEW phase \in Changing,
         NEW flag, flag \notin Plan[r][phase].give \union Plan[r][phase].take,
         NEW k \in DOMAIN keys
  PROVE  flag \in Applied(keys, r, phase)[k].flags <=> flag \in keys[k].flags
<1>1. Applied(keys, r, phase)[k].flags = NewFlags(keys[k], r, phase)
  BY AppliedKey
<1>2. flag \in NewFlags(keys[k], r, phase) <=> flag \in keys[k].flags
  BY DEF NewFlags
<1> QED
  BY <1>1, <1>2

-----------------------------------------------------------------------------
(* The keys keyset depends on, in a state s of the state file.             *)

Fields == {"keyset", "dnskey_rrset", "ds_rrset", "cds_rrset", "internal"}

(* The RRsets are those of the keys in set. *)
DnskeyFollows(s, set) == s.dnskey_rrset = DnskeyRrset(set)
DsFollows(s, set) == s.ds_rrset = ParentKeys(set) /\ s.cds_rrset \in {{}, ParentKeys(set)}

(* The new keys of a roll that is in this phase are there. *)
Successor(set, r, phase) ==
  \E k \in DOMAIN set.keys :
    /\ set.keys[k].type \in Rolls(r) /\ ~set.keys[k].old
    /\ Late(r, phase) => "present" \in set.keys[k].flags

Succeeded(set) == \A r \in DOMAIN set.rolls : Successor(set, r, set.rolls[r].phase)

(* All of that, once init has been run. *)
Sound(s) ==
  /\ DOMAIN s = Fields
  /\ SetOK(s.keyset)
  /\ DnskeyFollows(s, s.keyset)
  /\ DsFollows(s, s.keyset)
  /\ Succeeded(s.keyset)
  /\ With(s.keyset, "present") # {}

(* The keys and the rolls when a roll enters a state. *)
NewKeys(set, r, phase) ==
  IF phase \in CacheExpire THEN set.keys ELSE Applied(set.keys, r, phase)

LEMMA EnteredFields ==
  ASSUME NEW set, NEW r, NEW phase, NEW wait
  PROVE  /\ DOMAIN Entered(set, r, phase, wait) = {"keys", "rolls"}
         /\ Entered(set, r, phase, wait).keys = NewKeys(set, r, phase)
         /\ DOMAIN Entered(set, r, phase, wait).rolls = DOMAIN set.rolls \union {r}
         /\ Entered(set, r, phase, wait).rolls[r] = [phase |-> phase, wait |-> wait]
         /\ \A x \in DOMAIN set.rolls \ {r} :
              Entered(set, r, phase, wait).rolls[x] = set.rolls[x]
BY DEF Entered, NewKeys

LEMMA NewKeysOK ==
  ASSUME NEW set, SetOK(set), NEW r \in RollTypes, NEW phase \in Phases
  PROVE  DOMAIN NewKeys(set, r, phase) = DOMAIN set.keys /\ KeysOK(NewKeys(set, r, phase))
<1>1. CASE phase \in CacheExpire
  BY <1>1 DEF SetOK, NewKeys
<1>2. CASE phase \notin CacheExpire
  <2>1. phase \in Changing
    BY <1>2 DEF Phases, Propagation, CacheExpire, Changing
  <2>2. DOMAIN Applied(set.keys, r, phase) = DOMAIN set.keys
        /\ KeysOK(Applied(set.keys, r, phase))
    BY <2>1, AppliedKeys DEF SetOK
  <2> QED
    BY <1>2, <2>2 DEF NewKeys
<1> QED
  BY <1>1, <1>2

LEMMA EnteredOK ==
  ASSUME NEW set, SetOK(set), NEW r \in RollTypes, NEW phase \in Phases,
         NEW wait \in 0 .. TTL
  PROVE  SetOK(Entered(set, r, phase, wait))
<1> DEFINE new == Entered(set, r, phase, wait)
<1>1. /\ DOMAIN new = {"keys", "rolls"}
      /\ new.keys = NewKeys(set, r, phase)
      /\ DOMAIN new.rolls = DOMAIN set.rolls \union {r}
      /\ new.rolls[r] = [phase |-> phase, wait |-> wait]
      /\ \A x \in DOMAIN set.rolls \ {r} : new.rolls[x] = set.rolls[x]
  BY EnteredFields
<1> HIDE DEF new
<1>2. KeysOK(new.keys)
  BY <1>1, NewKeysOK
<1>3. RollsOK(new.rolls)
  <2>1. [phase |-> phase, wait |-> wait] \in RollState(TTL)
    BY DEF RollState
  <2> QED
    BY <1>1, <2>1 DEF SetOK, RollsOK
<1> QED
  BY <1>1, <1>2, <1>3 DEF SetOK, new

(* What handle_actions leaves and what it updates. *)
LEMMA HandledFields ==
  ASSUME NEW s, DOMAIN s = Fields, NEW acts
  PROVE  /\ DOMAIN handle_actions(s, acts) = Fields
         /\ handle_actions(s, acts).keyset = s.keyset
         /\ handle_actions(s, acts).internal = s.internal
         /\ handle_actions(s, acts).dnskey_rrset =
              IF "UpdateDnskeyRrset" \in acts THEN DnskeyRrset(s.keyset) ELSE s.dnskey_rrset
         /\ handle_actions(s, acts).ds_rrset =
              IF "UpdateDsRrset" \in acts THEN ParentKeys(s.keyset) ELSE s.ds_rrset
         /\ handle_actions(s, acts).cds_rrset =
              IF "CreateCdsRrset" \in acts THEN ParentKeys(s.keyset)
              ELSE IF "RemoveCdsRrset" \in acts THEN {} ELSE s.cds_rrset
BY DEF handle_actions, Fields

LEMMA SteppedFields ==
  ASSUME NEW s, DOMAIN s = Fields, NEW r, NEW set,
         NEW acts, acts = actions(r, set.rolls[r].phase)
  PROVE  /\ DOMAIN Stepped(s, r, set) = Fields
         /\ Stepped(s, r, set).keyset = set
         /\ Stepped(s, r, set).internal = s.internal
         /\ Stepped(s, r, set).dnskey_rrset =
              IF "UpdateDnskeyRrset" \in acts THEN DnskeyRrset(set) ELSE s.dnskey_rrset
         /\ Stepped(s, r, set).ds_rrset =
              IF "UpdateDsRrset" \in acts THEN ParentKeys(set) ELSE s.ds_rrset
         /\ Stepped(s, r, set).cds_rrset =
              IF "CreateCdsRrset" \in acts THEN ParentKeys(set)
              ELSE IF "RemoveCdsRrset" \in acts THEN {} ELSE s.cds_rrset
<1> DEFINE t == [s EXCEPT !.keyset = set]
<1>1. /\ DOMAIN t = Fields /\ t.keyset = set
      /\ t.dnskey_rrset = s.dnskey_rrset /\ t.ds_rrset = s.ds_rrset
      /\ t.cds_rrset = s.cds_rrset /\ t.internal = s.internal
  BY DEF Fields
<1>2. Stepped(s, r, set) = handle_actions(t, acts)
  BY DEF Stepped
<1> HIDE DEF t
<1> QED
  BY <1>1, <1>2, HandledFields

(* The keys with a flag after a step of a roll that does not change it. *)
LEMMA SameWith ==
  ASSUME NEW set, SetOK(set), NEW r \in RollTypes, NEW phase \in Phases, NEW wait,
         NEW flag,
         phase \in Changing => flag \notin Plan[r][phase].give \union Plan[r][phase].take
  PROVE  With(Entered(set, r, phase, wait), flag) = With(set, flag)
<1>1. Entered(set, r, phase, wait).keys = NewKeys(set, r, phase)
  BY DEF Entered, NewKeys
<1>2. CASE phase \in CacheExpire
  BY <1>1, <1>2 DEF With, NewKeys
<1>3. CASE phase \notin CacheExpire
  <2>1. phase \in Changing
    BY <1>3 DEF Phases, Propagation, CacheExpire, Changing
  <2>2. DOMAIN Applied(set.keys, r, phase) = DOMAIN set.keys
    BY <2>1, AppliedKeys DEF SetOK
  <2>3. ASSUME NEW k \in DOMAIN set.keys
        PROVE  flag \in Applied(set.keys, r, phase)[k].flags
                 <=> flag \in set.keys[k].flags
    BY <2>1, AppliedFlag DEF SetOK
  <2> QED
    BY <1>1, <1>3, <2>2, <2>3 DEF With, NewKeys
<1> QED
  BY <1>2, <1>3

-----------------------------------------------------------------------------
(* A roll enters a state: if its new keys are there, all is well after it. *)

Ready(set, r, phase) ==
  \E k \in DOMAIN set.keys :
    /\ set.keys[k].type \in Rolls(r) /\ ~set.keys[k].old
    /\ \/ phase = "Propagation1" \/ ~Late(r, phase)
       \/ phase = "Propagation2" /\ ~Late(r, "Propagation1")
       \/ "present" \in set.keys[k].flags

(* What has to hold before. *)
MayEnter(s, set, r, phase) ==
  /\ DOMAIN s = Fields
  /\ SetOK(set)
  /\ \A x \in DOMAIN set.rolls \ {r} : Successor(set, x, set.rolls[x].phase)
  /\ Ready(set, r, phase)
  /\ DnskeyFollows(s, set) \/ "UpdateDnskeyRrset" \in actions(r, phase)
  /\ DsFollows(s, set)
  /\ ~Late(r, phase) => With(set, "present") # {}

(* A new key keeps its flags, and it is in the zone when it has to be. *)
LEMMA NewKeyKept ==
  ASSUME NEW set, SetOK(set), NEW r \in RollTypes, NEW phase \in Phases,
         NEW k \in DOMAIN set.keys, ~set.keys[k].old
  PROVE  /\ NewKeys(set, r, phase)[k].type = set.keys[k].type
         /\ ~NewKeys(set, r, phase)[k].old
         /\ set.keys[k].flags \subseteq NewKeys(set, r, phase)[k].flags
         /\ /\ phase \in Changing /\ set.keys[k].type \in Rolls(r)
            /\ "present" \in Plan[r][phase].give
            => "present" \in NewKeys(set, r, phase)[k].flags
<1>1. CASE phase \in CacheExpire
  BY <1>1 DEF NewKeys, CacheExpire, Changing
<1>2. CASE phase \notin CacheExpire
  <2>1. phase \in Changing
    BY <1>2 DEF Phases, Propagation, CacheExpire, Changing
  <2>2. NewKeys(set, r, phase) = Applied(set.keys, r, phase)
    BY <1>2 DEF NewKeys
  <2>3. /\ Applied(set.keys, r, phase)[k].type = set.keys[k].type
        /\ Applied(set.keys, r, phase)[k].old = set.keys[k].old
        /\ Applied(set.keys, r, phase)[k].flags = NewFlags(set.keys[k], r, phase)
    BY <2>1, AppliedKey DEF SetOK
  <2>4. "present" \in Capability[set.keys[k].type]
    BY CapabilityIs DEF SetOK, KeysOK, KeyOK, Key
  <2> QED
    BY <2>2, <2>3, <2>4 DEF NewFlags
<1> QED
  BY <1>1, <1>2

LEMMA SuccessorKept ==
  ASSUME NEW set, SetOK(set), NEW r \in RollTypes, NEW phase \in Phases, NEW wait,
         NEW x, NEW phase2, Successor(set, x, phase2)
  PROVE  Successor(Entered(set, r, phase, wait), x, phase2)
<1>1. PICK k \in DOMAIN set.keys :
        /\ set.keys[k].type \in Rolls(x) /\ ~set.keys[k].old
        /\ Late(x, phase2) => "present" \in set.keys[k].flags
  BY DEF Successor
<1>2. Entered(set, r, phase, wait).keys = NewKeys(set, r, phase)
  BY DEF Entered, NewKeys
<1>3. k \in DOMAIN NewKeys(set, r, phase)
  BY NewKeysOK
<1>4. /\ NewKeys(set, r, phase)[k].type = set.keys[k].type
      /\ ~NewKeys(set, r, phase)[k].old
      /\ set.keys[k].flags \subseteq NewKeys(set, r, phase)[k].flags
  BY <1>1, NewKeyKept
<1> QED
  BY <1>1, <1>2, <1>3, <1>4 DEF Successor

LEMMA SuccessorReady ==
  ASSUME NEW set, SetOK(set), NEW r \in RollTypes, NEW phase \in Phases, NEW wait,
         Ready(set, r, phase)
  PROVE  Successor(Entered(set, r, phase, wait), r, phase)
<1>1. PICK k \in DOMAIN set.keys :
        /\ set.keys[k].type \in Rolls(r) /\ ~set.keys[k].old
        /\ \/ phase = "Propagation1" \/ ~Late(r, phase)
           \/ phase = "Propagation2" /\ ~Late(r, "Propagation1")
           \/ "present" \in set.keys[k].flags
  BY DEF Ready
<1>2. Entered(set, r, phase, wait).keys = NewKeys(set, r, phase)
  BY DEF Entered, NewKeys
<1>3. k \in DOMAIN NewKeys(set, r, phase)
  BY NewKeysOK
<1>4. /\ NewKeys(set, r, phase)[k].type = set.keys[k].type
      /\ ~NewKeys(set, r, phase)[k].old
      /\ set.keys[k].flags \subseteq NewKeys(set, r, phase)[k].flags
      /\ phase \in Changing /\ "present" \in Plan[r][phase].give
           => "present" \in NewKeys(set, r, phase)[k].flags
  BY <1>1, NewKeyKept
<1>5. /\ phase = "Propagation1" /\ Late(r, phase) => "present" \in Plan[r][phase].give
      /\ phase = "Propagation2" /\ ~Late(r, "Propagation1")
           => "present" \in Plan[r][phase].give
  BY PlanCoherent DEF Coherent, Changing
<1>6. Late(r, phase) => "present" \in NewKeys(set, r, phase)[k].flags
  BY <1>1, <1>4, <1>5 DEF Changing
<1> QED
  BY <1>1, <1>2, <1>3, <1>4, <1>6 DEF Successor

(* The RRsets are those of the keys, whatever the step changed. *)
LEMMA RrsetsFollow ==
  ASSUME NEW s, NEW set, NEW r \in RollTypes, NEW phase \in Phases, NEW wait \in 0 .. TTL,
         MayEnter(s, set, r, phase)
  PROVE  LET new == Entered(set, r, phase, wait)
             t == Stepped(s, r, new)
         IN  DnskeyFollows(t, new) /\ DsFollows(t, new)
<1> DEFINE new == Entered(set, r, phase, wait)
           t == Stepped(s, r, new)
           acts == actions(r, phase)
           step == Plan[r][phase]
<1>1. acts = actions(r, new.rolls[r].phase)
  <2>1. new.rolls[r] = [phase |-> phase, wait |-> wait]
    BY DEF Entered
  <2> QED
    BY <2>1
<1>2. /\ t.dnskey_rrset =
           IF "UpdateDnskeyRrset" \in acts THEN DnskeyRrset(new) ELSE s.dnskey_rrset
      /\ t.ds_rrset = IF "UpdateDsRrset" \in acts THEN ParentKeys(new) ELSE s.ds_rrset
      /\ t.cds_rrset = IF "CreateCdsRrset" \in acts THEN ParentKeys(new)
                       ELSE IF "RemoveCdsRrset" \in acts THEN {} ELSE s.cds_rrset
  BY <1>1, SteppedFields DEF MayEnter
<1>3. phase \in Changing => acts = step.actions /\ Coherent(r, phase, step)
  BY PlanCoherent DEF actions, Changing, CacheExpire
<1> HIDE DEF t, acts
<1>4. DnskeyFollows(t, new)
  <2>1. CASE "UpdateDnskeyRrset" \in acts
    BY <1>2, <2>1 DEF DnskeyFollows
  <2>2. CASE "UpdateDnskeyRrset" \notin acts
    <3>1. phase \in Changing =>
            "present" \notin step.give \union step.take
            /\ "signer" \notin step.give \union step.take
      BY <1>3, <2>2 DEF Coherent
    <3>2. With(new, "present") = With(set, "present")
      BY <3>1, SameWith DEF MayEnter
    <3>3. With(new, "signer") = With(set, "signer")
      BY <3>1, SameWith DEF MayEnter
    <3>4. DnskeyFollows(s, set)
      BY <2>2 DEF MayEnter, acts
    <3> HIDE DEF new
    <3> QED
      BY <1>2, <2>2, <3>2, <3>3, <3>4 DEF DnskeyFollows, DnskeyRrset
  <2> QED
    BY <2>1, <2>2
<1>5. DsFollows(t, new)
  <2>1. CASE phase \in Changing /\ "at_parent" \in step.give \union step.take
    <3>1. "UpdateDsRrset" \in acts /\ "CreateCdsRrset" \in acts
      BY <1>3, <2>1 DEF Coherent
    <3> QED
      BY <1>2, <3>1 DEF DsFollows
  <2>2. CASE ~(phase \in Changing /\ "at_parent" \in step.give \union step.take)
    <3>1. ParentKeys(new) = ParentKeys(set)
      BY <2>2, SameWith DEF MayEnter, ParentKeys
    <3>2. s.ds_rrset = ParentKeys(set) /\ s.cds_rrset \in {{}, ParentKeys(set)}
      BY DEF MayEnter, DsFollows
    <3> HIDE DEF new
    <3> QED
      BY <1>2, <3>1, <3>2 DEF DsFollows
  <2> QED
    BY <2>1, <2>2
<1> QED
  BY <1>4, <1>5 DEF t

LEMMA StepSound ==
  ASSUME NEW s, NEW set, NEW r \in RollTypes, NEW phase \in Phases, NEW wait \in 0 .. TTL,
         MayEnter(s, set, r, phase)
  PROVE  Sound(Stepped(s, r, Entered(set, r, phase, wait)))
<1> DEFINE new == Entered(set, r, phase, wait)
           t == Stepped(s, r, new)
<1>1. DOMAIN t = Fields /\ t.keyset = new
  BY SteppedFields DEF MayEnter
<1>2. SetOK(new)
  BY EnteredOK DEF MayEnter
<1>3. DnskeyFollows(t, new) /\ DsFollows(t, new)
  BY RrsetsFollow
<1>4. Succeeded(new)
  <2>1. DOMAIN new.rolls = DOMAIN set.rolls \union {r}
        /\ new.rolls[r] = [phase |-> phase, wait |-> wait]
        /\ \A x \in DOMAIN set.rolls \ {r} : new.rolls[x] = set.rolls[x]
    BY EnteredFields
  <2>2. Successor(new, r, phase)
    BY SuccessorReady DEF MayEnter
  <2>3. \A x \in DOMAIN set.rolls \ {r} : Successor(new, x, set.rolls[x].phase)
    BY SuccessorKept DEF MayEnter
  <2> HIDE DEF new
  <2> QED
    BY <2>1, <2>2, <2>3 DEF Succeeded
<1>5. With(new, "present") # {}
  <2>1. CASE Late(r, phase)
    <3>1. Successor(new, r, phase)
      BY SuccessorReady DEF MayEnter
    <3> HIDE DEF new
    <3> QED
      BY <2>1, <3>1 DEF Successor, With
  <2>2. CASE ~Late(r, phase)
    <3>1. PICK k \in DOMAIN set.keys : "present" \in set.keys[k].flags
      BY <2>2 DEF MayEnter, With
    <3>2. new.keys = NewKeys(set, r, phase)
      BY DEF Entered, NewKeys
    <3>3. k \in DOMAIN NewKeys(set, r, phase)
      BY NewKeysOK DEF MayEnter
    <3>4. "present" \in NewKeys(set, r, phase)[k].flags
      <4>1. CASE phase \in CacheExpire
        BY <3>1, <4>1 DEF NewKeys
      <4>2. CASE phase = "Propagation1"
        <5>1. phase \in Changing /\ phase \notin CacheExpire
          BY <4>2 DEF Changing, CacheExpire
        <5>2. Applied(set.keys, r, phase)[k].flags = NewFlags(set.keys[k], r, phase)
          BY <5>1, AppliedKey DEF MayEnter, SetOK
        <5>3. Plan[r][phase].take = {}
          BY <4>2, <5>1, PlanCoherent DEF Coherent
        <5> QED
          BY <3>1, <5>1, <5>2, <5>3 DEF NewKeys, NewFlags
      <4> QED
        BY <2>2, <4>1, <4>2 DEF Late, CacheExpire
    <3> QED
      BY <3>2, <3>3, <3>4 DEF With
  <2> QED
    BY <2>1, <2>2
<1> QED
  BY <1>1, <1>2, <1>3, <1>4, <1>5 DEF Sound

-----------------------------------------------------------------------------
(* Each command takes a state of which this holds to another one. gone are *)
(* the keys that cron removes at its end: they were stale before it began. *)

Reached(at, phase) ==
  /\ phase = "Propagation2" => at \notin {"Propagation1", "CacheExpire1"}
  /\ phase = "Done" => at = "Done"

Reports(internal, rolls) ==
  /\ DOMAIN internal = DOMAIN rolls
  /\ \A r \in DOMAIN rolls :
       /\ internal[r] \in [Changing -> SUBSET Checks]
       /\ \A phase \in Changing :
            internal[r][phase] # {} => Reached(rolls[r].phase, phase)

Fine(s, gone) ==
  Sound(s) /\ Reports(s.internal, s.keyset.rolls) /\ gone \subseteq StaleKeys(s)

LEMMA StaleStays ==
  ASSUME NEW set, SetOK(set), NEW r \in RollTypes, NEW phase \in Phases,
         NEW k \in DOMAIN set.keys, stale(set.keys[k])
  PROVE  stale(NewKeys(set, r, phase)[k])
<1>1. CASE phase \in CacheExpire
  BY <1>1 DEF NewKeys
<1>2. CASE phase \notin CacheExpire
  <2>1. phase \in Changing
    BY <1>2 DEF Phases, Propagation, CacheExpire, Changing
  <2>2. /\ Applied(set.keys, r, phase)[k].old = set.keys[k].old
        /\ Applied(set.keys, r, phase)[k].flags = NewFlags(set.keys[k], r, phase)
    BY <2>1, AppliedKey DEF SetOK
  <2> QED
    BY <1>2, <2>2 DEF NewKeys, NewFlags, stale
<1> QED
  BY <1>1, <1>2

LEMMA StepFine ==
  ASSUME NEW s, NEW gone, Fine(s, gone), NEW r \in DOMAIN s.keyset.rolls,
         NEW phase \in Phases, NEW wait \in 0 .. TTL,
         Ready(s.keyset, r, phase),
         \A p \in Changing : Reached(s.keyset.rolls[r].phase, p) => Reached(phase, p)
  PROVE  Fine(Stepped(s, r, Entered(s.keyset, r, phase, wait)), gone)
<1> DEFINE new == Entered(s.keyset, r, phase, wait)
           t == Stepped(s, r, new)
<1>1. r \in RollTypes /\ SetOK(s.keyset) /\ DOMAIN s = Fields
  BY DEF Fine, Sound, SetOK, RollsOK
<1>2. Sound(t)
  <2>1. MayEnter(s, s.keyset, r, phase)
    BY <1>1 DEF Fine, Sound, Succeeded, MayEnter
  <2> QED
    BY <1>1, <2>1, StepSound
<1>3. t.keyset = new /\ t.internal = s.internal
  BY <1>1, SteppedFields
<1>4. Reports(t.internal, t.keyset.rolls)
  <2>1. DOMAIN new.rolls = DOMAIN s.keyset.rolls \union {r}
        /\ new.rolls[r] = [phase |-> phase, wait |-> wait]
        /\ \A x \in DOMAIN s.keyset.rolls \ {r} : new.rolls[x] = s.keyset.rolls[x]
    BY EnteredFields
  <2> HIDE DEF new
  <2>2. \A x \in DOMAIN new.rolls, p \in Changing :
          Reached(s.keyset.rolls[x].phase, p) => Reached(new.rolls[x].phase, p)
    BY <2>1
  <2> QED
    BY <1>3, <2>1, <2>2 DEF Fine, Reports
<1>5. gone \subseteq StaleKeys(t)
  <2>1. new.keys = NewKeys(s.keyset, r, phase)
    BY DEF Entered, NewKeys
  <2>2. DOMAIN NewKeys(s.keyset, r, phase) = DOMAIN s.keyset.keys
    BY <1>1, NewKeysOK
  <2>3. \A k \in DOMAIN s.keyset.keys :
          stale(s.keyset.keys[k]) => stale(NewKeys(s.keyset, r, phase)[k])
    BY <1>1, StaleStays
  <2> HIDE DEF new
  <2> QED
    BY <1>3, <2>1, <2>2, <2>3 DEF Fine, StaleKeys
<1> QED
  BY <1>2, <1>4, <1>5 DEF Fine

LEMMA CompleteFine ==
  ASSUME NEW s, NEW gone, Fine(s, gone), NEW r, InPhase(s, r, Propagation)
  PROVE  Fine(Stepped(s, r, propagation_complete(s.keyset, r, TTL)), gone)
<1> DEFINE at == s.keyset.rolls[r].phase
           phase == IF at = "Propagation1" THEN "CacheExpire1" ELSE "CacheExpire2"
<1>1. r \in DOMAIN s.keyset.rolls /\ at \in {"Propagation1", "Propagation2"}
  BY DEF InPhase, Propagation
<1>2. Successor(s.keyset, r, at)
  BY <1>1 DEF Fine, Sound, Succeeded
<1>3. Ready(s.keyset, r, phase)
  <2>1. Late(r, phase) => Late(r, at)
    BY <1>1 DEF Late
  <2> HIDE DEF at, phase
  <2> QED
    BY <1>2, <2>1 DEF Successor, Ready
<1>4. phase \in Phases /\ TTL \in 0 .. TTL
  BY TtlAssumption DEF Phases, CacheExpire
<1>5. \A p \in Changing : Reached(at, p) => Reached(phase, p)
  BY <1>1 DEF Reached
<1>6. Fine(Stepped(s, r, Entered(s.keyset, r, phase, TTL)), gone)
  <2> HIDE DEF phase
  <2> QED
    BY <1>1, <1>3, <1>4, <1>5, StepFine
<1> QED
  BY <1>6 DEF propagation_complete

LEMMA ExpiredFine ==
  ASSUME NEW s, NEW gone, Fine(s, gone), NEW r, InPhase(s, r, CacheExpire)
  PROVE  Fine(Stepped(s, r, cache_expired(s.keyset, r)), gone)
<1> DEFINE at == s.keyset.rolls[r].phase
           phase == IF at = "CacheExpire1" THEN "Propagation2" ELSE "Done"
<1>1. r \in DOMAIN s.keyset.rolls /\ at \in {"CacheExpire1", "CacheExpire2"}
  BY DEF InPhase, CacheExpire
<1>2. Successor(s.keyset, r, at)
  BY <1>1 DEF Fine, Sound, Succeeded
<1>3. Ready(s.keyset, r, phase)
  <2>1. Late(r, at) \/ (phase = "Propagation2" /\ ~Late(r, "Propagation1"))
    BY <1>1 DEF Late
  <2> HIDE DEF at, phase
  <2> QED
    BY <1>2, <2>1 DEF Successor, Ready
<1>4. phase \in Phases /\ 0 \in 0 .. TTL
  BY TtlAssumption DEF Phases, Propagation
<1>5. \A p \in Changing : Reached(at, p) => Reached(phase, p)
  BY <1>1 DEF Reached
<1>6. Fine(Stepped(s, r, Entered(s.keyset, r, phase, 0)), gone)
  <2> HIDE DEF phase
  <2> QED
    BY <1>1, <1>3, <1>4, <1>5, StepFine
<1> QED
  BY <1>6 DEF cache_expired

LEMMA DoneFine ==
  ASSUME NEW s, NEW gone, Fine(s, gone), NEW r
  PROVE  Fine(do_done(s, r), gone)
<1> DEFINE t == do_done(s, r)
<1>1. DOMAIN s = Fields /\ DOMAIN s.keyset = {"keys", "rolls"} /\ SetOK(s.keyset)
  BY DEF Fine, Sound, SetOK
<1>2. /\ DOMAIN t = Fields /\ DOMAIN t.keyset = {"keys", "rolls"}
      /\ t.keyset.keys = s.keyset.keys
      /\ DOMAIN t.keyset.rolls = DOMAIN s.keyset.rolls \ {r}
      /\ \A x \in DOMAIN t.keyset.rolls : t.keyset.rolls[x] = s.keyset.rolls[x]
      /\ t.dnskey_rrset = s.dnskey_rrset /\ t.ds_rrset = s.ds_rrset
      /\ t.cds_rrset = {}
      /\ DOMAIN t.internal = DOMAIN s.internal \ {r}
      /\ \A x \in DOMAIN t.internal : t.internal[x] = s.internal[x]
  BY <1>1 DEF do_done, roll_done, Fields
<1> HIDE DEF t
<1>3. SetOK(t.keyset)
  BY <1>1, <1>2 DEF SetOK, RollsOK
<1>4. \A flag : With(t.keyset, flag) = With(s.keyset, flag)
  BY <1>2 DEF With
<1>5. DnskeyFollows(t, t.keyset) /\ DsFollows(t, t.keyset)
  BY <1>2, <1>4 DEF Fine, Sound, DnskeyFollows, DsFollows, DnskeyRrset, ParentKeys
<1>6. Succeeded(t.keyset)
  BY <1>2 DEF Fine, Sound, Succeeded, Successor
<1>7. Reports(t.internal, t.keyset.rolls)
  BY <1>2 DEF Fine, Reports
<1>8. gone \subseteq StaleKeys(t)
  BY <1>2 DEF Fine, StaleKeys
<1>9. Sound(t)
  BY <1>2, <1>3, <1>4, <1>5, <1>6 DEF Fine, Sound
<1> QED
  BY <1>7, <1>8, <1>9 DEF Fine, t

(* A check that is reported. *)
LEMMA ReportedFine ==
  ASSUME NEW s, NEW gone, Fine(s, gone), NEW r, InPhase(s, r, Changing), NEW answers
  PROVE  /\ Fine(Reported(s, r, answers), gone)
         /\ Reported(s, r, answers).keyset = s.keyset
<1> DEFINE t == Reported(s, r, answers)
           phase == s.keyset.rolls[r].phase
           open == Needed(r, phase) \ s.internal[r][phase]
           waiting == {c \in open : c \notin answers \/ ~Confirmed(s, c)}
           done == {c \in open : \A w \in waiting : CheckOrder[c] < CheckOrder[w]}
<1>1. DOMAIN s = Fields
  BY DEF Fine, Sound
<1>2. t = [s EXCEPT !.internal[r][phase] = @ \union done]
  BY DEF Reported
<1>3. done \subseteq Checks
  <2>1. Needed(r, phase) \subseteq Checks
    BY DEF Needed, CheckOf, Checks
  <2> QED
    BY <2>1
<1>4. r \in DOMAIN s.keyset.rolls /\ phase \in Changing
  BY DEF InPhase
<1>5. r \in DOMAIN s.internal /\ s.internal[r] \in [Changing -> SUBSET Checks]
  BY <1>4 DEF Fine, Reports
<1> HIDE DEF t, done, phase
<1>6. /\ DOMAIN t = Fields /\ t.keyset = s.keyset
      /\ t.dnskey_rrset = s.dnskey_rrset /\ t.ds_rrset = s.ds_rrset
      /\ t.cds_rrset = s.cds_rrset
      /\ t.internal = [s.internal EXCEPT ![r][phase] = @ \union done]
  BY <1>1, <1>2 DEF Fields
<1>7. Sound(t)
  BY <1>6 DEF Fine, Sound, DnskeyFollows, DsFollows
<1>8. Reports(t.internal, t.keyset.rolls)
  <2>1. DOMAIN t.internal = DOMAIN s.internal
    BY <1>6
  <2>2. t.internal[r] \in [Changing -> SUBSET Checks]
    BY <1>3, <1>4, <1>5, <1>6
  <2>3. \A p \in Changing : p # phase => t.internal[r][p] = s.internal[r][p]
    BY <1>4, <1>5, <1>6
  <2>4. \A x \in DOMAIN s.internal \ {r} : t.internal[x] = s.internal[x]
    BY <1>6
  <2>5. Reached(s.keyset.rolls[r].phase, phase)
    BY DEF Reached, phase
  <2> QED
    BY <1>6, <2>1, <2>2, <2>3, <2>4, <2>5 DEF Fine, Reports
<1>9. gone \subseteq StaleKeys(t)
  BY <1>6 DEF Fine, StaleKeys
<1> QED
  BY <1>6, <1>7, <1>8, <1>9 DEF Fine, t

-----------------------------------------------------------------------------
(* Cron: the stages of every roll, one after the other.                    *)

LEMMA AutoReportFine ==
  ASSUME NEW s, NEW gone, Fine(s, gone), NEW r, NEW auto, NEW answers
  PROVE  Fine(AutoReport(auto, s, r, answers), gone)
<1> DEFINE t == Reported(s, r, answers)
<1>1. CASE "report" \notin auto \/ ~InPhase(s, r, Propagation)
  BY <1>1 DEF AutoReport
<1>2. CASE "report" \in auto /\ InPhase(s, r, Propagation)
  <2>1. InPhase(s, r, Changing)
    BY <1>2 DEF InPhase, Propagation, Changing
  <2>2. Fine(t, gone) /\ t.keyset = s.keyset
    BY <2>1, ReportedFine
  <2>3. InPhase(t, r, Propagation)
    BY <1>2, <2>2 DEF InPhase
  <2> HIDE DEF t
  <2>4. Fine(Stepped(t, r, propagation_complete(t.keyset, r, TTL)), gone)
    BY <2>2, <2>3, CompleteFine
  <2> QED
    BY <1>2, <2>2, <2>4 DEF AutoReport, t
<1> QED
  BY <1>1, <1>2

LEMMA AutoExpireFine ==
  ASSUME NEW s, NEW gone, Fine(s, gone), NEW r, NEW auto
  PROVE  Fine(AutoExpire(auto, s, r), gone)
BY ExpiredFine DEF AutoExpire

LEMMA AutoDoneFine ==
  ASSUME NEW s, NEW gone, Fine(s, gone), NEW r, NEW auto, NEW answers
  PROVE  Fine(AutoDone(auto, s, r, answers), gone)
<1> DEFINE t == Reported(s, r, answers)
<1>1. CASE "done" \notin auto \/ ~InPhase(s, r, {"Done"})
  BY <1>1 DEF AutoDone
<1>2. CASE "done" \in auto /\ InPhase(s, r, {"Done"})
  <2>1. InPhase(s, r, Changing)
    BY <1>2 DEF InPhase, Changing
  <2>2. Fine(t, gone)
    BY <2>1, ReportedFine
  <2> HIDE DEF t
  <2>3. Fine(do_done(t, r), gone)
    BY <2>2, DoneFine
  <2> QED
    BY <1>2, <2>2, <2>3 DEF AutoDone, t
<1> QED
  BY <1>1, <1>2

LEMMA StagesFine ==
  ASSUME NEW S, NEW gone, \A s \in S : Fine(s, gone), NEW r, NEW auto, NEW answers
  PROVE  \A t \in auto_report_expire_done(S, auto, r, answers) : Fine(t, gone)
<1> SUFFICES ASSUME NEW t \in auto_report_expire_done(S, auto, r, answers)
             PROVE  Fine(t, gone)
  OBVIOUS
<1>1. PICK s \in S :
        t = AutoDone(auto, AutoExpire(auto, AutoReport(auto, s, r, answers), r), r, answers)
  BY DEF auto_report_expire_done
<1>2. Fine(AutoReport(auto, s, r, answers), gone)
  BY AutoReportFine
<1>3. Fine(AutoExpire(auto, AutoReport(auto, s, r, answers), r), gone)
  BY <1>2, AutoExpireFine
<1> QED
  BY <1>1, <1>3, AutoDoneFine

LEMMA RollsFine ==
  ASSUME NEW S, NEW gone, \A s \in S : Fine(s, gone), NEW answers
  PROVE  \A t \in AutoRolls(S, answers) : Fine(t, gone)
<1> DEFINE ksk1 == auto_report_expire_done(S, Automatic["Ksk"], "KskRoll", answers)
           ksk2 == auto_report_expire_done(ksk1, Automatic["Ksk"], "KskDoubleDsRoll", answers)
           zsk1 == auto_report_expire_done(ksk2, Automatic["Zsk"], "ZskRoll", answers)
           zsk2 == auto_report_expire_done(zsk1, Automatic["Zsk"], "ZskDoubleSignatureRoll",
                                           answers)
           csk  == auto_report_expire_done(zsk2, Automatic["Csk"], "CskRoll", answers)
           alg  == auto_report_expire_done(csk, Automatic["Algorithm"], "AlgorithmRoll", answers)
<1>1. AutoRolls(S, answers) = alg
  BY DEF AutoRolls
<1>2. \A t \in ksk1 : Fine(t, gone)
  BY StagesFine
<1> HIDE DEF ksk1
<1>3. \A t \in ksk2 : Fine(t, gone)
  BY <1>2, StagesFine
<1> HIDE DEF ksk2
<1>4. \A t \in zsk1 : Fine(t, gone)
  BY <1>3, StagesFine
<1> HIDE DEF zsk1
<1>5. \A t \in zsk2 : Fine(t, gone)
  BY <1>4, StagesFine
<1> HIDE DEF zsk2
<1>6. \A t \in csk : Fine(t, gone)
  BY <1>5, StagesFine
<1> HIDE DEF csk
<1>7. \A t \in alg : Fine(t, gone)
  BY <1>6, StagesFine
<1> QED
  BY <1>1, <1>7

-----------------------------------------------------------------------------
(* The start of a roll: new keys, old keys, and the first step.            *)

LEMMA PoolOfName ==
  ASSUME NEW t \in KeyTypes, NEW k \in Pool[t]
  PROVE  k \in KeyNames /\ TypeOfName(k) = t
<1>1. t \in DOMAIN Pool
  BY KeysetAssumption
<1>2. \A u \in DOMAIN Pool : k \in Pool[u] => u = t
  BY <1>1, KeysetAssumption
<1> QED
  BY <1>1, <1>2 DEF KeyNames, TypeOfName

(* set with the new keys, of which the keys in old will be replaced. *)
Prepared(set, pick, alg, old) ==
  [AddKeys(set, pick, alg) EXCEPT !.keys =
     [k \in DOMAIN AddKeys(set, pick, alg).keys |->
        [AddKeys(set, pick, alg).keys[k] EXCEPT !.old = @ \/ k \in old]]]

Names(pick) == {pick[t] : t \in DOMAIN pick}

LEMMA AddedFields ==
  ASSUME NEW set, SetOK(set), NEW pick, NEW alg
  PROVE  /\ DOMAIN AddKeys(set, pick, alg) = {"keys", "rolls"}
         /\ AddKeys(set, pick, alg).rolls = set.rolls
         /\ DOMAIN AddKeys(set, pick, alg).keys = DOMAIN set.keys \union Names(pick)
         /\ \A k \in DOMAIN set.keys : AddKeys(set, pick, alg).keys[k] = set.keys[k]
         /\ \A k \in Names(pick) \ DOMAIN set.keys :
              AddKeys(set, pick, alg).keys[k] =
                [type |-> TypeOfName(k), alg |-> alg, old |-> FALSE, flags |-> {}]
<1>1. DOMAIN set = {"keys", "rolls"}
  BY DEF SetOK
<1>2. \A k : add_key(set, k, TypeOfName(k), alg).keys[k]
               = [type |-> TypeOfName(k), alg |-> alg, old |-> FALSE, flags |-> {}]
  BY <1>1 DEF add_key
<1> QED
  BY <1>1, <1>2 DEF AddKeys, Names

(* Every key with its marks: those that were there, and the new ones. *)
IsPrepared(new, set, types, pick, old) ==
  /\ DOMAIN new = {"keys", "rolls"} /\ new.rolls = set.rolls
  /\ DOMAIN new.keys = DOMAIN set.keys \union Names(pick)
  /\ \A k \in DOMAIN set.keys :
       /\ KeyOK(new.keys[k])
       /\ new.keys[k].type = set.keys[k].type
       /\ new.keys[k].flags = set.keys[k].flags
       /\ new.keys[k].old <=> (set.keys[k].old \/ k \in old)
  /\ \A t \in types :
       /\ KeyOK(new.keys[pick[t]])
       /\ new.keys[pick[t]].type = t
       /\ new.keys[pick[t]].flags = {}
       /\ new.keys[pick[t]].old <=> pick[t] \in old

LEMMA PreparedFields ==
  ASSUME NEW set, SetOK(set), NEW alg \in Algorithms, NEW old,
         NEW types \in SUBSET KeyTypes, NEW pick \in [types -> KeyNames],
         \A t \in types : pick[t] \in Pool[t] /\ pick[t] \notin DOMAIN set.keys
  PROVE  IsPrepared(Prepared(set, pick, alg, old), set, types, pick, old)
<1> DEFINE added == AddKeys(set, pick, alg)
           new == Prepared(set, pick, alg, old)
<1>1. /\ DOMAIN added = {"keys", "rolls"} /\ added.rolls = set.rolls
      /\ DOMAIN added.keys = DOMAIN set.keys \union Names(pick)
      /\ \A k \in DOMAIN set.keys : added.keys[k] = set.keys[k]
      /\ \A k \in Names(pick) \ DOMAIN set.keys :
           added.keys[k] = [type |-> TypeOfName(k), alg |-> alg, old |-> FALSE, flags |-> {}]
  BY AddedFields
<1>2. new = [added EXCEPT !.keys =
               [k \in DOMAIN added.keys |-> [added.keys[k] EXCEPT !.old = @ \/ k \in old]]]
  BY DEF Prepared
<1> HIDE DEF added, new
<1>3. /\ DOMAIN new = {"keys", "rolls"} /\ new.rolls = set.rolls
      /\ DOMAIN new.keys = DOMAIN added.keys
      /\ \A k \in DOMAIN added.keys :
           new.keys[k] = [added.keys[k] EXCEPT !.old = @ \/ k \in old]
  BY <1>1, <1>2
<1>4. ASSUME NEW key, KeyOK(key), NEW k, NEW marked,
             marked = [key EXCEPT !.old = @ \/ k \in old]
      PROVE  /\ KeyOK(marked) /\ marked.type = key.type /\ marked.flags = key.flags
             /\ marked.old <=> (key.old \/ k \in old)
  BY <1>4 DEF KeyOK, Key
<1>5. ASSUME NEW k \in DOMAIN set.keys
      PROVE  /\ KeyOK(new.keys[k])
             /\ new.keys[k].type = set.keys[k].type
             /\ new.keys[k].flags = set.keys[k].flags
             /\ new.keys[k].old <=> (set.keys[k].old \/ k \in old)
  <2>1. KeyOK(set.keys[k])
    BY DEF SetOK, KeysOK
  <2>2. new.keys[k] = [set.keys[k] EXCEPT !.old = @ \/ k \in old]
    BY <1>1, <1>3
  <2> QED
    BY <1>4, <2>1, <2>2
<1>6. ASSUME NEW t \in types
      PROVE  /\ KeyOK(new.keys[pick[t]])
             /\ new.keys[pick[t]].type = t
             /\ new.keys[pick[t]].flags = {}
             /\ new.keys[pick[t]].old <=> pick[t] \in old
  <2> DEFINE k == pick[t]
             key == [type |-> t, alg |-> alg, old |-> FALSE, flags |-> {}]
  <2>1. TypeOfName(k) = t /\ k \in Names(pick) \ DOMAIN set.keys
    BY PoolOfName DEF Names
  <2>2. added.keys[k] = key
    BY <1>1, <2>1
  <2>3. KeyOK(key) /\ key.type = t /\ key.flags = {} /\ ~key.old
    BY DEF KeyOK, Key
  <2> HIDE DEF key, k
  <2>4. new.keys[k] = [key EXCEPT !.old = @ \/ k \in old]
    BY <1>1, <1>3, <2>1, <2>2
  <2>5. /\ KeyOK(new.keys[k]) /\ new.keys[k].type = key.type
        /\ new.keys[k].flags = key.flags
        /\ new.keys[k].old <=> (key.old \/ k \in old)
    BY <1>4, <2>3, <2>4
  <2>6. KeyOK(new.keys[k]) /\ new.keys[k].type = t /\ new.keys[k].flags = {}
    BY <2>3, <2>5
  <2>7. new.keys[k].old <=> k \in old
    BY <2>3, <2>5
  <2> QED
    BY <2>6, <2>7 DEF k
<1> QED
  BY <1>1, <1>3, <1>5, <1>6 DEF IsPrepared, new

(* What makes a start possible: this is true before init as well. *)
Startable(s, r) ==
  /\ DOMAIN s = Fields
  /\ SetOK(s.keyset)
  /\ Succeeded(s.keyset)
  /\ DsFollows(s, s.keyset)
  /\ \/ DnskeyFollows(s, s.keyset) /\ With(s.keyset, "present") # {}
     \/ r = "AlgorithmRoll"

LEMMA CompatibleRolls ==
  \A r \in RollTypes : \A x \in Compatible(r) : x # r /\ Rolls(x) \intersect Rolls(r) = {}
BY DEF RollTypes, KskRolls, ZskRolls, Compatible, Rolls

LEMMA NewTypesIs ==
  ASSUME NEW r \in RollTypes
  PROVE  NewTypes(r) \subseteq Rolls(r) /\ NewTypes(r) # {} /\ Rolls(r) \subseteq KeyTypes
BY DEF RollTypes, KskRolls, ZskRolls, NewTypes, Rolls, KeyTypes

LEMMA PreparedMayEnter ==
  ASSUME NEW s, NEW r \in RollTypes, Startable(s, r), NEW alg \in Algorithms,
         NEW types, types \subseteq Rolls(r), types # {}, NEW pick \in [types -> KeyNames],
         \A t \in types : pick[t] \in Pool[t] /\ pick[t] \notin DOMAIN s.keyset.keys,
         DOMAIN s.keyset.rolls \subseteq Compatible(r)
  PROVE  MayEnter(s, Prepared(s.keyset, pick, alg, ActiveKeys(s, Rolls(r))),
                  r, "Propagation1")
<1> DEFINE set == s.keyset
           old == ActiveKeys(s, Rolls(r))
           new == Prepared(set, pick, alg, old)
<1>1. types \in SUBSET KeyTypes
  BY NewTypesIs
<1>2. SetOK(set)
  BY DEF Startable
<1>3. IsPrepared(new, set, types, pick, old)
  BY <1>1, <1>2, PreparedFields
<1>4. old \subseteq DOMAIN set.keys /\ \A k \in old : set.keys[k].type \in Rolls(r)
  BY DEF ActiveKeys
<1> HIDE DEF old, new
<1>5. Names(pick) = {pick[t] : t \in types} /\ Names(pick) \subseteq KeyNames
  BY DEF Names
<1>6. SetOK(new)
  <2>1. \A k \in DOMAIN new.keys : KeyOK(new.keys[k])
    BY <1>3, <1>5 DEF IsPrepared
  <2> QED
    BY <1>2, <1>3, <1>5, <2>1 DEF IsPrepared, SetOK, KeysOK
<1>7. \A flag : With(new, flag) = With(set, flag)
  BY <1>3, <1>5 DEF IsPrepared, With
<1>8. \A x \in DOMAIN new.rolls \ {r} : Successor(new, x, new.rolls[x].phase)
  <2> TAKE x \in DOMAIN new.rolls \ {r}
  <2>1. x \in DOMAIN set.rolls /\ new.rolls[x] = set.rolls[x]
    BY <1>3 DEF IsPrepared
  <2>2. Rolls(x) \intersect Rolls(r) = {}
    BY <2>1, CompatibleRolls
  <2>3. PICK k \in DOMAIN set.keys :
          /\ set.keys[k].type \in Rolls(x) /\ ~set.keys[k].old
          /\ Late(x, set.rolls[x].phase) => "present" \in set.keys[k].flags
    BY <2>1 DEF Startable, Succeeded, Successor
  <2>4. k \notin old
    BY <1>4, <2>2, <2>3
  <2>5. k \in DOMAIN new.keys /\ new.keys[k].type = set.keys[k].type
        /\ ~new.keys[k].old /\ new.keys[k].flags = set.keys[k].flags
    BY <1>3, <2>3, <2>4 DEF IsPrepared
  <2> QED
    BY <2>1, <2>3, <2>5 DEF Successor
<1>9. Ready(new, r, "Propagation1")
  <2>1. PICK t \in types : TRUE
    OBVIOUS
  <2>2. pick[t] \in DOMAIN new.keys /\ new.keys[pick[t]].type \in Rolls(r)
    BY <1>3, <1>5 DEF IsPrepared
  <2>3. ~new.keys[pick[t]].old
    BY <1>3, <1>4 DEF IsPrepared
  <2> QED
    BY <2>2, <2>3 DEF Ready
<1>10. DsFollows(s, new)
  BY <1>7 DEF Startable, DsFollows, ParentKeys
<1>11. DnskeyFollows(s, set) => DnskeyFollows(s, new)
  BY <1>7 DEF DnskeyFollows, DnskeyRrset
<1>12. r = "AlgorithmRoll" =>
         Late(r, "Propagation1") /\ "UpdateDnskeyRrset" \in actions(r, "Propagation1")
  BY DEF Late, actions, CacheExpire, Plan, Step
<1> QED
  BY <1>6, <1>7, <1>8, <1>9, <1>10, <1>11, <1>12 DEF Startable, MayEnter, new, old

LEMMA StartFine ==
  ASSUME NEW s, NEW gone, NEW r \in RollTypes, Startable(s, r),
         Reports(s.internal, s.keyset.rolls), gone \subseteq StaleKeys(s),
         config \in Configs
  PROVE  \A t \in start_roll_command(s, r) : Fine(t, gone)
<1> SUFFICES ASSUME NEW t \in start_roll_command(s, r) PROVE Fine(t, gone)
  OBVIOUS
<1> DEFINE set == s.keyset
           old == ActiveKeys(s, Rolls(r))
           alg == config.algorithm
           types == NewTypes(r)
<1>1. PICK pick \in new_keys(s, types) :
        /\ CanStart(AddKeys(set, pick, alg), r, old, {pick[x] : x \in DOMAIN pick})
        /\ t = [Stepped(s, r, start_roll(AddKeys(set, pick, alg), r, old))
                  EXCEPT !.internal = [x \in DOMAIN s.internal \union {r} |->
                                         IF x = r THEN NoReports ELSE s.internal[x]]]
  BY DEF start_roll_command
<1> DEFINE new == Prepared(set, pick, alg, old)
           entered == Entered(new, r, "Propagation1", 0)
           u == Stepped(s, r, entered)
<1>2. start_roll(AddKeys(set, pick, alg), r, old) = entered
  BY DEF start_roll, Prepared
<1>3. alg \in Algorithms
  BY DEF Configs
<1>4. /\ pick \in [types -> KeyNames]
      /\ \A x \in types : pick[x] \in Pool[x] /\ pick[x] \notin DOMAIN set.keys
  BY DEF new_keys, Unused
<1>5. types \subseteq Rolls(r) /\ types # {} /\ types \in SUBSET KeyTypes
  BY NewTypesIs
<1>6. SetOK(set)
  BY DEF Startable
<1>7. DOMAIN set.rolls \subseteq Compatible(r)
  <2>1. AddKeys(set, pick, alg).rolls = set.rolls
    BY <1>6, AddedFields
  <2> QED
    BY <1>1, <2>1 DEF CanStart
<1>8. MayEnter(s, new, r, "Propagation1")
  <2> HIDE DEF alg, types
  <2> QED
    BY <1>3, <1>4, <1>5, <1>7, PreparedMayEnter
<1>9. IsPrepared(new, set, types, pick, old)
  <2> HIDE DEF alg, types, old
  <2> QED
    BY <1>3, <1>4, <1>5, <1>6, PreparedFields
<1> HIDE DEF old, alg, types, new
<1>10. "Propagation1" \in Phases /\ 0 \in 0 .. TTL
  BY TtlAssumption DEF Phases, Propagation
<1>11. Sound(u)
  BY <1>8, <1>10, StepSound
<1>12. DOMAIN u = Fields /\ u.keyset = entered /\ u.internal = s.internal
  BY SteppedFields DEF Startable
<1>13. t = [u EXCEPT !.internal = [x \in DOMAIN s.internal \union {r} |->
                                     IF x = r THEN NoReports ELSE s.internal[x]]]
  BY <1>1, <1>2
<1>14. /\ DOMAIN entered.rolls = DOMAIN set.rolls \union {r}
       /\ \A x \in DOMAIN set.rolls \ {r} : entered.rolls[x] = set.rolls[x]
  <2>1. new.rolls = set.rolls
    BY <1>9 DEF IsPrepared
  <2> QED
    BY <2>1 DEF entered, Entered
<1>15. entered.keys = NewKeys(new, r, "Propagation1")
  BY DEF Entered, NewKeys
<1>16. SetOK(new)
  BY <1>8 DEF MayEnter
<1> HIDE DEF u, entered
<1>17. /\ DOMAIN t = Fields /\ t.keyset = entered
       /\ t.dnskey_rrset = u.dnskey_rrset /\ t.ds_rrset = u.ds_rrset
       /\ t.cds_rrset = u.cds_rrset
       /\ DOMAIN t.internal = DOMAIN s.internal \union {r}
       /\ t.internal[r] = NoReports
       /\ \A x \in DOMAIN s.internal \ {r} : t.internal[x] = s.internal[x]
  BY <1>12, <1>13 DEF Fields
<1>18. Sound(t)
  BY <1>11, <1>12, <1>17 DEF Sound, DnskeyFollows, DsFollows
<1>19. Reports(t.internal, t.keyset.rolls)
  <2>1. NoReports \in [Changing -> SUBSET Checks]
        /\ \A phase \in Changing : NoReports[phase] = {}
    BY DEF NoReports, Changing, Propagation
  <2> QED
    BY <1>14, <1>17, <2>1 DEF Reports
<1>20. gone \subseteq StaleKeys(t)
  <2> SUFFICES ASSUME NEW k \in gone PROVE k \in StaleKeys(t)
    OBVIOUS
  <2>1. k \in DOMAIN set.keys /\ stale(set.keys[k])
    BY DEF StaleKeys
  <2>2. k \in DOMAIN new.keys /\ stale(new.keys[k])
    BY <1>9, <2>1 DEF IsPrepared, stale
  <2>3. stale(NewKeys(new, r, "Propagation1")[k])
    BY <1>10, <1>16, <2>2, StaleStays
  <2>4. k \in DOMAIN NewKeys(new, r, "Propagation1")
    BY <1>10, <1>16, <2>2, NewKeysOK
  <2> QED
    BY <1>15, <1>17, <2>3, <2>4 DEF StaleKeys
<1> QED
  BY <1>18, <1>19, <1>20 DEF Fine

LEMMA FineStartable ==
  ASSUME NEW s, NEW gone, Fine(s, gone), NEW r
  PROVE  Startable(s, r)
BY DEF Fine, Sound, Startable

LEMMA AutoStartFine ==
  ASSUME NEW S, NEW gone, \A s \in S : Fine(s, gone), config \in Configs,
         NEW aged, NEW type, NEW auto, NEW allowed, NEW r \in RollTypes
  PROVE  \A t \in auto_start(S, aged, type, auto, allowed, r) : Fine(t, gone)
<1> SUFFICES ASSUME NEW t \in auto_start(S, aged, type, auto, allowed, r)
             PROVE  Fine(t, gone)
  OBVIOUS
<1>1. PICK s \in S : t \in start_roll_command(s, r) \/ t = s
  BY DEF auto_start
<1>2. Fine(s, gone)
  OBVIOUS
<1>3. \A x \in start_roll_command(s, r) : Fine(x, gone)
  BY <1>2, FineStartable, StartFine DEF Fine
<1> QED
  BY <1>1, <1>2, <1>3

LEMMA StartsFine ==
  ASSUME NEW s, NEW gone, Fine(s, gone), config \in Configs, NEW aged
  PROVE  \A t \in AutoStarts(s, aged) : Fine(t, gone)
<1> DEFINE needAlg == algorithm_roll_needed(s)
           auto == IF needAlg THEN Automatic["Algorithm"] ELSE Automatic["Csk"]
           roll == IF needAlg THEN "AlgorithmRoll" ELSE "CskRoll"
           whole == config.use_csk \/ needAlg
           ksk == IF whole THEN auto_start({s}, aged, "KSK", auto, {}, roll)
                  ELSE auto_start({s}, aged, "KSK", Automatic["Ksk"], ZskRolls,
                                  config.ksk_roll_type)
           zsk == IF whole THEN auto_start(ksk, aged, "ZSK", auto, {}, roll)
                  ELSE auto_start(ksk, aged, "ZSK", Automatic["Zsk"], KskRolls,
                                  config.zsk_roll_type)
           csk == auto_start(zsk, aged, "CSK", auto, {}, roll)
<1>1. AutoStarts(s, aged) = csk
  BY DEF AutoStarts
<1>2. roll \in RollTypes
  BY DEF RollTypes
<1>3. config.ksk_roll_type \in RollTypes /\ config.zsk_roll_type \in RollTypes
  BY KeysetAssumption DEF Configs, RollTypes
<1> HIDE DEF needAlg, auto, roll, whole
<1>4. \A t \in {s} : Fine(t, gone)
  OBVIOUS
<1>5. \A t \in ksk : Fine(t, gone)
  BY <1>2, <1>3, <1>4, AutoStartFine
<1> HIDE DEF ksk
<1>6. \A t \in zsk : Fine(t, gone)
  BY <1>2, <1>3, <1>5, AutoStartFine
<1> HIDE DEF zsk
<1>7. \A t \in csk : Fine(t, gone)
  BY <1>2, <1>6, AutoStartFine
<1> QED
  BY <1>1, <1>7

-----------------------------------------------------------------------------
(* Before init there are only imported keys, and nothing is published.     *)

Pristine(s) ==
  /\ DOMAIN s = Fields
  /\ SetOK(s.keyset)
  /\ DOMAIN s.keyset.rolls = {} /\ DOMAIN s.internal = {}
  /\ s.dnskey_rrset = [keys |-> {}, sigs |-> {}] /\ s.ds_rrset = {} /\ s.cds_rrset = {}
  /\ \A k \in DOMAIN s.keyset.keys :
       ~s.keyset.keys[k].old /\ s.keyset.keys[k].flags = Capability[s.keyset.keys[k].type]

Inv ==
  /\ Pristine(kss) \/ Fine(kss, {})
  /\ config \in Configs
  /\ zone_cds \in SUBSET KeyNames

LEMMA PristineInitialized == Pristine(kss) => ~Initialized
BY DEF Pristine, Initialized

LEMMA FineInitialized == Fine(kss, {}) => Initialized
BY DEF Fine, Sound, DnskeyFollows, DnskeyRrset, Initialized

LEMMA WithNames == ASSUME NEW set, SetOK(set), NEW flag PROVE With(set, flag) \subseteq KeyNames
BY DEF SetOK, KeysOK, With

(* Keys that are stale can be removed. *)
LEMMA RemovedFine ==
  ASSUME NEW s, NEW gone, Fine(s, gone)
  PROVE  Fine(RemoveKeys(s, gone), {})
<1> DEFINE t == RemoveKeys(s, gone)
<1>1. DOMAIN s = Fields /\ DOMAIN s.keyset = {"keys", "rolls"} /\ SetOK(s.keyset)
  BY DEF Fine, Sound, SetOK
<1>2. /\ DOMAIN t = Fields /\ DOMAIN t.keyset = {"keys", "rolls"}
      /\ DOMAIN t.keyset.keys = DOMAIN s.keyset.keys \ gone
      /\ \A k \in DOMAIN t.keyset.keys : t.keyset.keys[k] = s.keyset.keys[k]
      /\ t.keyset.rolls = s.keyset.rolls
      /\ t.dnskey_rrset = s.dnskey_rrset /\ t.ds_rrset = s.ds_rrset
      /\ t.cds_rrset = s.cds_rrset /\ t.internal = s.internal
  BY <1>1 DEF RemoveKeys, Fields
<1> HIDE DEF t
<1>3. SetOK(t.keyset)
  BY <1>1, <1>2 DEF SetOK, KeysOK
<1>4. \A k \in gone : s.keyset.keys[k].old /\ s.keyset.keys[k].flags = {}
  BY DEF Fine, StaleKeys, stale
<1>5. \A flag : With(t.keyset, flag) = With(s.keyset, flag)
  BY <1>2, <1>4 DEF With
<1>6. DnskeyFollows(t, t.keyset) /\ DsFollows(t, t.keyset)
  BY <1>2, <1>5 DEF Fine, Sound, DnskeyFollows, DsFollows, DnskeyRrset, ParentKeys
<1>7. Succeeded(t.keyset)
  <2> SUFFICES ASSUME NEW r \in DOMAIN s.keyset.rolls
               PROVE  Successor(t.keyset, r, s.keyset.rolls[r].phase)
    BY <1>2 DEF Succeeded
  <2>1. PICK k \in DOMAIN s.keyset.keys :
          /\ s.keyset.keys[k].type \in Rolls(r) /\ ~s.keyset.keys[k].old
          /\ Late(r, s.keyset.rolls[r].phase) => "present" \in s.keyset.keys[k].flags
    BY DEF Fine, Sound, Succeeded, Successor
  <2> QED
    BY <1>2, <1>4, <2>1 DEF Successor
<1>8. Reports(t.internal, t.keyset.rolls)
  BY <1>2 DEF Fine, Reports
<1>9. Sound(t)
  BY <1>2, <1>3, <1>5, <1>6, <1>7 DEF Fine, Sound
<1> QED
  BY <1>8, <1>9 DEF Fine, t

-----------------------------------------------------------------------------
(* Every action of Keyset preserves the invariant. *)

LEMMA InitInv == Init => Inv
<1> SUFFICES ASSUME Init PROVE Inv
  OBVIOUS
<1>1. Pristine(kss)
  BY DEF Init, Pristine, Fields, SetOK, KeysOK, RollsOK
<1> QED
  BY <1>1, SettingsAssumption DEF Init, Inv

LEMMA ImportedKey ==
  ASSUME NEW k \in KeyNames, NEW alg \in Algorithms,
         NEW key, key = [type |-> TypeOfName(k), alg |-> alg, old |-> FALSE,
                         flags |-> Capability[TypeOfName(k)]]
  PROVE  KeyOK(key)
<1>1. PICK t \in KeyTypes : k \in Pool[t]
  BY KeysetAssumption DEF KeyNames
<1>2. TypeOfName(k) = t
  BY <1>1, PoolOfName
<1>3. Capability[t] \subseteq Flags
  BY CapabilityIs
<1> QED
  BY <1>2, <1>3 DEF KeyOK, Key

LEMMA ImportInv == ASSUME Inv, Import PROVE Inv'
<1>1. PICK k \in (Imported \union Pool["Include"]) \ DOMAIN kss.keyset.keys,
           alg \in Algorithms :
        /\ TypeOfName(k) = "Include" \/ ~Initialized
        /\ Write(handle_actions([kss EXCEPT !.keyset = import_key(@, k, alg)],
                    {"UpdateDnskeyRrset" : x \in kss.dnskey_rrset.keys} \union
                    {"UpdateDsRrset" : x \in kss.ds_rrset} \union
                    {"CreateCdsRrset" : x \in kss.cds_rrset}))
  BY DEF Import
<1> DEFINE acts == {"UpdateDnskeyRrset" : x \in kss.dnskey_rrset.keys} \union
                   {"UpdateDsRrset" : x \in kss.ds_rrset} \union
                   {"CreateCdsRrset" : x \in kss.cds_rrset}
           key == [type |-> TypeOfName(k), alg |-> alg, old |-> FALSE,
                   flags |-> Capability[TypeOfName(k)]]
           set == kss.keyset
           new == import_key(set, k, alg)
           s == [kss EXCEPT !.keyset = new]
<1>2. kss' = handle_actions(s, acts) /\ config' = config /\ zone_cds' = zone_cds
  BY <1>1 DEF Write
<1>3. k \in KeyNames /\ k \notin DOMAIN set.keys
  BY KeysetAssumption DEF KeyNames, KeyTypes
<1>4. KeyOK(key)
  BY <1>3, ImportedKey
<1>5. DOMAIN kss = Fields /\ SetOK(set)
  BY DEF Inv, Pristine, Fine, Sound
<1>6. /\ DOMAIN new = {"keys", "rolls"} /\ new.rolls = set.rolls
      /\ DOMAIN new.keys = DOMAIN set.keys \union {k}
      /\ new.keys[k] = key
      /\ \A x \in DOMAIN set.keys : new.keys[x] = set.keys[x]
  BY <1>3, <1>5 DEF SetOK, import_key
<1> HIDE DEF new
<1>7. /\ DOMAIN s = Fields /\ s.keyset = new /\ s.internal = kss.internal
      /\ s.dnskey_rrset = kss.dnskey_rrset /\ s.ds_rrset = kss.ds_rrset
      /\ s.cds_rrset = kss.cds_rrset
  BY <1>5 DEF Fields
<1> HIDE DEF s
<1>8. SetOK(new)
  <2> HIDE DEF key
  <2> QED
    BY <1>3, <1>4, <1>5, <1>6 DEF SetOK, KeysOK
<1>9. /\ DOMAIN kss' = Fields /\ kss'.keyset = new /\ kss'.internal = kss.internal
      /\ kss'.dnskey_rrset =
           IF "UpdateDnskeyRrset" \in acts THEN DnskeyRrset(new) ELSE kss.dnskey_rrset
      /\ kss'.ds_rrset = IF "UpdateDsRrset" \in acts THEN ParentKeys(new) ELSE kss.ds_rrset
      /\ kss'.cds_rrset = IF "CreateCdsRrset" \in acts THEN ParentKeys(new)
                          ELSE IF "RemoveCdsRrset" \in acts THEN {} ELSE kss.cds_rrset
  <2> HIDE DEF acts
  <2> QED
    BY <1>2, <1>7, HandledFields
<1>10. CASE Pristine(kss)
  <2>1. acts = {}
    BY <1>10 DEF Pristine
  <2>2. Pristine(kss')
    BY <1>6, <1>8, <1>9, <1>10, <2>1 DEF Pristine
  <2> QED
    BY <1>2, <2>2 DEF Inv
<1>11. CASE Fine(kss, {})
  <2>1. TypeOfName(k) = "Include"
    BY <1>1, <1>11, FineInitialized
  <2>2. key.flags = {"present"} /\ ~key.old
    BY <2>1 DEF Capability
  <2> HIDE DEF key
  <2>3. ParentKeys(new) = ParentKeys(set)
    BY <1>6, <2>2 DEF ParentKeys, With
  <2>4. "UpdateDnskeyRrset" \in acts /\ "RemoveCdsRrset" \notin acts
    BY <1>11, FineInitialized DEF Initialized
  <2>5. DnskeyFollows(kss', new)
    BY <1>9, <2>4 DEF DnskeyFollows
  <2>6. DsFollows(kss', new)
    BY <1>9, <1>11, <2>3, <2>4 DEF Fine, Sound, DsFollows
  <2>7. Succeeded(new)
    BY <1>6, <1>11 DEF Fine, Sound, Succeeded, Successor
  <2>8. With(new, "present") # {}
    BY <1>6, <2>2 DEF With
  <2>9. Sound(kss')
    BY <1>8, <1>9, <2>5, <2>6, <2>7, <2>8 DEF Sound
  <2>10. Reports(kss'.internal, kss'.keyset.rolls)
    BY <1>6, <1>9, <1>11 DEF Fine
  <2>11. Fine(kss', {})
    BY <2>9, <2>10 DEF Fine
  <2> QED
    BY <1>2, <2>11 DEF Inv
<1> QED
  BY <1>10, <1>11 DEF Inv

(* A command that writes a state of which all is well. *)
LEMMA WriteInv ==
  ASSUME Inv, NEW s, Fine(s, {}), Write(s)
  PROVE  Inv'
<1>1. kss' = s /\ config' = config /\ zone_cds' = zone_cds
  BY DEF Write
<1> QED
  BY <1>1 DEF Inv

LEMMA InitCommandInv == ASSUME Inv, InitCommand PROVE Inv'
<1> DEFINE set == kss.keyset
           types == {set.keys[k].type : k \in DOMAIN set.keys} \ {"Include"}
           acts == {"UpdateDnskeyRrset", "UpdateDsRrset"}
           s == handle_actions(kss, acts)
<1>1. Pristine(kss)
  BY FineInitialized DEF InitCommand, Inv
<1>2. CASE ({"KSK", "ZSK"} \subseteq types \/ "CSK" \in types) /\ Write(s)
  <2>1. /\ DOMAIN s = Fields /\ s.keyset = set /\ s.internal = kss.internal
        /\ s.dnskey_rrset = DnskeyRrset(set) /\ s.ds_rrset = ParentKeys(set)
        /\ s.cds_rrset = kss.cds_rrset
    BY <1>1, HandledFields DEF Pristine
  <2>2. PICK k \in DOMAIN set.keys : TRUE
    BY <1>2
  <2>3. "present" \in set.keys[k].flags
    BY <1>1, CapabilityIs DEF Pristine, SetOK, KeysOK, KeyOK, Key
  <2> HIDE DEF s
  <2>4. With(set, "present") # {}
    BY <2>3 DEF With
  <2>5. Sound(s)
    BY <1>1, <2>1, <2>4 DEF Pristine, Sound, DnskeyFollows, DsFollows, Succeeded
  <2>6. Fine(s, {})
    BY <1>1, <2>1, <2>5 DEF Fine, Pristine, Reports
  <2> QED
    BY <1>2, <2>6, WriteInv
<1>3. CASE types = {} /\ \E t \in start_roll_command(kss, "AlgorithmRoll") : Write(t)
  <2>1. \A k \in DOMAIN set.keys : set.keys[k].flags = {"present"}
    BY <1>1, <1>3 DEF Pristine, Capability
  <2>2. ParentKeys(set) = {}
    BY <2>1 DEF ParentKeys, With
  <2>3. Startable(kss, "AlgorithmRoll")
    BY <1>1, <2>2 DEF Pristine, Startable, Succeeded, DsFollows
  <2>4. Reports(kss.internal, kss.keyset.rolls)
    BY <1>1 DEF Pristine, Reports
  <2>5. \A t \in start_roll_command(kss, "AlgorithmRoll") : Fine(t, {})
    BY <2>3, <2>4, StartFine DEF RollTypes, Inv
  <2> QED
    BY <1>3, <2>5, WriteInv
<1> QED
  BY <1>2, <1>3 DEF InitCommand

LEMMA RollOfType == ASSUME Inv, NEW variant PROVE RollOf(variant) \in RollTypes
BY KeysetAssumption DEF Inv, Configs, RollOf, RollTypes

LEMMA StartRollInv == ASSUME Inv, NEW variant, StartRoll(variant) PROVE Inv'
<1>1. Fine(kss, {})
  BY PristineInitialized DEF Inv, StartRoll
<1>2. \A s \in start_roll_command(kss, RollOf(variant)) : Fine(s, {})
  BY <1>1, RollOfType, FineStartable, StartFine DEF Inv, Fine
<1> QED
  BY <1>2, WriteInv DEF StartRoll

(* Only after init is a roll in progress. *)
LEMMA InPhaseFine == ASSUME Inv, NEW r, NEW phases, InPhase(kss, r, phases) PROVE Fine(kss, {})
BY DEF Inv, Pristine, InPhase

LEMMA PropagationCompleteInv ==
  ASSUME Inv, NEW variant, PropagationComplete(variant) PROVE Inv'
<1> DEFINE r == RollOf(variant)
<1>1. InPhase(kss, r, Propagation)
      /\ Write(Stepped(kss, r, propagation_complete(kss.keyset, r, TTL)))
  BY DEF PropagationComplete
<1> HIDE DEF r
<1>2. Fine(Stepped(kss, r, propagation_complete(kss.keyset, r, TTL)), {})
  BY <1>1, InPhaseFine, CompleteFine
<1> QED
  BY <1>1, <1>2, WriteInv

LEMMA CacheExpiredInv == ASSUME Inv, NEW variant, CacheExpired(variant) PROVE Inv'
<1> DEFINE r == RollOf(variant)
<1>1. InPhase(kss, r, CacheExpire) /\ Write(Stepped(kss, r, cache_expired(kss.keyset, r)))
  BY DEF CacheExpired
<1> HIDE DEF r
<1>2. Fine(Stepped(kss, r, cache_expired(kss.keyset, r)), {})
  BY <1>1, InPhaseFine, ExpiredFine
<1> QED
  BY <1>1, <1>2, WriteInv

LEMMA RollDoneInv == ASSUME Inv, NEW variant, RollDone(variant) PROVE Inv'
<1> DEFINE r == RollOf(variant)
<1>1. InPhase(kss, r, {"Done"}) /\ Write(do_done(kss, r))
  BY DEF RollDone
<1> HIDE DEF r
<1>2. Fine(do_done(kss, r), {})
  BY <1>1, InPhaseFine, DoneFine
<1> QED
  BY <1>1, <1>2, WriteInv

LEMMA RemoveKeyInv == ASSUME Inv, RemoveKey PROVE Inv'
<1>1. PICK k \in StaleKeys(kss) : Write([kss EXCEPT !.keyset = delete_key(@, k)])
  BY DEF RemoveKey
<1>2. Fine(kss, {})
  BY DEF Inv, Pristine, StaleKeys, stale
<1>3. [kss EXCEPT !.keyset = delete_key(@, k)] = RemoveKeys(kss, {k})
  BY <1>2 DEF delete_key, RemoveKeys
<1>4. Fine(RemoveKeys(kss, {k}), {})
  BY <1>2, RemovedFine DEF Fine
<1> QED
  BY <1>1, <1>3, <1>4, WriteInv

LEMMA CronInv == ASSUME Inv, CronAny PROVE Inv'
<1>1. PICK answers \in SUBSET Asked, aged \in SUBSET Expiring, gone \in {{}, StaleKeys(kss)} :
        Cron(answers, aged, gone)
  BY DEF CronAny
<1>2. PICK s \in AutoRolls(AutoStarts(kss, aged), answers) : Write(RemoveKeys(s, gone))
  BY <1>1 DEF Cron
<1>3. Fine(kss, gone)
  BY <1>1, PristineInitialized DEF Inv, Fine, Cron
<1>4. \A t \in AutoStarts(kss, aged) : Fine(t, gone)
  BY <1>3, StartsFine DEF Inv
<1>5. Fine(s, gone)
  BY <1>4, RollsFine
<1>6. Fine(RemoveKeys(s, gone), {})
  BY <1>5, RemovedFine
<1> QED
  BY <1>2, <1>6, WriteInv

LEMMA SignZoneInv == ASSUME Inv, SignZone PROVE Inv'
<1>1. Fine(kss, {})
  BY PristineInitialized DEF Inv, SignZone
<1>2. kss.cds_rrset \in SUBSET KeyNames
  BY <1>1, WithNames DEF Fine, Sound, DsFollows, ParentKeys
<1> QED
  BY <1>2 DEF Inv, SignZone

LEMMA TickInv == ASSUME Inv, Tick PROVE Inv'
<1> DEFINE set == kss.keyset
           new == kss'.keyset
<1>1. DOMAIN kss = Fields /\ SetOK(set)
  BY DEF Inv, Pristine, Fine, Sound
<1> DEFINE rolls == Waited(set.rolls)
<1>2. kss' = [kss EXCEPT !.keyset.rolls = rolls]
  BY DEF Tick
<1> HIDE DEF rolls
<1>3. /\ DOMAIN kss' = Fields /\ DOMAIN new = {"keys", "rolls"}
      /\ new.keys = set.keys /\ new.rolls = rolls
      /\ kss'.dnskey_rrset = kss.dnskey_rrset /\ kss'.ds_rrset = kss.ds_rrset
      /\ kss'.cds_rrset = kss.cds_rrset /\ kss'.internal = kss.internal
  BY <1>1, <1>2 DEF Fields, SetOK
<1> HIDE DEF new
<1>4. ASSUME NEW r \in DOMAIN set.rolls
      PROVE  new.rolls[r] \in RollState(TTL) /\ new.rolls[r].phase = set.rolls[r].phase
  <2>1. set.rolls[r] \in RollState(TTL)
    BY <1>1 DEF SetOK, RollsOK
  <2>2. PICK roll \in RollState(TTL) : roll = set.rolls[r]
    BY <2>1
  <2>3. roll.wait \in 0 .. TTL /\ (IF roll.wait = 0 THEN 0 ELSE roll.wait - 1) \in 0 .. TTL
    BY TtlAssumption DEF RollState
  <2>4. new.rolls[r] = [roll EXCEPT !.wait = IF @ = 0 THEN 0 ELSE @ - 1]
    BY <1>3, <2>2 DEF rolls, Waited
  <2> QED
    BY <2>2, <2>3, <2>4 DEF RollState
<1>5. SetOK(new) /\ DOMAIN new.rolls = DOMAIN set.rolls
  <2>1. DOMAIN new.rolls = DOMAIN set.rolls
    BY <1>3 DEF rolls, Waited
  <2> QED
    BY <1>1, <1>3, <1>4, <2>1 DEF SetOK, RollsOK
<1>6. \A flag : With(new, flag) = With(set, flag)
  BY <1>3 DEF With
<1>7. CASE Pristine(kss)
  <2>1. Pristine(kss')
    BY <1>3, <1>5, <1>7 DEF Pristine, new
  <2> QED
    BY <2>1 DEF Inv, Tick
<1>8. CASE Fine(kss, {})
  <2>1. DnskeyFollows(kss', new) /\ DsFollows(kss', new)
    BY <1>3, <1>6, <1>8 DEF Fine, Sound, DnskeyFollows, DsFollows, DnskeyRrset, ParentKeys
  <2>2. Succeeded(new)
    BY <1>3, <1>4, <1>5, <1>8 DEF Fine, Sound, Succeeded, Successor
  <2>3. Reports(kss'.internal, new.rolls)
    BY <1>3, <1>4, <1>5, <1>8 DEF Fine, Reports
  <2>4. Sound(kss')
    BY <1>3, <1>5, <1>6, <1>8, <2>1, <2>2 DEF Fine, Sound, new
  <2>5. Fine(kss', {})
    BY <2>3, <2>4 DEF Fine, new
  <2> QED
    BY <2>5 DEF Inv, Tick
<1> QED
  BY <1>7, <1>8 DEF Inv

LEMMA StepInv == Inv /\ [Next]_vars => Inv'
<1> SUFFICES ASSUME Inv, [Next]_vars PROVE Inv'
  OBVIOUS
<1>1. CASE Import
  BY <1>1, ImportInv
<1>2. CASE InitCommand
  BY <1>2, InitCommandInv
<1>3. ASSUME NEW variant \in Variants,
             StartRoll(variant) \/ PropagationComplete(variant)
               \/ CacheExpired(variant) \/ RollDone(variant)
      PROVE  Inv'
  BY <1>3, StartRollInv, PropagationCompleteInv, CacheExpiredInv, RollDoneInv
<1>4. CASE RemoveKey
  BY <1>4, RemoveKeyInv
<1>5. CASE CronAny
  BY <1>5, CronInv
<1>6. CASE SetConfig
  BY <1>6, SettingsAssumption DEF Inv, SetConfig
<1>7. CASE SignZone
  BY <1>7, SignZoneInv
<1>8. CASE ParentUpdate
  BY <1>8 DEF Inv, ParentUpdate
<1>9. ASSUME NEW kind \in Kinds, ServersUpdate(kind) PROVE Inv'
  BY <1>9 DEF Inv, ServersUpdate
<1>10. CASE Tick
  BY <1>10, TickInv
<1>11. CASE UNCHANGED vars
  BY <1>11 DEF Inv, vars
<1> QED
  BY <1>1, <1>2, <1>3, <1>4, <1>5, <1>6, <1>7, <1>8, <1>9, <1>10, <1>11 DEF Next

LEMMA Invariance == Spec => []Inv
BY InitInv, StepInv, PTL DEF Spec

-----------------------------------------------------------------------------
(* The types of the state file, of the config and of the zone's CDS RRset: *)
(* whatever the commands and cron do, every key keeps a type, an algorithm *)
(* and flags, each roll is in a state of its own, and RRsets are of keys.  *)
THEOREM TypeCorrect == Spec => []TypeOK
<1>1. Inv => TypeOK
  <2> SUFFICES ASSUME Inv PROVE TypeOK
    OBVIOUS
  <2>1. SetOK(kss.keyset)
    BY DEF Inv, Pristine, Fine, Sound
  <2>2. /\ DOMAIN kss.keyset.keys \subseteq KeyNames
        /\ \A k \in DOMAIN kss.keyset.keys : kss.keyset.keys[k] \in Key(Algorithms)
        /\ DOMAIN kss.keyset.rolls \subseteq RollTypes
        /\ \A r \in DOMAIN kss.keyset.rolls : kss.keyset.rolls[r] \in RollState(TTL)
    BY <2>1 DEF SetOK, KeysOK, KeyOK, RollsOK
  <2>3. Changing = Propagation \union {"Done"}
    BY DEF Changing, Propagation
  <2>4. CASE Pristine(kss)
    <3>1. /\ kss.dnskey_rrset \in [keys : SUBSET KeyNames, sigs : SUBSET KeyNames]
          /\ kss.ds_rrset \in SUBSET KeyNames /\ kss.cds_rrset \in SUBSET KeyNames
          /\ DOMAIN kss.internal = {}
      BY <2>4 DEF Pristine
    <3> QED
      BY <2>2, <3>1 DEF Inv, TypeOK
  <2>5. CASE Fine(kss, {})
    <3>1. kss.dnskey_rrset \in [keys : SUBSET KeyNames, sigs : SUBSET KeyNames]
      BY <2>1, <2>5, WithNames DEF Fine, Sound, DnskeyFollows, DnskeyRrset
    <3>2. kss.ds_rrset \in SUBSET KeyNames /\ kss.cds_rrset \in SUBSET KeyNames
      BY <2>1, <2>5, WithNames DEF Fine, Sound, DsFollows, ParentKeys
    <3>3. DOMAIN kss.internal \subseteq RollTypes
          /\ \A r \in DOMAIN kss.internal : kss.internal[r] \in [Changing -> SUBSET Checks]
      BY <2>2, <2>5 DEF Fine, Reports
    <3> QED
      BY <2>2, <2>3, <3>1, <3>2, <3>3 DEF Inv, TypeOK
  <2> QED
    BY <2>4, <2>5 DEF Inv
<1> QED
  BY <1>1, Invariance, PTL

(* The stored RRsets are those of the keys, after every command and every  *)
(* run of cron, however rolls, imports, removals and settings interleave.  *)
THEOREM RrsetsAreThoseOfKeys == Spec => []RrsetsFollowKeys
<1>1. Inv => RrsetsFollowKeys
  BY PristineInitialized DEF Inv, Fine, Sound, DnskeyFollows, DsFollows, RrsetsFollowKeys
<1> QED
  BY <1>1, Invariance, PTL

(* Every roll in progress has its report state, and nothing is reported in *)
(* it for a state that the roll has not reached: expect("should not fail") *)
(* does not fail, and no propagation check is skipped.                     *)
THEOREM ReportsAreOfRolls == Spec => []ReportsPerRoll
<1>1. Inv => ReportsPerRoll
  <2> SUFFICES ASSUME Inv PROVE ReportsPerRoll
    OBVIOUS
  <2>1. CASE Pristine(kss)
    BY <2>1 DEF Pristine, ReportsPerRoll
  <2>2. CASE Fine(kss, {})
    <3>1. DOMAIN kss.internal = DOMAIN kss.keyset.rolls
      BY <2>2 DEF Fine, Reports
    <3>2. ASSUME NEW r \in DOMAIN kss.internal, NEW phase \in DOMAIN kss.internal[r],
                 kss.internal[r][phase] # {}
          PROVE  CASE phase = "Propagation1" -> TRUE
                   [] phase = "Propagation2" ->
                        ~InPhase(kss, r, {"Propagation1", "CacheExpire1"})
                   [] phase = "Done" -> InPhase(kss, r, {"Done"})
      <4>1. phase \in Changing /\ Reached(kss.keyset.rolls[r].phase, phase)
        BY <2>2, <3>1, <3>2 DEF Fine, Reports
      <4> QED
        BY <3>1, <4>1 DEF Changing, Reached, InPhase
    <3> QED
      BY <3>1, <3>2 DEF ReportsPerRoll
  <2> QED
    BY <2>1, <2>2 DEF Inv
<1> QED
  BY <1>1, Invariance, PTL
=============================================================================
