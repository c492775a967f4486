------------------------------- MODULE Keyset -------------------------------
(***************************************************************************)
(* The keyset subcommand: key rolls by hand and by cron, and the RRsets    *)
(* keyset hands to the signer and to the parent                            *)
(* (src/commands/keyset/cmd.rs).                                           *)
(*                                                                         *)
(* A command holds the lock on the config file from the first read to the  *)
(* last write, so each one is a single action here (KeysetLock models that *)
(* protocol). kss is KeySetState, what is in the state file.               *)
(***************************************************************************)
EXTENDS DomainKeySet, Dns

CONSTANTS
  Pool,            \* key type -> the names new keys of that type can get
  Algorithms,      \* the values config.algorithm can have
  KskRollChoices,  \* the values config.ksk_roll_type can have
  ZskRollChoices,  \* the values config.zsk_roll_type can have
  CskChoices,      \* the values config.use_csk can have
  Automatic,       \* variant -> which of "start", "report", "expire", "done" cron does
  RollChoices,     \* the sets of variants that may be in use: started by hand, or
                   \* by cron because a validity is configured
  Channels,        \* how the parent may learn its DS records: "cds", "command"
  Settings,        \* the configurations of these that the operator uses
  Imported         \* the keys an already signed zone is moved to keyset with

ASSUME KeysetAssumption ==
  /\ DOMAIN Pool = KeyTypes
  /\ \A s, t \in DOMAIN Pool : s # t => Pool[s] \intersect Pool[t] = {}
  /\ KskRollChoices \subseteq KskRolls /\ KskRollChoices # {}
  /\ ZskRollChoices \subseteq ZskRolls /\ ZskRollChoices # {}
  /\ CskChoices \subseteq BOOLEAN /\ CskChoices # {}
  /\ Automatic \in [{"Ksk", "Zsk", "Csk", "Algorithm"} ->
                      SUBSET {"start", "report", "expire", "done"}]
  /\ RollChoices \subseteq SUBSET {"Ksk", "Zsk", "Csk", "Algorithm"}
  /\ Channels \subseteq {"cds", "command"}
  /\ Imported \subseteq UNION {Pool[t] : t \in DOMAIN Pool}

VARIABLES
  kss,       \* KeySetState: [keyset, dnskey_rrset, ds_rrset, cds_rrset, internal]
  config,    \* the part of KeySetConfig that decides about rolls; rolled is the
             \* variants that are in use, channel where the parent gets its DS from
  zone_cds   \* the CDS RRset in the latest version of the zone

vars == <<kss, config, zone_cds, dnsVars>>

KeyNames == UNION {Pool[t] : t \in DOMAIN Pool}
TypeOfName(k) == CHOOSE t \in DOMAIN Pool : k \in Pool[t]

Configs ==
  [ksk_roll_type : KskRollChoices, zsk_roll_type : ZskRollChoices,
   use_csk : CskChoices, algorithm : Algorithms, rolled : RollChoices,
   channel : Channels]

ASSUME SettingsAssumption == Settings \subseteq Configs

-----------------------------------------------------------------------------
(* The RRsets kept in the state file, and the actions that update them.    *)

With(set, flag) == {k \in DOMAIN set.keys : flag \in set.keys[k].flags}

DnskeyRrset(set) == [keys |-> With(set, "present"), sigs |-> With(set, "signer")]

ParentKeys(set) == With(set, "at_parent")

(* Mutants: the DS RRset, or the CDS RRset, does not follow. *)
HandleWithoutDs(s, acts) ==
  [s EXCEPT !.dnskey_rrset = IF "UpdateDnskeyRrset" \in acts THEN DnskeyRrset(s.keyset) ELSE @,
            !.cds_rrset = IF "CreateCdsRrset" \in acts THEN ParentKeys(s.keyset)
                          ELSE IF "RemoveCdsRrset" \in acts THEN {} ELSE @]

HandleWithoutCds(s, acts) ==
  [s EXCEPT !.dnskey_rrset = IF "UpdateDnskeyRrset" \in acts THEN DnskeyRrset(s.keyset) ELSE @,
            !.ds_rrset = IF "UpdateDsRrset" \in acts THEN ParentKeys(s.keyset) ELSE @]

handle_actions(s, acts) ==
  [s EXCEPT !.dnskey_rrset = IF "UpdateDnskeyRrset" \in acts THEN DnskeyRrset(s.keyset) ELSE @,
            !.cds_rrset = IF "CreateCdsRrset" \in acts THEN ParentKeys(s.keyset)
                          ELSE IF "RemoveCdsRrset" \in acts THEN {} ELSE @,
            !.ds_rrset = IF "UpdateDsRrset" \in acts THEN ParentKeys(s.keyset) ELSE @]

(* A roll takes the step that leads to this key set. *)
Stepped(s, r, set) ==
  handle_actions([s EXCEPT !.keyset = set], actions(r, set.rolls[r].phase))

-----------------------------------------------------------------------------
(* Starting rolls. The result is a set of states, empty on an error: then  *)
(* nothing is written.                                                     *)

ActiveKeys(s, types) ==
  {k \in DOMAIN s.keyset.keys :
     s.keyset.keys[k].type \in types /\ ~stale(s.keyset.keys[k])}

(* A name nobody knows: new keys differ from all keys that anyone has seen. *)
Unused(s, type) ==
  {k \in Pool[type] :
     /\ k \notin DOMAIN s.keyset.keys \union Imported \union zone_cds
     /\ \A v \in Visible("dnskey") : k \notin v.keys
     /\ \A kind \in {"ds", "rrsig"} : \A v \in Visible(kind) : k \notin v}

new_keys(s, types) ==
  {pick \in [types -> KeyNames] : \A t \in types : pick[t] \in Unused(s, t)}

AddKeys(set, pick, alg) ==
  [set EXCEPT !.keys =
     [k \in DOMAIN set.keys \union {pick[t] : t \in DOMAIN pick} |->
        IF k \in DOMAIN set.keys THEN set.keys[k]
        ELSE add_key(set, k, TypeOfName(k), alg).keys[k]]]

(* Mutant: no place for the checks of the last state. *)
NoReportsDone == [phase \in Propagation |-> {}]

NoReports == [phase \in Propagation \union {"Done"} |-> {}]

NewTypes(r) ==
  IF r \in KskRolls THEN {"KSK"} ELSE IF r \in ZskRolls THEN {"ZSK"}
  ELSE IF config.use_csk THEN {"CSK"} ELSE {"KSK", "ZSK"}

start_roll_command(s, r) ==
  LET old == ActiveKeys(s, Rolls(r))
      mayRoll == r \in KskRolls \union ZskRolls =>
                   ~config.use_csk /\ ActiveKeys(s, {"CSK"}) = {}
      starts == {pick \in new_keys(s, NewTypes(r)) :
                   LET set == AddKeys(s.keyset, pick, config.algorithm)
                   IN  CanStart(set, r, old, {pick[t] : t \in DOMAIN pick})}
      Started(pick) ==
        [Stepped(s, r, start_roll(AddKeys(s.keyset, pick, config.algorithm), r, old))
           EXCEPT !.internal = [x \in DOMAIN s.internal \union {r} |->
                                  IF x = r THEN NoReports ELSE s.internal[x]]]
  IN  IF mayRoll THEN {Started(pick) : pick \in starts} ELSE {}

(* Mutant: what was reported stays. *)
DoDoneKeepsReports(s, r) ==
  [s EXCEPT !.keyset = roll_done(@, r), !.cds_rrset = {}]

do_done(s, r) ==
  [s EXCEPT !.keyset = roll_done(@, r),
            !.cds_rrset = {},
            !.internal = [x \in DOMAIN @ \ {r} |-> @[x]]]

-----------------------------------------------------------------------------
(* Automation. answers are the checks that are due and get an answer from  *)
(* every server: a check that is not due yet, or that fails, is tried      *)
(* again in a later run.                                                   *)

(* Mutant: the signatures of keys that do not sign are waited for. *)
TargetPresent(s, c) ==
  IF c = "dnskey" THEN s.dnskey_rrset
  ELSE IF c = "ds" THEN s.cds_rrset
  ELSE {k \in With(s.keyset, "present") : s.keyset.keys[k].type = "ZSK"}

(* The DS RRset is compared with the CDNSKEY RRset, not with the keys. *)
Target(s, c) ==
  IF c = "dnskey" THEN s.dnskey_rrset
  ELSE IF c = "ds" THEN s.cds_rrset ELSE With(s.keyset, "zone_signer")

Confirmed(s, c) == Propagated(c, Target(s, c))

(* auto_report_actions and auto_wait_actions: check what was not confirmed *)
(* before, in order, up to the first one that has to wait.                 *)
Reported(s, r, answers) ==
  LET phase == s.keyset.rolls[r].phase
      open == Needed(r, phase) \ s.internal[r][phase]
      waiting == {c \in open : c \notin answers \/ ~Confirmed(s, c)}
  IN  [s EXCEPT !.internal[r][phase] =
         @ \union {c \in open : \A w \in waiting : CheckOrder[c] < CheckOrder[w]}]

(* Mutant: the RRSIGs are not waited for. *)
AllReportedButRrsig(s, r) ==
  Needed(r, s.keyset.rolls[r].phase) \ {"rrsig"}
    \subseteq s.internal[r][s.keyset.rolls[r].phase]

AllReported(s, r) ==
  Needed(r, s.keyset.rolls[r].phase) \subseteq s.internal[r][s.keyset.rolls[r].phase]

InPhase(s, r, phases) ==
  r \in DOMAIN s.keyset.rolls /\ s.keyset.rolls[r].phase \in phases

AutoReport(auto, s, r, answers) ==
  IF "report" \notin auto \/ ~InPhase(s, r, Propagation) THEN s
  ELSE LET t == Reported(s, r, answers)
       IN  IF AllReported(t, r) THEN Stepped(t, r, propagation_complete(t.keyset, r, TTL)) ELSE t

(* Mutant: the TTL is not waited for. *)
AutoExpireEarly(auto, s, r) ==
  IF "expire" \in auto /\ InPhase(s, r, CacheExpire)
  THEN Stepped(s, r, cache_expired(s.keyset, r)) ELSE s

AutoExpire(auto, s, r) ==
  IF "expire" \in auto /\ InPhase(s, r, CacheExpire) /\ s.keyset.rolls[r].wait = 0
  THEN Stepped(s, r, cache_expired(s.keyset, r)) ELSE s

AutoDone(auto, s, r, answers) ==
  IF "done" \notin auto \/ ~InPhase(s, r, {"Done"}) THEN s
  ELSE LET t == Reported(s, r, answers)
       IN  IF AllReported(t, r) THEN do_done(t, r) ELSE t

(* The three stages, one after the other: a roll can take more than one    *)
(* step in one run of cron.                                                *)
auto_report_expire_done(S, auto, r, answers) ==
  {AutoDone(auto, u, r, answers) :
     u \in {AutoExpire(auto, t, r) : t \in {AutoReport(auto, s, r, answers) : s \in S}}}

(* The rolls in the order cron looks at them. *)
AutoRolls(S, answers) ==
  LET ksk1 == auto_report_expire_done(S, Automatic["Ksk"], "KskRoll", answers)
      ksk2 == auto_report_expire_done(ksk1, Automatic["Ksk"], "KskDoubleDsRoll", answers)
      zsk1 == auto_report_expire_done(ksk2, Automatic["Zsk"], "ZskRoll", answers)
      zsk2 == auto_report_expire_done(zsk1, Automatic["Zsk"], "ZskDoubleSignatureRoll", answers)
      csk  == auto_report_expire_done(zsk2, Automatic["Csk"], "CskRoll", answers)
  IN  auto_report_expire_done(csk, Automatic["Algorithm"], "AlgorithmRoll", answers)

algorithm_roll_needed(s) ==
  AlgorithmsOf(s.keyset, ActiveKeys(s, {"KSK", "ZSK", "CSK"})) # {config.algorithm}

(* aged: the key types of which the oldest key is past its validity. *)
auto_start(S, aged, type, auto, allowed, r) ==
  UNION {IF /\ type \in aged /\ "start" \in auto
            /\ DOMAIN s.keyset.rolls \subseteq allowed
            /\ ActiveKeys(s, {type}) # {}
         THEN start_roll_command(s, r) ELSE {s} : s \in S}

AutoStarts(s, aged) ==
  LET needAlg == algorithm_roll_needed(s)
      auto == IF needAlg THEN Automatic["Algorithm"] ELSE Automatic["Csk"]
      roll == IF needAlg THEN "AlgorithmRoll" ELSE "CskRoll"
      whole == config.use_csk \/ needAlg
      ksk == IF whole THEN auto_start({s}, aged, "KSK", auto, {}, roll)
             ELSE auto_start({s}, aged, "KSK", Automatic["Ksk"], ZskRolls, config.ksk_roll_type)
      zsk == IF whole THEN auto_start(ksk, aged, "ZSK", auto, {}, roll)
             ELSE auto_start(ksk, aged, "ZSK", Automatic["Zsk"], KskRolls, config.zsk_roll_type)
  IN  auto_start(zsk, aged, "CSK", auto, {}, roll)

StaleKeys(s) == {k \in DOMAIN s.keyset.keys : stale(s.keyset.keys[k])}

RemoveKeys(s, gone) ==
  [s EXCEPT !.keyset.keys = [k \in DOMAIN @ \ gone |-> @[k]]]

-----------------------------------------------------------------------------
(* The commands. The operator runs init first, then the other commands: the *)
(* code checks it for init only (a second init is refused).                *)

Write(s) ==
  /\ kss' = s
  /\ UNCHANGED <<config, zone_cds, dnsVars>>

Initialized == kss.dnskey_rrset.keys # {}

(* An imported key is taken to be in full use at once. *)
import_key(set, k, alg) ==
  [set EXCEPT !.keys =
     [x \in DOMAIN @ \union {k} |->
        IF x = k THEN [type |-> TypeOfName(k), alg |-> alg, old |-> FALSE,
                       flags |-> Capability[TypeOfName(k)]]
        ELSE @[x]]]

(* Import: a key the zone is already signed with, before init; or, at any  *)
(* time, the public key of somebody else.                                  *)
Import ==
  \E k \in (Imported \union Pool["Include"]) \ DOMAIN kss.keyset.keys, alg \in Algorithms :
    /\ TypeOfName(k) = "Include" \/ ~Initialized
    /\ Write(handle_actions([kss EXCEPT !.keyset = import_key(@, k, alg)],
                {"UpdateDnskeyRrset" : x \in kss.dnskey_rrset.keys} \union
                {"UpdateDsRrset" : x \in kss.ds_rrset} \union
                {"CreateCdsRrset" : x \in kss.cds_rrset}))

(* init, with imported keys or by an algorithm roll that makes new ones. *)
InitCommand ==
  /\ ~Initialized
  /\ LET types == {kss.keyset.keys[k].type : k \in DOMAIN kss.keyset.keys} \ {"Include"}
     IN  IF {"KSK", "ZSK"} \subseteq types \/ "CSK" \in types
         THEN Write(handle_actions(kss, {"UpdateDnskeyRrset", "UpdateDsRrset"}))
         ELSE /\ types = {} /\ Imported = {}
              /\ \E s \in start_roll_command(kss, "AlgorithmRoll") : Write(s)

RollOf(variant) ==
  IF variant = "Ksk" THEN config.ksk_roll_type
  ELSE IF variant = "Zsk" THEN config.zsk_roll_type
  ELSE IF variant = "Csk" THEN "CskRoll" ELSE "AlgorithmRoll"

StartRoll(variant) ==
  /\ Initialized /\ variant \in config.rolled
  /\ \E s \in start_roll_command(kss, RollOf(variant)) : Write(s)

(* The operator reports what has been carried out. *)
PropagationComplete(variant) ==
  LET r == RollOf(variant)
  IN  /\ InPhase(kss, r, Propagation)
      /\ \A c \in Needed(r, kss.keyset.rolls[r].phase) : Confirmed(kss, c)
      /\ Write(Stepped(kss, r, propagation_complete(kss.keyset, r, TTL)))

CacheExpired(variant) ==
  LET r == RollOf(variant)
  IN  /\ InPhase(kss, r, CacheExpire) /\ kss.keyset.rolls[r].wait = 0
      /\ Write(Stepped(kss, r, cache_expired(kss.keyset, r)))

(* roll-done does not check the Wait actions. *)
RollDone(variant) ==
  LET r == RollOf(variant)
  IN  /\ InPhase(kss, r, {"Done"})
      /\ Write(do_done(kss, r))

(* remove-key without --force: only a stale key. *)
RemoveKey ==
  \E k \in StaleKeys(kss) : Write([kss EXCEPT !.keyset = delete_key(@, k)])

Cron(answers, aged, gone) ==
  /\ Initialized
  /\ \E s \in AutoRolls(AutoStarts(kss, aged), answers) : Write(RemoveKeys(s, gone))

(* The key types with a validity. *)
Expiring ==
  {t \in {kss.keyset.keys[k].type : k \in ActiveKeys(kss, {"KSK", "ZSK", "CSK"})} :
     [KSK |-> "Ksk", ZSK |-> "Zsk", CSK |-> "Csk"][t] \in config.rolled}

(* The checks that the rolls in progress ask for. *)
Asked ==
  UNION {Needed(r, phase) : r \in DOMAIN kss.keyset.rolls, phase \in Phases}

CronAny ==
  \E answers \in SUBSET Asked, aged \in SUBSET Expiring, gone \in {{}, StaleKeys(kss)} :
    Cron(answers, aged, gone)

(* set: the config variables that decide about rolls. *)
SetConfig ==
  /\ \E c \in Settings :
       /\ c.rolled = config.rolled /\ c.channel = config.channel
       /\ config' = c
  /\ UNCHANGED <<kss, zone_cds, dnsVars>>

-----------------------------------------------------------------------------
(* The surroundings: the signer, the parent, the servers and the clock. *)

Signed ==
  [latest EXCEPT !["dnskey"] = kss.dnskey_rrset,
                 !["rrsig"] = With(kss.keyset, "zone_signer")]

SignZone ==
  /\ Initialized
  /\ <<Signed, kss.cds_rrset>> # <<latest, zone_cds>>
  /\ Publish(Signed)
  /\ zone_cds' = kss.cds_rrset
  /\ UNCHANGED <<kss, config>>

(* The parent takes the DS records from the CDS RRset in the zone or from  *)
(* the operator or update_ds_command, who get them from keyset.            *)
ParentUpdate ==
  /\ Initialized
  /\ LET ds == IF config.channel = "cds" THEN zone_cds ELSE kss.ds_rrset
     IN  /\ ds \notin {{}, latest["ds"]}
         /\ Publish([latest EXCEPT !["ds"] = ds])
  /\ UNCHANGED <<kss, config, zone_cds>>

ServersUpdate(kind) == Propagate(kind) /\ UNCHANGED <<kss, config, zone_cds>>

Tick ==
  /\ Age
  /\ kss' = [kss EXCEPT !.keyset.rolls = Waited(@)]
  /\ UNCHANGED <<config, zone_cds>>

-----------------------------------------------------------------------------
Of(type) == {k \in Imported : TypeOfName(k) \in type}

(* A zone with DS records is a signed zone. *)
ASSUME SignedAssumption == Of({"KSK", "CSK"}) # {} => Of({"ZSK", "CSK"}) # {}

Init ==
  /\ kss = [keyset       |-> [keys |-> [k \in {} |-> {}], rolls |-> [r \in {} |-> {}]],
            dnskey_rrset |-> [keys |-> {}, sigs |-> {}],
            ds_rrset     |-> {},
            cds_rrset    |-> {},
            internal     |-> [r \in {} |-> {}]]
  /\ config \in Settings
  /\ zone_cds = {}
  /\ DnsInit([dnskey |-> [keys |-> Imported, sigs |-> Of({"KSK", "CSK"})],
              ds     |-> Of({"KSK", "CSK"}),
              rrsig  |-> Of({"ZSK", "CSK"})])

Variants == {"Ksk", "Zsk", "Csk", "Algorithm"}

Next ==
  \/ Import
  \/ InitCommand
  \/ \E variant \in Variants :
       \/ StartRoll(variant)
       \/ PropagationComplete(variant)
       \/ CacheExpired(variant)
       \/ RollDone(variant)
  \/ RemoveKey
  \/ CronAny
  \/ SetConfig
  \/ SignZone
  \/ ParentUpdate
  \/ \E kind \in Kinds : ServersUpdate(kind)
  \/ Tick

Spec == Init /\ [][Next]_vars

-----------------------------------------------------------------------------
(* The types of the variables. *)
TypeOK ==
  /\ DOMAIN kss.keyset.keys \subseteq KeyNames
  /\ \A k \in DOMAIN kss.keyset.keys : kss.keyset.keys[k] \in Key(Algorithms)
  /\ DOMAIN kss.keyset.rolls \subseteq RollTypes
  /\ \A r \in DOMAIN kss.keyset.rolls : kss.keyset.rolls[r] \in RollState(TTL)
  /\ kss.dnskey_rrset \in [keys : SUBSET KeyNames, sigs : SUBSET KeyNames]
  /\ kss.ds_rrset \in SUBSET KeyNames /\ kss.cds_rrset \in SUBSET KeyNames
  /\ DOMAIN kss.internal \subseteq RollTypes
  /\ \A r \in DOMAIN kss.internal :
       kss.internal[r] \in [Propagation \union {"Done"} -> SUBSET Checks]
  /\ config \in Configs
  /\ zone_cds \in SUBSET KeyNames

(* A resolver that combines any DS, DNSKEY and zone signature versions it  *)
(* can see finds a chain: keyset never withdraws a key while somebody may  *)
(* still need it, whatever the rolls, the propagation and the caches do    *)
(* (the TTL waits of cache-expired1 and cache-expired2 and the propagation *)
(* checks are there for this).                                             *)
ChainOfTrust ==
  \A ds \in Visible("ds"), dnskey \in Visible("dnskey"), rrsig \in Visible("rrsig") :
    ds # {} => /\ ds \intersect dnskey.keys \intersect dnskey.sigs # {}
               /\ rrsig \intersect dnskey.keys # {}

(* The stored DNSKEY and DS RRsets, and the CDS RRset if there is one, are *)
(* those of the keys as they are now: no step changes a key without the    *)
(* action for it. So cron, when it only renews the signatures of one of    *)
(* them (sig_renew), does not publish other keys before their time.        *)
RrsetsFollowKeys ==
  Initialized =>
    /\ kss.dnskey_rrset = DnskeyRrset(kss.keyset)
    /\ kss.ds_rrset = ParentKeys(kss.keyset)
    /\ kss.cds_rrset \in {{}, ParentKeys(kss.keyset)}

(* Every roll in progress has its report state: cron takes it for granted  *)
(* (expect("should not fail")), and a leftover of an earlier roll of the   *)
(* same type would let the next one skip its propagation checks.           *)
ReportsPerRoll ==
  /\ DOMAIN kss.internal = DOMAIN kss.keyset.rolls
  /\ \A r \in DOMAIN kss.internal : \A phase \in DOMAIN kss.internal[r] :
       kss.internal[r][phase] # {} =>
         CASE phase = "Propagation1" -> TRUE
           [] phase = "Propagation2" -> ~InPhase(kss, r, {"Propagation1", "CacheExpire1"})
           [] phase = "Done" -> InPhase(kss, r, {"Done"})

(* While a roll waits for its DS records, the CDS RRset that tells the     *)
(* parent about them, and that cron compares the DS records with, is that  *)
(* of the keys.                                                            *)
CdsWhileNeeded ==
  \A r \in DOMAIN kss.keyset.rolls :
    "ds" \in Needed(r, kss.keyset.rolls[r].phase) =>
      kss.cds_rrset = ParentKeys(kss.keyset)

(* With every step automated, a roll that starts ends: cron keeps running, *)
(* the signer, the parent and the servers keep up, and time passes.        *)
Fairness ==
  /\ WF_vars(Cron(Checks, {}, {}))
  /\ WF_vars(SignZone) /\ WF_vars(ParentUpdate)
  /\ \A kind \in Kinds : WF_vars(ServersUpdate(kind))
  /\ WF_vars(Tick)

FairSpec == Spec /\ Fairness

RollsEnd ==
  \A r \in RollTypes :
    (r \in DOMAIN kss.keyset.rolls) ~> (r \notin DOMAIN kss.keyset.rolls)
=============================================================================
