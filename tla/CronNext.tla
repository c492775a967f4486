------------------------------ MODULE CronNext ------------------------------
(***************************************************************************)
(* The time at which cron has something to do (src/commands/keyset/cmd.rs).*)
(*                                                                         *)
(* Every command that changes the configuration or the state ends with     *)
(* computing cron-next, the time a scheduler is to run cron at. The code   *)
(* that computes it repeats the conditions under which cron acts, in a     *)
(* second set of functions. Here both are modelled, with the clock.        *)
(*                                                                         *)
(* Times are relative to now: the time left until they come, negative when *)
(* they have passed; Tick moves them all. An optional time is a set of at  *)
(* most one time. What the RRsets and the zone hold is left out (Keyset    *)
(* models it), and so is what a check compares (RrsigReport does).         *)
(***************************************************************************)
EXTENDS DomainKeySet, Integers

CONSTANTS
  Configs,    \* the configurations the operator sets
  ByHand,     \* the variants that the operator also rolls by hand
  Lifetime,   \* dnskey_signature_lifetime and cds_signature_lifetime
  Remain,     \* dnskey_remain_time and cds_remain_time
  TTL,        \* the TTL a successful check reports
  Retry,      \* how long a failed check waits: DEFAULT_WAIT or a TTL
  Delay,      \* autoremove_delay
  MaxAge      \* ages are not told apart from here on

VARIABLES
  config,     \* the part of KeySetConfig that decides when cron acts
  kss,        \* KeySetState: [keyset, dnskey_rrset, cds_rrset, internal], the
              \* times of the signatures for the RRsets; and state_changed
  cron_next,  \* its field of that name
  torn        \* whether a command was cut off after it wrote config, before kss

vars == <<config, kss, cron_next, torn>>

Variants == {"Ksk", "Zsk", "Csk", "Algorithm"}
Algorithms == {c.algorithm : c \in Configs}

ASSUME CronNextAssumption ==
  /\ {Lifetime, Remain, TTL, Retry, Delay, MaxAge} \subseteq Nat
  /\ Remain < Lifetime /\ Delay < MaxAge /\ Retry > 0
  /\ Configs # {} /\ ByHand \subseteq Variants
  /\ \A c \in Configs :
       /\ c.use_csk \in BOOLEAN /\ c.autoremove \in BOOLEAN
       /\ c.auto \in [Variants -> SUBSET {"start", "report", "expire", "done"}]
       /\ c.validity \in [{"KSK", "ZSK", "CSK"} -> {{}} \union {{v} : v \in 0 .. MaxAge - 1}]
       /\ c.ksk_roll_type \in KskRolls /\ c.zsk_roll_type \in ZskRolls

-----------------------------------------------------------------------------
(* Keys. Of each type there are at most two: the newest one, and the one   *)
(* before it, which is stale when a roll begins. A stale key that is still *)
(* there when another one is replaced is as good as removed by hand.       *)

Past == -1
Left == Past .. MaxAge + Lifetime + TTL + Retry
Floor(t) == IF t < Past THEN Past ELSE t
Optional(S) == {T \in SUBSET S : \A t, u \in T : t = u}
Earliest(T) == {t \in T : \A u \in T : t <= u}
Older(ages) == {IF a < MaxAge THEN a + 1 ELSE a : a \in ages}

Names == {"KSK", "ZSK", "CSK"} \X {"new", "previous"}

ActiveKeys(s, types) ==
  {k \in DOMAIN s.keyset.keys :
     s.keyset.keys[k].type \in types /\ ~stale(s.keyset.keys[k])}

(* add_key_..: the key is created, not published. *)
AddKeys(set, types, alg) ==
  LET added == types \X {"new"}
      moved == {<<t, "previous">> : t \in {u \in types : <<u, "new">> \in DOMAIN set.keys}}
  IN  [set EXCEPT !.keys =
         [k \in DOMAIN set.keys \union added \union moved |->
            IF k \in added
            THEN [type |-> k[1], alg |-> alg, old |-> FALSE, flags |-> {},
                  published |-> {}, withdrawn |-> {}]
            ELSE IF k \in moved THEN set.keys[<<k[1], "new">>] ELSE set.keys[k]]]

(* When a step makes a key present, or takes it out, its time stamp is set.*)
Stamped(before, set) ==
  [set EXCEPT !.keys =
     [k \in DOMAIN set.keys |->
        [set.keys[k] EXCEPT
           !.published = IF "present" \in set.keys[k].flags \ before.keys[k].flags
                         THEN {0} ELSE @,
           !.withdrawn = IF "present" \in before.keys[k].flags \ set.keys[k].flags
                         THEN {0} ELSE @]]]

-----------------------------------------------------------------------------
(* A roll steps: signatures are made now, and checks start afresh.         *)

NoStatus == [form |-> "none", until |-> 0]
NoReports == [c \in Checks |-> NoStatus]

handle_actions(s, acts) ==
  [s EXCEPT !.dnskey_rrset = IF "UpdateDnskeyRrset" \in acts THEN {Lifetime} ELSE @,
            !.cds_rrset = IF "CreateCdsRrset" \in acts THEN {Lifetime}
                          ELSE IF "RemoveCdsRrset" \in acts THEN {} ELSE @]

Stepped(s, r, set) ==
  [handle_actions(s, actions(r, set.rolls[r].phase)) EXCEPT
     !.keyset = Stamped(s.keyset, set),
     !.internal = [x \in DOMAIN @ \union {r} |-> IF x = r THEN NoReports ELSE @[x]],
     !.changed = TRUE]

NewTypes(r) ==
  IF r \in KskRolls THEN {"KSK"} ELSE IF r \in ZskRolls THEN {"ZSK"}
  ELSE IF config.use_csk THEN {"CSK"} ELSE {"KSK", "ZSK"}

(* Each of these refuses what the others are for. *)
CanRoll(s, r) ==
  LET old == ActiveKeys(s, Rolls(r))
  IN  /\ r \in KskRolls \union ZskRolls => ~config.use_csk /\ ActiveKeys(s, {"CSK"}) = {}
      /\ DOMAIN s.keyset.rolls \subseteq Compatible(r)
      /\ r # "AlgorithmRoll" =>
           {s.keyset.keys[k].alg : k \in old} \subseteq {config.algorithm}

(* old: the keys there were of the types that are rolled. *)
start_roll_command(s, r) ==
  LET added == [s EXCEPT !.keyset = AddKeys(@, NewTypes(r), config.algorithm)]
      old == ActiveKeys(added, Rolls(r)) \ (NewTypes(r) \X {"new"})
  IN  Stepped(added, r, start_roll(added.keyset, r, old))

(* Mutant: the reports of a roll outlive it. *)
DoDoneKeepsReports(s, r) ==
  [s EXCEPT !.keyset = roll_done(@, r), !.cds_rrset = {}, !.changed = TRUE]

do_done(s, r) ==
  [s EXCEPT !.keyset = roll_done(@, r),
            !.cds_rrset = {},
            !.internal = [x \in DOMAIN @ \ {r} |-> @[x]],
            !.changed = TRUE]

InPhase(s, r, phases) ==
  r \in DOMAIN s.keyset.rolls /\ s.keyset.rolls[r].phase \in phases

-----------------------------------------------------------------------------
(* Automation: what cron does. out is what the servers answer in this run: *)
(* out.simple, that a check finds what it looks for; out.rrsig, how the    *)
(* check of the whole zone for new signatures ends.                        *)

RrsigForms == {"wait", "soa", "record", "serial", "report"}
Outcomes ==
  {[simple |-> TRUE, rrsig |-> f] : f \in RrsigForms \ {"wait"}}
    \union {[simple |-> FALSE, rrsig |-> "wait"]}

sig_renew(sigs) == \E e \in sigs : e < Remain

RenewSignatures(s) ==
  [s EXCEPT !.dnskey_rrset = IF sig_renew(@) THEN {Lifetime} ELSE @,
            !.cds_rrset = IF sig_renew(@) THEN {Lifetime} ELSE @,
            !.changed = sig_renew(s.dnskey_rrset) \/ sig_renew(s.cds_rrset)]

algorithm_roll_needed(c, s) ==
  {s.keyset.keys[k].alg : k \in ActiveKeys(s, {"KSK", "ZSK", "CSK"})} # {c.algorithm}

(* When the keys of a type are to be replaced. *)
Validity(c, s, type) ==
  LET ages == UNION {s.keyset.keys[k].published : k \in ActiveKeys(s, {type})}
  IN  UNION {{v - a : a \in ages} : v \in c.validity[type]}

auto_start(S, type, auto, allowed, r) ==
  {IF /\ "start" \in auto /\ DOMAIN s.keyset.rolls \subseteq allowed
      /\ \E t \in Validity(config, s, type) : t < 0
   THEN start_roll_command(s, r) ELSE s : s \in S}

AutoStarts(S) ==
  LET needAlg == \A s \in S : algorithm_roll_needed(config, s)
      auto == config.auto[IF needAlg THEN "Algorithm" ELSE "Csk"]
      roll == IF needAlg THEN "AlgorithmRoll" ELSE "CskRoll"
      whole == config.use_csk \/ needAlg
      ksk == IF whole THEN auto_start(S, "KSK", auto, {}, roll)
             ELSE auto_start(S, "KSK", config.auto["Ksk"], ZskRolls, config.ksk_roll_type)
      zsk == IF whole THEN auto_start(ksk, "ZSK", auto, {}, roll)
             ELSE auto_start(ksk, "ZSK", config.auto["Zsk"], KskRolls, config.zsk_roll_type)
  IN  auto_start(zsk, "CSK", auto, {}, roll)

Reported(status) == status.form = "report"
(* Mutant: a check that failed is not made again. *)
BlockedForEver(status) == status.form # "none"

Blocked(status) == status.form # "none" /\ status.until > 0

(* Mutant: the old time is stored for a record, too. *)
FollowUpOldTime(status, phase, out) ==
  IF ~out.simple THEN status
  ELSE IF status.form = "soa" THEN [form |-> "report", until |-> 0]
  ELSE [form |-> out.rrsig, until |-> IF out.rrsig = "report" THEN 0 ELSE Retry]

(* A check that looks for one record, the next serial or the SOA before it *)
(* looks at the whole zone again. When that fails for the serial, and for  *)
(* the SOA in auto_wait_actions, the time that is stored is the old one.   *)
FollowUp(status, phase, out) ==
  IF ~out.simple
  THEN IF status.form = "serial" \/ (status.form = "soa" /\ phase = "Done")
       THEN status ELSE [status EXCEPT !.until = Retry]
  ELSE IF status.form = "soa" THEN [form |-> "report", until |-> 0]
  ELSE [form |-> out.rrsig, until |-> IF out.rrsig = "report" THEN 0 ELSE Retry]

Check(status, c, phase, out) ==
  IF c # "rrsig"
  THEN IF out.simple THEN [form |-> "report", until |-> 0] ELSE [form |-> "wait", until |-> Retry]
  ELSE IF status.form \in {"soa", "record", "serial"} THEN FollowUp(status, phase, out)
  ELSE [form |-> out.rrsig, until |-> IF out.rrsig = "report" THEN 0 ELSE Retry]

(* auto_report_actions and auto_wait_actions: the checks in order, up to   *)
(* the first one that has to wait.                                         *)
CheckAll(s, r, out) ==
  LET phase == s.keyset.rolls[r].phase
      was == s.internal[r]
      due == {c \in Needed(r, phase) : ~Reported(was[c]) /\ ~Blocked(was[c])}
      now == [c \in Checks |-> IF c \in due THEN Check(was[c], c, phase, out) ELSE was[c]]
      waiting == {c \in Needed(r, phase) : ~Reported(now[c])}
      done == {c \in due : \A w \in waiting : CheckOrder[c] <= CheckOrder[w]}
  IN  [s EXCEPT !.internal[r] = [c \in Checks |-> IF c \in done THEN now[c] ELSE was[c]],
                !.changed = @ \/ done # {}]

AllReported(s, r) ==
  \A c \in Needed(r, s.keyset.rolls[r].phase) : Reported(s.internal[r][c])

AutoReport(s, auto, r, out) ==
  IF "report" \notin auto \/ ~InPhase(s, r, Propagation) THEN s
  ELSE LET t == CheckAll(s, r, out)
       IN  IF AllReported(t, r) THEN Stepped(t, r, propagation_complete(t.keyset, r, TTL)) ELSE t

AutoExpire(s, auto, r) ==
  IF "expire" \in auto /\ InPhase(s, r, CacheExpire) /\ s.keyset.rolls[r].wait = 0
  THEN Stepped(s, r, cache_expired(s.keyset, r)) ELSE s

AutoDone(s, auto, r, out) ==
  IF "done" \notin auto \/ ~InPhase(s, r, {"Done"}) THEN s
  ELSE LET t == CheckAll(s, r, out)
       IN  IF AllReported(t, r) THEN do_done(t, r) ELSE t

(* Two roll types share the flags of a variant; only one is in progress.   *)
VariantOf(r) ==
  IF r \in KskRolls THEN "Ksk" ELSE IF r \in ZskRolls THEN "Zsk"
  ELSE IF r = "CskRoll" THEN "Csk" ELSE "Algorithm"

auto_report_expire_done(S, variant, out) ==
  LET auto == config.auto[variant]
      mine == {r \in RollTypes : VariantOf(r) = variant /\ \E s \in S : InPhase(s, r, Phases)}
      r == CHOOSE x \in mine : TRUE
  IN  IF mine = {} THEN S
      ELSE {AutoDone(u, auto, r, out) :
              u \in {AutoExpire(t, auto, r) : t \in {AutoReport(s, auto, r, out) : s \in S}}}

AutoRolls(S, out) ==
  LET ksk == auto_report_expire_done(S, "Ksk", out)
      zsk == auto_report_expire_done(ksk, "Zsk", out)
      csk == auto_report_expire_done(zsk, "Csk", out)
  IN  auto_report_expire_done(csk, "Algorithm", out)

StaleKeys(s) == {k \in DOMAIN s.keyset.keys : stale(s.keyset.keys[k])}

RemoveKeys(s, gone) ==
  [s EXCEPT !.keyset.keys = [k \in DOMAIN @ \ gone |-> @[k]], !.changed = @ \/ gone # {}]

AutoRemove(s) ==
  LET due == {k \in StaleKeys(s) : \E a \in s.keyset.keys[k].withdrawn : a >= Delay}
  IN  IF config.autoremove THEN RemoveKeys(s, due) ELSE s

(* The one result of a run of cron, as a set: so is that of every stage.   *)
RunCron(s, out) ==
  {AutoRemove(t) : t \in AutoRolls(AutoStarts({RenewSignatures(s)}), out)}

-----------------------------------------------------------------------------
(* When cron is to be run: a second time the conditions above, as times.   *)

compute_cron_next(sigs) == {e - Remain : e \in sigs}

(* Mutant: also when another roll is in the way. *)
NextStartAnyway(c, s, type, auto, allowed) ==
  IF "start" \in auto THEN Validity(c, s, type) ELSE {}

cron_next_auto_start(c, s, type, auto, allowed) ==
  IF "start" \in auto /\ DOMAIN s.keyset.rolls \subseteq allowed
  THEN Validity(c, s, type) ELSE {}

NextStarts(c, s) ==
  LET needAlg == algorithm_roll_needed(c, s)
      auto == c.auto[IF needAlg THEN "Algorithm" ELSE "Csk"]
      whole == c.use_csk \/ needAlg
  IN  cron_next_auto_start(c, s, "CSK", auto, {}) \union
      IF whole
      THEN cron_next_auto_start(c, s, "KSK", auto, {}) \union cron_next_auto_start(c, s, "ZSK", auto, {})
      ELSE cron_next_auto_start(c, s, "KSK", c.auto["Ksk"], ZskRolls)
             \union cron_next_auto_start(c, s, "ZSK", c.auto["Zsk"], KskRolls)

(* Until when the first check that has not succeeded waits; now, if it has *)
(* not been made, and if all have succeeded.                               *)
check_auto_actions(s, r) ==
  LET open == {x \in Needed(r, s.keyset.rolls[r].phase) : ~Reported(s.internal[r][x])}
      first == CHOOSE x \in open : \A y \in open : CheckOrder[x] <= CheckOrder[y]
  IN  IF open = {} THEN 0 ELSE s.internal[r][first].until

cron_next_auto_report_expire_done(c, s, r) ==
  LET auto == c.auto[VariantOf(r)]
      Handles(stage, phases) == stage \in auto /\ InPhase(s, r, phases)
  IN  {t \in {check_auto_actions(s, r)} : Handles("report", Propagation) \/ Handles("done", {"Done"})}
        \union {t \in {s.keyset.rolls[r].wait} : Handles("expire", CacheExpire)}

(* Mutant: only keys that can be removed at once. *)
NextRemovalsNow(c, s) ==
  IF c.autoremove THEN {t \in {Delay - a : a \in
    UNION {s.keyset.keys[k].withdrawn : k \in StaleKeys(s)}} : t <= 0} ELSE {}

NextRemovals(c, s) ==
  IF c.autoremove
  THEN {Delay - a : a \in UNION {s.keyset.keys[k].withdrawn : k \in StaleKeys(s)}} ELSE {}

NextCron(c, s) ==
  {Floor(t) : t \in Earliest(
     compute_cron_next(s.dnskey_rrset) \union compute_cron_next(s.cds_rrset)
       \union NextStarts(c, s) \union NextRemovals(c, s)
       \union UNION {cron_next_auto_report_expire_done(c, s, r) : r \in DOMAIN s.keyset.rolls})}

-----------------------------------------------------------------------------
(* The commands. *)

(* The end of run: cron-next for what is written now. *)
Finish(c, s) ==
  /\ config' = c
  /\ kss' = [s EXCEPT !.changed = FALSE]
  /\ cron_next' = NextCron(c, s)
  /\ torn' = FALSE

Write(s) == Finish(config, s)

(* A run of cron that changes nothing ends before cron-next is computed.   *)
Cron(out) ==
  \E s \in RunCron(kss, out) : s.changed /\ Write(s)

RollOf(variant) ==
  IF variant = "Ksk" THEN config.ksk_roll_type
  ELSE IF variant = "Zsk" THEN config.zsk_roll_type
  ELSE IF variant = "Csk" THEN "CskRoll" ELSE "AlgorithmRoll"

StartRoll(variant) ==
  LET r == RollOf(variant)
  IN  CanRoll(kss, r) /\ Write(start_roll_command(kss, r))

PropagationComplete(variant) ==
  LET r == RollOf(variant)
  IN  /\ InPhase(kss, r, Propagation)
      /\ Write(Stepped(kss, r, propagation_complete(kss.keyset, r, TTL)))

CacheExpired(variant) ==
  LET r == RollOf(variant)
  IN  /\ InPhase(kss, r, CacheExpire) /\ kss.keyset.rolls[r].wait = 0
      /\ Write(Stepped(kss, r, cache_expired(kss.keyset, r)))

RollDone(variant) ==
  LET r == RollOf(variant)
  IN  InPhase(kss, r, {"Done"}) /\ Write(do_done(kss, r))

RemoveKey == \E k \in StaleKeys(kss) : Write(RemoveKeys(kss, {k}))

(* set changes one variable of the configuration. *)
Settings ==
  {c \in Configs \ {config} : \E f \in DOMAIN c : c = [config EXCEPT ![f] = c[f]]}

SetConfig == \E c \in Settings : Finish(c, kss)

(* write_config replaces one file, write_state then another one.           *)
SetConfigCutOff ==
  /\ config' \in Settings
  /\ torn' = TRUE
  /\ UNCHANGED <<kss, cron_next>>

(* Times are not told apart once they have passed, signature times once    *)
(* the signatures are to be renewed.                                       *)
Elapsed(times, last) == {IF t > last THEN t - 1 ELSE t : t \in times}

OlderKeys(keys) ==
  [k \in DOMAIN keys |-> [keys[k] EXCEPT !.published = Older(@), !.withdrawn = Older(@)]]

WaitedReports(internal) ==
  [r \in DOMAIN internal |-> [c \in Checks |->
     [internal[r][c] EXCEPT !.until = IF @ > 0 THEN @ - 1 ELSE @]]]

Tick ==
  /\ kss' = [kss EXCEPT !.keyset.rolls = Waited(@),
                        !.keyset.keys = OlderKeys(@),
                        !.dnskey_rrset = Elapsed(@, Remain - 1),
                        !.cds_rrset = Elapsed(@, Remain - 1),
                        !.internal = WaitedReports(@)]
  /\ cron_next' = Elapsed(cron_next, Past)
  /\ UNCHANGED <<config, torn>>

-----------------------------------------------------------------------------
(* After init: of a zone that is signed already with keys that were        *)
(* imported, or of a new one.                                              *)

Empty == [x \in {} |-> x]

NoKeys ==
  [keyset |-> [keys |-> Empty, rolls |-> Empty], dnskey_rrset |-> {}, cds_rrset |-> {},
   internal |-> Empty, changed |-> FALSE]

ImportKeys(types) ==
  [NoKeys EXCEPT !.dnskey_rrset = {Lifetime},
                 !.keyset.keys = [k \in types \X {"new"} |->
                    [type |-> k[1], alg |-> config.algorithm, old |-> FALSE,
                     flags |-> Capability[k[1]], published |-> {0}, withdrawn |-> {}]]]

Init ==
  /\ config \in Configs
  /\ kss \in {ImportKeys({"KSK", "ZSK"}), ImportKeys({"CSK"}),
              [start_roll_command(NoKeys, "AlgorithmRoll") EXCEPT !.changed = FALSE]}
  /\ cron_next = NextCron(config, kss)
  /\ torn = FALSE

RollCommand(v) ==
  StartRoll(v) \/ PropagationComplete(v) \/ CacheExpired(v) \/ RollDone(v)

Next ==
  \/ \E out \in Outcomes : Cron(out)
  \/ \E v \in ByHand : RollCommand(v)
  \/ RemoveKey
  \/ SetConfig
  \/ SetConfigCutOff
  \/ Tick

AllWell == [simple |-> TRUE, rrsig |-> "report"]

(* Cron is due, and when the servers answer what is hoped for it moves     *)
(* this roll on.                                                           *)
PhaseOf(s, variant) ==
  {s.keyset.rolls[r].phase : r \in {x \in DOMAIN s.keyset.rolls : VariantOf(x) = variant}}

CanMoveOn(variant) ==
  /\ \E t \in cron_next : t <= 0
  /\ \E s \in RunCron(kss, AllWell) : PhaseOf(s, variant) # PhaseOf(kss, variant)

(* Strong fairness: the scheduler runs cron when cron-next has come, and a *)
(* check that is made again and again succeeds some day. Nobody has to run *)
(* cron at any other time, or any other command. (SF_vars(MoveOn(v)), with *)
(* its ENABLED written out.)                                               *)
MoveOn(variant) ==
  PhaseOf(kss', variant) # PhaseOf(kss, variant) /\ CanMoveOn(variant) /\ Cron(AllWell)

Spec ==
  /\ Init /\ [][Next]_vars
  /\ WF_vars(Tick)
  /\ \A v \in Variants \ ByHand : []<>CanMoveOn(v) => []<><<MoveOn(v)>>_vars

-----------------------------------------------------------------------------
KeyAges == Optional(0 .. MaxAge)

(* A roll and its reports come and go together; times are in their range;  *)
(* a stale key was withdrawn at some time (autoremove relies on it).       *)
TypeOK ==
  /\ config \in Configs /\ torn \in BOOLEAN /\ ~kss.changed
  /\ cron_next \in Optional(Left)
  /\ {kss.dnskey_rrset, kss.cds_rrset} \subseteq Optional(Left)
  /\ DOMAIN kss.keyset.keys \subseteq Names
  /\ \A k \in DOMAIN kss.keyset.keys :
       LET key == kss.keyset.keys[k]
       IN  /\ key.type = k[1] /\ key.alg \in Algorithms /\ key.flags \subseteq Flags
           /\ {key.published, key.withdrawn} \subseteq KeyAges
           /\ stale(key) => key.withdrawn # {}
           /\ k[2] = "previous" /\ ~stale(key) => kss.keyset.rolls # Empty
  /\ kss.keyset.rolls \in [DOMAIN kss.internal -> RollState(TTL)]
  /\ \A r \in DOMAIN kss.internal :
       /\ DOMAIN kss.keyset.rolls \subseteq Compatible(r) \union {r}
       /\ kss.internal[r] \in
            [Checks -> [form : RrsigForms \union {"none"}, until : 0 .. Retry]]

(* What the servers answer makes no difference to this: a check that is    *)
(* made is stored, whatever comes out.                                     *)
WouldAct == \E s \in RunCron(kss, AllWell) : s.changed

(* cron-next is not too late: when cron would do something, cron-next has  *)
(* come. The scheduler can rely on it.                                     *)
NotLate == ~torn /\ WouldAct => \E t \in cron_next : t <= 0

(* cron-next is not there for nothing: once it has passed, cron does       *)
(* something. (It does not compute cron-next again before it does, so the  *)
(* scheduler would run it again and again.)                                *)
NotForNothing ==
  ~torn /\ (\E t \in cron_next : t < 0) => WouldAct

(* Cron does not go round in circles: when it acts, the state differs from *)
(* the one before, so that a scheduler that runs cron again at once, since *)
(* cron-next says so, comes to an end. The exceptions are what FollowUp    *)
(* says of the serial and of the SOA: as long as these checks fail,        *)
(* cron-next stays in the past.                                            *)
OldTimeStored(r) ==
  LET status == kss.internal[r]["rrsig"]
  IN  /\ ~Blocked(status)
      /\ status.form = "serial" \/ (status.form = "soa" /\ InPhase(kss, r, {"Done"}))

NoCircles ==
  \A out \in Outcomes : \A s \in RunCron(kss, out) :
    s.changed => \/ [s EXCEPT !.changed = FALSE] # kss
                 \/ ~out.simple /\ \E r \in DOMAIN kss.internal : OldTimeStored(r)

(* A roll that cron takes through all its stages ends, when cron is run no *)
(* more often than cron-next says, even if a set command was cut off.      *)
Automated(v) ==
  /\ {"report", "expire", "done"} \subseteq config.auto[v]
  /\ \E r \in DOMAIN kss.keyset.rolls : VariantOf(r) = v

RollsEnd == \A v \in Variants \ ByHand : Automated(v) ~> ~Automated(v)
=============================================================================
