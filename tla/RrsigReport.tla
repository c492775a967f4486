---------------------------- MODULE RrsigReport ----------------------------
(***************************************************************************)
(* How cron finds out that a zone with signatures by the new keys is on    *)
(* all its name servers: ReportRrsigPropagated and WaitRrsigPropagated     *)
(* (auto_report_actions, auto_wait_actions, report_rrsig_propagated,       *)
(* check_zone, check_record, check_next_serial and check_soa in            *)
(* src/commands/keyset/cmd.rs).                                            *)
(*                                                                         *)
(* The zone changes and moves to other servers while cron asks. One roll   *)
(* state is modelled, in which the expected keys stay the same: a record   *)
(* of a zone version is "good" when its signatures are by these keys,      *)
(* "bad" when they are not, or absent. The signer signs with these keys.   *)
(***************************************************************************)
EXTENDS Naturals

CONSTANTS
  Public,        \* the addresses of the name servers of the zone
  Primaries,     \* the servers asked for records and zone transfers
  Records,       \* the (name, type) pairs that are signed by zone signing keys
  Soa,           \* the SOA record, which every version has
  Nsec3,         \* those of type NSEC3, which no server can be asked for
  TTL,           \* the TTL of the SOA record, in ticks; also DEFAULT_WAIT
  MaxSerial,     \* bound: the last version of the zone
  MaxFailures    \* bound: how often a query fails or cron is killed

ASSUME ReportAssumption ==
  /\ Public # {} /\ Primaries # {}
  /\ Nsec3 \subseteq Records /\ Soa \in Records \ Nsec3
  /\ TTL \in Nat \ {0} /\ MaxSerial \in Nat /\ MaxFailures \in Nat

VARIABLES
  zone,       \* serial -> record -> "good", "bad" or "absent"
  at,         \* server -> the serial it answers with
  rrsig,      \* report_state.rrsig in the state file; wait is until - now
  action,     \* the action that cron carries out
  pc,         \* what cron does next
  serial,     \* the version it has checked
  toAsk,      \* the servers it still waits for an answer from
  behind,     \* whether one of them was behind, or did not answer
  failures    \* how many queries failed so far

network == <<zone, at>>
run == <<pc, serial, toAsk, behind>>
vars == <<network, rrsig, action, run, failures>>

Servers == Public \union Primaries
Latest == CHOOSE n \in DOMAIN zone : \A m \in DOMAIN zone : m <= n

Wrong(n) == {r \in Records : zone[n][r] = "bad"}

(* In a state file: nothing yet, or an AutoReportRrsigResult. *)
Nothing    == [kind |-> "none"]
Report     == [kind |-> "Report"]
Wait       == [kind |-> "Wait", wait |-> TTL]
WaitSoa(n, t)        == [kind |-> "WaitSoa", serial |-> n, wait |-> t]
WaitRecord(r)        == [kind |-> "WaitRecord", record |-> r, wait |-> TTL]
WaitNextSerial(n, t) == [kind |-> "WaitNextSerial", serial |-> n, wait |-> t]

-----------------------------------------------------------------------------
(* The signer and the servers. *)

(* A new version: records are signed again, added or deleted. The SOA      *)
(* record has a new serial, so it is always signed again.                  *)
Publish ==
  /\ Latest < MaxSerial
  /\ \E version \in [Records -> {"good", "bad", "absent"}] :
       /\ \A r \in Records : version[r] = "bad" => zone[Latest][r] = "bad"
       /\ version[Soa] = "good"
       /\ zone' = [n \in DOMAIN zone \union {Latest + 1} |->
                     IF n = Latest + 1 THEN version ELSE zone[n]]
  /\ UNCHANGED <<at, rrsig, action, run, failures>>

(* A server gets the latest version, maybe after others that it missed. *)
Update(s) ==
  /\ at[s] < Latest
  /\ at' = [at EXCEPT ![s] = Latest]
  /\ UNCHANGED <<zone, rrsig, action, run, failures>>

Tick ==
  /\ "wait" \in DOMAIN rrsig /\ rrsig.wait > 0
  /\ rrsig' = [rrsig EXCEPT !.wait = @ - 1]
  /\ UNCHANGED <<network, action, run, failures>>

-----------------------------------------------------------------------------
(* A run of cron. *)

(* The end of the check: the result goes to the state file. *)
Store(result) ==
  /\ rrsig' = result
  /\ pc' = "idle"
  /\ UNCHANGED <<network, action, serial, toAsk, behind>>

(* A failed query is a result too, and the number of them is bounded. *)
Fails ==
  /\ failures < MaxFailures
  /\ failures' = failures + 1

(* check_soa asks every name server for its serial at the same time. *)
AskAll(stage, n) ==
  /\ pc' = stage /\ serial' = n
  /\ toAsk' = Public /\ behind' = FALSE
  /\ UNCHANGED <<network, rrsig, action>>

Begin ==
  /\ pc = "idle" /\ rrsig # Report
  /\ "wait" \in DOMAIN rrsig => rrsig.wait = 0
  /\ IF rrsig.kind = "WaitSoa" THEN AskAll("soa", rrsig.serial)
     ELSE /\ pc' = IF rrsig.kind \in {"WaitRecord", "WaitNextSerial"} THEN rrsig.kind
                   ELSE "zone"
          /\ UNCHANGED <<network, rrsig, action, serial, toAsk, behind>>
  /\ UNCHANGED failures

GoOn ==
  /\ pc' = "zone"
  /\ UNCHANGED <<network, rrsig, action, serial, toAsk, behind, failures>>

(* No signatures at all are the wrong signatures. *)
check_record ==
  /\ pc = "WaitRecord"
  /\ \/ \E s \in Primaries :
          IF zone[at[s]][rrsig.record] = "good" THEN GoOn
          ELSE Store(WaitRecord(rrsig.record)) /\ UNCHANGED failures
     \/ Fails /\ Store(WaitRecord(rrsig.record))

(* A failed check leaves the time of the next one as it was. *)
check_next_serial ==
  /\ pc = "WaitNextSerial"
  /\ \/ \E s \in Primaries :
          IF at[s] > rrsig.serial THEN GoOn
          ELSE Store(WaitNextSerial(rrsig.serial, rrsig.wait)) /\ UNCHANGED failures
     \/ Fails /\ Store(WaitNextSerial(rrsig.serial, rrsig.wait))

(* Mutant: a record that cannot be asked for is waited for. *)
CheckZoneAnyRecord ==
  /\ pc = "zone"
  /\ \/ \E s \in Primaries :
          /\ IF Wrong(at[s]) = {} THEN AskAll("zone soa", at[s])
             ELSE \E r \in Wrong(at[s]) : Store(WaitRecord(r))
          /\ UNCHANGED failures
     \/ Fails /\ Store(Wait)

(* The zone is transferred and every record checked. A wrong record that   *)
(* can be asked for goes before NSEC3 records.                             *)
check_zone ==
  /\ pc = "zone"
  /\ \/ \E s \in Primaries :
          /\ IF Wrong(at[s]) = {} THEN AskAll("zone soa", at[s])
             ELSE IF Wrong(at[s]) \subseteq Nsec3 THEN Store(WaitNextSerial(at[s], TTL))
             ELSE \E r \in Wrong(at[s]) \ Nsec3 : Store(WaitRecord(r))
          /\ UNCHANGED failures
     \/ Fails /\ Store(Wait)

(* Mutants: the last answer decides; only the very version will do. *)
AskSoaLast(s) ==
  /\ s \in toAsk
  /\ toAsk' = toAsk \ {s}
  /\ \/ /\ behind' = (at[s] < serial)
        /\ UNCHANGED failures
     \/ Fails /\ behind' = TRUE
  /\ UNCHANGED <<network, rrsig, action, pc, serial>>

AskSoaExact(s) ==
  /\ s \in toAsk
  /\ toAsk' = toAsk \ {s}
  /\ \/ /\ behind' = (behind \/ at[s] # serial)
        /\ UNCHANGED failures
     \/ Fails /\ behind' = TRUE
  /\ UNCHANGED <<network, rrsig, action, pc, serial>>

AskSoa(s) ==
  /\ s \in toAsk
  /\ toAsk' = toAsk \ {s}
  /\ \/ /\ behind' = (behind \/ at[s] < serial)
        /\ UNCHANGED failures
     \/ Fails /\ behind' = TRUE
  /\ UNCHANGED <<network, rrsig, action, pc, serial>>

(* The answers to the three calls of check_soa: for a stored WaitSoa; in   *)
(* check_zone, whose caller does not expect it to find all servers up to   *)
(* date (unreachable!); and in that caller.                                *)
SoaAnswered ==
  /\ toAsk = {}
  /\ \/ /\ pc = "soa" /\ behind
        /\ Store(WaitSoa(serial, IF action = "ReportRrsigPropagated" THEN TTL ELSE rrsig.wait))
     \/ /\ pc = "zone soa" /\ behind
        /\ AskAll("report soa", serial)
     \/ /\ pc = "zone soa" /\ ~behind
        /\ pc' = "panicked"
        /\ UNCHANGED <<network, rrsig, action, serial, toAsk, behind>>
     \/ /\ pc = "report soa" /\ behind
        /\ Store(WaitSoa(serial, TTL))
     \/ /\ pc \in {"soa", "report soa"} /\ ~behind
        /\ Store(Report)
  /\ UNCHANGED failures

(* Nothing is stored. *)
Killed ==
  /\ pc # "idle"
  /\ IF pc = "panicked" THEN UNCHANGED failures ELSE Fails
  /\ pc' = "idle" /\ toAsk' = {} /\ behind' = FALSE
  /\ UNCHANGED <<network, rrsig, action, serial>>

-----------------------------------------------------------------------------
Init ==
  /\ zone \in [{0} -> {v \in [Records -> {"bad", "absent"}] : v[Soa] = "bad"}]
  /\ at = [s \in Servers |-> 0]
  /\ rrsig = Nothing
  /\ action \in {"ReportRrsigPropagated", "WaitRrsigPropagated"}
  /\ pc = "idle" /\ serial = 0 /\ toAsk = {} /\ behind = FALSE
  /\ failures = 0

Cron ==
  \/ Begin \/ check_record \/ check_next_serial \/ check_zone
  \/ \E s \in Public : AskSoa(s)
  \/ SoaAnswered

Next ==
  \/ Publish
  \/ \E s \in Servers : Update(s)
  \/ Tick
  \/ Cron
  \/ Killed

Spec == Init /\ [][Next]_vars

(* Servers get the zone, cron is run again and again and time passes. *)
FairSpec ==
  /\ Spec
  /\ \A s \in Servers : WF_vars(Update(s))
  /\ WF_vars(Tick) /\ WF_vars(Cron)

-----------------------------------------------------------------------------
Waits == 0 .. TTL
Serials == DOMAIN zone

(* The types of the variables: cron waits only for records that it can ask *)
(* a server for, and for serials that the zone has had.                    *)
TypeOK ==
  /\ Latest \in Nat /\ DOMAIN zone = 0 .. Latest
  /\ \A n \in Serials : zone[n] \in [Records -> {"good", "bad", "absent"}]
  /\ at \in [Servers -> Serials]
  /\ rrsig \in {Nothing, Report} \union
       [kind : {"Wait"}, wait : Waits] \union
       [kind : {"WaitSoa", "WaitNextSerial"}, serial : Serials, wait : Waits] \union
       [kind : {"WaitRecord"}, record : Records \ Nsec3, wait : Waits]
  /\ action \in {"ReportRrsigPropagated", "WaitRrsigPropagated"}
  /\ pc \in {"idle", "WaitRecord", "WaitNextSerial", "zone", "soa", "zone soa",
             "report soa", "panicked"}
  /\ serial \in Serials /\ toAsk \subseteq Public /\ behind \in BOOLEAN
  /\ failures \in 0 .. MaxFailures

(* When cron takes the new signatures for propagated, and the roll goes on *)
(* to withdraw the old key, every name server has a zone that is signed by *)
(* the new one: although the zone was transferred from one server before   *)
(* the others were asked, some of them maybe in an earlier run of cron.    *)
PropagatedWhenReported ==
  rrsig = Report => \A s \in Public : Wrong(at[s]) = {}

(* Once the servers only have to get a version of the zone, they do, and   *)
(* cron notices, also if it never sees a server at that very version.      *)
SoaReported == (rrsig.kind = "WaitSoa") ~> (rrsig = Report)

(* What a comment in report_rrsig_propagated says of check_zone: it "never *)
(* returns Report or Wait", so its caller does not handle these results.   *)
CheckZoneNeverReports == pc # "panicked"
=============================================================================
