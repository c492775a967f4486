------------------------- MODULE RrsigReport_proofs -------------------------
(***************************************************************************)
(* Proofs about RrsigReport: its type invariant, and that what is reported *)
(* is true of every name server, for any servers, records and versions of  *)
(* the zone. The argument: signatures by the expected keys are not         *)
(* replaced by others, so once a version of the zone has been checked all  *)
(* later ones are right too; and a server that answered with that version  *)
(* or a later one never goes back.                                         *)
(***************************************************************************)
EXTENDS RrsigReport, TLAPS

(* The version that was published last is the greatest serial. *)
LEMMA LatestIs ==
  ASSUME NEW z, NEW n \in Nat, DOMAIN z = 0 .. n
  PROVE  (CHOOSE k \in DOMAIN z : \A m \in DOMAIN z : m <= k) = n
<1>1. n \in DOMAIN z /\ \A m \in DOMAIN z : m <= n
  OBVIOUS
<1>2. ASSUME NEW k \in DOMAIN z, \A m \in DOMAIN z : m <= k PROVE k = n
  <2>1. n <= k /\ k \in 0 .. n
    BY <1>1, <1>2
  <2> QED
    BY <2>1
<1> QED
  BY <1>1, <1>2

(* Two facts of arithmetic, for terms that are not numbers by their shape. *)
LEMMA LeqTrans == \A a, b, c \in Nat : a <= b /\ b <= c => a <= c
OBVIOUS

LEMMA NotLess == \A a, b \in Nat : ~(a < b) => b <= a
OBVIOUS

(* Cron reads a stored result only where it is of the kind it expects. *)
Expected ==
  /\ pc \in {"WaitRecord", "WaitNextSerial"} => rrsig.kind = pc
  /\ pc = "soa" => rrsig.kind = "WaitSoa"

TypeInv == TypeOK /\ Expected

(* The kinds of results, one by one. *)
Results ==
  {Nothing, Report} \union
    [kind : {"Wait"}, wait : Waits] \union
    [kind : {"WaitSoa", "WaitNextSerial"}, serial : Serials, wait : Waits] \union
    [kind : {"WaitRecord"}, record : Records \ Nsec3, wait : Waits]

LEMMA InitType == Init => TypeInv
<1> SUFFICES ASSUME Init PROVE TypeInv
  OBVIOUS
<1>1. Latest = 0
  BY LatestIs DEF Init, Latest
<1>2. Expected
  BY DEF Init, Expected
<1>3. DOMAIN zone = 0 .. Latest /\ Serials = {0}
  BY <1>1 DEF Init, Serials
<1>4. \A n \in Serials : zone[n] \in [Records -> {"good", "bad", "absent"}]
  BY <1>3 DEF Init
<1>5. at \in [Servers -> Serials] /\ serial \in Serials /\ failures \in 0 .. MaxFailures
  BY <1>3, ReportAssumption DEF Init
<1>6. TypeOK
  BY <1>1, <1>3, <1>4, <1>5 DEF Init, TypeOK
<1> QED
  BY <1>2, <1>6 DEF TypeInv

(* Any result that is stored has the right type if its parts have. *)
LEMMA ResultTypes ==
  ASSUME TypeOK, NEW n \in Serials, NEW t \in Waits, NEW r \in Records \ Nsec3
  PROVE  /\ {Wait, Report, WaitSoa(n, t), WaitRecord(r), WaitNextSerial(n, t)} \subseteq Results
         /\ TTL \in Waits /\ WaitSoa(n, TTL) \in Results /\ WaitNextSerial(n, TTL) \in Results
BY ReportAssumption
   DEF Results, Wait, Report, WaitSoa, WaitRecord, WaitNextSerial, Waits

LEMMA PublishType == TypeInv /\ Publish => TypeInv'
<1> SUFFICES ASSUME TypeInv, Publish PROVE TypeInv'
  OBVIOUS
<1> USE DEF TypeInv
<1>1. PICK version \in [Records -> {"good", "bad", "absent"}] :
        zone' = [n \in DOMAIN zone \union {Latest + 1} |->
                   IF n = Latest + 1 THEN version ELSE zone[n]]
  BY DEF Publish
<1>2. Latest + 1 \in Nat /\ DOMAIN zone' = 0 .. Latest + 1
  <2>1. DOMAIN zone' = 0 .. Latest \union {Latest + 1}
    BY <1>1 DEF TypeOK
  <2>2. Latest \in Nat
    BY DEF TypeOK
  <2>3. 0 .. Latest \union {Latest + 1} = 0 .. Latest + 1
    BY <2>2
  <2> QED
    BY <2>1, <2>2, <2>3
<1>3. Latest' = Latest + 1
  BY <1>2, LatestIs DEF Latest
<1>4. Serials' = Serials \union {Latest + 1}
  BY <1>1 DEF Serials
<1>5. \A n \in Serials' : zone'[n] \in [Records -> {"good", "bad", "absent"}]
  BY <1>1 DEF TypeOK, Serials
<1>6. Expected'
  BY DEF Publish, Expected, run
<1>7. rrsig' \in Results'
  BY <1>4 DEF TypeOK, Publish, Results, Waits, Nothing, Report
<1> QED
  BY <1>2, <1>3, <1>4, <1>5, <1>6, <1>7
  DEF TypeOK, Publish, run, Results, Waits, Servers

(* A step that leaves the zone alone leaves its serials alone. *)
LEMMA SameZone ==
  zone' = zone => Latest' = Latest /\ Serials' = Serials /\ Results' = Results
BY DEF Latest, Serials, Results, Waits, Nothing, Report

(* The serials are the numbers up to the latest one. *)
LEMMA SerialsAre ==
  ASSUME TypeOK
  PROVE  /\ Latest \in Nat /\ Serials = 0 .. Latest /\ Latest \in Serials
         /\ \A n \in Serials : n \in Nat /\ n <= Latest
<1>1. Latest \in Nat /\ Serials = 0 .. Latest
  BY DEF TypeOK, Serials
<1>2. \A k \in Nat : k \in 0 .. k /\ \A n \in 0 .. k : n \in Nat /\ n <= k
  OBVIOUS
<1> QED
  BY <1>1, <1>2

LEMMA UpdateType == ASSUME TypeInv, NEW s \in Servers, Update(s) PROVE TypeInv'
<1>1. Latest \in Serials
  BY SerialsAre DEF TypeInv
<1>2. at' \in [Servers -> Serials]
  BY <1>1 DEF Update, TypeInv, TypeOK
<1> QED
  BY <1>2, SameZone
  DEF Update, TypeInv, TypeOK, Expected, run, Results, Waits, Nothing, Report

LEMMA TickType == ASSUME TypeInv, Tick PROVE TypeInv'
<1> USE DEF TypeInv
<1>1. rrsig \in Results
  BY DEF TypeOK, Results
<1>2. rrsig' \in Results /\ rrsig'.kind = rrsig.kind
  <2>1. CASE rrsig \in {Nothing, Report}
    BY <2>1 DEF Tick, Nothing, Report
  <2>2. CASE rrsig \in [kind : {"Wait"}, wait : Waits]
    BY <2>2, ReportAssumption DEF Tick, Results, Waits
  <2>3. CASE rrsig \in [kind : {"WaitSoa", "WaitNextSerial"}, serial : Serials, wait : Waits]
    BY <2>3, ReportAssumption DEF Tick, Results, Waits
  <2>4. CASE rrsig \in [kind : {"WaitRecord"}, record : Records \ Nsec3, wait : Waits]
    BY <2>4, ReportAssumption DEF Tick, Results, Waits
  <2> QED
    BY <1>1, <2>1, <2>2, <2>3, <2>4 DEF Results
<1>3. UNCHANGED <<zone, at, action, pc, serial, toAsk, behind, failures>>
  BY DEF Tick, network, run
<1> QED
  BY <1>2, <1>3, SameZone DEF TypeOK, Expected, Results, Serials, Waits, Nothing, Report

(* Storing a result of the right type. *)
LEMMA StoreType ==
  ASSUME TypeInv, NEW result \in Results, Store(result), failures' \in 0 .. MaxFailures
  PROVE  TypeInv'
<1>1. UNCHANGED <<zone, at, action, serial, toAsk, behind>> /\ pc' = "idle" /\ rrsig' = result
  BY DEF Store, network
<1> QED
  BY <1>1, SameZone DEF TypeInv, TypeOK, Expected, Results, Serials, Waits, Nothing, Report

(* Asking every name server for its serial. *)
LEMMA AskAllType ==
  ASSUME TypeInv, NEW stage \in {"soa", "zone soa", "report soa"}, NEW n \in Serials,
         AskAll(stage, n), UNCHANGED failures,
         stage = "soa" => rrsig.kind = "WaitSoa"
  PROVE  TypeInv'
<1>1. /\ UNCHANGED <<zone, at, rrsig, action>>
      /\ pc' = stage /\ serial' = n /\ toAsk' = Public /\ behind' = FALSE
  BY DEF AskAll, network
<1> QED
  BY <1>1, SameZone DEF TypeInv, TypeOK, Expected, Results, Serials, Waits, Nothing, Report

(* What the parts of a stored result are. *)
LEMMA StoredParts ==
  ASSUME TypeOK
  PROVE  /\ rrsig.kind \in {"none", "Report", "Wait", "WaitSoa", "WaitRecord", "WaitNextSerial"}
         /\ rrsig.kind \in {"WaitSoa", "WaitNextSerial"} =>
              rrsig.serial \in Serials /\ rrsig.wait \in Waits
         /\ rrsig.kind = "WaitRecord" => rrsig.record \in Records \ Nsec3
         /\ rrsig.kind = "Report" <=> rrsig = Report
<1>1. CASE rrsig = Nothing
  BY <1>1 DEF Nothing, Report
<1>2. CASE rrsig = Report
  BY <1>2 DEF Report
<1>3. CASE rrsig \in [kind : {"Wait"}, wait : Waits]
  BY <1>3 DEF Report
<1>4. CASE rrsig \in [kind : {"WaitSoa", "WaitNextSerial"}, serial : Serials, wait : Waits]
  BY <1>4 DEF Report
<1>5. CASE rrsig \in [kind : {"WaitRecord"}, record : Records \ Nsec3, wait : Waits]
  BY <1>5 DEF Report
<1> QED
  BY <1>1, <1>2, <1>3, <1>4, <1>5 DEF TypeOK

LEMMA FailsType == TypeOK /\ (Fails \/ UNCHANGED failures) => failures' \in 0 .. MaxFailures
<1> SUFFICES ASSUME failures \in 0 .. MaxFailures, Fails \/ failures' = failures
             PROVE  failures' \in 0 .. MaxFailures
  BY DEF TypeOK
<1> QED
  BY ReportAssumption DEF Fails

LEMMA BeginType == ASSUME TypeInv, Begin PROVE TypeInv'
<1>1. CASE rrsig.kind = "WaitSoa"
  BY <1>1, AskAllType, StoredParts DEF Begin, TypeInv
<1>2. CASE rrsig.kind # "WaitSoa"
  <2>1. /\ UNCHANGED <<zone, at, rrsig, action, serial, toAsk, behind, failures>>
        /\ pc' = IF rrsig.kind \in {"WaitRecord", "WaitNextSerial"} THEN rrsig.kind ELSE "zone"
    BY <1>2 DEF Begin, network
  <2> QED
    BY <2>1, SameZone DEF TypeInv, TypeOK, Expected, Results, Serials, Waits, Nothing, Report
<1> QED
  BY <1>1, <1>2

LEMMA GoOnType == ASSUME TypeInv, GoOn PROVE TypeInv'
<1>1. UNCHANGED <<zone, at, rrsig, action, serial, toAsk, behind, failures>> /\ pc' = "zone"
  BY DEF GoOn, network
<1> QED
  BY <1>1, SameZone DEF TypeInv, TypeOK, Expected, Results, Serials, Waits, Nothing, Report

LEMMA CheckRecordType == ASSUME TypeInv, check_record PROVE TypeInv'
<1>1. rrsig.record \in Records \ Nsec3
  BY StoredParts DEF check_record, TypeInv, Expected
<1>2. WaitRecord(rrsig.record) \in Results
  BY <1>1, ReportAssumption DEF Results, WaitRecord, Waits
<1>3. CASE GoOn
  BY <1>3, GoOnType
<1>4. CASE Store(WaitRecord(rrsig.record)) /\ (Fails \/ UNCHANGED failures)
  BY <1>2, <1>4, StoreType, FailsType DEF TypeInv
<1> QED
  BY <1>3, <1>4 DEF check_record

LEMMA CheckNextSerialType == ASSUME TypeInv, check_next_serial PROVE TypeInv'
<1>1. rrsig.serial \in Serials /\ rrsig.wait \in Waits
  BY StoredParts DEF check_next_serial, TypeInv, Expected
<1>2. WaitNextSerial(rrsig.serial, rrsig.wait) \in Results
  BY <1>1 DEF Results, WaitNextSerial
<1>3. CASE GoOn
  BY <1>3, GoOnType
<1>4. CASE Store(WaitNextSerial(rrsig.serial, rrsig.wait)) /\ (Fails \/ UNCHANGED failures)
  BY <1>2, <1>4, StoreType, FailsType DEF TypeInv
<1> QED
  BY <1>3, <1>4 DEF check_next_serial

LEMMA CheckZoneType == ASSUME TypeInv, check_zone PROVE TypeInv'
<1>1. TTL \in Waits
  BY ReportAssumption DEF Waits
<1>2. CASE Fails /\ Store(Wait)
  <2>1. Wait \in Results
    BY <1>1 DEF Wait, Results
  <2> QED
    BY <1>2, <2>1, StoreType, FailsType DEF TypeInv
<1>3. ASSUME NEW s \in Primaries, UNCHANGED failures,
             IF Wrong(at[s]) = {} THEN AskAll("zone soa", at[s])
             ELSE IF Wrong(at[s]) \subseteq Nsec3 THEN Store(WaitNextSerial(at[s], TTL))
             ELSE \E r \in Wrong(at[s]) \ Nsec3 : Store(WaitRecord(r))
      PROVE  TypeInv'
  <2>1. at[s] \in Serials
    BY DEF TypeInv, TypeOK, Servers
  <2>2. CASE AskAll("zone soa", at[s])
    BY <1>3, <2>1, <2>2, AskAllType
  <2>3. CASE Store(WaitNextSerial(at[s], TTL))
    <3>1. WaitNextSerial(at[s], TTL) \in Results
      BY <1>1, <2>1 DEF Results, WaitNextSerial
    <3> QED
      BY <1>3, <2>3, <3>1, StoreType, FailsType DEF TypeInv
  <2>4. ASSUME NEW r \in Wrong(at[s]) \ Nsec3, Store(WaitRecord(r)) PROVE TypeInv'
    <3>1. WaitRecord(r) \in Results
      BY <1>1 DEF Results, WaitRecord, Wrong
    <3> QED
      BY <1>3, <2>4, <3>1, StoreType, FailsType DEF TypeInv
  <2> QED
    BY <1>3, <2>2, <2>3, <2>4
<1> QED
  BY <1>2, <1>3 DEF check_zone

LEMMA AskSoaType == ASSUME TypeInv, NEW s \in Public, AskSoa(s) PROVE TypeInv'
<1>1. UNCHANGED <<zone, at, rrsig, action, pc, serial>> /\ toAsk' \subseteq Public
  BY DEF AskSoa, network, TypeInv, TypeOK
<1>2. failures' \in 0 .. MaxFailures
  BY FailsType DEF AskSoa, TypeInv
<1>3. behind' \in BOOLEAN
  BY DEF AskSoa
<1> QED
  BY <1>1, <1>2, <1>3, SameZone
  DEF TypeInv, TypeOK, Expected, Results, Serials, Waits, Nothing, Report

LEMMA SoaAnsweredType == ASSUME TypeInv, SoaAnswered PROVE TypeInv'
<1>0. TTL \in Waits
  BY ReportAssumption DEF Waits
<1>1. TTL \in Waits /\ serial \in Serials /\ failures' = failures
  BY <1>0 DEF TypeInv, TypeOK, SoaAnswered
<1>2. failures' \in 0 .. MaxFailures
  BY <1>1 DEF TypeInv, TypeOK
<1>3. ASSUME NEW t \in Waits, Store(WaitSoa(serial, t)) PROVE TypeInv'
  <2>1. WaitSoa(serial, t) \in Results
    BY <1>1 DEF Results, WaitSoa
  <2> QED
    BY <1>2, <1>3, <2>1, StoreType
<1>4. CASE pc = "soa" /\ Store(WaitSoa(serial, IF action = "ReportRrsigPropagated"
                                               THEN TTL ELSE rrsig.wait))
  <2>1. (IF action = "ReportRrsigPropagated" THEN TTL ELSE rrsig.wait) \in Waits
    BY <1>1, <1>4, StoredParts DEF TypeInv, Expected
  <2> QED
    BY <1>3, <1>4, <2>1
<1>5. CASE AskAll("report soa", serial)
  BY <1>1, <1>5, AskAllType
<1>6. CASE pc' = "panicked" /\ UNCHANGED <<network, rrsig, action, serial, toAsk, behind>>
  <2>1. UNCHANGED <<zone, at, rrsig, action, serial, toAsk, behind, failures>>
    BY <1>1, <1>6 DEF network
  <2> QED
    BY <1>6, <2>1, SameZone
    DEF TypeInv, TypeOK, Expected, Results, Serials, Waits, Nothing, Report
<1>7. CASE Store(WaitSoa(serial, TTL))
  BY <1>1, <1>3, <1>7
<1>8. CASE Store(Report)
  <2>1. Report \in Results
    BY DEF Results
  <2> QED
    BY <1>2, <1>8, <2>1, StoreType
<1> QED
  BY <1>4, <1>5, <1>6, <1>7, <1>8 DEF SoaAnswered

LEMMA KilledType == ASSUME TypeInv, Killed PROVE TypeInv'
<1>1. /\ UNCHANGED <<zone, at, rrsig, action, serial>>
      /\ pc' = "idle" /\ toAsk' = {} /\ behind' = FALSE
  BY DEF Killed, network
<1>2. failures' \in 0 .. MaxFailures
  BY FailsType DEF Killed, TypeInv
<1> QED
  BY <1>1, <1>2, SameZone
  DEF TypeInv, TypeOK, Expected, Results, Serials, Waits, Nothing, Report

LEMMA StepType == TypeInv /\ [Next]_vars => TypeInv'
<1> SUFFICES ASSUME TypeInv, [Next]_vars PROVE TypeInv'
  OBVIOUS
<1>1. CASE UNCHANGED vars
  BY <1>1, SameZone
  DEF vars, network, run, TypeInv, TypeOK, Expected, Results, Serials, Waits, Nothing, Report
<1>2. CASE Cron
  BY <1>2, BeginType, CheckRecordType, CheckNextSerialType, CheckZoneType, AskSoaType,
     SoaAnsweredType DEF Cron
<1> QED
  BY <1>1, <1>2, PublishType, UpdateType, TickType, KilledType DEF Next

(* The types, for all constants: cron only waits for records it can ask a  *)
(* server for and for serials the zone has had (check_zone), and each of   *)
(* its steps finds the stored result it is for (auto_report_actions).      *)
THEOREM TypeCorrect == Spec => []TypeOK
<1>1. TypeInv => TypeOK
  BY DEF TypeInv
<1> QED
  BY <1>1, InitType, StepType, PTL DEF Spec

-----------------------------------------------------------------------------
(* Signatures by the expected keys stay: a later version of the zone has   *)
(* no wrong record that an earlier one has not.                            *)
Kept == \A m, n \in Serials : m <= n => Wrong(n) \subseteq Wrong(m)

(* The version that is asked for has been checked; and unless some server  *)
(* was behind, those that have answered have it.                           *)
Checked ==
  pc \in {"soa", "zone soa", "report soa"} =>
    /\ Wrong(serial) = {}
    /\ behind \/ \A s \in Public \ toAsk : serial <= at[s]

(* So has a version that is waited for from one run of cron to the next.   *)
Stored == rrsig.kind = "WaitSoa" => Wrong(rrsig.serial) = {}

SafeInv == Kept /\ Checked /\ Stored /\ PropagatedWhenReported

LEMMA InitSafe == Init => SafeInv
<1> SUFFICES ASSUME Init PROVE SafeInv
  OBVIOUS
<1>1. Kept
  BY DEF Init, Kept, Serials
<1>2. Checked /\ Stored /\ PropagatedWhenReported
  BY DEF Init, Checked, Stored, PropagatedWhenReported, Nothing, Report
<1> QED
  BY <1>1, <1>2 DEF SafeInv

(* A step that leaves the zone and the servers alone. *)
LEMMA SameNetwork ==
  ASSUME SafeInv, UNCHANGED network
  PROVE  Kept' /\ \A n : Wrong(n)' = Wrong(n)
BY DEF SafeInv, Kept, network, Wrong, Serials

LEMMA PublishSafe == ASSUME TypeInv, SafeInv, Publish PROVE SafeInv'
<1>1. PICK L \in Nat : L = Latest
  BY SerialsAre DEF TypeInv
<1>2. PICK version \in [Records -> {"good", "bad", "absent"}] :
        /\ \A r \in Records : version[r] = "bad" => zone[L][r] = "bad"
        /\ zone' = [n \in Serials \union {L + 1} |-> IF n = L + 1 THEN version ELSE zone[n]]
  BY <1>1 DEF Publish, Serials
<1>3. Serials' = Serials \union {L + 1} /\ L \in Serials
  BY <1>1, <1>2, SerialsAre DEF TypeInv, Serials
<1>4. \A n \in Serials : n \in Nat /\ n <= L /\ n # L + 1
  BY <1>1, SerialsAre DEF TypeInv
<1>5. (\A n \in Serials : Wrong(n)' = Wrong(n)) /\ Wrong(L + 1)' \subseteq Wrong(L)
  BY <1>2, <1>3, <1>4 DEF Wrong
<1>6. Kept'
  <2> SUFFICES ASSUME NEW m \in Serials', NEW n \in Serials', m <= n
               PROVE  Wrong(n)' \subseteq Wrong(m)'
    BY DEF Kept
  <2>1. CASE m \in Serials /\ n \in Serials
    BY <1>5, <2>1 DEF SafeInv, Kept
  <2>2. CASE m \in Serials /\ n = L + 1
    <3>1. Wrong(L) \subseteq Wrong(m)
      BY <1>3, <1>4, <2>2 DEF SafeInv, Kept
    <3> QED
      BY <1>5, <2>2, <3>1
  <2>3. CASE m = L + 1 /\ n \in Serials
    BY <1>4, <2>3
  <2> QED
    BY <1>3, <2>1, <2>2, <2>3
<1>7. Checked' /\ Stored'
  BY <1>5, StoredParts
  DEF Publish, run, SafeInv, Checked, Stored, TypeInv, TypeOK
<1>8. PropagatedWhenReported'
  BY <1>5 DEF Publish, SafeInv, PropagatedWhenReported, TypeInv, TypeOK, Report, Servers
<1> QED
  BY <1>6, <1>7, <1>8 DEF SafeInv

LEMMA UpdateSafe == ASSUME TypeInv, SafeInv, NEW s \in Servers, Update(s) PROVE SafeInv'
<1>1. /\ zone' = zone /\ UNCHANGED <<rrsig, pc, serial, toAsk, behind>>
      /\ at' = [at EXCEPT ![s] = Latest]
  BY DEF Update, run
<1>2. (\A n : Wrong(n)' = Wrong(n)) /\ Kept'
  BY <1>1 DEF Wrong, SafeInv, Kept, Serials
<1>3. Latest \in Serials /\ \A n \in Serials : n \in Nat /\ n <= Latest
  BY SerialsAre DEF TypeInv
<1>4. \A q \in Servers : at[q] \in Serials /\ at'[q] \in Serials /\ at[q] <= at'[q]
  <2>1. at \in [Servers -> Serials]
    BY DEF TypeInv, TypeOK
  <2>2. \A q \in Servers : at'[q] = IF q = s THEN Latest ELSE at[q]
    BY <1>1, <2>1
  <2>3. \A q \in Servers : at[q] \in Nat /\ at[q] <= Latest
    BY <1>3, <2>1
  <2> QED
    BY <1>3, <2>1, <2>2, <2>3
<1>5. Checked'
  <2> SUFFICES ASSUME pc \in {"soa", "zone soa", "report soa"}
               PROVE  Wrong(serial) = {}
                      /\ (behind \/ \A q \in Public \ toAsk : serial <= at'[q])
    BY <1>1, <1>2 DEF Checked
  <2>1. serial \in Nat
    BY <1>3 DEF TypeInv, TypeOK
  <2>2. \A q \in Public : at[q] \in Nat /\ at'[q] \in Nat /\ at[q] <= at'[q]
    BY <1>3, <1>4 DEF Servers
  <2>3. \A q \in Public : serial <= at[q] => serial <= at'[q]
    <3> TAKE q \in Public
    <3>1. at[q] \in Nat /\ at'[q] \in Nat /\ at[q] <= at'[q]
      BY <2>2
    <3> QED
      BY <2>1, <3>1, LeqTrans, ZenonT(30)
  <2> QED
    BY <2>3 DEF SafeInv, Checked
<1>6. Stored'
  BY <1>1, <1>2 DEF SafeInv, Stored
<1>7. PropagatedWhenReported'
  BY <1>1, <1>2, <1>4 DEF SafeInv, Kept, PropagatedWhenReported, Report, Servers
<1> QED
  BY <1>2, <1>5, <1>6, <1>7 DEF SafeInv

LEMMA TickSafe == ASSUME TypeInv, SafeInv, Tick PROVE SafeInv'
<1>1. UNCHANGED <<zone, at, pc, serial, toAsk, behind>>
  BY DEF Tick, network, run
<1>2. rrsig'.kind = rrsig.kind /\ (rrsig.kind = "WaitSoa" => rrsig'.serial = rrsig.serial)
  <2>1. CASE rrsig \in {Nothing, Report}
    BY <2>1 DEF Tick, Nothing, Report
  <2>2. CASE rrsig \in [kind : {"Wait"}, wait : Waits]
    BY <2>2 DEF Tick
  <2>3. CASE rrsig \in [kind : {"WaitSoa", "WaitNextSerial"}, serial : Serials, wait : Waits]
    BY <2>3 DEF Tick
  <2>4. CASE rrsig \in [kind : {"WaitRecord"}, record : Records \ Nsec3, wait : Waits]
    BY <2>4 DEF Tick
  <2> QED
    BY <2>1, <2>2, <2>3, <2>4 DEF TypeInv, TypeOK
<1>3. Kept' /\ \A n : Wrong(n)' = Wrong(n)
  BY <1>1, SameNetwork DEF network
<1>4. rrsig' # Report
  <2>1. rrsig.kind # "Report"
    BY StoredParts DEF Tick, Report, TypeInv
  <2> QED
    BY <1>2, <2>1 DEF Report
<1> QED
  BY <1>1, <1>2, <1>3, <1>4
  DEF SafeInv, Checked, Stored, PropagatedWhenReported, Report

(* A result that is stored is right if a version that it asks to wait for  *)
(* has been checked, and it is Report only when no server is left behind.  *)
LEMMA StoreSafe ==
  ASSUME TypeInv, SafeInv, NEW result, Store(result),
         result.kind = "WaitSoa" => Wrong(result.serial) = {},
         result = Report => \A s \in Public : Wrong(at[s]) = {}
  PROVE  SafeInv'
<1>1. UNCHANGED network /\ pc' = "idle" /\ rrsig' = result /\ at' = at
  BY DEF Store, network
<1>2. Kept' /\ \A n : Wrong(n)' = Wrong(n)
  BY <1>1, SameNetwork
<1> QED
  BY <1>1, <1>2 DEF SafeInv, Checked, Stored, PropagatedWhenReported, Report

(* The versions that all servers are asked for have been checked. *)
LEMMA AskAllSafe ==
  ASSUME TypeInv, SafeInv, NEW stage, NEW n, AskAll(stage, n), Wrong(n) = {}
  PROVE  SafeInv'
<1>1. /\ UNCHANGED <<network, rrsig>> /\ at' = at
      /\ serial' = n /\ toAsk' = Public
  BY DEF AskAll, network
<1>2. Kept' /\ \A m : Wrong(m)' = Wrong(m)
  BY <1>1, SameNetwork
<1> QED
  BY <1>1, <1>2 DEF SafeInv, Checked, Stored, PropagatedWhenReported, Report

(* A step that changes only pc, to where no server is being asked. *)
LEMMA GotoSafe ==
  ASSUME SafeInv, UNCHANGED <<network, rrsig>>,
         pc' \notin {"soa", "zone soa", "report soa"}
  PROVE  SafeInv'
<1>1. (Kept' /\ \A n : Wrong(n)' = Wrong(n)) /\ at' = at
  BY SameNetwork DEF network
<1> QED
  BY <1>1 DEF SafeInv, Checked, Stored, PropagatedWhenReported, Report

LEMMA BeginSafe == ASSUME TypeInv, SafeInv, Begin PROVE SafeInv'
<1>1. CASE rrsig.kind = "WaitSoa"
  BY <1>1, AskAllSafe DEF Begin, SafeInv, Stored
<1>2. CASE rrsig.kind # "WaitSoa"
  BY <1>2, GotoSafe DEF Begin
<1> QED
  BY <1>1, <1>2

LEMMA CheckRecordSafe == ASSUME TypeInv, SafeInv, check_record PROVE SafeInv'
<1>1. CASE GoOn
  BY <1>1, GotoSafe DEF GoOn
<1>2. CASE Store(WaitRecord(rrsig.record))
  BY <1>2, StoreSafe DEF WaitRecord, Report
<1> QED
  BY <1>1, <1>2 DEF check_record

LEMMA CheckNextSerialSafe == ASSUME TypeInv, SafeInv, check_next_serial PROVE SafeInv'
<1>1. CASE GoOn
  BY <1>1, GotoSafe DEF GoOn
<1>2. CASE Store(WaitNextSerial(rrsig.serial, rrsig.wait))
  BY <1>2, StoreSafe DEF WaitNextSerial, Report
<1> QED
  BY <1>1, <1>2 DEF check_next_serial

LEMMA CheckZoneSafe == ASSUME TypeInv, SafeInv, check_zone PROVE SafeInv'
<1>1. CASE Store(Wait)
  BY <1>1, StoreSafe DEF Wait, Report
<1>2. ASSUME NEW s \in Primaries, Wrong(at[s]) = {}, AskAll("zone soa", at[s])
      PROVE  SafeInv'
  BY <1>2, AskAllSafe
<1>3. ASSUME NEW n, Store(WaitNextSerial(n, TTL)) PROVE SafeInv'
  BY <1>3, StoreSafe DEF WaitNextSerial, Report
<1>4. ASSUME NEW r, Store(WaitRecord(r)) PROVE SafeInv'
  BY <1>4, StoreSafe DEF WaitRecord, Report
<1> QED
  BY <1>1, <1>2, <1>3, <1>4 DEF check_zone

LEMMA AskSoaSafe == ASSUME TypeInv, SafeInv, NEW s \in Public, AskSoa(s) PROVE SafeInv'
<1>1. UNCHANGED <<network, rrsig, pc, serial>> /\ at' = at /\ toAsk' = toAsk \ {s}
  BY DEF AskSoa, network
<1>2. behind' = TRUE \/ behind' = (behind \/ at[s] < serial)
  BY DEF AskSoa
<1>3. Kept' /\ \A n : Wrong(n)' = Wrong(n)
  BY <1>1, SameNetwork
<1>4. serial \in Nat /\ at[s] \in Nat
  BY SerialsAre DEF TypeInv, TypeOK, Servers
<1>5. Checked'
  <2> SUFFICES ASSUME pc \in {"soa", "zone soa", "report soa"}
               PROVE  Wrong(serial) = {}
                      /\ (behind' \/ \A q \in Public \ toAsk' : serial <= at[q])
    BY <1>1, <1>3 DEF Checked
  <2>1. behind' \/ (~behind /\ ~(at[s] < serial))
    BY <1>2
  <2>2. ~(at[s] < serial) => serial <= at[s]
    BY <1>4, NotLess, ZenonT(30)
  <2> QED
    BY <1>1, <2>1, <2>2 DEF SafeInv, Checked
<1> QED
  BY <1>1, <1>3, <1>5 DEF SafeInv, Stored, PropagatedWhenReported, Report

LEMMA SoaAnsweredSafe == ASSUME TypeInv, SafeInv, SoaAnswered PROVE SafeInv'
<1>1. pc \in {"soa", "zone soa", "report soa"} /\ toAsk = {}
  BY DEF SoaAnswered
<1>2. Wrong(serial) = {}
  BY <1>1 DEF SafeInv, Checked
<1>3. ASSUME NEW t, Store(WaitSoa(serial, t)) PROVE SafeInv'
  BY <1>2, <1>3, StoreSafe DEF WaitSoa, Report
<1>4. CASE AskAll("report soa", serial)
  BY <1>2, <1>4, AskAllSafe
<1>5. CASE pc' = "panicked" /\ UNCHANGED <<network, rrsig, action, serial, toAsk, behind>>
  BY <1>5, GotoSafe
<1>6. CASE Store(Report) /\ ~behind
  <2>1. \A s \in Public : serial <= at[s]
    BY <1>1, <1>6 DEF SafeInv, Checked
  <2>2. \A s \in Public : Wrong(at[s]) = {}
    BY <1>2, <2>1 DEF SafeInv, Kept, TypeInv, TypeOK, Servers
  <2> QED
    BY <1>6, <2>2, StoreSafe DEF Report
<1> QED
  BY <1>3, <1>4, <1>5, <1>6 DEF SoaAnswered

LEMMA KilledSafe == ASSUME SafeInv, Killed PROVE SafeInv'
BY GotoSafe DEF Killed

LEMMA StepSafe == TypeInv /\ SafeInv /\ [Next]_vars => SafeInv'
<1> SUFFICES ASSUME TypeInv, SafeInv, [Next]_vars PROVE SafeInv'
  OBVIOUS
<1>1. CASE UNCHANGED vars
  <2>1. UNCHANGED <<network, rrsig, pc, serial, toAsk, behind>> /\ at' = at
    BY <1>1 DEF vars, network, run
  <2>2. Kept' /\ \A n : Wrong(n)' = Wrong(n)
    BY <2>1, SameNetwork
  <2> QED
    BY <2>1, <2>2 DEF SafeInv, Checked, Stored, PropagatedWhenReported, Report
<1>2. CASE Cron
  BY <1>2, BeginSafe, CheckRecordSafe, CheckNextSerialSafe, CheckZoneSafe, AskSoaSafe,
     SoaAnsweredSafe DEF Cron
<1> QED
  BY <1>1, <1>2, PublishSafe, UpdateSafe, TickSafe, KilledSafe DEF Next

(* For all servers, zones and histories: when cron takes the signatures    *)
(* for propagated (AutoReportRrsigResult::Report), no name server has a    *)
(* zone with a record that is signed by other keys.                        *)
THEOREM ReportIsTrue == Spec => []PropagatedWhenReported
<1>1. SafeInv => PropagatedWhenReported
  BY DEF SafeInv
<1>2. Init => TypeInv /\ SafeInv
  BY InitType, InitSafe
<1>3. TypeInv /\ SafeInv /\ [Next]_vars => (TypeInv /\ SafeInv)'
  BY StepType, StepSafe
<1> QED
  BY <1>1, <1>2, <1>3, PTL DEF Spec
=============================================================================
