---------------------------- MODULE UpdateNotify ----------------------------
(***************************************************************************)
(* A session in which updates are made and secondaries notified, one       *)
(* command after the other, while others change the zone too.              *)
(***************************************************************************)
EXTENDS Update, Notify

Init ==
  /\ zone \in [serial : {0}, rrs : {[t \in Types |-> {}]}]
  /\ cached = zone.serial
  /\ pc = "done" /\ request = None /\ soa = None /\ names = <<>> /\ addresses = <<>>
  /\ exit = None /\ asked = <<>> /\ unresolved = {} /\ begun = None
  /\ lost = FALSE /\ others = 0

Step == UpdateStep \/ NotifyStep

Next == (\E r \in Requests : Start(r)) \/ Step \/ OthersChange

(* A command runs until it ends: queries time out, and so do messages.     *)
Spec == Init /\ [][Next]_vars /\ WF_vars(Step)

-----------------------------------------------------------------------------
(* Properties. *)

TypeOK ==
  /\ ZoneOK /\ cached \in Serials
  /\ pc \in {"done", "soa", "ns", "build", "send"}
  /\ request \in Requests \union {None} /\ soa \in Serials \union {None}
  /\ exit \in {None, "ok", "refused", "exhausted", "error"}
  /\ exit = None <=> (request = None \/ pc # "done")
  /\ asked \in Seq(Sockets \union Literals) /\ unresolved \subseteq Names \union {Bad}
  /\ lost \in BOOLEAN /\ others \in 0 .. MaxOthers

(* What the options of a request ask of the name, and the change it is for.*)
Wanted(r, rrs) ==
  LET p == r.prerequisites IN
  /\ \A t \in p.rrset_exists : rrs[t] # {}
  /\ \A t \in p.rrset_non_existent : rrs[t] = {}
  /\ \A rr \in p.rrset_exists_exact :
       rrs[rr[1]] = {o[2] : o \in {x \in p.rrset_exists_exact : x[1] = rr[1]}}
  /\ p.name_in_use # {} => InUse(rrs)
  /\ p.name_not_in_use # {} => ~InUse(rrs)

Meant(r, rrs) ==
  [t \in Types |->
    CASE r.action \in {"add", "ip"} /\ t = r.rtype -> rrs[t] \union r.rdata
      [] r.action = "delete" /\ r.rtype \in {t, "ANY"} ->
           IF r.rdata = {} THEN {} ELSE rrs[t] \ r.rdata
      [] r.action = "clear" \/ (r.action = "none" /\ t \in {"A", "AAAA"}) -> {}
      [] OTHER -> rrs[t]]

Ended(how) == pc = "done" /\ IsUpdate /\ exit = how

OthersLetItBe == others = begun.others

SendsSoa == IsUpdate /\ request.action = "add" /\ request.rtype = "SOA"

(* However often a message is handled and wherever, and whatever others    *)
(* do in between: the name changes only while the prerequisites of the     *)
(* command line hold, and to what its action says.                         *)
ChangesAsAsked ==
  [][zone'.rrs # zone.rrs /\ others' = others
       => Wanted(request, zone.rrs) /\ zone'.rrs = Meant(request, zone.rrs)]_vars

(* The command ends without a complaint only if its change is made, once   *)
(* or over again; a SOA too, if the one it was checked against was the     *)
(* zone's and the two are not opposite.                                    *)
QuietMeansDone ==
  Ended("ok") /\ OthersLetItBe =>
    /\ zone.rrs = Meant(request, begun.zone.rrs)
    /\ SendsSoa /\ soa = begun.zone.serial
         => \E s \in request.rdata : zone.serial = s \/ Opposite(soa, s)

(* If no answer is lost, a refusal that is printed means that the zone is  *)
(* as it was.                                                              *)
RefusedMeansUnchanged ==
  Ended("refused") /\ OthersLetItBe /\ ~lost => zone = begun.zone

(* A SOA is sent only if it moves the zone forward, or half way round,     *)
(* from a serial the zone has had; from the one it has when the message is *)
(* made, if the command found the zone by itself and others let it be.     *)
SerialMovesOn ==
  /\ \A s \in request.rdata : Increment(soa, s) \/ Opposite(soa, s)
  /\ ~request.zone_given /\ others = 0 => soa = begun.zone.serial

SerialsMoveOn == [][pc = "send" /\ asked' # asked /\ SendsSoa => SerialMovesOn]_vars

(* The primary, if it is among the name servers and an address of it was   *)
(* found, is the first to be asked.                                        *)
PrimaryFirst ==
  IsUpdate /\ asked # <<>> /\ Primary \in Range(begun.names) \ unresolved
    => asked[1] \in Range(Addresses[Primary])

(* Of the servers that addresses were found of, all were asked at all of   *)
(* them: by dnst update before it says that no server answered.            *)
ExhaustedMeansAllAsked ==
  Ended("exhausted") =>
    \A n \in Range(begun.names) \ unresolved : Range(Addresses[n]) \subseteq Range(asked)

(* By dnst notify always, whatever happens to the other servers.           *)
AllServersNotified ==
  pc = "done" /\ IsNotify =>
    \A server \in Range(request.servers) \ unresolved :
      IF server \in Literals THEN server \in Range(asked)
      ELSE Range(Addresses[server]) \subseteq Range(asked)

(* Every command ends. *)
CommandsEnd == pc # "done" ~> pc = "done"
=============================================================================
