------------------------------ MODULE Exchange ------------------------------
(***************************************************************************)
(* What dnst update, ldns-update and dnst notify share: a list of servers  *)
(* whose names are looked up and whose addresses are asked one by one, the *)
(* resolver, and the zone at its primary. One command runs at a time;      *)
(* others may change the zone meanwhile.                                   *)
(*   Primary    the MNAME of the zone's SOA                                *)
(*   NsSets     the name servers the NS RRset may list, in any order       *)
(*   Addresses  the addresses of each name                                 *)
(*   Requests   the command lines                                          *)
(***************************************************************************)
EXTENDS UpdateMessage, SequencesExt

CONSTANTS Primary, NsSets, Addresses, Requests, None

Names == DOMAIN Addresses

Sockets == UNION {Range(Addresses[n]) : n \in Names}

(* A SOA on the command line has a serial; ldns-update sends addresses.    *)
ASSUME RequestsAssumption ==
  \A r \in Requests : r.command # "notify" =>
    /\ r.action \in {"add", "delete", "clear", "ip", "none"}
    /\ r.action = "add" /\ r.rtype = "SOA" => r.rdata \subseteq Serials \union {Bad}
    /\ r.action = "ip" => r.rtype # "SOA"

(* What an argument can be: its parts parse, or are Bad. Only dnst update  *)
(* has arguments that may be Bad, an address of ldns-update has none.      *)
ASSUME ArgumentsAssumption ==
  \A r \in Requests : r.command # "notify" =>
    /\ r.server \in Sockets \union {None}
    /\ r.prerequisites \in
         [rrset_exists : SUBSET (Types \union {Bad}),
          rrset_exists_exact : SUBSET ((Types \X UNION {Data[t] : t \in Types}) \union {Bad}),
          rrset_non_existent : SUBSET (Types \union {Bad}),
          name_in_use : SUBSET {"here", Bad}, name_not_in_use : SUBSET {"here", Bad}]
    /\ r.rtype \in Types => r.rdata \subseteq Data[r.rtype] \union {Bad}
    /\ r.action = "ip" => r.rtype \in Types /\ Bad \notin r.rdata

(* A name has any number of addresses, a zone finitely many name servers.  *)
ASSUME ServersAssumption ==
  /\ Addresses \in [Names -> Seq(Sockets)]
  /\ \A set \in NsSets : set \subseteq Names /\ IsFiniteSet(set)
  /\ None \notin Requests /\ None \notin {"ok", "refused", "exhausted", "error", "NOERROR"}

VARIABLES
  zone,        \* the serial of the zone and what the name holds, at the primary
  cached,      \* the serial of the SOA the resolver has cached
  pc,          \* how far the command is
  request,     \* the command line
  soa,         \* the serial of the SOA that was fetched
  names,       \* the servers that are left
  addresses,   \* the addresses that are left of the server before them
  exit,        \* how the last command ended
  asked,       \* history: the addresses the command has asked
  unresolved,  \* history: the names it found no address of
  begun,       \* history: the zone, names and others when the message was made
  lost,        \* history: an answer to a message that was handled got lost
  others       \* how often others changed the zone since the command began

vars == <<zone, cached, pc, request, soa, names, addresses, exit,
          asked, unresolved, begun, lost, others>>

MaxOthers == 1

ZoneOK == zone \in [serial : Serials, rrs : Contents]

History == <<asked, unresolved, begun, lost, others>>

Start(r) ==
  /\ pc = "done"
  /\ request' = r
  /\ pc' = IF r.command = "notify" THEN "send" ELSE "soa"
  /\ names' = IF r.command = "notify" THEN r.servers ELSE <<>>
  /\ addresses' = <<>> /\ exit' = None /\ soa' = None
  /\ asked' = <<>> /\ unresolved' = {} /\ begun' = None /\ lost' = FALSE /\ others' = 0
  /\ UNCHANGED <<zone, cached>>

End(how) == /\ pc' = "done" /\ exit' = how
            /\ names' = <<>> /\ addresses' = <<>>

(* lookup_host fails (None) or gives the addresses, of which there may be  *)
(* none: a failure of the A or of the AAAA query alone is no failure.      *)
LookupHost(n) == {None, <<>>, Addresses[n]}

(* Someone else's update, or an edit of the zone: a record comes or goes.  *)
OthersChange ==
  /\ others < MaxOthers /\ others' = others + 1
  /\ \E t \in Types : \E x \in Data[t] :
       zone' = [rrs |-> [zone.rrs EXCEPT ![t] = IF x \in @ THEN @ \ {x} ELSE @ \union {x}],
                serial |-> (zone.serial + 1) % (2 * Cutoff)]
  /\ UNCHANGED <<cached, pc, request, soa, names, addresses, exit, asked, unresolved,
                 begun, lost>>

-----------------------------------------------------------------------------
(* What becomes of a message, and the answer to it: None for no answer,    *)
(* when it is lost on the way or refused by the host. The servers that are *)
(* not the primary pass an update on to it. dgram sends a message again    *)
(* that is not answered in time.                                           *)

NotDelivered(answer) == answer = None /\ UNCHANGED <<zone, lost>>

NotHandled(answer) ==
  answer \in {"SERVFAIL", "NOTIMP", "REFUSED"} /\ UNCHANGED <<zone, lost>>

Handled(message, answer) ==
  \E half \in BOOLEAN : LET p == Process(message, zone, half) IN
    answer = p.rcode /\ zone' = p.zone /\ UNCHANGED lost

AnswerLost(message, answer) ==
  /\ \E half \in BOOLEAN : zone' = Process(message, zone, half).zone
  /\ answer \in {None, "SERVFAIL"} /\ lost' = TRUE

HandledTwice(message, answer) ==
  \E half \in BOOLEAN :
    LET p == Process(message, Process(message, zone, half).zone, half) IN
    answer = p.rcode /\ zone' = p.zone /\ lost' = TRUE

Answers == {None, "SERVFAIL", "NOTIMP", "REFUSED", "NOERROR"}

Exchanged(message, answer) ==
  \/ NotDelivered(answer) \/ NotHandled(answer) \/ Handled(message, answer)
  \/ AnswerLost(message, answer) \/ HandledTwice(message, answer)
=============================================================================
