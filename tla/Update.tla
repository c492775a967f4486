------------------------------- MODULE Update -------------------------------
(***************************************************************************)
(* dnst update and ldns-update (src/commands/update.rs): find the zone and *)
(* its name servers, make the message, and send it to one server after     *)
(* another until one answers it.                                           *)
(***************************************************************************)
EXTENDS Exchange

IsUpdate == request # None /\ request.command \in {"update", "ldns-update"}

Fail == End("error") /\ UNCHANGED <<zone, cached, request, soa, History>>

(* The prerequisites are parsed after the SOA was fetched; with --server   *)
(* no name servers are looked for.                                         *)
AfterSoa ==
  IF ~CanParse(request.prerequisites) THEN End("error")
  ELSE /\ pc' = IF request.server = None THEN "ns" ELSE "build"
       /\ UNCHANGED <<names, addresses, exit>>

(* find_mname_and_soa: the zone is given, and the resolver may answer from *)
(* its cache.                                                              *)
find_mname_and_soa ==
  /\ pc = "soa" /\ request.zone_given
  /\ soa' \in {cached, zone.serial}
  /\ cached' = soa'
  /\ AfterSoa
  /\ UNCHANGED <<zone, request, History>>

(* Mutant: the SOA the resolver gave is taken, not that of the primary.    *)
SoaOfResolver ==
  /\ pc = "soa" /\ ~request.zone_given
  /\ cached' \in {cached, zone.serial}
  /\ soa' = cached'
  /\ AfterSoa
  /\ UNCHANGED <<zone, request, History>>

(* The resolver's SOA is used for its MNAME only: the primary is asked.    *)
find_mname_and_zone_and_soa ==
  /\ pc = "soa" /\ ~request.zone_given
  /\ cached' \in {cached, zone.serial}
  /\ soa' = zone.serial
  /\ AfterSoa
  /\ UNCHANGED <<zone, request, History>>

(* A query or lookup before the message is made fails or finds nothing.    *)
QueryFails == pc \in {"soa", "ns"} /\ Fail

(* Mutant: the order of the NS RRset is kept. *)
AsListed(nsnames) == nsnames

(* The MNAME changes places with the first name, if it is among them.      *)
PrimaryInFront(nsnames) ==
  IF Primary \notin Range(nsnames) THEN nsnames
  ELSE LET i == CHOOSE j \in DOMAIN nsnames : nsnames[j] = Primary IN
       [nsnames EXCEPT ![1] = Primary, ![i] = nsnames[1]]

determine_nsnames ==
  /\ pc = "ns"
  /\ \E set \in NsSets : \E nsnames \in SetToSeqs(set) : names' = PrimaryInFront(nsnames)
  /\ pc' = "build"
  /\ UNCHANGED <<zone, cached, request, soa, addresses, exit, History>>

Build ==
  /\ pc = "build"
  /\ IF CanBuild(request, soa)
     THEN /\ pc' = "send"
          /\ addresses' = IF request.server = None THEN <<>> ELSE <<request.server>>
          /\ begun' = [zone |-> zone, names |-> names, others |-> others]
          /\ UNCHANGED <<names, exit>>
     ELSE End("error") /\ UNCHANGED begun
  /\ UNCHANGED <<zone, cached, request, soa, asked, unresolved, lost, others>>

-----------------------------------------------------------------------------
(* send_update. A name that cannot be looked up ends the command, though   *)
(* others may be left.                                                     *)

(* Mutant: a name that cannot be looked up is tried again after the others.*)
LookUpAgain ==
  /\ pc = "send" /\ IsUpdate /\ addresses = <<>> /\ names # <<>>
  /\ \E found \in LookupHost(Head(names)) :
       /\ unresolved' = IF found \in {None, <<>>} THEN unresolved \union {Head(names)}
                        ELSE unresolved
       /\ addresses' = IF found = None THEN <<>> ELSE found
       /\ names' = IF found = None THEN Append(Tail(names), Head(names)) ELSE Tail(names)
  /\ UNCHANGED <<zone, cached, pc, request, soa, exit, asked, begun, lost, others>>

NextServer ==
  /\ pc = "send" /\ IsUpdate /\ addresses = <<>> /\ names # <<>>
  /\ \E found \in LookupHost(Head(names)) :
       /\ unresolved' = IF found \in {None, <<>>} THEN unresolved \union {Head(names)}
                        ELSE unresolved
       /\ IF found = None THEN End("error")
          ELSE addresses' = found /\ names' = Tail(names) /\ UNCHANGED <<pc, exit>>
  /\ UNCHANGED <<zone, cached, request, soa, asked, begun, lost, others>>

(* Mutant: NOERROR is taken for one of the answers to go on after. *)
UntilRefused(answer) == answer # "REFUSED"

(* dnst update goes on after an answer that says the server cannot do it,  *)
(* ldns-update takes any answer as the last.                               *)
Unable(answer) == request.command = "update" /\ answer \in {"SERVFAIL", "NOTIMP"}

Final(answer) == answer # None /\ ~Unable(answer)

Outcome(answer) == IF answer = "NOERROR" THEN "ok" ELSE "refused"

(* Mutant: the next server is asked before the other addresses of this one.*)
SkipAddresses(answer) ==
  IF Final(answer) THEN End(Outcome(answer))
  ELSE IF request.server # None THEN End("error")
  ELSE addresses' = <<>> /\ UNCHANGED <<pc, names, exit>>

(* Mutant: with --server, no answer goes unreported. *)
Unreported(answer) ==
  IF Final(answer) THEN End(Outcome(answer))
  ELSE IF request.server # None THEN End(None)
  ELSE addresses' = Tail(addresses) /\ UNCHANGED <<pc, names, exit>>

(* With --server there is no next server.                                  *)
GoOn(answer) ==
  IF Final(answer) THEN End(Outcome(answer))
  ELSE IF request.server # None THEN End("error")
  ELSE addresses' = Tail(addresses) /\ UNCHANGED <<pc, names, exit>>

connect_and_send_request ==
  /\ pc = "send" /\ IsUpdate /\ addresses # <<>>
  /\ asked' = Append(asked, Head(addresses))
  /\ \E answer \in Answers :
       Exchanged(create_update_message(request), answer) /\ GoOn(answer)
  /\ UNCHANGED <<cached, request, soa, unresolved, begun, others>>

(* "No successful responses", "No responses". *)
Exhausted ==
  /\ pc = "send" /\ IsUpdate /\ addresses = <<>> /\ names = <<>>
  /\ End("exhausted")
  /\ UNCHANGED <<zone, cached, request, soa, History>>

UpdateStep ==
  \/ find_mname_and_soa \/ find_mname_and_zone_and_soa \/ QueryFails \/ determine_nsnames
  \/ Build \/ NextServer \/ connect_and_send_request \/ Exhausted
=============================================================================
