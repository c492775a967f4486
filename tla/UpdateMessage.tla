--------------------------- MODULE UpdateMessage ---------------------------
(***************************************************************************)
(* The messages dnst update and ldns-update make, and what a name server   *)
(* does with them. A message is about one name, that of the <DOMAIN NAME>  *)
(* argument, or, when it adds a SOA record, about the apex of the zone.    *)
(*   Data      the RDATA there is for each type                            *)
(*   Cutoff    SOA_SERIAL_CUTOFF: serials are numbers below 2 * Cutoff     *)
(*   Bad       an argument that does not parse                             *)
(*   Empty     RDATA of length 0                                           *)
(***************************************************************************)
EXTENDS Integers, FiniteSets

CONSTANTS Data, Cutoff, Bad, Empty

ASSUME CutoffAssumption == Cutoff \in Nat \ {0}

Types == DOMAIN Data

(* The types are those of the records that may be at the name: no          *)
(* meta-types, and not the SOA, which is the serial.                       *)
ASSUME DataAssumption ==
  /\ Types \intersect {"SOA", "ANY", Bad} = {}
  /\ \A t \in Types : Data[t] \intersect {Bad, Empty} = {}

Serials == 0 .. (2 * Cutoff - 1)

(* What a name holds. *)
Contents == {rrs \in [Types -> SUBSET UNION {Data[t] : t \in Types}] :
               \A t \in Types : rrs[t] \subseteq Data[t]}

InUse(rrs) == \E t \in Types : rrs[t] # {}

-----------------------------------------------------------------------------
(* Serial numbers. *)

(* Mutant: a larger number that is far off is not one from before. *)
CompareOneWay(a, b) ==
  IF a = b THEN "Equal" ELSE IF a < b /\ b - a < Cutoff THEN "Less" ELSE "Greater"

compare_serial(a, b) ==
  IF a = b THEN "Equal"
  ELSE IF (a < b /\ b - a < Cutoff) \/ (a > b /\ a - b > Cutoff) THEN "Less"
  ELSE "Greater"

verify_soa_serial_increment(old, new) == compare_serial(new, old) = "Greater"

(* RFC 1982: new is old with something from 1 up to Cutoff - 1 added.      *)
Increment(old, new) ==
  \E i \in 1 .. (Cutoff - 1) : new = old + i \/ new = old + i - 2 * Cutoff

(* RFC 1982 leaves open which of two numbers this far apart is greater.    *)
Opposite(old, new) == new - old \in {Cutoff, -Cutoff}

-----------------------------------------------------------------------------
(* Records, with the type ANY of RFC 2136. *)

Record(rtype, class, ttl, rdata) ==
  [rtype |-> rtype, class |-> class, ttl |-> ttl, rdata |-> rdata]

create_rr_addition(rtype, rdata) == Record(rtype, "IN", "given", rdata)

create_rr_deletion(rtype, rdata) == Record(rtype, "NONE", "zero", rdata)

create_rrset_deletion(rtype) == Record(rtype, "ANY", "zero", Empty)

create_all_rrset_deletion == Record("ANY", "ANY", "zero", Empty)

create_prereq_rrset_exists(rtype) == Record(rtype, "ANY", "zero", Empty)

(* Mutant: the class is the one of an RRset that must exist. *)
PrereqOfWrongClass(rtype) == Record(rtype, "ANY", "zero", Empty)

create_prereq_rrset_non_existent(rtype) == Record(rtype, "NONE", "zero", Empty)

create_prereq_name_in_use == Record("ANY", "ANY", "zero", Empty)

create_prereq_name_not_in_use == Record("ANY", "NONE", "zero", Empty)

(* The prerequisites of a request: types whose RRset exists, records that  *)
(* make up whole RRsets, types without records, and the two about the name.*)
CanParse(p) == \A x \in DOMAIN p : Bad \notin p[x]

insert_prerequisites(p) ==
  {create_prereq_rrset_exists(t) : t \in p.rrset_exists}
    \union {Record(rr[1], "IN", "zero", rr[2]) : rr \in p.rrset_exists_exact}
    \union {create_prereq_rrset_non_existent(t) : t \in p.rrset_non_existent}
    \union {create_prereq_name_in_use : x \in p.name_in_use}
    \union {create_prereq_name_not_in_use : x \in p.name_not_in_use}

(* No record at all is an error; so is a SOA that does not move forward    *)
(* from the one that was fetched.                                          *)
CanAdd(rtype, rdata, serial) ==
  /\ rdata # {} /\ Bad \notin rdata
  /\ rtype = "SOA" => \A s \in rdata : verify_soa_serial_increment(serial, s)

insert_add_updates(rtype, rdata) == {create_rr_addition(rtype, r) : r \in rdata}

insert_delete_updates(rtype, rdata) ==
  IF rdata = {} THEN {create_rrset_deletion(rtype)}
  ELSE {create_rr_deletion(rtype, r) : r \in rdata}

CanBuild(r, serial) ==
  CASE r.action = "add" -> CanAdd(r.rtype, r.rdata, serial)
    [] r.action = "delete" -> Bad \notin r.rdata
    [] OTHER -> TRUE

(* The update section, of dnst update and of ldns-update with an address   *)
(* or with none.                                                           *)
UpdatesOf(r) ==
  CASE r.action = "add" -> insert_add_updates(r.rtype, r.rdata)
    [] r.action = "delete" -> insert_delete_updates(r.rtype, r.rdata)
    [] r.action = "clear" -> {create_all_rrset_deletion}
    [] r.action = "ip" -> insert_add_updates(r.rtype, r.rdata)
    [] r.action = "none" -> {create_rrset_deletion("A"), create_rrset_deletion("AAAA")}

create_update_message(r) ==
  [prerequisites |-> insert_prerequisites(r.prerequisites), updates |-> UpdatesOf(r)]

-----------------------------------------------------------------------------
(* A primary that follows RFC 2136. *)

(* RFC 2136 3.2: what the prerequisite rr asks of a name that holds rrs.   *)
Satisfied(rr, section, rrs) ==
  /\ rr.ttl = "zero"
  /\ CASE rr.class = "ANY" ->
            /\ rr.rdata = Empty
            /\ IF rr.rtype = "ANY" THEN InUse(rrs) ELSE rrs[rr.rtype] # {}
       [] rr.class = "NONE" ->
            /\ rr.rdata = Empty
            /\ IF rr.rtype = "ANY" THEN ~InUse(rrs) ELSE rrs[rr.rtype] = {}
       [] rr.class = "IN" ->
            rrs[rr.rtype] = {o.rdata : o \in {x \in section : x.class = "IN" /\ x.rtype = rr.rtype}}

(* RFC 2136 3.4.1. *)
WellFormed(rr) ==
  CASE rr.class = "IN" -> rr.rtype # "ANY" /\ rr.rdata # Empty
    [] rr.class = "ANY" -> rr.ttl = "zero" /\ rr.rdata = Empty
    [] rr.class = "NONE" -> rr.ttl = "zero" /\ rr.rtype # "ANY" /\ rr.rdata # Empty

(* RFC 2136 3.4.2: what the name then holds. *)
Updated(updates, rrs) ==
  [t \in Types |->
    ((IF \E u \in updates : u.class = "ANY" /\ u.rtype \in {t, "ANY"} THEN {} ELSE rrs[t])
       \ {u.rdata : u \in {x \in updates : x.class = "NONE" /\ x.rtype = t}})
       \union {u.rdata : u \in {x \in updates : x.class = "IN" /\ x.rtype = t}}]

(* A SOA that does not move forward is ignored, without an error; a change *)
(* without a new SOA moves the serial on by one. The server's own choice   *)
(* between two opposite serials is half.                                   *)
Process(message, z, half) ==
  LET soas == {u.rdata : u \in {x \in message.updates : x.class = "IN" /\ x.rtype = "SOA"}}
      taken == {s \in soas : Increment(z.serial, s) \/ (half /\ Opposite(z.serial, s))}
      rrs == Updated(message.updates, z.rrs)
      accepted == /\ \A rr \in message.prerequisites :
                       Satisfied(rr, message.prerequisites, z.rrs)
                  /\ \A rr \in message.updates : WellFormed(rr)
  IN IF ~accepted THEN [rcode |-> "REFUSED", zone |-> z]
     ELSE [rcode |-> "NOERROR",
           zone |-> [rrs |-> rrs,
                     serial |-> IF taken # {} THEN CHOOSE s \in taken : TRUE
                                ELSE IF rrs # z.rrs THEN (z.serial + 1) % (2 * Cutoff)
                                ELSE z.serial]]
=============================================================================
