------------------------ MODULE UpdateMessage_proofs ------------------------
(***************************************************************************)
(* What the messages of dnst update and ldns-update ask of a server that   *)
(* follows RFC 2136 is what the command line says, whatever the records,   *)
(* the types and the prerequisites are.                                    *)
(***************************************************************************)
EXTENDS UpdateNotify, TLAPS

-----------------------------------------------------------------------------
(* Serials. *)

(* compare_serial is RFC 1982's comparison, except that it calls the first *)
(* of two opposite serials the greater, whichever that is.                 *)
THEOREM SerialComparison ==
  ASSUME NEW old \in Serials, NEW new \in Serials
  PROVE  verify_soa_serial_increment(old, new) <=> Increment(old, new) \/ Opposite(old, new)
<1>1. Cutoff \in Nat /\ Cutoff > 0 /\ old \in 0 .. (2 * Cutoff - 1) /\ new \in 0 .. (2 * Cutoff - 1)
  BY CutoffAssumption DEF Serials
<1>2. verify_soa_serial_increment(old, new)
        <=> (new > old /\ new - old <= Cutoff) \/ (old > new /\ old - new >= Cutoff)
  BY <1>1 DEF verify_soa_serial_increment, compare_serial
<1>3. Opposite(old, new) <=> new - old = Cutoff \/ old - new = Cutoff
  BY <1>1 DEF Opposite
<1>4. Increment(old, new) <=> (new > old /\ new - old < Cutoff) \/ (old > new /\ old - new > Cutoff)
  <2>1. ASSUME Increment(old, new)
        PROVE  (new > old /\ new - old < Cutoff) \/ (old > new /\ old - new > Cutoff)
    BY <1>1, <2>1 DEF Increment
  <2>2. ASSUME new > old /\ new - old < Cutoff
        PROVE  Increment(old, new)
    <3>1. new - old \in 1 .. (Cutoff - 1) /\ new = old + (new - old)
      BY <1>1, <2>2
    <3>2. QED
      BY <3>1 DEF Increment
  <2>3. ASSUME old > new /\ old - new > Cutoff
        PROVE  Increment(old, new)
    <3>1. /\ new - old + 2 * Cutoff \in 1 .. (Cutoff - 1)
          /\ new = old + (new - old + 2 * Cutoff) - 2 * Cutoff
      BY <1>1, <2>3
    <3>2. QED
      BY <3>1 DEF Increment
  <2>4. QED
    BY <2>1, <2>2, <2>3
<1>5. QED
  BY <1>1, <1>2, <1>3, <1>4

(* The serial after one that is taken is again one. *)
LEMMA NextSerial ==
  ASSUME NEW a \in Serials
  PROVE  (a + 1) % (2 * Cutoff) \in Serials
<1>1. Cutoff \in Nat /\ Cutoff > 0 /\ a \in 0 .. (2 * Cutoff - 1)
  BY CutoffAssumption DEF Serials
<1>2. PICK n \in Nat : n = 2 * Cutoff /\ n > 0
  BY <1>1
<1>3. (a + 1) % n \in 0 .. (n - 1)
  BY <1>1, <1>2
<1>4. QED
  BY <1>2, <1>3 DEF Serials

-----------------------------------------------------------------------------
(* The prerequisite section. *)

(* What the prerequisites of a request can be, once they have been parsed. *)
LEMMA ParsedPrerequisites ==
  ASSUME NEW r \in Requests, r.command # "notify", CanParse(r.prerequisites)
  PROVE  /\ r.prerequisites.rrset_exists \subseteq Types
         /\ r.prerequisites.rrset_non_existent \subseteq Types
         /\ r.prerequisites.rrset_exists_exact \subseteq Types \X UNION {Data[t] : t \in Types}
         /\ r.prerequisites.name_in_use \subseteq {"here"}
         /\ r.prerequisites.name_not_in_use \subseteq {"here"}
<1> DEFINE p == r.prerequisites
<1>1. p \in [rrset_exists : SUBSET (Types \union {Bad}),
             rrset_exists_exact :
               SUBSET ((Types \X UNION {Data[t] : t \in Types}) \union {Bad}),
             rrset_non_existent : SUBSET (Types \union {Bad}),
             name_in_use : SUBSET {"here", Bad}, name_not_in_use : SUBSET {"here", Bad}]
  BY ArgumentsAssumption
<1>2. \A x \in {"rrset_exists", "rrset_exists_exact", "rrset_non_existent",
                "name_in_use", "name_not_in_use"} : Bad \notin p[x]
  BY <1>1 DEF CanParse
<1>3. /\ Bad \notin p.rrset_exists /\ Bad \notin p.rrset_non_existent
      /\ Bad \notin p.rrset_exists_exact /\ Bad \notin p.name_in_use
      /\ Bad \notin p.name_not_in_use
  BY <1>2
<1> HIDE DEF p
<1>4. /\ p.rrset_exists \subseteq Types /\ p.rrset_non_existent \subseteq Types
      /\ p.rrset_exists_exact \subseteq Types \X UNION {Data[t] : t \in Types}
      /\ p.name_in_use \subseteq {"here"} /\ p.name_not_in_use \subseteq {"here"}
  BY <1>1, <1>3
<1>5. QED
  BY <1>4 DEF p

LEMMA TypesAreNotMeta == \A t \in Types : t # "ANY" /\ t # "SOA"
BY DataAssumption

(* The server lets a message through only if the options given hold. *)
LEMMA SatisfiedMeansWanted ==
  ASSUME NEW r \in Requests, r.command # "notify", CanParse(r.prerequisites), NEW rrs,
         \A rr \in insert_prerequisites(r.prerequisites) :
            Satisfied(rr, insert_prerequisites(r.prerequisites), rrs)
  PROVE  Wanted(r, rrs)
<1> DEFINE p == r.prerequisites
           section == insert_prerequisites(p)
<1>1. /\ p.rrset_exists \subseteq Types /\ p.rrset_non_existent \subseteq Types
      /\ p.rrset_exists_exact \subseteq Types \X UNION {Data[t] : t \in Types}
      /\ p.name_in_use \subseteq {"here"} /\ p.name_not_in_use \subseteq {"here"}
  BY ParsedPrerequisites
<1>2. \A rr \in section : Satisfied(rr, section, rrs)
  OBVIOUS
<1>3. section = {create_prereq_rrset_exists(t) : t \in p.rrset_exists}
        \union {Record(rr[1], "IN", "zero", rr[2]) : rr \in p.rrset_exists_exact}
        \union {create_prereq_rrset_non_existent(t) : t \in p.rrset_non_existent}
        \union {create_prereq_name_in_use : x \in p.name_in_use}
        \union {create_prereq_name_not_in_use : x \in p.name_not_in_use}
  BY DEF insert_prerequisites
<1> HIDE DEF p, section
<1>4. ASSUME NEW t \in p.rrset_exists
      PROVE  rrs[t] # {}
  <2> DEFINE rr == create_prereq_rrset_exists(t)
  <2>1. rr.class = "ANY" /\ rr.rtype = t
    BY DEF create_prereq_rrset_exists, Record
  <2>2. Satisfied(rr, section, rrs)
    BY <1>2, <1>3
  <2>3. t # "ANY"
    BY <1>1, TypesAreNotMeta
  <2> HIDE DEF rr
  <2>4. QED
    BY <2>1, <2>2, <2>3 DEF Satisfied
<1>5. ASSUME NEW t \in p.rrset_non_existent
      PROVE  rrs[t] = {}
  <2> DEFINE rr == create_prereq_rrset_non_existent(t)
  <2>1. rr.class = "NONE" /\ rr.rtype = t
    BY DEF create_prereq_rrset_non_existent, Record
  <2>2. Satisfied(rr, section, rrs)
    BY <1>2, <1>3
  <2>3. t # "ANY"
    BY <1>1, TypesAreNotMeta
  <2> HIDE DEF rr
  <2>4. QED
    BY <2>1, <2>2, <2>3 DEF Satisfied
<1>6. ASSUME NEW rr \in p.rrset_exists_exact
      PROVE  rrs[rr[1]] = {o[2] : o \in {x \in p.rrset_exists_exact : x[1] = rr[1]}}
  <2> DEFINE record(x) == Record(x[1], "IN", "zero", x[2])
             given == {o.rdata : o \in {x \in section : x.class = "IN" /\ x.rtype = rr[1]}}
             exact == {o[2] : o \in {x \in p.rrset_exists_exact : x[1] = rr[1]}}
  <2>1. \A x : record(x).class = "IN" /\ record(x).rtype = x[1] /\ record(x).rdata = x[2]
    BY DEF Record
  <2>2. \A x \in section : x.class = "IN" => \E y \in p.rrset_exists_exact : x = record(y)
    BY <1>3 DEF create_prereq_rrset_exists, create_prereq_rrset_non_existent,
                create_prereq_name_in_use, create_prereq_name_not_in_use, Record
  <2>3. \A y \in p.rrset_exists_exact : record(y) \in section
    BY <1>3
  <2> HIDE DEF record
  <2>4. rrs[rr[1]] = given
    <3>1. PICK wanted : wanted = record(rr)
      OBVIOUS
    <3>2. Satisfied(wanted, section, rrs)
      BY <1>2, <2>3, <3>1
    <3>3. wanted.class = "IN" /\ wanted.rtype = rr[1]
      BY <2>1, <3>1
    <3>4. rrs[wanted.rtype]
            = {o.rdata : o \in {x \in section : x.class = "IN" /\ x.rtype = wanted.rtype}}
      BY ONLY <3>2, <3>3 DEF Satisfied
    <3>5. QED
      BY <3>3, <3>4
  <2>5. given = exact
    <3>1. ASSUME NEW d \in given
          PROVE  d \in exact
      <4>1. PICK x \in section : x.class = "IN" /\ x.rtype = rr[1] /\ x.rdata = d
        OBVIOUS
      <4>2. PICK y \in p.rrset_exists_exact : x = record(y)
        BY <2>2, <4>1
      <4>3. y[1] = rr[1] /\ y[2] = d
        BY <2>1, <4>1, <4>2
      <4>4. QED
        BY <4>3
    <3>2. ASSUME NEW d \in exact
          PROVE  d \in given
      <4>1. PICK y \in p.rrset_exists_exact : y[1] = rr[1] /\ y[2] = d
        OBVIOUS
      <4>2. /\ record(y) \in section /\ record(y).class = "IN"
            /\ record(y).rtype = rr[1] /\ record(y).rdata = d
        BY <2>1, <2>3, <4>1
      <4>3. QED
        BY <4>2
    <3>3. QED
      BY <3>1, <3>2
  <2>6. QED
    BY <2>4, <2>5
<1>7. ASSUME p.name_in_use # {}
      PROVE  InUse(rrs)
  <2> DEFINE rr == create_prereq_name_in_use
  <2>1. rr.class = "ANY" /\ rr.rtype = "ANY"
    BY DEF create_prereq_name_in_use, Record
  <2>2. Satisfied(rr, section, rrs)
    BY <1>2, <1>3, <1>7
  <2> HIDE DEF rr
  <2>3. QED
    BY <2>1, <2>2 DEF Satisfied
<1>8. ASSUME p.name_not_in_use # {}
      PROVE  ~InUse(rrs)
  <2> DEFINE rr == create_prereq_name_not_in_use
  <2>1. rr.class = "NONE" /\ rr.rtype = "ANY"
    BY DEF create_prereq_name_not_in_use, Record
  <2>2. Satisfied(rr, section, rrs)
    BY <1>2, <1>3, <1>8
  <2> HIDE DEF rr
  <2>3. QED
    BY <2>1, <2>2 DEF Satisfied
<1>9. QED
  BY <1>4, <1>5, <1>6, <1>7, <1>8 DEF Wanted, p

-----------------------------------------------------------------------------
(* The update section. *)

(* What becomes of one RRset: whether it is cleared, what is taken out of  *)
(* it and what is put into it.                                             *)
Cleared(updates, t) == \E u \in updates : u.class = "ANY" /\ u.rtype \in {t, "ANY"}

TakenOut(updates, t) == {u.rdata : u \in {x \in updates : x.class = "NONE" /\ x.rtype = t}}

PutIn(updates, t) == {u.rdata : u \in {x \in updates : x.class = "IN" /\ x.rtype = t}}

LEMMA UpdatedRrset ==
  ASSUME NEW updates, NEW rrs, NEW t \in Types
  PROVE  Updated(updates, rrs)[t]
           = ((IF Cleared(updates, t) THEN {} ELSE rrs[t]) \ TakenOut(updates, t))
               \union PutIn(updates, t)
BY DEF Updated, Cleared, TakenOut, PutIn

LEMMA AdditionsOnly ==
  ASSUME NEW rtype, NEW rdata, NEW t \in Types
  PROVE  /\ ~Cleared(insert_add_updates(rtype, rdata), t)
         /\ TakenOut(insert_add_updates(rtype, rdata), t) = {}
         /\ PutIn(insert_add_updates(rtype, rdata), t) = IF rtype = t THEN rdata ELSE {}
<1> DEFINE updates == insert_add_updates(rtype, rdata)
<1>1. \A u \in updates : u.class = "IN" /\ u.rtype = rtype /\ u.rdata \in rdata
  BY DEF insert_add_updates, create_rr_addition, Record
<1>2. \A x \in rdata : \E u \in updates : u.class = "IN" /\ u.rtype = rtype /\ u.rdata = x
  <2>1. \A x \in rdata : create_rr_addition(rtype, x) \in updates
    BY DEF insert_add_updates
  <2>2. \A x : /\ create_rr_addition(rtype, x).class = "IN"
              /\ create_rr_addition(rtype, x).rtype = rtype
              /\ create_rr_addition(rtype, x).rdata = x
    BY DEF create_rr_addition, Record
  <2> HIDE DEF updates
  <2>3. QED
    BY <2>1, <2>2
<1> HIDE DEF updates
<1>3. ~Cleared(updates, t) /\ TakenOut(updates, t) = {}
  BY <1>1 DEF Cleared, TakenOut
<1>4. PutIn(updates, t) = IF rtype = t THEN rdata ELSE {}
  <2>1. CASE rtype = t
    <3>1. \A x : x \in PutIn(updates, t) <=> \E u \in updates : u.class = "IN" /\ u.rtype = t /\ u.rdata = x
      BY DEF PutIn
    <3>2. \A x : x \in PutIn(updates, t) <=> x \in rdata
      BY <1>1, <1>2, <2>1, <3>1
    <3>3. PutIn(updates, t) = rdata
      BY <3>2
    <3>4. QED
      BY <2>1, <3>3
  <2>2. CASE rtype # t
    BY <1>1, <2>2 DEF PutIn
  <2>3. QED
    BY <2>1, <2>2
<1>5. QED
  BY <1>3, <1>4 DEF updates

LEMMA DeletionsOnly ==
  ASSUME NEW rtype, NEW rdata, NEW t \in Types
  PROVE  /\ Cleared(insert_delete_updates(rtype, rdata), t)
              <=> rdata = {} /\ rtype \in {t, "ANY"}
         /\ TakenOut(insert_delete_updates(rtype, rdata), t) = IF rtype = t THEN rdata ELSE {}
         /\ PutIn(insert_delete_updates(rtype, rdata), t) = {}
<1> DEFINE updates == insert_delete_updates(rtype, rdata)
<1>1. CASE rdata = {}
  <2>1. /\ updates = {create_rrset_deletion(rtype)}
        /\ create_rrset_deletion(rtype).class = "ANY"
        /\ create_rrset_deletion(rtype).rtype = rtype
    BY <1>1 DEF insert_delete_updates, create_rrset_deletion, Record
  <2> HIDE DEF updates
  <2>2. Cleared(updates, t) <=> rtype \in {t, "ANY"}
    BY <2>1 DEF Cleared
  <2>3. TakenOut(updates, t) = {} /\ PutIn(updates, t) = {}
    BY <2>1 DEF TakenOut, PutIn
  <2>4. QED
    BY <1>1, <2>2, <2>3 DEF updates
<1>2. CASE rdata # {}
  <2>1. \A u \in updates : u.class = "NONE" /\ u.rtype = rtype /\ u.rdata \in rdata
    BY <1>2 DEF insert_delete_updates, create_rr_deletion, Record
  <2>2. \A x \in rdata : \E u \in updates : u.class = "NONE" /\ u.rtype = rtype /\ u.rdata = x
    <3>1. \A x \in rdata : create_rr_deletion(rtype, x) \in updates
      BY <1>2 DEF insert_delete_updates
    <3>2. \A x : /\ create_rr_deletion(rtype, x).class = "NONE"
                /\ create_rr_deletion(rtype, x).rtype = rtype
                /\ create_rr_deletion(rtype, x).rdata = x
      BY DEF create_rr_deletion, Record
    <3> HIDE DEF updates
    <3>3. QED
      BY <3>1, <3>2
  <2> HIDE DEF updates
  <2>3. ~Cleared(updates, t) /\ PutIn(updates, t) = {}
    BY <2>1 DEF Cleared, PutIn
  <2>4. TakenOut(updates, t) = IF rtype = t THEN rdata ELSE {}
    <3>1. \A x : x \in TakenOut(updates, t)
                   <=> \E u \in updates : u.class = "NONE" /\ u.rtype = t /\ u.rdata = x
      BY DEF TakenOut
    <3>2. CASE rtype = t
      <4>1. \A x : x \in TakenOut(updates, t) <=> x \in rdata
        BY <2>1, <2>2, <3>1, <3>2
      <4>2. TakenOut(updates, t) = rdata
        BY <4>1
      <4>3. QED
        BY <3>2, <4>2
    <3>3. CASE rtype # t
      BY <2>1, <3>3 DEF TakenOut
    <3>4. QED
      BY <3>2, <3>3
  <2>5. QED
    BY <1>2, <2>3, <2>4 DEF updates
<1>3. QED
  BY <1>1, <1>2

(* The message does to the name what the action of the command line says.  *)
LEMMA UpdatedAsMeant ==
  ASSUME NEW r \in Requests, r.command # "notify", NEW rrs,
         \A u \in UpdatesOf(r) : WellFormed(u)
  PROVE  Updated(UpdatesOf(r), rrs) = Meant(r, rrs)
<1>1. SUFFICES ASSUME NEW t \in Types
               PROVE  Updated(UpdatesOf(r), rrs)[t] = Meant(r, rrs)[t]
  BY DEF Updated, Meant
<1>2. Updated(UpdatesOf(r), rrs)[t]
        = ((IF Cleared(UpdatesOf(r), t) THEN {} ELSE rrs[t]) \ TakenOut(UpdatesOf(r), t))
            \union PutIn(UpdatesOf(r), t)
  BY UpdatedRrset
<1>3. CASE r.action \in {"add", "ip"}
  <2>1. UpdatesOf(r) = insert_add_updates(r.rtype, r.rdata)
    BY <1>3 DEF UpdatesOf
  <2>2. Updated(UpdatesOf(r), rrs)[t] = rrs[t] \union IF r.rtype = t THEN r.rdata ELSE {}
    BY <1>2, <2>1, AdditionsOnly
  <2>3. Meant(r, rrs)[t] = IF t = r.rtype THEN rrs[t] \union r.rdata ELSE rrs[t]
    BY <1>3 DEF Meant
  <2>4. QED
    BY <2>2, <2>3
<1>4. CASE r.action = "delete"
  <2>1. UpdatesOf(r) = insert_delete_updates(r.rtype, r.rdata)
    BY <1>4 DEF UpdatesOf
  <2>2. Meant(r, rrs)[t] = IF r.rtype \in {t, "ANY"}
                           THEN IF r.rdata = {} THEN {} ELSE rrs[t] \ r.rdata
                           ELSE rrs[t]
    BY <1>4 DEF Meant
  <2>3. r.rdata # {} => r.rtype # "ANY"
    <3>1. SUFFICES ASSUME r.rdata # {} PROVE r.rtype # "ANY"
      OBVIOUS
    <3>2. PICK x : x \in r.rdata
      BY <3>1
    <3>3. create_rr_deletion(r.rtype, x) \in UpdatesOf(r)
      BY <2>1, <3>1, <3>2 DEF insert_delete_updates
    <3>4. WellFormed(create_rr_deletion(r.rtype, x))
      BY <3>3
    <3>5. QED
      BY <3>4 DEF WellFormed, create_rr_deletion, Record
  <2>4. Updated(UpdatesOf(r), rrs)[t]
          = (IF r.rdata = {} /\ r.rtype \in {t, "ANY"} THEN {} ELSE rrs[t])
              \ (IF r.rtype = t THEN r.rdata ELSE {})
    BY <1>2, <2>1, DeletionsOnly
  <2>5. QED
    BY <2>2, <2>3, <2>4
<1>5. CASE r.action = "clear"
  <2>1. UpdatesOf(r) = {create_all_rrset_deletion}
    BY <1>5 DEF UpdatesOf
  <2>2. Cleared(UpdatesOf(r), t) /\ PutIn(UpdatesOf(r), t) = {}
    BY <2>1 DEF create_all_rrset_deletion, Record, Cleared, PutIn
  <2>3. Meant(r, rrs)[t] = {}
    BY <1>5 DEF Meant
  <2>4. QED
    BY <1>2, <2>2, <2>3
<1>6. CASE r.action = "none"
  <2>1. UpdatesOf(r) = {create_rrset_deletion("A"), create_rrset_deletion("AAAA")}
    BY <1>6 DEF UpdatesOf
  <2>2. \A u \in UpdatesOf(r) : u.class = "ANY" /\ u.rtype \in {"A", "AAAA"}
    BY <2>1 DEF create_rrset_deletion, Record
  <2>3. \A a \in {"A", "AAAA"} : \E u \in UpdatesOf(r) : u.class = "ANY" /\ u.rtype = a
    BY <2>1 DEF create_rrset_deletion, Record
  <2>4. /\ Cleared(UpdatesOf(r), t) <=> t \in {"A", "AAAA"}
        /\ TakenOut(UpdatesOf(r), t) = {} /\ PutIn(UpdatesOf(r), t) = {}
    BY <2>2, <2>3 DEF Cleared, TakenOut, PutIn
  <2>5. Meant(r, rrs)[t] = IF t \in {"A", "AAAA"} THEN {} ELSE rrs[t]
    BY <1>6 DEF Meant
  <2>6. QED
    BY <1>2, <2>4, <2>5
<1>7. QED
  BY <1>3, <1>4, <1>5, <1>6, RequestsAssumption

(* Once is as good as twice: a message that is handled again changes no    *)
(* more.                                                                   *)
LEMMA MeantTwice ==
  ASSUME NEW r \in Requests, r.command # "notify", NEW rrs
  PROVE  Meant(r, Meant(r, rrs)) = Meant(r, rrs)
<1> DEFINE once == Meant(r, rrs)
<1>1. SUFFICES ASSUME NEW t \in Types PROVE Meant(r, once)[t] = once[t]
  BY DEF Meant
<1>2. CASE r.action \in {"add", "ip"}
  <2>1. \A x : Meant(r, x)[t] = IF t = r.rtype THEN x[t] \union r.rdata ELSE x[t]
    BY <1>2 DEF Meant
  <2> HIDE DEF once
  <2>2. Meant(r, once)[t] = IF t = r.rtype THEN once[t] \union r.rdata ELSE once[t]
    BY <2>1
  <2>3. once[t] = IF t = r.rtype THEN rrs[t] \union r.rdata ELSE rrs[t]
    BY <2>1 DEF once
  <2>4. QED
    BY <2>2, <2>3
<1>3. CASE r.action = "delete"
  <2>1. \A x : Meant(r, x)[t] = IF r.rtype \in {t, "ANY"}
                                THEN IF r.rdata = {} THEN {} ELSE x[t] \ r.rdata
                                ELSE x[t]
    BY <1>3 DEF Meant
  <2> HIDE DEF once
  <2>2. Meant(r, once)[t] = IF r.rtype \in {t, "ANY"}
                            THEN IF r.rdata = {} THEN {} ELSE once[t] \ r.rdata
                            ELSE once[t]
    BY <2>1
  <2>3. once[t] = IF r.rtype \in {t, "ANY"}
                  THEN IF r.rdata = {} THEN {} ELSE rrs[t] \ r.rdata
                  ELSE rrs[t]
    BY <2>1 DEF once
  <2>4. QED
    BY <2>2, <2>3
<1>4. CASE r.action \in {"clear", "none"}
  <2>1. \A x : Meant(r, x)[t] = IF r.action = "clear" \/ t \in {"A", "AAAA"} THEN {} ELSE x[t]
    BY <1>4 DEF Meant
  <2> HIDE DEF once
  <2>2. /\ Meant(r, once)[t]
             = IF r.action = "clear" \/ t \in {"A", "AAAA"} THEN {} ELSE once[t]
        /\ once[t] = IF r.action = "clear" \/ t \in {"A", "AAAA"} THEN {} ELSE rrs[t]
    BY <2>1 DEF once
  <2>3. QED
    BY <2>2
<1>5. QED
  BY <1>2, <1>3, <1>4, RequestsAssumption

-----------------------------------------------------------------------------
(* The answer, and the zone that it leaves. *)

(* The serials that a message that was made asks for. *)
LEMMA SerialsOfMessage ==
  ASSUME NEW r \in Requests, r.command # "notify", NEW serial, CanBuild(r, serial),
         NEW u \in UpdatesOf(r), u.class = "IN", u.rtype = "SOA"
  PROVE  u.rdata \in Serials
<1>1. CASE r.action \in {"add", "ip"}
  <2>1. u \in insert_add_updates(r.rtype, r.rdata)
    BY <1>1 DEF UpdatesOf
  <2>2. PICK x \in r.rdata : u = create_rr_addition(r.rtype, x)
    BY <2>1 DEF insert_add_updates
  <2>3. u.rtype = r.rtype /\ u.rdata = x
    BY <2>2 DEF create_rr_addition, Record
  <2>4. r.action = "add"
    BY <1>1, <2>3, RequestsAssumption
  <2>5. Bad \notin r.rdata
    BY <2>4 DEF CanBuild, CanAdd
  <2>6. QED
    BY <2>3, <2>4, <2>5, RequestsAssumption
<1>2. CASE r.action = "delete"
  <2>1. u \in insert_delete_updates(r.rtype, r.rdata)
    BY <1>2 DEF UpdatesOf
  <2>2. u.class \in {"ANY", "NONE"}
    BY <2>1 DEF insert_delete_updates, create_rrset_deletion, create_rr_deletion, Record
  <2>3. QED
    BY <2>2
<1>3. CASE r.action \in {"clear", "none"}
  <2>1. u \in {create_all_rrset_deletion, create_rrset_deletion("A"),
               create_rrset_deletion("AAAA")}
    BY <1>3 DEF UpdatesOf
  <2>2. u.class = "ANY"
    BY <2>1 DEF create_all_rrset_deletion, create_rrset_deletion, Record
  <2>3. QED
    BY <2>2
<1>4. QED
  BY <1>1, <1>2, <1>3, RequestsAssumption

(* The serial of the zone stays one, whatever is sent to it. *)
LEMMA SerialAfter ==
  ASSUME NEW r \in Requests, r.command # "notify", NEW serial, CanBuild(r, serial),
         NEW z, z.serial \in Serials, NEW half \in BOOLEAN
  PROVE  Process(create_update_message(r), z, half).zone.serial \in Serials
<1> DEFINE message == create_update_message(r)
           soas == {u.rdata : u \in {x \in message.updates : x.class = "IN" /\ x.rtype = "SOA"}}
           taken == {s \in soas : Increment(z.serial, s) \/ (half /\ Opposite(z.serial, s))}
           rrs == Updated(message.updates, z.rrs)
           accepted == /\ \A rr \in message.prerequisites :
                            Satisfied(rr, message.prerequisites, z.rrs)
                       /\ \A rr \in message.updates : WellFormed(rr)
           next == IF taken # {} THEN CHOOSE s \in taken : TRUE
                   ELSE IF rrs # z.rrs THEN (z.serial + 1) % (2 * Cutoff)
                   ELSE z.serial
<1>1. message.updates = UpdatesOf(r)
  BY DEF create_update_message
<1>2. soas \subseteq Serials
  BY <1>1, SerialsOfMessage
<1>3. next \in Serials
  <2>1. taken # {} => (CHOOSE s \in taken : TRUE) \in Serials
    BY <1>2
  <2>2. (z.serial + 1) % (2 * Cutoff) \in Serials
    BY NextSerial
  <2>3. QED
    BY <2>1, <2>2
<1>4. Process(message, z, half)
        = IF ~accepted THEN [rcode |-> "REFUSED", zone |-> z]
          ELSE [rcode |-> "NOERROR", zone |-> [rrs |-> rrs, serial |-> next]]
  BY DEF Process
<1> HIDE DEF accepted, rrs, next, taken, soas
<1>5. QED
  <2>1. CASE accepted
    BY <1>3, <1>4, <2>1
  <2>2. CASE ~accepted
    BY <1>4, <2>2
  <2>3. QED
    BY <2>1, <2>2

LEMMA MeantContents ==
  ASSUME NEW r \in Requests, r.command # "notify", NEW serial, CanBuild(r, serial),
         NEW rrs \in Contents
  PROVE  Meant(r, rrs) \in Contents
<1> DEFINE D == UNION {Data[t] : t \in Types}
           new == Meant(r, rrs)
<1>1. rrs \in [Types -> SUBSET D] /\ \A t \in Types : rrs[t] \subseteq Data[t]
  BY DEF Contents
<1>2. ASSUME NEW t \in Types
      PROVE  new[t] \subseteq Data[t]
  <2>1. CASE r.action \in {"add", "ip"}
    <3>1. t = r.rtype => r.rdata \subseteq Data[t]
      BY <2>1, ArgumentsAssumption DEF CanBuild, CanAdd
    <3>2. new[t] = IF t = r.rtype THEN rrs[t] \union r.rdata ELSE rrs[t]
      BY <2>1 DEF Meant
    <3> HIDE DEF new
    <3>3. QED
      BY <1>1, <3>1, <3>2
  <2>2. CASE r.action = "delete"
    <3>1. new[t] = IF r.rtype \in {t, "ANY"}
                   THEN IF r.rdata = {} THEN {} ELSE rrs[t] \ r.rdata
                   ELSE rrs[t]
      BY <2>2 DEF Meant
    <3> HIDE DEF new
    <3>2. QED
      BY <1>1, <3>1
  <2>3. CASE r.action \in {"clear", "none"}
    <3>1. new[t] = IF r.action = "clear" \/ t \in {"A", "AAAA"} THEN {} ELSE rrs[t]
      BY <2>3 DEF Meant
    <3> HIDE DEF new
    <3>2. QED
      BY <1>1, <3>1
  <2>4. QED
    BY <2>1, <2>2, <2>3, RequestsAssumption
<1>3. DOMAIN new = Types /\ new = [t \in DOMAIN new |-> new[t]]
  BY DEF Meant
<1> HIDE DEF new
<1>4. \A t \in Types : new[t] \in SUBSET D
  BY <1>2
<1>5. new \in [Types -> SUBSET D]
  BY <1>3, <1>4
<1>6. QED
  BY <1>2, <1>5 DEF Contents, new

(* An update that is accepted: the change was wanted, and it is made. A    *)
(* SOA is taken if it moves the zone on, and else left out without a word. *)
Accepted(r, p, z) ==
  /\ p.rcode = "NOERROR" /\ Wanted(r, z.rrs) /\ p.zone.rrs = Meant(r, z.rrs)
  /\ r.action = "add" /\ r.rtype = "SOA" =>
       /\ p.zone.serial \in r.rdata \union {z.serial}
       /\ (\E s \in r.rdata : Increment(z.serial, s)) => p.zone.serial \in r.rdata

Refused(p, z) == p.rcode = "REFUSED" /\ p.zone = z

LEMMA ProcessOutcome ==
  ASSUME NEW r \in Requests, r.command # "notify", CanParse(r.prerequisites),
         NEW serial, CanBuild(r, serial), NEW z, z.rrs \in Contents, NEW half \in BOOLEAN,
         NEW p, p = Process(create_update_message(r), z, half)
  PROVE  Accepted(r, p, z) \/ Refused(p, z)
<1> DEFINE message == create_update_message(r)
           soas == {u.rdata : u \in {x \in message.updates : x.class = "IN" /\ x.rtype = "SOA"}}
           taken == {s \in soas : Increment(z.serial, s) \/ (half /\ Opposite(z.serial, s))}
           rrs == Updated(message.updates, z.rrs)
           accepted == /\ \A rr \in message.prerequisites :
                            Satisfied(rr, message.prerequisites, z.rrs)
                       /\ \A rr \in message.updates : WellFormed(rr)
           next == IF taken # {} THEN CHOOSE s \in taken : TRUE
                   ELSE IF rrs # z.rrs THEN (z.serial + 1) % (2 * Cutoff)
                   ELSE z.serial
<1>1. /\ message.updates = UpdatesOf(r)
      /\ message.prerequisites = insert_prerequisites(r.prerequisites)
  BY DEF create_update_message
<1>2. p = IF ~accepted THEN [rcode |-> "REFUSED", zone |-> z]
          ELSE [rcode |-> "NOERROR", zone |-> [rrs |-> rrs, serial |-> next]]
  BY DEF Process
<1>3. CASE ~accepted
  <2> HIDE DEF accepted
  <2>1. QED
    BY <1>2, <1>3 DEF Refused
<1>4. CASE accepted
  <2>1. Wanted(r, z.rrs)
    BY <1>1, <1>4, SatisfiedMeansWanted
  <2>2. rrs = Meant(r, z.rrs)
    BY <1>1, <1>4, UpdatedAsMeant
  <2>3. ASSUME r.action = "add", r.rtype = "SOA"
        PROVE  /\ next \in r.rdata \union {z.serial}
               /\ (\E s \in r.rdata : Increment(z.serial, s)) => next \in r.rdata
    <3>1. rrs = z.rrs
      <4>1. \A t \in Types : Meant(r, z.rrs)[t] = z.rrs[t]
        BY <2>3, TypesAreNotMeta DEF Meant
      <4>2. z.rrs = [t \in Types |-> z.rrs[t]]
        BY DEF Contents
      <4>3. Meant(r, z.rrs) = [t \in Types |-> Meant(r, z.rrs)[t]]
        BY DEF Meant
      <4>4. QED
        BY <2>2, <4>1, <4>2, <4>3
    <3>2. soas = r.rdata
      <4>1. message.updates = {create_rr_addition("SOA", x) : x \in r.rdata}
        BY <1>1, <2>3 DEF UpdatesOf, insert_add_updates
      <4>2. \A x : /\ create_rr_addition("SOA", x).class = "IN"
                  /\ create_rr_addition("SOA", x).rtype = "SOA"
                  /\ create_rr_addition("SOA", x).rdata = x
        BY DEF create_rr_addition, Record
      <4> HIDE DEF message
      <4>3. QED
        BY <4>1, <4>2
    <3> HIDE DEF soas, rrs
    <3>3. taken # {} => next \in r.rdata
      BY <3>2
    <3>4. taken = {} => next = z.serial
      BY <3>1
    <3>5. (\E s \in r.rdata : Increment(z.serial, s)) => taken # {}
      BY <3>2
    <3> HIDE DEF next, taken
    <3>6. QED
      BY <3>3, <3>4, <3>5
  <2> HIDE DEF accepted, rrs, next
  <2>4. p.rcode = "NOERROR" /\ p.zone.rrs = rrs /\ p.zone.serial = next
    BY <1>2, <1>4
  <2>5. QED
    BY <2>1, <2>2, <2>3, <2>4 DEF Accepted
<1>5. QED
  BY <1>3, <1>4

(* What a zone is. *)
Zones == [serial : Serials, rrs : Contents]

LEMMA ZoneAfter ==
  ASSUME NEW r \in Requests, r.command # "notify", NEW serial, CanBuild(r, serial),
         CanParse(r.prerequisites), NEW z \in Zones, NEW half \in BOOLEAN,
         NEW p, p = Process(create_update_message(r), z, half)
  PROVE  p.zone \in Zones
<1>1. z.serial \in Serials /\ z.rrs \in Contents
  BY DEF Zones
<1>2. p.zone.serial \in Serials
  BY <1>1, SerialAfter
<1>3. p.zone = z \/ p.zone = [rrs |-> p.zone.rrs, serial |-> p.zone.serial]
  BY DEF Process
<1>4. p.zone.rrs \in Contents
  <2>1. CASE Accepted(r, p, z)
    BY <1>1, <2>1, MeantContents DEF Accepted
  <2>2. CASE Refused(p, z)
    BY <1>1, <2>2 DEF Refused
  <2>3. QED
    BY <1>1, <2>1, <2>2, ProcessOutcome
<1>5. QED
  BY <1>2, <1>3, <1>4 DEF Zones
=============================================================================
