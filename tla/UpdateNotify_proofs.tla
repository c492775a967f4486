------------------------- MODULE UpdateNotify_proofs -------------------------
(***************************************************************************)
(* dnst update and dnst notify, for every width of serials, all records,   *)
(* name servers, addresses and requests, and whatever happens to messages. *)
(* Three invariants, each with the help of the one before: the serials a   *)
(* command goes by, the shape of the state, and then, apart from each      *)
(* other, the servers it still has to ask and what became of the zone.     *)
(***************************************************************************)
EXTENDS UpdateMessage_proofs, SequenceTheorems, FiniteSetTheorems

-----------------------------------------------------------------------------
(* The inductive invariant. A SOA on the command line is only checked when *)
(* the message is made, against a serial that was read steps before; what  *)
(* has been read and what has been checked has to be remembered until the  *)
(* message is sent, by every step of the command and of others.            *)

Known == /\ zone.serial \in Serials /\ cached \in Serials
         /\ request \in Requests \union {None} /\ others \in Nat

Read == IsUpdate /\ pc \in {"ns", "build", "send"} => soa \in Serials

ByItself == IsUpdate /\ ~request.zone_given /\ others = 0

Fresh == /\ ByItself /\ pc \in {"ns", "build"} => soa = zone.serial
         /\ ByItself /\ pc = "send" => soa = begun.zone.serial

Checked == IsUpdate /\ pc = "send" => CanBuild(request, soa)

SerialInv == Known /\ Read /\ Fresh /\ Checked

(* What happens to a message that was checked. *)
LEMMA SerialExchanged ==
  ASSUME Known, IsUpdate, CanBuild(request, soa), NEW answer,
         Exchanged(create_update_message(request), answer)
  PROVE  zone'.serial \in Serials
<1> DEFINE message == create_update_message(request)
<1>1. request \in Requests /\ request.command # "notify" /\ zone.serial \in Serials
  BY DEF Known, IsUpdate
<1>2. \A half \in BOOLEAN : Process(message, zone, half).zone.serial \in Serials
  BY <1>1, SerialAfter
<1>3. \A half \in BOOLEAN :
        Process(message, Process(message, zone, half).zone, half).zone.serial \in Serials
  <2>1. ASSUME NEW half \in BOOLEAN, NEW z, z = Process(message, zone, half).zone
        PROVE  Process(message, z, half).zone.serial \in Serials
    BY <1>1, <1>2, <2>1, SerialAfter
  <2>2. QED
    BY <2>1
<1> HIDE DEF message
<1>4. CASE NotDelivered(answer) \/ NotHandled(answer)
  BY <1>1, <1>4 DEF NotDelivered, NotHandled
<1>5. CASE Handled(message, answer)
  BY <1>2, <1>5 DEF Handled
<1>6. CASE AnswerLost(message, answer)
  BY <1>2, <1>6 DEF AnswerLost
<1>7. CASE HandledTwice(message, answer)
  BY <1>3, <1>7 DEF HandledTwice
<1>8. QED
  BY <1>4, <1>5, <1>6, <1>7 DEF Exchanged, message

LEMMA SerialInvInit == Init => SerialInv
<1> SUFFICES ASSUME Init PROVE SerialInv
  OBVIOUS
<1>1. 0 \in Serials
  BY CutoffAssumption DEF Serials
<1>2. Known
  BY <1>1 DEF Init, Known
<1>3. QED
  BY <1>2 DEF Init, SerialInv, Read, Fresh, Checked, ByItself

(* The end of a command leaves nothing to remember. *)
LEMMA SerialInvDone ==
  ASSUME Known', pc' = "done"
  PROVE  SerialInv'
BY DEF SerialInv, Read, Fresh, Checked

(* The SOA is read: from here on it has to stay what it is. *)
LEMMA SerialInvRead ==
  ASSUME SerialInv, find_mname_and_soa \/ find_mname_and_zone_and_soa
  PROVE  SerialInv'
<1> USE DEF SerialInv, Known, find_mname_and_soa, find_mname_and_zone_and_soa, History
<1>1. Known' /\ soa' \in Serials
  OBVIOUS
<1>2. pc' \in {"done", "ns", "build"}
  BY DEF AfterSoa, End
<1>3. ByItself' => soa' = zone'.serial
  BY DEF ByItself, IsUpdate
<1>4. QED
  BY <1>1, <1>2, <1>3 DEF Read, Fresh, Checked

LEMMA SerialInvBuild ==
  ASSUME SerialInv, determine_nsnames \/ Build
  PROVE  SerialInv'
<1>1. Known'
  BY DEF SerialInv, Known, determine_nsnames, Build, History
<1>2. CASE determine_nsnames
  BY <1>1, <1>2 DEF SerialInv, Read, Fresh, Checked, ByItself, IsUpdate, determine_nsnames, History
<1>3. CASE Build
  <2>1. CASE CanBuild(request, soa)
    <3>1. pc' = "send" /\ begun'.zone = zone /\ UNCHANGED <<zone, request, soa, others>>
      BY <1>3, <2>1 DEF Build
    <3>2. pc = "build"
      BY <1>3 DEF Build
    <3>3. Read' /\ Checked'
      BY <2>1, <3>1, <3>2 DEF SerialInv, Read, Checked, IsUpdate
    <3>4. Fresh'
      BY <3>1, <3>2 DEF SerialInv, Fresh, ByItself, IsUpdate
    <3>5. QED
      BY <1>1, <3>3, <3>4 DEF SerialInv
  <2>2. CASE ~CanBuild(request, soa)
    BY <1>1, <1>3, <2>2, SerialInvDone DEF Build, End
  <2>3. QED
    BY <2>1, <2>2
<1>4. QED
  BY <1>2, <1>3

(* While the message goes from one server to the next, only the zone moves.*)
LEMMA SerialInvSend ==
  ASSUME SerialInv, NextServer \/ connect_and_send_request \/ NotifyStep
  PROVE  SerialInv'
<1>1. pc = "send" /\ UNCHANGED <<cached, request, soa, begun, others>> /\ pc' \in {"send", "done"}
  BY DEF NextServer, connect_and_send_request, NotifyStep, NextToNotify, notify_host,
         AllNotified, GoOn, End, History
<1>2. zone'.serial \in Serials
  <2>1. CASE connect_and_send_request
    <3>1. IsUpdate /\ CanBuild(request, soa)
      BY <1>1, <2>1 DEF SerialInv, Checked, connect_and_send_request
    <3>2. PICK answer \in Answers : Exchanged(create_update_message(request), answer)
      BY <2>1 DEF connect_and_send_request
    <3>3. QED
      BY <3>1, <3>2, SerialExchanged DEF SerialInv
  <2>2. CASE NextServer \/ NotifyStep
    BY <2>2 DEF SerialInv, Known, NextServer, NotifyStep, NextToNotify, notify_host,
                AllNotified, History
  <2>3. QED
    BY <2>1, <2>2
<1>3. Known'
  BY <1>1, <1>2 DEF SerialInv, Known
<1>4. Read' /\ Fresh' /\ Checked'
  BY <1>1 DEF SerialInv, Read, Fresh, Checked, ByItself, IsUpdate
<1>5. QED
  BY <1>3, <1>4 DEF SerialInv

LEMMA SerialInvOthers ==
  ASSUME SerialInv, OthersChange
  PROVE  SerialInv'
<1>1. zone'.serial \in Serials
  BY NextSerial DEF SerialInv, Known, OthersChange
<1>2. others' \in Nat /\ others' # 0 /\ UNCHANGED <<cached, pc, request, soa, begun>>
  BY DEF SerialInv, Known, OthersChange
<1>3. Known'
  BY <1>1, <1>2 DEF SerialInv, Known
<1>4. Read' /\ Fresh' /\ Checked'
  BY <1>2 DEF SerialInv, Read, Fresh, Checked, ByItself, IsUpdate
<1>5. QED
  BY <1>3, <1>4 DEF SerialInv

LEMMA SerialInvNext == SerialInv /\ [Next]_vars => SerialInv'
<1> SUFFICES ASSUME SerialInv, [Next]_vars PROVE SerialInv'
  OBVIOUS
<1>1. ASSUME NEW r \in Requests, Start(r)
      PROVE  SerialInv'
  <2>1. Known'
    BY <1>1 DEF SerialInv, Known, Start
  <2>2. pc' = "soa" \/ (pc' = "send" /\ ~IsUpdate')
    BY <1>1 DEF Start, IsUpdate
  <2>3. QED
    BY <2>1, <2>2 DEF SerialInv, Read, Fresh, Checked, ByItself
<1>2. CASE QueryFails \/ Exhausted
  BY <1>2, SerialInvDone DEF SerialInv, Known, QueryFails, Fail, Exhausted, End, History
<1>3. CASE UNCHANGED vars
  BY <1>3 DEF SerialInv, Known, Read, Fresh, Checked, ByItself, IsUpdate, vars
<1>4. CASE Step
  BY <1>2, <1>4, SerialInvRead, SerialInvBuild, SerialInvSend DEF Step, UpdateStep
<1>5. QED
  BY <1>1, <1>3, <1>4, SerialInvOthers DEF Next

LEMMA SerialInvAlways == Spec => []SerialInv
<1>1. QED
  BY SerialInvInit, SerialInvNext, PTL DEF Spec

(* dnst update sends a SOA only if its serial moves the zone on from the   *)
(* one that was read, or is opposite to it; and that one is the zone's     *)
(* when the command asked the primary and nobody else changed the zone.    *)
THEOREM SerialsMoveOnAlways == Spec => SerialsMoveOn
<1>1. SerialInv /\ [Next]_vars
        => [pc = "send" /\ asked' # asked /\ SendsSoa => SerialMovesOn]_vars
  <2> SUFFICES ASSUME SerialInv, pc = "send", SendsSoa PROVE SerialMovesOn
    OBVIOUS
  <2>1. /\ IsUpdate /\ request.action = "add" /\ request.rtype = "SOA"
        /\ request \in Requests /\ soa \in Serials /\ CanAdd("SOA", request.rdata, soa)
    BY DEF SendsSoa, SerialInv, Known, Read, Checked, IsUpdate, CanBuild
  <2>2. ASSUME NEW s \in request.rdata
        PROVE  Increment(soa, s) \/ Opposite(soa, s)
    <3>1. s \in Serials /\ verify_soa_serial_increment(soa, s)
      <4>1. request.command # "notify"
        BY <2>1 DEF IsUpdate
      <4>2. QED
        BY <2>1, <4>1, RequestsAssumption DEF CanAdd
    <3>2. QED
      BY <2>1, <3>1, SerialComparison
  <2>3. ~request.zone_given /\ others = 0 => soa = begun.zone.serial
    BY <2>1 DEF SerialInv, Fresh, ByItself
  <2>4. QED
    BY <2>2, <2>3 DEF SerialMovesOn
<1>2. QED
  BY <1>1, SerialInvAlways, PTL DEF Spec, SerialsMoveOn

-----------------------------------------------------------------------------
(* The shape of the state: the types, and what each stage of a command has *)
(* left untouched so far.                                                  *)

Servers == Names \union Literals \union {Bad}

Typed ==
  /\ TypeOK
  /\ addresses \in Seq(Sockets \union Literals) /\ names \in Seq(Servers)
  /\ pc # "done" => request # None

Early ==
  pc \in {"soa", "ns", "build"} =>
    /\ request.command # "notify"
    /\ asked = <<>> /\ unresolved = {} /\ addresses = <<>> /\ ~lost
    /\ names \in Seq(Names) /\ (Primary \in Range(names) => names[1] = Primary)
    /\ pc = "soa" \/ request.server # None => names = <<>>
    /\ pc = "ns" => request.server = None

Parsed == pc \in {"ns", "build"} \/ (pc = "send" /\ IsUpdate) => CanParse(request.prerequisites)

NamesOnly == pc = "send" /\ IsUpdate => names \in Seq(Names)

ShapeInv == Typed /\ Early /\ Parsed /\ NamesOnly

LEMMA RangeOfAppend ==
  ASSUME NEW S, NEW s \in Seq(S), NEW x \in S
  PROVE  Append(s, x) \in Seq(S) /\ Range(Append(s, x)) = Range(s) \union {x}
<1>1. Append(s, x) \in Seq(S) /\ Len(Append(s, x)) = Len(s) + 1 /\ Len(s) \in Nat
  OBVIOUS
<1>2. /\ \A i \in 1 .. Len(s) : Append(s, x)[i] = s[i]
      /\ Append(s, x)[Len(s) + 1] = x
  OBVIOUS
<1>3. /\ DOMAIN Append(s, x) = 1 .. (Len(s) + 1) /\ DOMAIN s = 1 .. Len(s)
      /\ 1 .. (Len(s) + 1) = (1 .. Len(s)) \union {Len(s) + 1}
  BY <1>1
<1>4. QED
  BY <1>1, <1>2, <1>3 DEF Range

LEMMA RangeOfTail ==
  ASSUME NEW S, NEW s \in Seq(S), s # <<>>
  PROVE  /\ Head(s) \in S /\ Tail(s) \in Seq(S) /\ Head(s) = s[1]
         /\ Range(s) = {Head(s)} \union Range(Tail(s))
<1>1. /\ Head(s) \in S /\ Tail(s) \in Seq(S) /\ Head(s) = s[1]
      /\ Len(s) \in Nat \ {0} /\ Len(Tail(s)) = Len(s) - 1
  OBVIOUS
<1>2. \A i \in 1 .. (Len(s) - 1) : Tail(s)[i] = s[i + 1]
  OBVIOUS
<1>3. DOMAIN s = 1 .. Len(s) /\ DOMAIN Tail(s) = 1 .. (Len(s) - 1)
  BY <1>1
<1>4. \A i \in 1 .. Len(s) : i = 1 \/ (i - 1 \in 1 .. (Len(s) - 1) /\ i = (i - 1) + 1)
  BY <1>1
<1>5. \A i \in 1 .. (Len(s) - 1) : i + 1 \in 1 .. Len(s)
  BY <1>1
<1>6. Range(s) \subseteq {Head(s)} \union Range(Tail(s))
  <2>1. ASSUME NEW i \in 1 .. Len(s)
        PROVE  s[i] = Head(s) \/ \E j \in DOMAIN Tail(s) : s[i] = Tail(s)[j]
    <3>1. CASE i = 1
      BY <1>1, <3>1
    <3>2. CASE i # 1
      <4>1. i - 1 \in DOMAIN Tail(s) /\ Tail(s)[i - 1] = s[i]
        BY <1>1, <1>2, <1>3, <1>4, <3>2
      <4>2. QED
        BY <4>1
    <3>3. QED
      BY <3>1, <3>2
  <2>2. QED
    BY <1>3, <2>1 DEF Range
<1>7. {Head(s)} \union Range(Tail(s)) \subseteq Range(s)
  BY <1>1, <1>2, <1>3, <1>5 DEF Range
<1>8. QED
  BY <1>1, <1>6, <1>7

LEMMA EmptyRange == Range(<<>>) = {}
BY DEF Range

LEMMA NotIn == /\ None \notin Requests
               /\ None # "ok" /\ None # "refused" /\ None # "exhausted" /\ None # "error"
               /\ None # "NOERROR"
BY ServersAssumption

LEMMA AddressesOfName ==
  ASSUME NEW n \in Names
  PROVE  Addresses[n] \in Seq(Sockets) /\ Addresses[n] \in Seq(Sockets \union Literals)
<1>1. Addresses[n] \in Seq(Sockets)
  BY ServersAssumption
<1>2. \A s \in Seq(Sockets) : s \in Seq(Sockets \union Literals)
  OBVIOUS
<1>3. QED
  BY <1>1, <1>2

(* The name servers of the zone, in an order in which the primary is first.*)
LEMMA PrimaryComesFirst ==
  ASSUME NEW set \in NsSets, NEW nsnames \in SetToSeqs(set)
  PROVE  /\ PrimaryInFront(nsnames) \in Seq(Names)
         /\ Primary \in Range(PrimaryInFront(nsnames)) => PrimaryInFront(nsnames)[1] = Primary
<1>1. set \subseteq Names /\ Cardinality(set) \in Nat
  BY ServersAssumption, FS_CardinalityType
<1> DEFINE n == Cardinality(set)
<1>2. nsnames \in [1 .. n -> set]
  BY DEF SetToSeqs
<1>3. nsnames \in Seq(Names)
  <2>1. nsnames \in [1 .. n -> Names]
    BY <1>1, <1>2
  <2>2. QED
    BY <1>1, <2>1
<1>4. CASE Primary \notin Range(nsnames)
  BY <1>3, <1>4 DEF PrimaryInFront
<1>5. CASE Primary \in Range(nsnames)
  <2> DEFINE i == CHOOSE j \in DOMAIN nsnames : nsnames[j] = Primary
  <2>1. i \in DOMAIN nsnames /\ nsnames[i] = Primary
    BY <1>5 DEF Range
  <2>2. PrimaryInFront(nsnames) = [nsnames EXCEPT ![1] = Primary, ![i] = nsnames[1]]
    BY <1>5 DEF PrimaryInFront
  <2> HIDE DEF i, n
  <2>3. Primary \in Names /\ DOMAIN nsnames = 1 .. n /\ n \in Nat /\ 1 \in 1 .. n
    BY <1>1, <1>2, <2>1 DEF n
  <2>4. PrimaryInFront(nsnames) \in [1 .. n -> Names] /\ PrimaryInFront(nsnames)[1] = Primary
    BY <1>1, <1>2, <2>1, <2>2, <2>3 DEF n
  <2>5. QED
    BY <2>3, <2>4
<1>6. QED
  BY <1>4, <1>5

LEMMA ShapeInvInit == Init => ShapeInv
<1> SUFFICES ASSUME Init PROVE ShapeInv
  OBVIOUS
<1>1. 0 \in Serials
  BY CutoffAssumption DEF Serials
<1>2. [t \in Types |-> {}] \in Contents
  BY DEF Contents
<1>3. zone \in Zones /\ cached \in Serials
  BY <1>1, <1>2 DEF Init, Zones
<1>4. TypeOK
  <2>1. /\ ZoneOK /\ cached \in Serials /\ asked \in Seq(Sockets \union Literals)
        /\ others \in 0 .. MaxOthers
    BY <1>3 DEF Init, ZoneOK, Zones, MaxOthers
  <2>2. /\ pc \in {"done", "soa", "ns", "build", "send"} /\ request \in Requests \union {None}
        /\ soa \in Serials \union {None} /\ exit \in {None, "ok", "refused", "exhausted", "error"}
        /\ exit = None <=> (request = None \/ pc # "done")
        /\ unresolved \subseteq Names \union {Bad} /\ lost \in BOOLEAN
    BY DEF Init
  <2>3. QED
    BY <2>1, <2>2 DEF TypeOK
<1>5. QED
  BY <1>4 DEF Init, ShapeInv, Typed, Early, Parsed, NamesOnly

(* The steps that leave the zone alone and end the command, or go on with  *)
(* the next stage.                                                         *)
LEMMA ShapeInvStart ==
  ASSUME ShapeInv, NEW r \in Requests, Start(r)
  PROVE  ShapeInv'
<1> USE DEF Start
<1>1. TypeOK'
  <2>1. ZoneOK' /\ cached' \in Serials
    BY DEF ShapeInv, Typed, TypeOK, ZoneOK
  <2>2. asked' \in Seq(Sockets \union Literals) /\ others' \in 0 .. MaxOthers
    BY DEF MaxOthers
  <2>3. /\ pc' \in {"done", "soa", "ns", "build", "send"} /\ pc' # "done"
        /\ request' \in Requests \union {None}
        /\ soa' \in Serials \union {None} /\ exit' \in {None, "ok", "refused", "exhausted", "error"}
        /\ exit' = None /\ unresolved' \subseteq Names \union {Bad} /\ lost' \in BOOLEAN
    OBVIOUS
  <2>4. QED
    BY <2>1, <2>2, <2>3 DEF TypeOK
<1>2. CASE r.command = "notify"
  <2>1. r.servers \in Seq(Servers)
    BY <1>2, LiteralsAssumption DEF Servers
  <2>2. QED
    BY <1>1, <1>2, <2>1, NotIn DEF ShapeInv, Typed, Early, Parsed, NamesOnly, IsUpdate
<1>3. CASE r.command # "notify"
  <2>1. names' = <<>> /\ pc' = "soa"
    BY <1>3
  <2>2. QED
    BY <1>1, <1>3, <2>1, NotIn, EmptyRange DEF ShapeInv, Typed, Early, Parsed, NamesOnly, IsUpdate
<1>4. QED
  BY <1>2, <1>3

(* A command that ends leaves nothing to remember but the types. *)
LEMMA ShapeInvDone ==
  ASSUME ShapeInv, pc # "done", End(exit'), exit' \in {"ok", "refused", "exhausted", "error"},
         ZoneOK', cached' \in Serials, soa' \in Serials \union {None}, UNCHANGED request,
         asked' \in Seq(Sockets \union Literals), unresolved' \subseteq Names \union {Bad},
         lost' \in BOOLEAN, others' \in 0 .. MaxOthers
  PROVE  ShapeInv'
<1>1. TypeOK'
  BY NotIn DEF ShapeInv, Typed, TypeOK, End
<1>2. QED
  BY <1>1 DEF ShapeInv, Typed, Early, Parsed, NamesOnly, End

LEMMA ShapeInvRead ==
  ASSUME ShapeInv, find_mname_and_soa \/ find_mname_and_zone_and_soa
  PROVE  ShapeInv'
<1>1. /\ pc = "soa" /\ AfterSoa /\ UNCHANGED <<zone, request, History>>
      /\ soa' \in Serials /\ cached' \in Serials
  BY DEF find_mname_and_soa, find_mname_and_zone_and_soa, ShapeInv, Typed, TypeOK, ZoneOK
<1>2. CASE CanParse(request.prerequisites)
  <2>1. /\ pc' = (IF request.server = None THEN "ns" ELSE "build")
        /\ UNCHANGED <<names, addresses, exit>>
    BY <1>1, <1>2 DEF AfterSoa
  <2>2. TypeOK'
    BY <1>1, <2>1 DEF ShapeInv, Typed, TypeOK, ZoneOK, History
  <2>3. QED
    BY <1>1, <1>2, <2>1, <2>2 DEF ShapeInv, Typed, Early, Parsed, NamesOnly, History
<1>3. CASE ~CanParse(request.prerequisites)
  <2>1. End("error") /\ exit' = "error"
    BY <1>1, <1>3 DEF AfterSoa, End
  <2>2. QED
    BY <1>1, <2>1, ShapeInvDone DEF ShapeInv, Typed, TypeOK, ZoneOK, History
<1>4. QED
  BY <1>2, <1>3

LEMMA ShapeInvBuild ==
  ASSUME ShapeInv, determine_nsnames \/ Build
  PROVE  ShapeInv'
<1>1. CASE determine_nsnames
  <2>1. /\ names' \in Seq(Names) /\ (Primary \in Range(names') => names'[1] = Primary)
        /\ pc = "ns" /\ pc' = "build"
        /\ UNCHANGED <<zone, cached, request, soa, addresses, exit, History>>
    BY <1>1, PrimaryComesFirst DEF determine_nsnames
  <2>2. TypeOK'
    BY <2>1 DEF ShapeInv, Typed, TypeOK, ZoneOK, History
  <2>3. names' \in Seq(Servers)
    BY <2>1 DEF Servers
  <2>4. request.server = None
    BY <2>1 DEF ShapeInv, Early
  <2>5. QED
    BY <2>1, <2>2, <2>3, <2>4 DEF ShapeInv, Typed, Early, Parsed, NamesOnly, History
<1>2. CASE Build /\ CanBuild(request, soa)
  <2>1. /\ pc = "build" /\ pc' = "send"
        /\ addresses' = (IF request.server = None THEN <<>> ELSE <<request.server>>)
        /\ UNCHANGED <<zone, cached, request, soa, asked, unresolved, lost, others, names, exit>>
    BY <1>2 DEF Build
  <2>2. TypeOK'
    BY <2>1 DEF ShapeInv, Typed, TypeOK, ZoneOK
  <2>3. request \in Requests /\ request.command # "notify"
    BY <2>1 DEF ShapeInv, Typed, TypeOK, Early
  <2>4. request.server # None => request.server \in Sockets
    BY <2>3, ArgumentsAssumption
  <2>5. addresses' \in Seq(Sockets \union Literals)
    <3>1. CASE request.server = None
      BY <2>1, <3>1
    <3>2. CASE request.server # None
      <4> DEFINE server == request.server
      <4>1. server \in Sockets \union Literals /\ addresses' = <<server>>
        BY <2>1, <2>4, <3>2
      <4> HIDE DEF server
      <4>2. QED
        BY <4>1
    <3>3. QED
      BY <3>1, <3>2
  <2>6. QED
    BY <2>1, <2>2, <2>5 DEF ShapeInv, Typed, Early, Parsed, NamesOnly, IsUpdate
<1>3. CASE Build /\ ~CanBuild(request, soa)
  <2>1. /\ pc = "build" /\ End("error") /\ exit' = "error"
        /\ UNCHANGED <<zone, cached, request, soa, asked, unresolved, lost, others>>
    BY <1>3 DEF Build, End
  <2>2. QED
    BY <2>1, ShapeInvDone DEF ShapeInv, Typed, TypeOK, ZoneOK
<1>4. QED
  BY <1>1, <1>2, <1>3

(* What a message does to the zone, with the answer. *)
LEMMA ShapeExchanged ==
  ASSUME SerialInv, ShapeInv, IsUpdate, pc = "send", NEW answer,
         Exchanged(create_update_message(request), answer)
  PROVE  zone' \in Zones /\ lost' \in BOOLEAN
<1> DEFINE message == create_update_message(request)
<1>1. /\ request \in Requests /\ request.command # "notify" /\ zone \in Zones
      /\ CanParse(request.prerequisites) /\ CanBuild(request, soa) /\ lost \in BOOLEAN
  BY DEF SerialInv, Known, Checked, ShapeInv, Typed, TypeOK, ZoneOK, Zones, Parsed, IsUpdate
<1>2. \A half \in BOOLEAN : Process(message, zone, half).zone \in Zones
  BY <1>1, ZoneAfter
<1>3. \A half \in BOOLEAN : Process(message, Process(message, zone, half).zone, half).zone \in Zones
  BY <1>1, <1>2, ZoneAfter
<1> HIDE DEF message
<1>4. CASE NotDelivered(answer) \/ NotHandled(answer)
  BY <1>1, <1>4 DEF NotDelivered, NotHandled
<1>5. CASE Handled(message, answer)
  BY <1>1, <1>2, <1>5 DEF Handled
<1>6. CASE AnswerLost(message, answer)
  BY <1>2, <1>6 DEF AnswerLost
<1>7. CASE HandledTwice(message, answer)
  BY <1>3, <1>7 DEF HandledTwice
<1>8. QED
  BY <1>4, <1>5, <1>6, <1>7 DEF Exchanged, message

(* The next of the servers of an update. *)
LEMMA ShapeInvServer ==
  ASSUME ShapeInv, NextServer
  PROVE  ShapeInv'
<1> DEFINE n == Head(names)
<1>1. /\ pc = "send" /\ IsUpdate /\ addresses = <<>> /\ names # <<>> /\ names \in Seq(Names)
      /\ UNCHANGED <<zone, cached, request, soa, asked, begun, lost, others>>
  BY DEF NextServer, ShapeInv, NamesOnly
<1>2. n \in Names /\ Tail(names) \in Seq(Names) 
      /\ Addresses[n] \in Seq(Sockets \union Literals)
  BY <1>1, RangeOfTail, AddressesOfName
<1>3. PICK found \in LookupHost(n) :
        /\ unresolved' = IF found \in {None, <<>>} THEN unresolved \union {n} ELSE unresolved
        /\ IF found = None THEN End("error")
           ELSE addresses' = found /\ names' = Tail(names) /\ UNCHANGED <<pc, exit>>
  BY DEF NextServer
<1> HIDE DEF n
<1>4. unresolved' \subseteq Names \union {Bad}
  BY <1>2, <1>3 DEF ShapeInv, Typed, TypeOK
<1>5. CASE found = None
  <2>1. End("error") /\ exit' = "error"
    BY <1>3, <1>5 DEF End
  <2>2. QED
    BY <1>1, <1>4, <2>1, ShapeInvDone DEF ShapeInv, Typed, TypeOK, ZoneOK
<1>6. CASE found # None
  <2>1. addresses' = found /\ names' = Tail(names) /\ UNCHANGED <<pc, exit>>
    BY <1>3, <1>6
  <2>2. addresses' \in Seq(Sockets \union Literals)
    <3>1. found = <<>> \/ found = Addresses[n]
      BY <1>6 DEF LookupHost
    <3>2. <<>> \in Seq(Sockets \union Literals)
      OBVIOUS
    <3>3. QED
      BY ONLY <1>2, <2>1, <3>1, <3>2
  <2>3. names' \in Seq(Servers)
    BY <1>2, <2>1 DEF Servers
  <2>4. TypeOK'
    BY <1>1, <1>4, <2>1 DEF ShapeInv, Typed, TypeOK, ZoneOK
  <2>5. QED
    BY <1>1, <1>2, <2>1, <2>2, <2>3, <2>4
       DEF ShapeInv, Typed, Early, Parsed, NamesOnly, IsUpdate
<1>7. QED
  BY <1>5, <1>6

(* The next of the addresses of a server. *)
LEMMA ShapeInvSend ==
  ASSUME SerialInv, ShapeInv, connect_and_send_request
  PROVE  ShapeInv'
<1>1. /\ pc = "send" /\ IsUpdate /\ addresses # <<>> /\ asked' = Append(asked, Head(addresses))
      /\ UNCHANGED <<cached, request, soa, unresolved, begun, others>>
  BY DEF connect_and_send_request
<1>2. PICK answer \in Answers : Exchanged(create_update_message(request), answer) /\ GoOn(answer)
  BY DEF connect_and_send_request
<1>3. zone' \in Zones /\ lost' \in BOOLEAN
  BY <1>1, <1>2, ShapeExchanged
<1>4. /\ Head(addresses) \in Sockets \union Literals
      /\ Tail(addresses) \in Seq(Sockets \union Literals)
      /\ asked' \in Seq(Sockets \union Literals)
  BY <1>1, RangeOfTail, RangeOfAppend DEF ShapeInv, Typed, TypeOK
<1>5. ZoneOK'
  BY <1>3 DEF ZoneOK, Zones
<1>6. CASE addresses' = Tail(addresses) /\ UNCHANGED <<pc, names, exit>>
  <2>1. TypeOK'
    BY <1>1, <1>3, <1>4, <1>5, <1>6 DEF ShapeInv, Typed, TypeOK
  <2>2. QED
    BY <1>1, <1>4, <1>6, <2>1 DEF ShapeInv, Typed, Early, Parsed, NamesOnly, IsUpdate
<1>7. CASE End("error") \/ End("ok") \/ End("refused")
  <2>1. End(exit') /\ exit' \in {"ok", "refused", "exhausted", "error"}
    BY <1>7 DEF End
  <2>2. QED
    BY <1>1, <1>3, <1>4, <1>5, <2>1, ShapeInvDone DEF ShapeInv, Typed, TypeOK
<1>8. QED
  BY <1>2, <1>6, <1>7 DEF GoOn, Outcome

LEMMA ShapeInvNotify ==
  ASSUME ShapeInv, NextToNotify \/ notify_host
  PROVE  ShapeInv'
<1>1. /\ pc = "send" /\ IsNotify /\ ~IsUpdate
      /\ UNCHANGED <<zone, cached, pc, request, soa, exit, begun, lost, others>>
  BY DEF NextToNotify, notify_host, IsNotify, IsUpdate
<1>2. CASE NextToNotify
  <2> DEFINE n == Head(names)
  <2>1. names # <<>> /\ names' = Tail(names) /\ asked' = asked
    BY <1>2 DEF NextToNotify
  <2>2. n \in Servers /\ names' \in Seq(Servers)
    BY <2>1, RangeOfTail DEF ShapeInv, Typed
  <2>3. PICK found \in Resolved(n) :
          IF found \in {None, <<>>}
          THEN unresolved' = unresolved \union {n} /\ addresses' = <<>>
          ELSE unresolved' = unresolved /\ addresses' = found
    BY <1>2 DEF NextToNotify
  <2> HIDE DEF n
  <2>4. CASE n \in Literals
    <3>1. found = <<n>> /\ found # None /\ found # <<>>
      BY <2>3, <2>4, LiteralsAssumption DEF Resolved
    <3>2. unresolved' = unresolved /\ addresses' = <<n>>
      BY <2>3, <3>1
    <3>3. n \in Sockets \union Literals
      BY <2>4
    <3>4. addresses' \in Seq(Sockets \union Literals)
      BY <3>2, <3>3
    <3>5. TypeOK'
      BY <1>1, <2>1, <3>2 DEF ShapeInv, Typed, TypeOK, ZoneOK
    <3>6. QED
      BY <1>1, <2>2, <3>4, <3>5 DEF ShapeInv, Typed, Early, Parsed, NamesOnly, IsUpdate
  <2>5. CASE n \notin Literals
    <3>1. /\ unresolved' \subseteq Names \union {Bad}
          /\ addresses' = <<>> \/ (n \in Names /\ addresses' = Addresses[n])
      BY <2>2, <2>3, <2>5 DEF Servers, Resolved, LookupHost, ShapeInv, Typed, TypeOK
    <3>2. addresses' \in Seq(Sockets \union Literals)
      <4>1. <<>> \in Seq(Sockets \union Literals)
        OBVIOUS
      <4>2. QED
        BY ONLY <3>1, <4>1, AddressesOfName
    <3>3. TypeOK'
      BY <1>1, <2>1, <3>1 DEF ShapeInv, Typed, TypeOK, ZoneOK
    <3>4. QED
      BY <1>1, <2>2, <3>2, <3>3 DEF ShapeInv, Typed, Early, Parsed, NamesOnly, IsUpdate
  <2>6. QED
    BY <2>4, <2>5
<1>3. CASE notify_host
  <2>1. /\ addresses # <<>> /\ asked' = Append(asked, Head(addresses))
        /\ addresses' = Tail(addresses) /\ UNCHANGED <<names, unresolved>>
    BY <1>3 DEF notify_host
  <2>2. asked' \in Seq(Sockets \union Literals) /\ addresses' \in Seq(Sockets \union Literals)
    BY <2>1, RangeOfTail, RangeOfAppend DEF ShapeInv, Typed, TypeOK
  <2>3. TypeOK'
    BY <1>1, <2>1, <2>2 DEF ShapeInv, Typed, TypeOK, ZoneOK
  <2>4. QED
    BY <1>1, <2>1, <2>2, <2>3 DEF ShapeInv, Typed, Early, Parsed, NamesOnly, IsUpdate
<1>4. QED
  BY <1>2, <1>3

LEMMA ShapeInvOthers ==
  ASSUME ShapeInv, OthersChange
  PROVE  ShapeInv'
<1>1. PICK t \in Types : \E x \in Data[t] :
        zone' = [rrs |-> [zone.rrs EXCEPT ![t] = IF x \in @ THEN @ \ {x} ELSE @ \union {x}],
                 serial |-> (zone.serial + 1) % (2 * Cutoff)]
  BY DEF OthersChange
<1>2. PICK x \in Data[t] :
        zone' = [rrs |-> [zone.rrs EXCEPT ![t] = IF x \in @ THEN @ \ {x} ELSE @ \union {x}],
                 serial |-> (zone.serial + 1) % (2 * Cutoff)]
  BY <1>1
<1>3. zone.rrs \in Contents /\ (zone.serial + 1) % (2 * Cutoff) \in Serials
  BY NextSerial DEF ShapeInv, Typed, TypeOK, ZoneOK
<1> DEFINE new == [zone.rrs EXCEPT ![t] = IF x \in @ THEN @ \ {x} ELSE @ \union {x}]
<1>4. new \in Contents
  BY <1>3 DEF Contents
<1> HIDE DEF new
<1>5. ZoneOK'
  BY <1>2, <1>3, <1>4 DEF ZoneOK, new
<1>6. others' \in 0 .. MaxOthers
  BY DEF OthersChange, MaxOthers, ShapeInv, Typed, TypeOK
<1>7. UNCHANGED <<cached, pc, request, soa, names, addresses, exit, asked, unresolved, begun, lost>>
  BY DEF OthersChange
<1>8. TypeOK'
  BY <1>5, <1>6, <1>7 DEF ShapeInv, Typed, TypeOK
<1>9. QED
  BY <1>7, <1>8 DEF ShapeInv, Typed, Early, Parsed, NamesOnly, IsUpdate

LEMMA ShapeInvNext == SerialInv /\ ShapeInv /\ [Next]_vars => ShapeInv'
<1> SUFFICES ASSUME SerialInv, ShapeInv, [Next]_vars PROVE ShapeInv'
  OBVIOUS
<1>1. CASE QueryFails \/ Exhausted \/ AllNotified
  <2>1. /\ pc # "done" /\ End(exit') /\ exit' \in {"ok", "refused", "exhausted", "error"}
        /\ UNCHANGED <<zone, cached, request, soa, History>>
    BY <1>1 DEF QueryFails, Fail, Exhausted, AllNotified, End
  <2>2. QED
    BY <2>1, ShapeInvDone DEF ShapeInv, Typed, TypeOK, ZoneOK, History
<1>2. CASE UNCHANGED vars
  BY <1>2 DEF ShapeInv, Typed, TypeOK, ZoneOK, Early, Parsed, NamesOnly, IsUpdate, vars
<1>3. CASE Step
  BY <1>1, <1>3, ShapeInvRead, ShapeInvBuild, ShapeInvServer, ShapeInvSend, ShapeInvNotify
     DEF Step, UpdateStep, NotifyStep
<1>4. QED
  BY <1>2, <1>3, ShapeInvStart, ShapeInvOthers DEF Next

LEMMA ShapeInvAlways == Spec => []ShapeInv
<1>1. QED
  BY ShapeInvInit, ShapeInvNext, SerialInvAlways, PTL DEF Spec

(* The zone holds records of its types and a serial that is one; a command *)
(* that has ended says how, and only one that has; only addresses of the   *)
(* name servers and the servers on the command line are asked.             *)
THEOREM TypeCorrect == Spec => []TypeOK
<1>1. ShapeInv => TypeOK
  BY DEF ShapeInv, Typed
<1>2. QED
  BY <1>1, ShapeInvAlways, PTL

-----------------------------------------------------------------------------
(* The servers. Every one of the list is accounted for at every moment: it *)
(* is still to come, no address of it was found, or its addresses are      *)
(* among those that have been asked and those that are left. Until the     *)
(* first address is asked, the primary is the one that comes next.         *)

AskedOrLeft == Range(asked) \union Range(addresses)

PrimaryNext ==
  \/ addresses = <<>> /\ names # <<>> /\ Head(names) = Primary
  \/ addresses # <<>> /\ Head(addresses) \in Range(Addresses[Primary])

Listed ==
  pc = "send" /\ IsUpdate =>
    /\ \A n \in Range(begun.names) \ unresolved :
         n \in Range(names) \/ Range(Addresses[n]) \subseteq AskedOrLeft
    /\ asked = <<>> /\ Primary \in Range(begun.names) \ unresolved => PrimaryNext

Targets(server) == IF server \in Literals THEN {server} ELSE Range(Addresses[server])

Told ==
  pc = "send" /\ IsNotify =>
    \A server \in Range(request.servers) \ unresolved :
      server \in Range(names) \/ Targets(server) \subseteq AskedOrLeft

ServersInv == /\ Listed /\ Told
              /\ PrimaryFirst /\ ExhaustedMeansAllAsked /\ AllServersNotified

LEMMA ServersInvStart ==
  ASSUME ShapeInv, ServersInv, NEW r \in Requests, Start(r)
  PROVE  ServersInv'
<1>1. /\ asked' = <<>> /\ pc' # "done" /\ request' = r
      /\ pc' = "send" => r.command = "notify" /\ names' = r.servers
  BY DEF Start
<1>2. Listed'
  BY <1>1 DEF Listed, IsUpdate
<1>3. Told'
  BY <1>1 DEF Told, IsNotify
<1>4. PrimaryFirst' /\ ExhaustedMeansAllAsked' /\ AllServersNotified'
  BY <1>1 DEF PrimaryFirst, ExhaustedMeansAllAsked, AllServersNotified, Ended
<1>5. QED
  BY <1>2, <1>3, <1>4 DEF ServersInv

(* A step before the message is sent, and one that leaves the lists alone. *)
LEMMA ServersInvEarly ==
  ASSUME ShapeInv, ServersInv, pc \in {"soa", "ns", "build"},
         UNCHANGED <<request, asked, unresolved>>, pc' \in {"soa", "ns", "build", "done"},
         pc' = "done" => exit' = "error"
  PROVE  ServersInv'
<1>1. asked' = <<>> /\ request'.command # "notify"
  BY DEF ShapeInv, Early
<1>2. QED
  BY <1>1 DEF ServersInv, Listed, Told, PrimaryFirst, ExhaustedMeansAllAsked,
              AllServersNotified, Ended, IsNotify

LEMMA ServersInvBuilt ==
  ASSUME ShapeInv, ServersInv, Build, CanBuild(request, soa)
  PROVE  ServersInv'
<1>1. /\ pc = "build" /\ pc' = "send" /\ begun'.names = names
      /\ addresses' = (IF request.server = None THEN <<>> ELSE <<request.server>>)
      /\ UNCHANGED <<names, request, asked, unresolved>>
  BY DEF Build
<1>2. /\ asked' = <<>> /\ request'.command # "notify" /\ names \in Seq(Names)
      /\ Primary \in Range(names) => names[1] = Primary
      /\ request.server # None => names = <<>>
  BY <1>1 DEF ShapeInv, Early
<1>3. Primary \in Range(names) => PrimaryNext'
  <2>1. SUFFICES ASSUME Primary \in Range(names) PROVE PrimaryNext'
    OBVIOUS
  <2>2. names # <<>> /\ names' = names
    BY <1>1, <2>1, EmptyRange
  <2>3. Head(names') = Primary
    BY <1>2, <2>1, <2>2, RangeOfTail
  <2>4. addresses' = <<>>
    BY <1>1, <1>2, <2>2
  <2>5. QED
    BY <2>2, <2>3, <2>4 DEF PrimaryNext
<1>4. Listed'
  BY <1>1, <1>3 DEF Listed
<1>5. QED
  BY <1>1, <1>2, <1>4 DEF ServersInv, Told, PrimaryFirst, ExhaustedMeansAllAsked,
                          AllServersNotified, Ended, IsNotify

LEMMA ServersInvServer ==
  ASSUME ShapeInv, ServersInv, NextServer
  PROVE  ServersInv'
<1> DEFINE n == Head(names)
<1>1. /\ pc = "send" /\ IsUpdate /\ addresses = <<>> /\ names # <<>> /\ names \in Seq(Names)
      /\ UNCHANGED <<request, asked, begun>>
  BY DEF NextServer, ShapeInv, NamesOnly
<1>2. Range(names) = {n} \union Range(Tail(names))
  BY <1>1, RangeOfTail
<1>3. PICK found \in LookupHost(n) :
        /\ unresolved' = IF found \in {None, <<>>} THEN unresolved \union {n} ELSE unresolved
        /\ IF found = None THEN End("error")
           ELSE addresses' = found /\ names' = Tail(names) /\ UNCHANGED <<pc, exit>>
  BY DEF NextServer
<1>4. PrimaryFirst'
  BY <1>1, <1>3 DEF ServersInv, PrimaryFirst, IsUpdate
<1>5. ~IsNotify'
  BY <1>1 DEF IsNotify, IsUpdate
<1>6. CASE found = None
  <2>1. pc' = "done" /\ exit' = "error"
    BY <1>3, <1>6 DEF End
  <2>2. QED
    BY <1>4, <1>5, <2>1 DEF ServersInv, Listed, Told, ExhaustedMeansAllAsked,
                            AllServersNotified, Ended
<1>7. CASE found # None
  <2>1. addresses' = found /\ names' = Tail(names) /\ UNCHANGED <<pc, exit>>
    BY <1>3, <1>7
  <2>2. (found = <<>> /\ unresolved' = unresolved \union {n})
          \/ (found = Addresses[n] /\ found # <<>> /\ unresolved' = unresolved)
    BY <1>3, <1>7 DEF LookupHost
  <2>3. \A x \in Range(begun.names) \ unresolved :
          x \in Range(names) \/ Range(Addresses[x]) \subseteq Range(asked)
    BY <1>1, EmptyRange DEF ServersInv, Listed, AskedOrLeft
  <2> HIDE DEF n
  <2>4. ASSUME NEW x \in Range(begun.names) \ unresolved'
        PROVE  x \in Range(names') \/ Range(Addresses[x]) \subseteq AskedOrLeft'
    BY <1>1, <1>2, <2>1, <2>2, <2>3 DEF AskedOrLeft
  <2>5. ASSUME asked = <<>>, Primary \in Range(begun.names) \ unresolved'
        PROVE  PrimaryNext'
    <3>1. Primary \notin unresolved
      BY <2>2, <2>5
    <3>2. n = Primary
      BY <1>1, <2>5, <3>1 DEF ServersInv, Listed, PrimaryNext, n
    <3>3. addresses' = Addresses[Primary] /\ addresses' # <<>>
      BY <2>1, <2>2, <2>5, <3>2
    <3>4. Primary \in Names /\ Addresses[Primary] \in Seq(Sockets)
      BY <1>1, <3>2, RangeOfTail, AddressesOfName DEF n
    <3>5. Head(addresses') \in Range(Addresses[Primary])
      BY <3>3, <3>4, RangeOfTail
    <3>6. QED
      BY <3>3, <3>5 DEF PrimaryNext
  <2>6. Listed'
    BY <1>1, <2>4, <2>5 DEF Listed
  <2>7. QED
    BY <1>1, <1>4, <1>5, <2>1, <2>6 DEF ServersInv, Told, ExhaustedMeansAllAsked,
                                        AllServersNotified, Ended
<1>8. QED
  BY <1>6, <1>7

(* An address is asked: it goes from those left to those asked. *)
LEMMA AskedMoves ==
  ASSUME ShapeInv, addresses # <<>>, asked' = Append(asked, Head(addresses)),
         addresses' = Tail(addresses)
  PROVE  AskedOrLeft' = AskedOrLeft
<1>1. /\ Range(addresses) = {Head(addresses)} \union Range(Tail(addresses))
      /\ Head(addresses) \in Sockets \union Literals
  BY RangeOfTail DEF ShapeInv, Typed
<1>2. Range(asked') = Range(asked) \union {Head(addresses)}
  BY <1>1, RangeOfAppend DEF ShapeInv, Typed, TypeOK
<1>3. QED
  BY <1>1, <1>2 DEF AskedOrLeft

LEMMA ServersInvSend ==
  ASSUME ShapeInv, ServersInv, connect_and_send_request
  PROVE  ServersInv'
<1>1. /\ pc = "send" /\ IsUpdate /\ addresses # <<>> /\ asked' = Append(asked, Head(addresses))
      /\ UNCHANGED <<request, unresolved, begun>>
  BY DEF connect_and_send_request
<1>2. ~IsNotify' /\ IsUpdate'
  BY <1>1 DEF IsNotify, IsUpdate
<1>3. /\ asked \in Seq(Sockets \union Literals)
      /\ Head(addresses) \in Sockets \union Literals
  BY <1>1, RangeOfTail DEF ShapeInv, Typed, TypeOK
<1>4. /\ asked' # <<>>
      /\ asked'[1] = IF asked = <<>> THEN Head(addresses) ELSE asked[1]
  BY <1>1, <1>3
<1>5. PrimaryFirst'
  <2>1. CASE asked = <<>>
    BY <1>1, <1>4, <2>1 DEF ServersInv, Listed, PrimaryNext, PrimaryFirst
  <2>2. CASE asked # <<>>
    BY <1>1, <1>4, <2>2 DEF ServersInv, PrimaryFirst
  <2>3. QED
    BY <2>1, <2>2
<1>6. PICK answer \in Answers : GoOn(answer)
  BY DEF connect_and_send_request
<1>7. CASE addresses' = Tail(addresses) /\ UNCHANGED <<pc, names, exit>>
  <2>1. AskedOrLeft' = AskedOrLeft
    BY <1>1, <1>7, AskedMoves
  <2>2. Listed'
    BY <1>1, <1>4, <1>7, <2>1 DEF ServersInv, Listed
  <2>3. QED
    BY <1>1, <1>2, <1>5, <1>7, <2>2 DEF ServersInv, Told, ExhaustedMeansAllAsked,
                                        AllServersNotified, Ended
<1>8. CASE End("error") \/ End("ok") \/ End("refused")
  BY <1>2, <1>5, <1>8 DEF End, ServersInv, Listed, Told, ExhaustedMeansAllAsked,
                          AllServersNotified, Ended
<1>9. QED
  BY <1>6, <1>7, <1>8 DEF GoOn, Outcome

(* The last server has been asked at the last of its addresses. *)
LEMMA ServersInvEnd ==
  ASSUME ShapeInv, ServersInv, Exhausted \/ AllNotified
  PROVE  ServersInv'
<1>1. /\ pc = "send" /\ addresses = <<>> /\ names = <<>> /\ pc' = "done"
      /\ UNCHANGED <<request, asked, unresolved, begun>>
      /\ IsUpdate \/ IsNotify
  BY DEF Exhausted, AllNotified, End, History
<1>2. Range(names) = {} /\ AskedOrLeft = Range(asked)
  BY <1>1, EmptyRange DEF AskedOrLeft
<1>3. PrimaryFirst'
  BY <1>1 DEF ServersInv, PrimaryFirst, IsUpdate
<1>4. ExhaustedMeansAllAsked'
  BY <1>1, <1>2 DEF ServersInv, Listed, ExhaustedMeansAllAsked, Ended, IsUpdate
<1>5. AllServersNotified'
  <2>1. SUFFICES ASSUME IsNotify, NEW server \in Range(request.servers) \ unresolved
                 PROVE  IF server \in Literals THEN server \in Range(asked)
                        ELSE Range(Addresses[server]) \subseteq Range(asked)
    BY <1>1 DEF AllServersNotified, IsNotify
  <2>2. Targets(server) \subseteq Range(asked)
    BY <1>1, <1>2, <2>1 DEF ServersInv, Told
  <2>3. QED
    BY <2>2 DEF Targets
<1>6. QED
  BY <1>1, <1>3, <1>4, <1>5 DEF ServersInv, Listed, Told

LEMMA ServersInvNotify ==
  ASSUME ShapeInv, ServersInv, NextToNotify \/ notify_host
  PROVE  ServersInv'
<1>1. /\ pc = "send" /\ IsNotify /\ ~IsUpdate' /\ IsNotify' /\ UNCHANGED <<pc, request, exit, begun>>
  BY DEF NextToNotify, notify_host, IsNotify, IsUpdate
<1>2. Told' => ServersInv'
  BY <1>1 DEF ServersInv, Listed, PrimaryFirst, ExhaustedMeansAllAsked, AllServersNotified, Ended
<1>3. CASE NextToNotify
  <2> DEFINE n == Head(names)
  <2>1. names # <<>> /\ addresses = <<>> /\ names' = Tail(names) /\ asked' = asked
    BY <1>3 DEF NextToNotify
  <2>2. n \in Servers /\ Range(names) = {n} \union Range(names')
    BY <2>1, RangeOfTail DEF ShapeInv, Typed
  <2>3. PICK found \in Resolved(n) :
          IF found \in {None, <<>>}
          THEN unresolved' = unresolved \union {n} /\ addresses' = <<>>
          ELSE unresolved' = unresolved /\ addresses' = found
    BY <1>3 DEF NextToNotify
  <2> HIDE DEF n
  <2>4. \/ unresolved' = unresolved \union {n}
        \/ unresolved' = unresolved /\ Range(addresses') = Targets(n)
    <3>1. CASE n \in Literals
      <4>1. addresses' = <<n>> /\ unresolved' = unresolved
        BY <2>3, <3>1, LiteralsAssumption DEF Resolved
      <4>2. Range(<<n>>) = {n}
        BY DEF Range
      <4>3. QED
        BY <3>1, <4>1, <4>2 DEF Targets
    <3>2. CASE n \notin Literals
      BY <2>3, <3>2 DEF Resolved, LookupHost, Targets
    <3>3. QED
      BY <3>1, <3>2
  <2>5. \A x \in Range(request.servers) \ unresolved :
          x \in Range(names) \/ Targets(x) \subseteq Range(asked)
    BY <1>1, <2>1, EmptyRange DEF ServersInv, Told, AskedOrLeft
  <2>6. ASSUME NEW x \in Range(request.servers) \ unresolved'
        PROVE  x \in Range(names') \/ Targets(x) \subseteq AskedOrLeft'
    BY <2>1, <2>2, <2>4, <2>5 DEF AskedOrLeft
  <2>7. QED
    BY <1>1, <1>2, <2>6 DEF Told
<1>4. CASE notify_host
  <2>1. AskedOrLeft' = AskedOrLeft /\ UNCHANGED <<names, unresolved>>
    BY <1>4, AskedMoves DEF notify_host
  <2>2. Told'
    BY <1>1, <2>1 DEF ServersInv, Told
  <2>3. QED
    BY <1>2, <2>2
<1>5. QED
  BY <1>3, <1>4

LEMMA ServersInvNext == ShapeInv /\ ServersInv /\ [Next]_vars => ServersInv'
<1> SUFFICES ASSUME ShapeInv, ServersInv, [Next]_vars PROVE ServersInv'
  OBVIOUS
<1>1. CASE find_mname_and_soa \/ find_mname_and_zone_and_soa \/ QueryFails \/ determine_nsnames
           \/ (Build /\ ~CanBuild(request, soa))
  <2>1. /\ pc \in {"soa", "ns", "build"} /\ UNCHANGED <<request, asked, unresolved>>
        /\ pc' \in {"soa", "ns", "build", "done"}
        /\ pc' = "done" => exit' = "error"
    BY <1>1 DEF find_mname_and_soa, find_mname_and_zone_and_soa, AfterSoa, QueryFails, Fail,
                determine_nsnames, Build, End, History
  <2>2. QED
    BY <2>1, ServersInvEarly
<1>2. CASE OthersChange \/ UNCHANGED vars
  BY <1>2 DEF ServersInv, Listed, Told, PrimaryFirst, ExhaustedMeansAllAsked, AllServersNotified,
              AskedOrLeft, PrimaryNext, Ended, IsUpdate, IsNotify, OthersChange, vars
<1>3. CASE Step
  BY <1>1, <1>3, ServersInvBuilt, ServersInvServer, ServersInvSend, ServersInvEnd,
     ServersInvNotify DEF Step, UpdateStep, NotifyStep
<1>4. QED
  BY <1>2, <1>3, ServersInvStart DEF Next

LEMMA ServersInvAlways == Spec => []ServersInv
<1>1. Init => ServersInv
  BY DEF Init, ServersInv, Listed, Told, PrimaryFirst, ExhaustedMeansAllAsked,
         AllServersNotified, Ended, IsUpdate, IsNotify
<1>2. QED
  BY <1>1, ServersInvNext, ShapeInvAlways, PTL DEF Spec

(* The primary, if it is a name server an address of which was found, is   *)
(* the first that is asked, for any name servers, in any order.            *)
THEOREM PrimaryFirstAlways == Spec => []PrimaryFirst
<1>1. ServersInv => PrimaryFirst
  BY DEF ServersInv
<1>2. QED
  BY <1>1, ServersInvAlways, PTL

(* dnst update only gives up when it has asked every address it found.     *)
THEOREM ExhaustedMeansAllAskedAlways == Spec => []ExhaustedMeansAllAsked
<1>1. ServersInv => ExhaustedMeansAllAsked
  BY DEF ServersInv
<1>2. QED
  BY <1>1, ServersInvAlways, PTL

(* dnst notify tells every server it can find an address of, whichever     *)
(* others it cannot find.                                                  *)
THEOREM AllServersNotifiedAlways == Spec => []AllServersNotified
<1>1. ServersInv => AllServersNotified
  BY DEF ServersInv
<1>2. QED
  BY <1>1, ServersInvAlways, PTL

-----------------------------------------------------------------------------
(* The outcome. While a message goes round, and others let the zone be, it *)
(* is as it was when the message was made or has its change, however often *)
(* the message was handled; and as it was, unless an answer got lost.      *)

Between(z) ==
  /\ z.rrs \in {begun.zone.rrs, Meant(request, begun.zone.rrs)}
  /\ SendsSoa => z.serial \in request.rdata \union {begun.zone.serial}

Made(z) ==
  /\ z.rrs = Meant(request, begun.zone.rrs)
  /\ SendsSoa /\ soa = begun.zone.serial
       => \E s \in request.rdata : z.serial = s \/ Opposite(soa, s)

Counted == begun.others \in Nat /\ begun.others <= others

Sent ==
  pc = "send" /\ IsUpdate =>
    /\ Counted
    /\ OthersLetItBe => Between(zone) /\ (~lost => zone = begun.zone)

Closed == Ended("ok") \/ Ended("refused") => Counted

OutcomeInv == Sent /\ Closed /\ QuietMeansDone /\ RefusedMeansUnchanged

(* One server, that handles the message once. *)
LEMMA HandledOnce ==
  ASSUME SerialInv, ShapeInv, IsUpdate, pc = "send", NEW z \in Zones, NEW half \in BOOLEAN,
         NEW p, p = Process(create_update_message(request), z, half)
  PROVE  /\ p.zone \in Zones
         /\ p.rcode \in {"NOERROR", "REFUSED"}
         /\ p.rcode = "REFUSED" => p.zone = z
         /\ p.rcode = "NOERROR" => Wanted(request, z.rrs) /\ p.zone.rrs = Meant(request, z.rrs)
         /\ Between(z) => Between(p.zone)
         /\ Between(z) /\ p.rcode = "NOERROR" => Made(p.zone)
<1>1. /\ request \in Requests /\ request.command # "notify"
      /\ CanParse(request.prerequisites) /\ CanBuild(request, soa) /\ soa \in Serials
  BY DEF SerialInv, Known, Read, Checked, ShapeInv, Parsed, IsUpdate
<1>2. z.rrs \in Contents
  BY DEF Zones
<1>3. p.zone \in Zones
  BY <1>1, ZoneAfter
<1>4. Accepted(request, p, z) \/ Refused(p, z)
  BY <1>1, <1>2, ProcessOutcome
<1>5. CASE Refused(p, z)
  BY <1>3, <1>5 DEF Refused
<1>6. CASE Accepted(request, p, z)
  <2>1. /\ p.rcode = "NOERROR" /\ Wanted(request, z.rrs) /\ p.zone.rrs = Meant(request, z.rrs)
        /\ SendsSoa => /\ p.zone.serial \in request.rdata \union {z.serial}
                       /\ (\E s \in request.rdata : Increment(z.serial, s))
                            => p.zone.serial \in request.rdata
    BY <1>6 DEF Accepted, SendsSoa
  <2>2. ASSUME Between(z)
        PROVE  Between(p.zone) /\ Made(p.zone)
    <3>1. p.zone.rrs = Meant(request, begun.zone.rrs)
      BY <1>1, <2>1, <2>2, MeantTwice DEF Between
    <3>2. Between(p.zone)
      BY <2>1, <2>2, <3>1 DEF Between
    <3>3. ASSUME SendsSoa, soa = begun.zone.serial
          PROVE  \E s \in request.rdata : p.zone.serial = s \/ Opposite(soa, s)
      <4>1. request.rdata # {} /\ Bad \notin request.rdata
            /\ \A s \in request.rdata : verify_soa_serial_increment(soa, s)
        BY <1>1, <3>3 DEF SendsSoa, CanBuild, CanAdd
      <4>2. request.rdata \subseteq Serials
        BY <1>1, <3>3, <4>1, RequestsAssumption DEF SendsSoa
      <4>3. PICK s \in request.rdata : s \in Serials /\ verify_soa_serial_increment(soa, s)
        BY <4>1, <4>2
      <4>4. Increment(soa, s) \/ Opposite(soa, s)
        BY <1>1, <4>3, SerialComparison
      <4>5. CASE z.serial \in request.rdata
        BY <2>1, <3>3, <4>5
      <4>6. CASE z.serial = soa
        BY <2>1, <3>3, <4>3, <4>4, <4>6
      <4>7. QED
        BY <2>2, <3>3, <4>5, <4>6 DEF Between
    <3>4. QED
      BY <3>1, <3>2, <3>3 DEF Made
  <2>3. QED
    BY <1>3, <2>1, <2>2
<1>7. QED
  BY <1>4, <1>5, <1>6

(* Whatever becomes of the message. *)
LEMMA OutcomeExchanged ==
  ASSUME SerialInv, ShapeInv, IsUpdate, pc = "send", NEW answer,
         Exchanged(create_update_message(request), answer)
  PROVE  /\ ~lost' => ~lost
         /\ ~lost' /\ answer # "NOERROR" => zone' = zone
         /\ Between(zone) => Between(zone')
         /\ Between(zone) /\ answer = "NOERROR" => Made(zone')
<1> DEFINE message == create_update_message(request)
<1>1. zone \in Zones /\ lost \in BOOLEAN
  BY DEF ShapeInv, Typed, TypeOK, ZoneOK, Zones
<1>2. CASE NotDelivered(answer) \/ NotHandled(answer)
  BY <1>2, NotIn DEF NotDelivered, NotHandled
<1>3. ASSUME NEW half \in BOOLEAN, NEW p, p = Process(message, zone, half),
             zone' = p.zone, p.rcode = answer \/ (lost' /\ answer # "NOERROR")
      PROVE  /\ ~lost' /\ answer # "NOERROR" => zone' = zone
             /\ Between(zone) => Between(zone')
             /\ Between(zone) /\ answer = "NOERROR" => Made(zone')
  BY <1>1, <1>3, HandledOnce
<1>4. ASSUME NEW half \in BOOLEAN, NEW p, p = Process(message, Process(message, zone, half).zone, half),
             zone' = p.zone, p.rcode = answer, lost' = TRUE
      PROVE  /\ Between(zone) => Between(zone')
             /\ Between(zone) /\ answer = "NOERROR" => Made(zone')
  <2>1. PICK z : z = Process(message, zone, half).zone
    OBVIOUS
  <2>2. z \in Zones /\ (Between(zone) => Between(z))
    BY <1>1, <2>1, HandledOnce
  <2>3. p = Process(message, z, half)
    BY <1>4, <2>1
  <2>4. /\ Between(z) => Between(p.zone)
        /\ Between(z) /\ p.rcode = "NOERROR" => Made(p.zone)
    BY <2>2, <2>3, HandledOnce
  <2>5. QED
    BY <1>4, <2>2, <2>4
<1> HIDE DEF message
<1>5. CASE Handled(message, answer)
  BY <1>3, <1>5 DEF Handled
<1>6. CASE AnswerLost(message, answer)
  BY <1>3, <1>6, NotIn DEF AnswerLost
<1>7. CASE HandledTwice(message, answer)
  BY <1>4, <1>7 DEF HandledTwice
<1>8. QED
  BY <1>2, <1>5, <1>6, <1>7 DEF Exchanged, message

(* A command that ends without an answer has nothing to account for. *)
LEMMA OutcomeInvSilent ==
  ASSUME pc' # "send" \/ ~IsUpdate', pc' = "done" /\ IsUpdate' => exit' \in {"error", "exhausted"}
  PROVE  OutcomeInv'
BY DEF OutcomeInv, Sent, Closed, QuietMeansDone, RefusedMeansUnchanged, Ended

LEMMA OutcomeInvBuilt ==
  ASSUME ShapeInv, Build, CanBuild(request, soa)
  PROVE  OutcomeInv'
<1>1. /\ pc' = "send" /\ begun' = [zone |-> zone, names |-> names, others |-> others]
      /\ UNCHANGED <<zone, request, lost, others>>
  BY DEF Build
<1>2. others \in Nat
  BY DEF ShapeInv, Typed, TypeOK, MaxOthers
<1>3. begun'.zone = zone' /\ begun'.others = others'
  BY <1>1
<1>4. Between(zone)'
  BY <1>3 DEF Between
<1>5. Counted'
  BY <1>1, <1>2, <1>3 DEF Counted
<1>6. QED
  BY <1>1, <1>3, <1>4, <1>5 DEF OutcomeInv, Sent, Closed, QuietMeansDone,
                                RefusedMeansUnchanged, Ended

LEMMA OutcomeInvServer ==
  ASSUME OutcomeInv, NextServer
  PROVE  OutcomeInv'
<1>1. /\ pc = "send" /\ IsUpdate /\ UNCHANGED <<zone, request, soa, begun, lost, others>>
      /\ pc' = "send" \/ (pc' = "done" /\ exit' = "error")
  BY DEF NextServer, End
<1>2. QED
  BY <1>1 DEF OutcomeInv, Sent, Closed, QuietMeansDone, RefusedMeansUnchanged, Ended,
              Counted, OthersLetItBe, Between, SendsSoa, IsUpdate

LEMMA OutcomeInvSend ==
  ASSUME SerialInv, ShapeInv, OutcomeInv, connect_and_send_request
  PROVE  OutcomeInv'
<1>1. pc = "send" /\ IsUpdate /\ UNCHANGED <<request, soa, begun, others>>
  BY DEF connect_and_send_request
<1>2. PICK answer \in Answers : Exchanged(create_update_message(request), answer) /\ GoOn(answer)
  BY DEF connect_and_send_request
<1>3. /\ ~lost' => ~lost
      /\ ~lost' /\ answer # "NOERROR" => zone' = zone
      /\ Between(zone) => Between(zone')
      /\ Between(zone) /\ answer = "NOERROR" => Made(zone')
  BY <1>1, <1>2, OutcomeExchanged
<1>4. Counted' /\ (OthersLetItBe' => OthersLetItBe) /\ (IsUpdate' <=> IsUpdate)
  BY <1>1 DEF OutcomeInv, Sent, Counted, OthersLetItBe, IsUpdate
<1>5. /\ (Between(zone) => Between(zone)')
      /\ (Between(zone) /\ answer = "NOERROR" => Made(zone)')
  BY <1>1, <1>3 DEF Between, Made, SendsSoa, IsUpdate
<1>6. OthersLetItBe => Between(zone) /\ (~lost => zone = begun.zone)
  BY <1>1 DEF OutcomeInv, Sent
<1>7. CASE answer = "NOERROR"
  <2>1. Final(answer)
    BY <1>7, NotIn DEF Final, Unable
  <2>2. pc' = "done" /\ exit' = "ok"
    BY <1>2, <1>7, <2>1 DEF GoOn, Outcome, End
  <2>3. QuietMeansDone'
    BY <1>4, <1>5, <1>6, <1>7 DEF QuietMeansDone, Made
  <2>4. QED
    BY <1>4, <2>2, <2>3 DEF OutcomeInv, Sent, Closed, RefusedMeansUnchanged, Ended
<1>8. CASE answer # "NOERROR" /\ Final(answer)
  <2>1. pc' = "done" /\ exit' = "refused"
    BY <1>2, <1>8 DEF GoOn, Outcome, End
  <2>2. RefusedMeansUnchanged'
    BY <1>1, <1>3, <1>4, <1>6, <1>8 DEF RefusedMeansUnchanged
  <2>3. QED
    BY <1>4, <2>1, <2>2 DEF OutcomeInv, Sent, Closed, QuietMeansDone, Ended
<1>9. CASE answer # "NOERROR" /\ ~Final(answer)
  <2>1. (pc' = "done" /\ exit' = "error") \/ pc' = pc
    BY <1>2, <1>9 DEF GoOn, End
  <2>2. Sent'
    BY <1>1, <1>3, <1>4, <1>5, <1>6, <1>9 DEF Sent
  <2>3. QED
    BY <1>1, <2>1, <2>2 DEF OutcomeInv, Closed, QuietMeansDone, RefusedMeansUnchanged, Ended
<1>10. QED
  BY <1>7, <1>8, <1>9

(* What others do, they do while nothing is claimed any more. *)
LEMMA OutcomeInvOthers ==
  ASSUME ShapeInv, OutcomeInv, OthersChange
  PROVE  OutcomeInv'
<1>1. others' = others + 1 /\ UNCHANGED <<pc, request, exit, begun>> /\ others \in Nat
  BY DEF OthersChange, ShapeInv, Typed, TypeOK, MaxOthers
<1>2. Counted => Counted' /\ ~OthersLetItBe'
  BY <1>1 DEF Counted, OthersLetItBe
<1>3. QED
  BY <1>1, <1>2 DEF OutcomeInv, Sent, Closed, QuietMeansDone, RefusedMeansUnchanged, Ended, IsUpdate

LEMMA OutcomeInvNext == SerialInv /\ ShapeInv /\ OutcomeInv /\ [Next]_vars => OutcomeInv'
<1> SUFFICES ASSUME SerialInv, ShapeInv, OutcomeInv, [Next]_vars PROVE OutcomeInv'
  OBVIOUS
<1>1. ASSUME NEW r \in Requests, Start(r)
      PROVE  OutcomeInv'
  <2>1. pc' # "done" /\ (pc' = "send" => ~IsUpdate')
    BY <1>1 DEF Start, IsUpdate
  <2>2. QED
    BY <2>1, OutcomeInvSilent
<1>2. CASE find_mname_and_soa \/ find_mname_and_zone_and_soa \/ QueryFails \/ determine_nsnames
           \/ (Build /\ ~CanBuild(request, soa)) \/ Exhausted
  <2>1. pc' # "send" /\ (pc' = "done" => exit' \in {"error", "exhausted"})
    BY <1>2 DEF find_mname_and_soa, find_mname_and_zone_and_soa, AfterSoa, QueryFails, Fail,
                determine_nsnames, Build, Exhausted, End
  <2>2. QED
    BY <2>1, OutcomeInvSilent
<1>3. CASE NotifyStep
  <2>1. ~IsUpdate'
    BY <1>3 DEF NotifyStep, NextToNotify, notify_host, AllNotified, IsNotify, IsUpdate
  <2>2. QED
    BY <2>1, OutcomeInvSilent
<1>4. CASE UNCHANGED vars
  BY <1>4 DEF OutcomeInv, Sent, Closed, QuietMeansDone, RefusedMeansUnchanged, Ended, Counted,
              OthersLetItBe, Between, SendsSoa, IsUpdate, vars
<1>5. CASE Step
  BY <1>2, <1>3, <1>5, OutcomeInvBuilt, OutcomeInvServer, OutcomeInvSend DEF Step, UpdateStep
<1>6. QED
  BY <1>1, <1>4, <1>5, OutcomeInvOthers DEF Next

LEMMA OutcomeInvAlways == Spec => []OutcomeInv
<1>1. Init => OutcomeInv
  BY DEF Init, OutcomeInv, Sent, Closed, QuietMeansDone, RefusedMeansUnchanged, Ended, IsUpdate
<1>2. QED
  BY <1>1, OutcomeInvNext, SerialInvAlways, ShapeInvAlways, PTL DEF Spec

(* The command is quiet only if the zone has what was asked for, for every *)
(* request and every zone, though the message may have been handled on the *)
(* way without an answer, or more than once.                               *)
THEOREM QuietMeansDoneAlways == Spec => []QuietMeansDone
<1>1. OutcomeInv => QuietMeansDone
  BY DEF OutcomeInv
<1>2. QED
  BY <1>1, OutcomeInvAlways, PTL

(* A refusal is the truth, unless an answer was lost before it.            *)
THEOREM RefusedMeansUnchangedAlways == Spec => []RefusedMeansUnchanged
<1>1. OutcomeInv => RefusedMeansUnchanged
  BY DEF OutcomeInv
<1>2. QED
  BY <1>1, OutcomeInvAlways, PTL

(* A message changes the name once, also when it is handled twice.         *)
LEMMA ExchangedAsAsked ==
  ASSUME SerialInv, ShapeInv, IsUpdate, pc = "send", NEW answer,
         Exchanged(create_update_message(request), answer), zone'.rrs # zone.rrs
  PROVE  Wanted(request, zone.rrs) /\ zone'.rrs = Meant(request, zone.rrs)
<1> DEFINE message == create_update_message(request)
<1>1. zone \in Zones /\ request \in Requests /\ request.command # "notify"
  BY DEF ShapeInv, Typed, TypeOK, ZoneOK, Zones, SerialInv, Known, IsUpdate
<1>2. ASSUME NEW half \in BOOLEAN, zone' = Process(message, zone, half).zone
      PROVE  Wanted(request, zone.rrs) /\ zone'.rrs = Meant(request, zone.rrs)
  BY <1>1, <1>2, HandledOnce
<1>3. ASSUME NEW half \in BOOLEAN,
             zone' = Process(message, Process(message, zone, half).zone, half).zone
      PROVE  Wanted(request, zone.rrs) /\ zone'.rrs = Meant(request, zone.rrs)
  <2>1. PICK p : p = Process(message, zone, half)
    OBVIOUS
  <2>2. PICK z : z = p.zone
    OBVIOUS
  <2>3. PICK q : q = Process(message, z, half)
    OBVIOUS
  <2>4. zone' = q.zone
    BY <1>3, <2>1, <2>2, <2>3
  <2>5. /\ z \in Zones /\ p.rcode \in {"NOERROR", "REFUSED"}
        /\ p.rcode = "REFUSED" => z = zone
        /\ p.rcode = "NOERROR" => Wanted(request, zone.rrs) /\ z.rrs = Meant(request, zone.rrs)
    BY <1>1, <2>1, <2>2, HandledOnce
  <2>6. /\ q.rcode \in {"NOERROR", "REFUSED"}
        /\ q.rcode = "REFUSED" => q.zone = z
        /\ q.rcode = "NOERROR" => Wanted(request, z.rrs) /\ q.zone.rrs = Meant(request, z.rrs)
    BY <1>1, <2>3, <2>5, HandledOnce
  <2>7. Meant(request, Meant(request, zone.rrs)) = Meant(request, zone.rrs)
    BY <1>1, MeantTwice
  <2>8. QED
    BY <2>4, <2>5, <2>6, <2>7
<1> HIDE DEF message
<1>4. CASE NotDelivered(answer) \/ NotHandled(answer)
  BY <1>4 DEF NotDelivered, NotHandled
<1>5. CASE Handled(message, answer)
  BY <1>2, <1>5 DEF Handled
<1>6. CASE AnswerLost(message, answer)
  BY <1>2, <1>6 DEF AnswerLost
<1>7. CASE HandledTwice(message, answer)
  BY <1>3, <1>7 DEF HandledTwice
<1>8. QED
  BY <1>4, <1>5, <1>6, <1>7 DEF Exchanged, message

(* Nothing dnst does changes the name but an update whose prerequisites    *)
(* held just then, and it changes it to what the command line says.        *)
THEOREM ChangesAsAskedAlways == Spec => ChangesAsAsked
<1>1. SerialInv /\ ShapeInv /\ [Next]_vars
        => [zone'.rrs # zone.rrs /\ others' = others
              => Wanted(request, zone.rrs) /\ zone'.rrs = Meant(request, zone.rrs)]_vars
  <2> SUFFICES ASSUME SerialInv, ShapeInv, Next, zone'.rrs # zone.rrs, others' = others
               PROVE  Wanted(request, zone.rrs) /\ zone'.rrs = Meant(request, zone.rrs)
    BY DEF vars
  <2>1. ~OthersChange
    BY DEF OthersChange, ShapeInv, Typed, TypeOK, MaxOthers
  <2>2. connect_and_send_request
    BY <2>1 DEF Next, Start, Step, UpdateStep, NotifyStep, find_mname_and_soa,
         find_mname_and_zone_and_soa, QueryFails, Fail, determine_nsnames, Build, NextServer,
         Exhausted, NextToNotify, notify_host, AllNotified, History
  <2>3. QED
    BY <2>2, ExchangedAsAsked DEF connect_and_send_request
<1>2. QED
  BY <1>1, SerialInvAlways, ShapeInvAlways, PTL DEF Spec, ChangesAsAsked
=============================================================================
