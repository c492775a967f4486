--------------------------- MODULE MCUpdateNotify ---------------------------
(* UpdateNotify on a small instance: four serials, three addresses.        *)
EXTENDS UpdateNotify

CONSTANTS prim, sec, x1, x2, y1, a1, a2, b1

SomeData == [A |-> {a1, a2}, AAAA |-> {b1}]

SomeAddresses == (prim :> <<x1, x2>>) @@ (sec :> <<y1>>)

No == [rrset_exists |-> {}, rrset_exists_exact |-> {}, rrset_non_existent |-> {},
       name_in_use |-> {}, name_not_in_use |-> {}]

Asked == {No, [No EXCEPT !.rrset_exists = {Bad}],
          [No EXCEPT !.rrset_exists = {"A"}],
          [No EXCEPT !.rrset_exists_exact = {<<"A", a1>>, <<"A", a2>>}],
          [No EXCEPT !.rrset_non_existent = {"A"}],
          [No EXCEPT !.name_in_use = {"here"}, !.rrset_non_existent = {"AAAA"}],
          [No EXCEPT !.name_not_in_use = {"here"}]}

Line(command, zone_given, server, prerequisites, action, rtype, rdata) ==
  [command |-> command, zone_given |-> zone_given, server |-> server,
   prerequisites |-> prerequisites, action |-> action, rtype |-> rtype, rdata |-> rdata]

SomeRequests ==
  {Line("update", FALSE, y1, q, "add", "A", {a1}) : q \in Asked}
    \union {Line("update", FALSE, None, q, "add", "A", {a1}) : q \in {No, [No EXCEPT !.rrset_non_existent = {"A"}]}}
    \union {Line("update", FALSE, y1, No, "add", "A", d) : d \in {{}, {Bad}}}
    \union {Line("update", FALSE, x1, No, "delete", "A", d) : d \in {{}, {a1}, {Bad}}}
    \union {Line("update", FALSE, x1, No, "clear", None, {}),
            Line("update", FALSE, x1, No, "delete", "ANY", {})}
    \union {Line("update", g, x1, No, "add", "SOA", {n}) : g \in BOOLEAN, n \in Serials}
    \union {Line("ldns-update", TRUE, None, No, "ip", "AAAA", {b1}),
            Line("ldns-update", FALSE, None, No, "none", None, {}),
            [command |-> "notify", servers |-> <<y1, Bad, prim, sec>>]}
=============================================================================
