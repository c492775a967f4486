------------------------------- MODULE Notify -------------------------------
(***************************************************************************)
(* dnst notify (src/commands/notify.rs): tell each server on the command   *)
(* line, at each of its addresses, that the zone has changed. What goes    *)
(* wrong with one is a warning.                                            *)
(*   Literals  the servers given as an IP address                          *)
(***************************************************************************)
EXTENDS Exchange

CONSTANT Literals

ASSUME LiteralsAssumption ==
  /\ \A l \in Literals : <<l>> # None
  /\ \A r \in Requests : r.command = "notify" =>
       r.servers \in Seq(Names \union Literals \union {Bad})

IsNotify == request # None /\ request.command = "notify"

(* A server that is no IP address is a name, or nothing that can be one.   *)
Resolved(server) ==
  IF server \in Literals THEN {<<server>>}
  ELSE IF server = Bad THEN {None}
  ELSE LookupHost(server)

(* Mutant: a server without addresses ends the command. *)
StopAtUnknown ==
  /\ pc = "send" /\ IsNotify /\ addresses = <<>> /\ names # <<>>
  /\ \E found \in Resolved(Head(names)) :
       IF found \in {None, <<>>}
       THEN unresolved' = unresolved \union {Head(names)} /\ End("ok")
       ELSE addresses' = found /\ names' = Tail(names) /\ UNCHANGED <<pc, exit, unresolved>>
  /\ UNCHANGED <<zone, cached, request, soa, asked, begun, lost, others>>

NextToNotify ==
  /\ pc = "send" /\ IsNotify /\ addresses = <<>> /\ names # <<>>
  /\ \E found \in Resolved(Head(names)) :
       IF found \in {None, <<>>}
       THEN unresolved' = unresolved \union {Head(names)} /\ addresses' = <<>>
       ELSE unresolved' = unresolved /\ addresses' = found
  /\ names' = Tail(names)
  /\ UNCHANGED <<zone, cached, pc, request, soa, exit, asked, begun, lost, others>>

(* notify_host: an answer is printed and a missing one warned about; what  *)
(* the server does with the message is not followed here.                  *)
notify_host ==
  /\ pc = "send" /\ IsNotify /\ addresses # <<>>
  /\ asked' = Append(asked, Head(addresses))
  /\ addresses' = Tail(addresses)
  /\ UNCHANGED <<zone, cached, pc, request, soa, names, exit, unresolved, begun, lost, others>>

AllNotified ==
  /\ pc = "send" /\ IsNotify /\ addresses = <<>> /\ names = <<>>
  /\ End("ok")
  /\ UNCHANGED <<zone, cached, request, soa, History>>

NotifyStep == NextToNotify \/ notify_host \/ AllNotified
=============================================================================
