-------------------------------- MODULE Dns --------------------------------
(***************************************************************************)
(* The DNS around keyset, as far as its key rolls depend on it: the        *)
(* authoritative servers of the zone and of its parent, and the caches of  *)
(* the resolvers. None of it is in the repository; keyset queries it       *)
(* (report_dnskey_propagated, report_ds_propagated, check_zone in          *)
(* src/commands/keyset/cmd.rs).                                            *)
(*                                                                         *)
(* For the DNSKEY RRset, the DS RRset and the RRSIGs of the rest of the    *)
(* zone: the latest version, the versions some authoritative server still  *)
(* answers with, and the versions that are only left in caches with the    *)
(* time they can still live there. Propagation is unordered and may take   *)
(* any time.                                                               *)
(***************************************************************************)
EXTENDS Naturals

CONSTANT
  \* @type: the TTL of every RRset, in ticks.
  TTL

ASSUME TtlAssumption == TTL \in Nat \ {0}

VARIABLES
  latest,   \* kind -> the version that was published last
  served,   \* kind -> versions that an authoritative server answers with
  cached    \* kind -> (version no server answers with -> ticks left in caches)

dnsVars == <<latest, served, cached>>

Kinds == {"dnskey", "ds", "rrsig"}

(* The versions a resolver can be using. *)
Visible(kind) == served[kind] \union DOMAIN cached[kind]

(* Every server answers with the latest version: what keyset checks. *)
Propagated(kind, version) == served[kind] = {version}

DnsInit(first) ==
  /\ latest = first
  /\ served = [kind \in Kinds |-> {first[kind]}]
  /\ cached = [kind \in Kinds |-> [v \in {} |-> 0]]

(* New versions, one for each kind, reach the first servers. *)
Publish(versions) ==
  /\ latest' = versions
  /\ served' = [kind \in Kinds |-> served[kind] \union {versions[kind]}]
  /\ cached' = [kind \in Kinds |->
                  [v \in DOMAIN cached[kind] \ {versions[kind]} |-> cached[kind][v]]]

(* The last server that answered with an outdated version is updated. *)
Propagate(kind) ==
  \E v \in served[kind] \ {latest[kind]} :
    /\ served' = [served EXCEPT ![kind] = @ \ {v}]
    /\ cached' = [cached EXCEPT ![kind] =
                    [w \in DOMAIN @ \union {v} |-> IF w = v THEN TTL ELSE @[w]]]
    /\ UNCHANGED latest

(* A tick passes: cache entries whose time is up are gone. *)
Age ==
  /\ cached' = [kind \in Kinds |->
                  [v \in {w \in DOMAIN cached[kind] : cached[kind][w] > 1} |->
                     cached[kind][v] - 1]]
  /\ UNCHANGED <<latest, served>>
=============================================================================
