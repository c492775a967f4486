------------------------------ MODULE KeyStore ------------------------------
(***************************************************************************)
(* The state file, the keys it names and the HSMs and credentials they     *)
(* need: KeyObjects and KmipServers together. What must stay consistent    *)
(* when an invocation can stop between any two of its steps.               *)
(***************************************************************************)
EXTENDS KeyObjects, KmipServers

vars == <<invocationVars, autoremove>>

Init ==
  /\ state = [keys    |-> [k \in {} |-> {}],
              servers |-> [s \in {} |-> {}],
              default |-> None]
  /\ ws = state
  /\ todo = <<>>
  /\ kept = [k \in {} |-> {}]
  /\ credentials = [p \in {} |-> {}]
  /\ failures = 0
  /\ owned = {} /\ lost = {} /\ hurt = {} /\ upset = {}
  /\ autoremove \in BOOLEAN

Invocations == (Running \/ Disturbed) /\ UNCHANGED autoremove

KeyCommands ==
  \/ StartRoll \/ RefuseRoll \/ Cron \/ RollDone
  \/ \E k \in Keys, a, b \in BOOLEAN : Import(k, a, b) \/ RemoveKey(k, a, b)

KmipCommands == (\E s \in Servers : kmip_command(s)) /\ UNCHANGED autoremove

Next == Invocations \/ KeyCommands \/ KmipCommands \/ Keygen \/ OtherKey

Spec == Init /\ [][Next]_vars

-----------------------------------------------------------------------------
StateFile(s) ==
  /\ DOMAIN s = {"keys", "servers", "default"}
  /\ KeysOf(s) \subseteq Keys
  /\ \A k \in KeysOf(s) : s.keys[k] \in Key
  /\ DOMAIN s.servers \subseteq Servers
  /\ \A t \in DOMAIN s.servers : s.servers[t] \in Paths \union {None}
  /\ s.default \in Servers \union {None}

(* The types of the variables. Between invocations nothing is pending: what*)
(* the next command starts from is what the state file says.               *)
TypeOK ==
  /\ StateFile(state) /\ StateFile(ws)
  /\ DOMAIN kept \subseteq Keys
  /\ \A k \in DOMAIN kept :
       kept[k] \in [parts : (SUBSET Parts) \ {{}}, written : BOOLEAN]
  /\ DOMAIN credentials \subseteq Paths
  /\ \A p \in DOMAIN credentials : credentials[p] \subseteq Servers \union {Garbage}
  /\ failures \in 0 .. MaxFailures
  /\ upset \subseteq Servers
  /\ Idle => ws = state /\ lost = {}
  /\ owned \subseteq Keys /\ lost \subseteq Keys /\ hurt \subseteq Keys

(* Every key is in a file or on a server keyset knows, and so is the       *)
(* default server: remove_kmip_server refuses to take away a server in     *)
(* use, without which its keys could be neither used nor removed.          *)
ServersKnown(s) ==
  /\ \A k \in KeysOf(s) : k[1] \in DOMAIN s.servers \union {"file"}
  /\ s.default \in DOMAIN s.servers \union {None}

KeysOfKnownServers == ServersKnown(state)

(* A key the state file names can be used, its parts are there and have    *)
(* been written, unless an invocation that wanted to remove it failed.     *)
KeysUsable ==
  Idle =>
    \A k \in KeysOf(state) \ hurt :
      /\ \A part \in PartsOf(state.keys[k]) : Has(k, part)
      /\ kept[k].written

(* What keyset made, or was given to own, does not stay behind unnamed (a  *)
(* private key that nobody knows of), unless an invocation failed, or a    *)
(* key was given up: neither when a roll is refused, nor in remove-key, nor*)
(* in autoremove.                                                          *)
NoOrphan ==
  Idle => owned \subseteq KeysOf(state)

(* Keys of others stay: without autoremove, keyset removes only what it    *)
(* made itself or was given with --coupled. (With autoremove, cron removes *)
(* decoupled keys too, which the manual says it does not.)                 *)
OthersKept ==
  [][~autoremove => \A k \in DOMAIN kept \ owned :
       k \in DOMAIN kept' /\ kept[k].parts \subseteq kept'[k].parts]_vars

(* Where the state file says a server's credentials are, they are: unless  *)
(* the last command that changed them failed. No command about one server  *)
(* harms another that shares its file.                                     *)
CredentialsKept ==
  Idle =>
    \A s \in DOMAIN state.servers \ upset :
      LET p == state.servers[s]
      IN  p # None => p \in DOMAIN credentials /\ s \in credentials[p]
=============================================================================
