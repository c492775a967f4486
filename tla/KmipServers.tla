---------------------------- MODULE KmipServers ----------------------------
(***************************************************************************)
(* keyset kmip: the KMIP servers in the state file and the files their     *)
(* credentials are in (src/commands/keyset/kmip.rs).                       *)
(***************************************************************************)
EXTENDS Invocation

Disable == state.default # None /\ Commit([state EXCEPT !.default = None])

SetDefaultServer(s) ==
  /\ s \in DOMAIN state.servers /\ state.default # s
  /\ Commit([state EXCEPT !.default = s])

(* The server in the state, with the path of its credentials; an only      *)
(* server is made the default.                                             *)
WithServer(s, path, default) ==
  [state EXCEPT !.servers = Override(@, {s}, path),
                !.default = IF default /\ DOMAIN state.servers \ {s} = {} THEN s ELSE @]

(* add-server: without credentials, with new ones, or with ones that are   *)
(* in the file. Looking for them there makes an empty file if need be.     *)
AddServer(s, path, username, pending) ==
  /\ s \notin DOMAIN state.servers /\ Room(1)
  /\ IF path = None THEN ~username /\ Commit(WithServer(s, None, ~pending))
     ELSE IF username
     THEN /\ s \notin In(path)
          /\ Begin(WithServer(s, path, ~pending), <<Insert(path, s), WriteState>>)
     ELSE /\ Readable(path) /\ s \in In(path)
          /\ Commit(WithServer(s, path, ~pending))

AddServerRefused(path) ==
  /\ Idle /\ path \notin DOMAIN credentials
  /\ credentials' = Override(credentials, {path}, {})
  /\ UNCHANGED <<state, ws, todo, kept, failures, owned, lost, hurt, upset>>

(* Mutant: the file goes even if it has credentials of other servers. *)
TakeAllSteps(path, s) ==
  IF path = None THEN <<>> ELSE <<Take(path, s), Unlink(path)>>

(* remove_kmip_client_credentials: a file that is left empty is removed. *)
TakeSteps(path, s) ==
  IF path = None THEN <<>>
  ELSE IF In(path) = {s} THEN <<Take(path, s), Unlink(path)>> ELSE <<Take(path, s)>>

(* Mutant: keys that use the server are not looked for. *)
RemoveServerInUse(s) ==
  /\ s \in DOMAIN state.servers /\ state.default # s
  /\ Begin([state EXCEPT !.servers = Restrict(@, DOMAIN @ \ {s})],
           Append(TakeSteps(state.servers[s], s), WriteState))

RemoveServer(s) ==
  /\ s \in DOMAIN state.servers /\ state.default # s
  /\ \A k \in KeysOf(state) : k[1] # s
  /\ Begin([state EXCEPT !.servers = Restrict(@, DOMAIN @ \ {s})],
           Append(TakeSteps(state.servers[s], s), WriteState))

(* The other settings come after the credentials: only there is seen that  *)
(* a client certificate has no key. An only server is made the default.    *)
OtherSettings(wrong) == IF wrong THEN <<Fails>> ELSE <<WriteState>>

(* The credentials in modify-server: left as they are, removed, moved to   *)
(* another file, or changed in the file they are in. For a move from no    *)
(* file a username has to be given.                                        *)
ModifyCredentials(s, path, how, rest) ==
  LET old == state.servers[s]
      To(p) == WithServer(s, p, TRUE)
  IN  \/ /\ how = "leave" /\ path = old /\ rest = <<WriteState>>
         /\ Commit(To(old))
      \/ /\ how = "remove" /\ path = None
         /\ Begin(To(None), TakeSteps(old, s) \o rest)
      \/ /\ how = "move" /\ path # None
         /\ Begin(To(path), TakeSteps(old, s) \o <<Insert(path, s)>> \o rest)
      \/ /\ how = "change" /\ path = old /\ old # None /\ Readable(old)
         /\ Begin(To(old), <<Insert(old, s)>> \o rest)

ModifyServer(s, path, how, wrong) ==
  s \in DOMAIN state.servers /\ ModifyCredentials(s, path, how, OtherSettings(wrong))

kmip_command(s) ==
  \/ Disable
  \/ SetDefaultServer(s)
  \/ RemoveServer(s)
  \/ \E path \in Paths : AddServerRefused(path)
  \/ \E path \in Paths \union {None}, a, b \in BOOLEAN : AddServer(s, path, a, b)
  \/ \E path \in Paths \union {None}, how \in {"leave", "remove", "move", "change"},
        wrong \in BOOLEAN : ModifyServer(s, path, how, wrong)
=============================================================================
