----------------------------- MODULE Invocation -----------------------------
(***************************************************************************)
(* What an invocation of keyset does outside its state file, step by step: *)
(* key files, keys in an HSM, files with credentials for an HSM. The state *)
(* file is written last (src/commands/keyset/cmd.rs, Keyset::run), so an   *)
(* invocation that fails, or is killed, leaves all the steps before that.  *)
(*                                                                         *)
(* Only one invocation runs at a time (KeysetLock). A key is <<store,      *)
(* name>>: what its URL says. Its name stands for its key tag.             *)
(***************************************************************************)
EXTENDS Naturals, Sequences, FiniteSets, Functions

CONSTANTS
  Names,        \* the key tags
  Servers,      \* the ids of KMIP servers
  Paths,        \* the paths of credentials files
  None,         \* no server, or no path
  Foreign,      \* the keys that others may make
  MaxItems,     \* bound: how many keys and servers there are at a time
  MaxOthers,    \* bound: how many of the keys are of others
  MaxFailures   \* bound: how many steps fail for a reason outside the model

Stores == Servers \union {"file"}
Keys == Stores \X Names
Parts == {"private", "public"}

(* In the place of a credentials file that was cut off while it was written. *)
Garbage == "garbage"

ASSUME InvocationAssumption ==
  /\ None \notin Servers \union Paths
  /\ "file" \notin Servers /\ Garbage \notin Servers
  /\ Foreign \subseteq Keys
  /\ MaxItems \in Nat /\ MaxOthers \in Nat /\ MaxFailures \in Nat

VARIABLES
  state,        \* the state file: its keys, its KMIP servers, the default server
  ws,           \* the WorkSpace of the running invocation: the next state file
  todo,         \* the steps it still has to take
  kept,         \* the keys of which there are files, or parts in an HSM ->
                \* which parts, and whether they have been written
  credentials,  \* the credentials files there are -> the servers they are for
  failures,
  lost,         \* the keys the running invocation gives up: its errors are logged
  owned,        \* history: the keys keyset made or was given (--coupled), without
                \* those that were given up and those that a failure left behind
  hurt,         \* history: the named keys of which a part has been removed
  upset         \* history: the servers whose credentials have been taken away

invocationVars ==
  <<state, ws, todo, kept, credentials, failures, owned, lost, hurt, upset>>

Idle == todo = <<>>

KeysOf(s) == DOMAIN s.keys

Room(n) ==
  Cardinality(DOMAIN kept \union KeysOf(state)) + Cardinality(DOMAIN ws.servers) + n <= MaxItems

-----------------------------------------------------------------------------
(* The steps. *)
Create(k, part) == [op |-> "create", key |-> k, part |-> part]
Fill(k) == [op |-> "fill", key |-> k]
Generate(k) == [op |-> "generate", key |-> k]
Delete(k, part, required) ==
  [op |-> "delete", key |-> k, part |-> part, required |-> required]
Insert(p, s) == [op |-> "insert", path |-> p, server |-> s]
Take(p, s) == [op |-> "take", path |-> p, server |-> s]
Unlink(p) == [op |-> "unlink", path |-> p]
WriteState == [op |-> "write"]
Refuse == [op |-> "refuse"]
Fails == [op |-> "fails"]

Readable(p) == p \in DOMAIN credentials /\ Garbage \notin credentials[p]

(* A server takes no connection without the credentials it asks for. *)
Connects(s, store) ==
  \/ store = "file"
  \/ /\ store \in DOMAIN s.servers
     /\ \/ s.servers[store] = None
        \/ (Readable(s.servers[store]) /\ store \in credentials[s.servers[store]])

Has(k, part) == k \in DOMAIN kept /\ part \in kept[k].parts

(* Whether a step can be taken at all. *)
Possible(e) ==
  CASE e.op = "create" -> ~Has(e.key, e.part)
    [] e.op = "generate" -> Connects(ws, e.key[1])
    [] e.op = "delete" -> Connects(ws, e.key[1]) /\ Has(e.key, e.part)
    [] e.op = "insert" -> e.path \in DOMAIN credentials => Readable(e.path)
    [] e.op = "take" -> Readable(e.path) /\ e.server \in credentials[e.path]
    [] e.op = "fails" -> FALSE
    [] OTHER -> TRUE

(* A function with some of its values changed. *)
Override(f, S, value) == [x \in DOMAIN f \union S |-> IF x \in S THEN value ELSE f[x]]

In(p) == IF p \in DOMAIN credentials THEN credentials[p] ELSE {}

(* A command: the state as it is to be, and the steps it takes. *)
Begin(new, steps) ==
  /\ Idle
  /\ ws' = new
  /\ todo' = steps
  /\ UNCHANGED <<state, kept, credentials, failures, owned, lost, hurt, upset>>

(* A command that changes nothing but the state. *)
Commit(new) ==
  /\ Idle
  /\ state' = new /\ ws' = new
  /\ hurt' = hurt \intersect KeysOf(new)
  /\ UNCHANGED <<todo, kept, credentials, failures, owned, lost, upset>>

Doing(op) == ~Idle /\ Head(todo).op = op /\ Possible(Head(todo))

PartsOfKey(k) == IF k \in DOMAIN kept THEN kept[k].parts ELSE {}

Kept(parts, written) == [parts |-> parts, written |-> written]

(* create_new_file for one of the files of a key, which is still empty. *)
DoCreate ==
  /\ Doing("create")
  /\ LET k == Head(todo).key
     IN  /\ kept' = Override(kept, {k}, Kept(PartsOfKey(k) \union {Head(todo).part}, FALSE))
         /\ owned' = owned \union {k}
  /\ todo' = Tail(todo)
  /\ UNCHANGED <<state, ws, credentials, failures, lost, hurt, upset>>

DoFill ==
  /\ Doing("fill")
  /\ kept' = [kept EXCEPT ![Head(todo).key].written = TRUE]
  /\ todo' = Tail(todo)
  /\ UNCHANGED <<state, ws, credentials, failures, owned, lost, hurt, upset>>

(* A key pair in an HSM. *)
DoGenerate ==
  /\ Doing("generate")
  /\ LET k == Head(todo).key
     IN  /\ kept' = Override(kept, {k}, Kept(Parts, TRUE))
         /\ owned' = owned \union {k}
  /\ todo' = Tail(todo)
  /\ UNCHANGED <<state, ws, credentials, failures, lost, hurt, upset>>

(* remove_key: a file is removed, a key in an HSM destroyed. Of an         *)
(* imported public key, the private key is not keyset's.                   *)
DoDelete ==
  /\ Doing("delete")
  /\ LET k == Head(todo).key
         rest == kept[k].parts \ {Head(todo).part}
         done == rest = {} \/ (k \in KeysOf(state) /\ ~state.keys[k].private)
     IN  /\ kept' = IF rest = {} THEN Restrict(kept, DOMAIN kept \ {k})
                    ELSE [kept EXCEPT ![k].parts = rest]
         /\ owned' = IF done THEN owned \ {k} ELSE owned
         /\ lost' = IF done THEN lost \ {k} ELSE lost
         /\ hurt' = hurt \union ({k} \intersect KeysOf(state))
  /\ todo' = Tail(todo)
  /\ UNCHANGED <<state, ws, credentials, failures, upset>>

UsesPath(s, p) == s \in DOMAIN state.servers /\ state.servers[s] = p

(* A change of a credentials file: it is read, changed and written back. *)
DoCredentials ==
  /\ \/ /\ Doing("insert")
        /\ LET p == Head(todo).path
               t == Head(todo).server
           IN  /\ credentials' = Override(credentials, {p}, In(p) \union {t})
               /\ upset' = IF UsesPath(t, p) THEN upset \ {t} ELSE upset
     \/ /\ Doing("take")
        /\ LET p == Head(todo).path
           IN  credentials' = [credentials EXCEPT ![p] = @ \ {Head(todo).server}]
        /\ upset' = upset \union {Head(todo).server}
     \/ /\ Doing("unlink")
        /\ credentials' = Restrict(credentials, DOMAIN credentials \ {Head(todo).path})
        /\ UNCHANGED upset
  /\ todo' = Tail(todo)
  /\ UNCHANGED <<state, ws, kept, failures, owned, lost, hurt>>

(* The new state gets its name. *)
DoWrite ==
  /\ Doing("write")
  /\ state' = ws
  /\ todo' = <<>>
  /\ owned' = owned \ lost
  /\ hurt' = hurt \intersect KeysOf(ws)
  /\ upset' = {s \in upset \intersect DOMAIN ws.servers : UsesPath(s, ws.servers[s])}
  /\ lost' = {}
  /\ UNCHANGED <<ws, kept, credentials, failures>>

(* Mutant: the keys stay in the key set that is written next. *)
DoRefuseKept ==
  /\ Doing("refuse")
  /\ todo' = <<>>
  /\ UNCHANGED <<state, ws, kept, credentials, failures, owned, lost, hurt, upset>>

(* The library refuses the roll, what was made for it has been removed. *)
DoRefuse ==
  /\ Doing("refuse")
  /\ ws' = state
  /\ todo' = <<>>
  /\ UNCHANGED <<state, kept, credentials, failures, owned, lost, hurt, upset>>

-----------------------------------------------------------------------------
(* An error, or a kill: nothing is written, what was done stays done. *)
Abandon ==
  /\ ws' = state
  /\ todo' = <<>>
  /\ owned' = owned \ ((lost \union KeysOf(ws)) \ KeysOf(state))
  /\ lost' = {}

Optional(e) == e.op = "delete" /\ ~e.required

Error ==
  /\ ~Idle /\ ~Possible(Head(todo)) /\ ~Optional(Head(todo))
  /\ Abandon
  /\ UNCHANGED <<state, kept, credentials, failures, hurt, upset>>

(* A disk that is full, an HSM that does not answer, a kill. *)
Failure ==
  /\ ~Idle /\ failures < MaxFailures
  /\ failures' = failures + 1
  /\ Abandon
  /\ UNCHANGED <<state, kept, credentials, hurt, upset>>

(* A credentials file is written in place (KmipClientCredentialsFile::save). *)
CutOff ==
  /\ Doing("insert") \/ Doing("take")
  /\ failures < MaxFailures
  /\ failures' = failures + 1
  /\ LET p == Head(todo).path
     IN  /\ credentials' = Override(credentials, {p}, {Garbage})
         /\ upset' = upset \union {s \in DOMAIN state.servers : UsesPath(s, p)}
  /\ Abandon
  /\ UNCHANGED <<state, kept, hurt>>

(* An error that is only logged: the key is given up, the rest goes on. *)
Skip ==
  /\ ~Idle /\ Optional(Head(todo))
  /\ \/ ~Possible(Head(todo)) /\ UNCHANGED failures
     \/ failures < MaxFailures /\ failures' = failures + 1
  /\ lost' = lost \union ({Head(todo).key} \intersect DOMAIN kept)
  /\ todo' = Tail(todo)
  /\ UNCHANGED <<state, ws, kept, credentials, owned, hurt, upset>>

Running ==
  \/ DoCreate \/ DoFill \/ DoGenerate \/ DoDelete \/ DoCredentials \/ DoWrite
  \/ DoRefuse \/ Error \/ Skip

Disturbed == Failure \/ CutOff
=============================================================================
