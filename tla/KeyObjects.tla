----------------------------- MODULE KeyObjects -----------------------------
(***************************************************************************)
(* The keys of a key set and where they are kept: key files and HSMs       *)
(* (new_keys, remove_key, remove_key_command, import_key_command and the   *)
(* autoremove part of cron in src/commands/keyset/cmd.rs), next to keygen, *)
(* which writes key files without asking anybody.                          *)
(***************************************************************************)
EXTENDS Invocation, SequencesExt

VARIABLE
  autoremove    \* config.autoremove

(* A key: has it a private part, is it of somebody else, is it unused. *)
Key == [private : BOOLEAN, decoupled : BOOLEAN, stale : BOOLEAN]

PartsOf(key) == IF key.private THEN Parts ELSE {"public"}

Tags == {k[2] : k \in KeysOf(state)}
StaleKeys == {k \in KeysOf(state) : state.keys[k].stale}

AddKeys(s, new, key) == [s EXCEPT !.keys = Override(@, new, key)]
RemoveKeys(s, gone) == [s EXCEPT !.keys = Restrict(@, DOMAIN @ \ gone)]

-----------------------------------------------------------------------------
(* The private key file, the public one, then what is in them. *)
FileSteps(k) == <<Create(k, "private"), Create(k, "public"), Fill(k)>>

MakeSteps(k) == IF k[1] = "file" THEN FileSteps(k) ELSE <<Generate(k)>>

DeleteAll(k, private) ==
  IF private THEN <<Delete(k, "private", TRUE), Delete(k, "public", TRUE)>>
  ELSE <<Delete(k, "public", TRUE)>>

(* Mutant: the public key stays. *)
CleanupPrivate(k) == <<Delete(k, "private", TRUE)>>

CleanupSteps(k) == DeleteAll(k, TRUE)

(* The steps for no key, for one and for two keys. *)
Steps(keys, StepsOf(_)) ==
  IF keys = <<>> THEN <<>>
  ELSE IF Len(keys) = 1 THEN StepsOf(keys[1]) ELSE StepsOf(keys[1]) \o StepsOf(keys[2])

(* Keys are deleted one after the other, of each its private key first.    *)
DeletesOf(gone) ==
  UNION {{Delete(k, part, TRUE) : part \in PartsOf(state.keys[k])} : k \in gone}

DeleteSteps(gone) ==
  {steps \in SetToSeqs(DeletesOf(gone)) :
     \A i \in DOMAIN steps : steps[i].part = "private" =>
       i < Len(steps) /\ steps[i + 1] = Delete(steps[i].key, "public", TRUE)}

(* new_keys: the key tag is not that of another key. In an HSM the new key *)
(* has an id nobody has. (A pair with a key tag in use is made again; the  *)
(* first one stays in the HSM, where nothing of keyset finds it.)          *)
NewKeys ==
  LET store == IF state.default = None THEN "file" ELSE state.default
      fresh == {k \in {store} \X (Names \ Tags) : store = "file" \/ k \notin DOMAIN kept}
  IN  {new \in {<<k>> : k \in fresh} \union (fresh \X fresh) :
         Room(Len(new)) /\ (Len(new) = 2 => new[1] # new[2])}

Made(new) ==
  AddKeys(state, ToSet(new), [private |-> TRUE, decoupled |-> FALSE, stale |-> FALSE])

(* A roll is started with new keys, or refused by the library. *)
StartRoll ==
  /\ \E new \in NewKeys : Begin(Made(new), Steps(new, MakeSteps) \o <<WriteState>>)
  /\ UNCHANGED autoremove

RefuseRoll ==
  /\ \E new \in NewKeys :
       Begin(Made(new), Steps(new, MakeSteps) \o Steps(new, CleanupSteps) \o <<Refuse>>)
  /\ UNCHANGED autoremove

(* cron starts a roll, or not, and removes the stale keys, decoupled or    *)
(* not, that were withdrawn long enough ago.                               *)
Cron ==
  /\ autoremove
  /\ \E new \in {<<>>} \union NewKeys, gone \in SUBSET StaleKeys \ {{}} :
     \E deletes \in DeleteSteps(gone) :
       Begin(RemoveKeys(Made(new), gone), Steps(new, MakeSteps) \o deletes \o <<WriteState>>)
  /\ UNCHANGED autoremove

(* A roll ends: its old key is not used any more. *)
RollDone ==
  /\ \E k \in KeysOf(state) :
       /\ state.keys[k].private /\ ~state.keys[k].stale
       /\ Commit([state EXCEPT !.keys[k].stale = TRUE])
  /\ UNCHANGED autoremove

(* Mutant: the files are there, what is in them is not looked at. *)
ImportUnread(k, private, decoupled) ==
  /\ Idle /\ k \notin KeysOf(state)
  /\ decoupled => private
  /\ k[1] = "file" \/ (private /\ Connects(state, k[1]))
  /\ LET key == [private |-> private, decoupled |-> decoupled, stale |-> FALSE]
     IN  /\ \A part \in PartsOf(key) : Has(k, part)
         /\ state' = AddKeys(state, {k}, key) /\ ws' = state'
         /\ owned' = IF decoupled THEN owned \ {k} ELSE owned \union {k}
  /\ UNCHANGED <<todo, kept, credentials, failures, lost, hurt, upset, autoremove>>

(* Both files have to be there and fit together; keys in an HSM are looked *)
(* up. A public key is always coupled.                                     *)
Import(k, private, decoupled) ==
  /\ Idle /\ k \notin KeysOf(state)
  /\ decoupled => private
  /\ k[1] = "file" \/ (private /\ Connects(state, k[1]))
  /\ LET key == [private |-> private, decoupled |-> decoupled, stale |-> FALSE]
     IN  /\ \A part \in PartsOf(key) : Has(k, part)
         /\ kept[k].written
         /\ state' = AddKeys(state, {k}, key) /\ ws' = state'
         /\ owned' = IF decoupled THEN owned \ {k} ELSE owned \union {k}
  /\ UNCHANGED <<todo, kept, credentials, failures, lost, hurt, upset, autoremove>>

-----------------------------------------------------------------------------
(* remove-key. First the private key; once that is tried, or with          *)
(* --continue, an error with the public key is only logged.                *)
RemoveSteps(k, continue) ==
  LET key == state.keys[k]
  IN  (IF key.private THEN <<Delete(k, "private", ~continue)>> ELSE <<>>)
        \o <<Delete(k, "public", ~(key.private \/ continue)), WriteState>>

(* Mutant: decoupled keys are treated like others. *)
RemoveAnyKey(k, force, continue) ==
  /\ k \in KeysOf(state)
  /\ state.keys[k].stale \/ force
  /\ Begin(RemoveKeys(state, {k}), RemoveSteps(k, continue))
  /\ UNCHANGED autoremove

RemoveKey(k, force, continue) ==
  /\ k \in KeysOf(state)
  /\ state.keys[k].stale \/ force
  /\ IF state.keys[k].decoupled THEN Commit(RemoveKeys(state, {k}))
     ELSE Begin(RemoveKeys(state, {k}), RemoveSteps(k, continue))
  /\ UNCHANGED autoremove

-----------------------------------------------------------------------------
RoomForOthers == Room(1) /\ Cardinality(DOMAIN kept \ owned) < MaxOthers

(* keygen picks a random key, taken not to be one that keyset knows, and   *)
(* refuses to overwrite a file: it creates the private key file, then the  *)
(* other, then writes both. It may stop anywhere: the symbolic links it    *)
(* makes before it writes may exist.                                       *)
Keygen ==
  /\ \E k \in Foreign :
       /\ k[1] = "file" /\ k \notin KeysOf(state) \union KeysOf(ws) \union owned
       /\ \/ /\ k \notin DOMAIN kept /\ RoomForOthers
             /\ kept' = Override(kept, {k}, Kept({"private"}, FALSE))
          \/ /\ k \in DOMAIN kept /\ kept[k] = Kept({"private"}, FALSE)
             /\ kept' = [kept EXCEPT ![k] = Kept(Parts, FALSE)]
          \/ /\ k \in DOMAIN kept /\ kept[k] = Kept(Parts, FALSE)
             /\ kept' = [kept EXCEPT ![k].written = TRUE]
  /\ UNCHANGED <<state, ws, todo, credentials, failures, owned, lost, hurt, upset, autoremove>>

(* Somebody else makes a key in an HSM. *)
OtherKey ==
  /\ \E k \in Foreign :
       /\ k[1] # "file" /\ k \notin DOMAIN kept \union KeysOf(state) \union KeysOf(ws) /\ RoomForOthers
       /\ kept' = Override(kept, {k}, Kept(Parts, TRUE))
  /\ UNCHANGED <<state, ws, todo, credentials, failures, owned, lost, hurt, upset, autoremove>>
=============================================================================
