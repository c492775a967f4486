--------------------------- MODULE KeyStore_proofs ---------------------------
(***************************************************************************)
(* Proofs about KeyStore, for any names, servers, paths and bounds. No key *)
(* and no default server is on a KMIP server that keyset does not know.    *)
(* And what an invocation that can stop anywhere leaves: the keys in the   *)
(* state file can be used, no private key is left behind, the keys of      *)
(* others and the credentials of other servers stay.                       *)
(***************************************************************************)
EXTENDS KeyStore, TLAPS, SequenceTheorems, FiniteSetTheorems

(* A state file without a dangling server. *)
Sound(s) ==
  /\ DOMAIN s = {"keys", "servers", "default"}
  /\ ServersKnown(s)

(* What is on disk, and what the running invocation may write: it began    *)
(* with a check of the state it read, and nobody changes that meanwhile.   *)
KnownInv == Sound(state) /\ Sound(ws)

-----------------------------------------------------------------------------
LEMMA OverrideDomain ==
  ASSUME NEW f, NEW S, NEW v
  PROVE  DOMAIN Override(f, S, v) = DOMAIN f \union S
BY DEF Override

LEMMA RestrictedTo ==
  ASSUME NEW f, NEW S
  PROVE  DOMAIN Restrict(f, S) = S
BY DEF Restrict

(* Keys may be added on a server that is known. *)
LEMMA SoundWithKeys ==
  ASSUME NEW s, Sound(s), NEW new, NEW key,
         \A k \in new : k[1] \in DOMAIN s.servers \union {"file"}
  PROVE  Sound(AddKeys(s, new, key))
<1> DEFINE t == AddKeys(s, new, key)
<1>1. DOMAIN t = DOMAIN s /\ t.servers = s.servers /\ t.default = s.default
  BY DEF Sound, AddKeys
<1>2. KeysOf(t) = KeysOf(s) \union new
  BY OverrideDomain DEF Sound, AddKeys, KeysOf
<1>3. Sound(t)
  <2> HIDE DEF t
  <2> QED BY <1>1, <1>2 DEF Sound, ServersKnown
<1> QED BY <1>3

(* Keys may be taken away. *)
LEMMA SoundWithoutKeys ==
  ASSUME NEW s, Sound(s), NEW gone
  PROVE  Sound(RemoveKeys(s, gone))
<1> DEFINE t == RemoveKeys(s, gone)
<1>1. DOMAIN t = DOMAIN s /\ t.servers = s.servers /\ t.default = s.default
  BY DEF Sound, RemoveKeys
<1>2. KeysOf(t) = KeysOf(s) \ gone
  BY RestrictedTo DEF Sound, RemoveKeys, KeysOf
<1>3. Sound(t)
  <2> HIDE DEF t
  <2> QED BY <1>1, <1>2 DEF Sound, ServersKnown
<1> QED BY <1>3

(* A key may be marked. *)
LEMMA SoundWithMark ==
  ASSUME NEW k
  PROVE  Sound(state) => Sound([state EXCEPT !.keys[k].stale = TRUE])
BY DEF Sound, ServersKnown, KeysOf

(* A server may be added, changed, and made the default one. *)
LEMMA SoundWithServer ==
  ASSUME NEW s, NEW path, NEW default, Sound(state)
  PROVE  Sound(WithServer(s, path, default))
<1> DEFINE t == WithServer(s, path, default)
<1>1. DOMAIN t = DOMAIN state /\ t.keys = state.keys
  BY DEF Sound, WithServer
<1>2. DOMAIN t.servers = DOMAIN state.servers \union {s}
  BY OverrideDomain DEF Sound, WithServer
<1>3. t.default \in {s, state.default}
  BY DEF Sound, WithServer
<1>4. Sound(t)
  <2> HIDE DEF t
  <2> QED BY <1>1, <1>2, <1>3 DEF Sound, ServersKnown, KeysOf
<1> QED BY <1>4

(* A server in no use may be removed. *)
LEMMA SoundWithoutServer ==
  ASSUME NEW s, Sound(state), state.default # s, \A k \in KeysOf(state) : k[1] # s
  PROVE  Sound([state EXCEPT !.servers = Restrict(@, DOMAIN @ \ {s})])
<1> DEFINE t == [state EXCEPT !.servers = Restrict(@, DOMAIN @ \ {s})]
<1>1. DOMAIN t = DOMAIN state /\ t.keys = state.keys /\ t.default = state.default
  BY DEF Sound
<1>2. DOMAIN t.servers = DOMAIN state.servers \ {s}
  BY RestrictedTo DEF Sound
<1>3. Sound(t)
  <2> HIDE DEF t
  <2> QED BY <1>1, <1>2 DEF Sound, ServersKnown, KeysOf
<1> QED BY <1>3

(* New keys are on the default server, or in files. *)
LEMMA NewKeysKnown ==
  ASSUME Sound(state), NEW new \in NewKeys
  PROVE  \A k \in ToSet(new) : k[1] \in DOMAIN state.servers \union {"file"}
<1> DEFINE store == IF state.default = None THEN "file" ELSE state.default
           fresh == {k \in {store} \X (Names \ Tags) : store = "file" \/ k \notin DOMAIN kept}
<1>1. store \in DOMAIN state.servers \union {"file"}
  BY DEF Sound, ServersKnown
<1>2. \A k \in fresh : k[1] = store
  OBVIOUS
<1>3. new \in {<<k>> : k \in fresh} \union (fresh \X fresh)
  BY DEF NewKeys
<1>4. ToSet(new) \subseteq fresh
  BY <1>3 DEF ToSet
<1> QED
  <2> HIDE DEF store, fresh
  <2> QED BY <1>1, <1>2, <1>4

LEMMA MadeSound ==
  ASSUME Sound(state), NEW new \in NewKeys
  PROVE  Sound(Made(new))
BY NewKeysKnown, SoundWithKeys DEF Made

LEMMA NothingMade ==
  ASSUME Sound(state)
  PROVE  Sound(Made(<<>>))
<1>1. ToSet(<<>>) = {}
  BY DEF ToSet
<1> QED BY <1>1, SoundWithKeys DEF Made

-----------------------------------------------------------------------------
(* The steps of an invocation only bring ws to the state file, or back. *)
LEMMA InvocationsKeep ==
  ASSUME KnownInv, Invocations
  PROVE  KnownInv'
<1>1. \/ state' = state /\ ws' = ws
      \/ state' = state /\ ws' = state
      \/ state' = ws /\ ws' = ws
  BY DEF Invocations, Running, Disturbed, DoCreate, DoFill, DoGenerate, DoDelete,
         DoCredentials, DoWrite, DoRefuse, Error, Skip, Failure, CutOff, Abandon
<1> QED BY <1>1 DEF KnownInv, Sound, ServersKnown, KeysOf

(* A command begins, or is done at once, with a sound state. *)
LEMMA BeginKeeps ==
  ASSUME KnownInv, NEW new, Sound(new), NEW steps, Begin(new, steps)
  PROVE  KnownInv'
BY DEF KnownInv, Sound, ServersKnown, KeysOf, Begin

LEMMA CommitKeeps ==
  ASSUME KnownInv, NEW new, Sound(new), Commit(new)
  PROVE  KnownInv'
BY DEF KnownInv, Sound, ServersKnown, KeysOf, Commit

LEMMA ImportKeeps ==
  ASSUME KnownInv, NEW k, NEW private, NEW decoupled, Import(k, private, decoupled)
  PROVE  KnownInv'
<1> DEFINE key == [private |-> private, decoupled |-> decoupled, stale |-> FALSE]
<1>1. k[1] \in DOMAIN state.servers \union {"file"}
  BY DEF Import, Connects
<1>2. Sound(AddKeys(state, {k}, key))
  BY <1>1, SoundWithKeys DEF KnownInv
<1>3. state' = AddKeys(state, {k}, key) /\ ws' = state'
  BY DEF Import
<1> QED BY <1>2, <1>3 DEF KnownInv, Sound, ServersKnown, KeysOf

LEMMA KeyCommandsKeep ==
  ASSUME KnownInv, KeyCommands
  PROVE  KnownInv'
<1>0. Sound(state)
  BY DEF KnownInv
<1>1. CASE StartRoll
  BY <1>0, <1>1, MadeSound, BeginKeeps DEF StartRoll
<1>2. CASE RefuseRoll
  BY <1>0, <1>2, MadeSound, BeginKeeps DEF RefuseRoll
<1>3. CASE Cron
  <2>1. PICK new \in {<<>>} \union NewKeys, gone \in SUBSET StaleKeys \ {{}} :
          \E steps : Begin(RemoveKeys(Made(new), gone), steps)
    BY <1>3 DEF Cron
  <2>2. Sound(Made(new))
    BY <1>0, MadeSound, NothingMade
  <2>3. Sound(RemoveKeys(Made(new), gone))
    BY <2>2, SoundWithoutKeys
  <2> QED BY <2>1, <2>3, BeginKeeps
<1>4. CASE RollDone
  BY <1>0, <1>4, SoundWithMark, CommitKeeps DEF RollDone
<1>5. ASSUME NEW k \in Keys, NEW a \in BOOLEAN, NEW b \in BOOLEAN, Import(k, a, b)
      PROVE  KnownInv'
  BY <1>5, ImportKeeps
<1>6. ASSUME NEW k \in Keys, NEW a \in BOOLEAN, NEW b \in BOOLEAN, RemoveKey(k, a, b)
      PROVE  KnownInv'
  <2>1. Sound(RemoveKeys(state, {k}))
    BY <1>0, SoundWithoutKeys
  <2>2. Commit(RemoveKeys(state, {k})) \/ Begin(RemoveKeys(state, {k}), RemoveSteps(k, b))
    BY <1>6 DEF RemoveKey
  <2> QED BY <2>1, <2>2, BeginKeeps, CommitKeeps
<1> QED BY <1>1, <1>2, <1>3, <1>4, <1>5, <1>6 DEF KeyCommands

-----------------------------------------------------------------------------
LEMMA DefaultKeeps ==
  ASSUME KnownInv, NEW s, Disable \/ SetDefaultServer(s)
  PROVE  KnownInv'
<1>1. Sound([state EXCEPT !.default = None])
  BY DEF KnownInv, Sound, ServersKnown, KeysOf
<1>2. s \in DOMAIN state.servers => Sound([state EXCEPT !.default = s])
  BY DEF KnownInv, Sound, ServersKnown, KeysOf
<1> QED BY <1>1, <1>2, CommitKeeps DEF Disable, SetDefaultServer

LEMMA AddServerKeeps ==
  ASSUME KnownInv, NEW s, NEW path, NEW a, NEW b, AddServer(s, path, a, b)
  PROVE  KnownInv'
<1>1. Sound(WithServer(s, path, ~b))
  BY SoundWithServer DEF KnownInv
<1>2. Sound(WithServer(s, None, ~b))
  BY SoundWithServer DEF KnownInv
<1> QED BY <1>1, <1>2, BeginKeeps, CommitKeeps DEF AddServer

LEMMA ModifyServerKeeps ==
  ASSUME KnownInv, NEW s, NEW path, NEW how, NEW wrong, ModifyServer(s, path, how, wrong)
  PROVE  KnownInv'
<1>1. \A p : Sound(WithServer(s, p, TRUE))
  BY SoundWithServer DEF KnownInv
<1>2. \E p, steps : Commit(WithServer(s, p, TRUE)) \/ Begin(WithServer(s, p, TRUE), steps)
  BY DEF ModifyServer, ModifyCredentials
<1> QED BY <1>1, <1>2, BeginKeeps, CommitKeeps

LEMMA RemoveServerKeeps ==
  ASSUME KnownInv, NEW s, RemoveServer(s)
  PROVE  KnownInv'
<1>1. Sound([state EXCEPT !.servers = Restrict(@, DOMAIN @ \ {s})])
  BY SoundWithoutServer DEF KnownInv, RemoveServer
<1> QED BY <1>1, BeginKeeps DEF RemoveServer

LEMMA KmipCommandsKeep ==
  ASSUME KnownInv, KmipCommands
  PROVE  KnownInv'
<1>1. PICK s : kmip_command(s)
  BY DEF KmipCommands
<1>2. CASE Disable \/ SetDefaultServer(s)
  BY <1>2, DefaultKeeps
<1>3. CASE RemoveServer(s)
  BY <1>3, RemoveServerKeeps
<1>4. CASE \E path \in Paths : AddServerRefused(path)
  BY <1>4 DEF AddServerRefused, KnownInv, Sound, ServersKnown, KeysOf
<1>5. CASE \E path \in Paths \union {None}, a, b \in BOOLEAN : AddServer(s, path, a, b)
  BY <1>5, AddServerKeeps
<1>6. CASE \E path \in Paths \union {None}, how \in {"leave", "remove", "move", "change"},
             wrong \in BOOLEAN : ModifyServer(s, path, how, wrong)
  BY <1>6, ModifyServerKeeps
<1> QED BY <1>1, <1>2, <1>3, <1>4, <1>5, <1>6 DEF kmip_command

LEMMA KnownStep ==
  ASSUME KnownInv, [Next]_vars
  PROVE  KnownInv'
<1>1. CASE Invocations
  BY <1>1, InvocationsKeep
<1>2. CASE KeyCommands
  BY <1>2, KeyCommandsKeep
<1>3. CASE KmipCommands
  BY <1>3, KmipCommandsKeep
<1>4. CASE Keygen \/ OtherKey \/ UNCHANGED vars
  BY <1>4 DEF Keygen, OtherKey, vars, invocationVars, KnownInv, Sound, ServersKnown, KeysOf
<1> QED BY <1>1, <1>2, <1>3, <1>4 DEF Next

LEMMA KnownInit == Init => KnownInv
BY DEF Init, KnownInv, Sound, ServersKnown, KeysOf

(* Every key and the default server are on servers that are known: what    *)
(* remove_kmip_server checks before it removes a server is enough, even    *)
(* when invocations fail or are killed between any two of their steps.     *)
THEOREM KeysOfKnownServersAlways == Spec => []KeysOfKnownServers
<1>1. KnownInv => KeysOfKnownServers
  BY DEF KnownInv, Sound, KeysOfKnownServers
<1> QED BY KnownInit, KnownStep, <1>1, PTL DEF Spec

-----------------------------------------------------------------------------
(* The steps an invocation still has to take. What matters of their order  *)
(* is which of two steps is never taken before the other; then the rest    *)
(* can be said about the set of them.                                      *)

StepSet ==
  {Create(k, part) : k \in Keys, part \in Parts} \union {Fill(k) : k \in Keys}
    \union {Generate(k) : k \in Keys}
    \union [op : {"delete"}, key : Keys, part : Parts, required : BOOLEAN]
    \union {Insert(p, s) : p \in Paths, s \in Servers}
    \union {Take(p, s) : p \in Paths, s \in Servers} \union {Unlink(p) : p \in Paths}
    \union {WriteState, Refuse, Fails}

Final == {"write", "refuse", "fails"}

Makes(e, k) == e.op \in {"create", "generate"} /\ e.key = k

OutOfOrder(e, f) ==
  \/ e.op \in Final
  \/ e.op = "fill" /\ f.op = "create" /\ f.key = e.key
  \/ e.op = "delete" /\ Makes(f, e.key)
  \/ e.op = "delete" /\ f.op = "delete" /\ f.key = e.key /\ e.part = "public" /\ f.part = "private"
  \/ e.op \in {"insert", "unlink"} /\ f.op = "take"
  \/ e.op = "insert" /\ f.op = "unlink"

Ordered(t) ==
  /\ t \in Seq(StepSet)
  /\ \A i, j \in 1 .. Len(t) : i < j => ~OutOfOrder(t[i], t[j])

LEMMA StepsAre ==
  ASSUME NEW e \in StepSet
  PROVE  /\ e.op \in {"create", "fill", "generate", "delete", "insert", "take", "unlink"} \union Final
         /\ e.op = "create" => e.key \in Keys /\ e.part \in Parts /\ e = Create(e.key, e.part)
         /\ e.op = "fill" => e.key \in Keys /\ e = Fill(e.key)
         /\ e.op = "generate" => e.key \in Keys /\ e = Generate(e.key)
         /\ e.op = "delete" => /\ e.key \in Keys /\ e.part \in Parts /\ e.required \in BOOLEAN
                               /\ e = Delete(e.key, e.part, e.required)
         /\ e.op = "insert" => e.path \in Paths /\ e.server \in Servers /\ e = Insert(e.path, e.server)
         /\ e.op = "take" => e.path \in Paths /\ e.server \in Servers /\ e = Take(e.path, e.server)
         /\ e.op = "unlink" => e.path \in Paths /\ e = Unlink(e.path)
         /\ e.op = "write" => e = WriteState
         /\ e.op = "refuse" => e = Refuse
         /\ e.op = "fails" => e = Fails
BY DEF StepSet, Final, Create, Fill, Generate, Delete, Insert, Take, Unlink, WriteState, Refuse, Fails

LEMMA StepFields ==
  /\ \A k, part : /\ Create(k, part).op = "create" /\ Create(k, part).key = k
                  /\ Create(k, part).part = part
  /\ \A k : Fill(k).op = "fill" /\ Fill(k).key = k
  /\ \A k : Generate(k).op = "generate" /\ Generate(k).key = k
  /\ \A k, part, required :
       /\ Delete(k, part, required).op = "delete" /\ Delete(k, part, required).key = k
       /\ Delete(k, part, required).part = part /\ Delete(k, part, required).required = required
  /\ \A p, s : Insert(p, s).op = "insert" /\ Insert(p, s).path = p /\ Insert(p, s).server = s
  /\ \A p, s : Take(p, s).op = "take" /\ Take(p, s).path = p /\ Take(p, s).server = s
  /\ \A p : Unlink(p).op = "unlink" /\ Unlink(p).path = p
  /\ WriteState.op = "write" /\ Refuse.op = "refuse" /\ Fails.op = "fails"
BY DEF Create, Fill, Generate, Delete, Insert, Take, Unlink, WriteState, Refuse, Fails

LEMMA DeleteFields ==
  \A k, part, required :
    /\ Delete(k, part, required).op = "delete" /\ Delete(k, part, required).key = k
    /\ Delete(k, part, required).part = part /\ Delete(k, part, required).required = required
BY StepFields

(* The steps that are left once the first is taken. *)
LEMMA FirstStep ==
  ASSUME NEW t, Ordered(t), t # <<>>
  PROVE  /\ Head(t) \in StepSet /\ Ordered(Tail(t))
         /\ Range(t) = {Head(t)} \union Range(Tail(t))
         /\ \A f \in Range(Tail(t)) : f \in StepSet /\ ~OutOfOrder(Head(t), f)
         /\ Head(t).op \in Final => Tail(t) = <<>>
<1>1. /\ t \in Seq(StepSet) /\ Head(t) \in StepSet /\ Tail(t) \in Seq(StepSet) /\ Head(t) = t[1]
      /\ Len(t) \in Nat \ {0} /\ Len(Tail(t)) = Len(t) - 1
  BY DEF Ordered
<1>2. \A i \in 1 .. (Len(t) - 1) : Tail(t)[i] = t[i + 1]
  BY <1>1
<1>3. \A i, j \in 1 .. Len(t) : i < j => ~OutOfOrder(t[i], t[j])
  BY DEF Ordered
<1>4. Ordered(Tail(t))
  <2>1. ASSUME NEW i \in 1 .. (Len(t) - 1), NEW j \in 1 .. (Len(t) - 1), i < j
        PROVE  ~OutOfOrder(Tail(t)[i], Tail(t)[j])
    <3>1. i + 1 \in 1 .. Len(t) /\ j + 1 \in 1 .. Len(t) /\ i + 1 < j + 1
      BY <1>1, <2>1
    <3>2. QED
      BY <1>2, <1>3, <3>1
  <2>2. QED
    BY <1>1, <2>1 DEF Ordered
<1>5. Range(t) = {t[i] : i \in 1 .. Len(t)}
  BY <1>1, RangeEquality
<1>6. Range(Tail(t)) = {Tail(t)[i] : i \in 1 .. (Len(t) - 1)}
  BY <1>1, RangeEquality
<1>7. \A f \in Range(Tail(t)) : \E i \in 1 .. Len(t) : 1 < i /\ f = t[i]
  <2>1. ASSUME NEW i \in 1 .. (Len(t) - 1)
        PROVE  i + 1 \in 1 .. Len(t) /\ 1 < i + 1 /\ Tail(t)[i] = t[i + 1]
    BY <1>1, <1>2
  <2>2. QED
    BY <1>6, <2>1
<1>8. \A f \in Range(Tail(t)) : f \in StepSet /\ ~OutOfOrder(Head(t), f)
  <2>1. SUFFICES ASSUME NEW f \in Range(Tail(t)) PROVE f \in StepSet /\ ~OutOfOrder(Head(t), f)
    OBVIOUS
  <2>2. PICK i \in 1 .. Len(t) : 1 < i /\ f = t[i]
    BY <1>7
  <2>3. 1 \in 1 .. Len(t)
    BY <1>1
  <2>4. QED
    BY <1>1, <1>3, <2>2, <2>3
<1>9. Range(t) = {Head(t)} \union Range(Tail(t))
  <2>1. ASSUME NEW i \in 1 .. Len(t)
        PROVE  t[i] = Head(t) \/ t[i] \in Range(Tail(t))
    <3>1. i = 1 \/ (i - 1 \in 1 .. (Len(t) - 1) /\ (i - 1) + 1 = i)
      BY <1>1
    <3>2. QED
      BY <1>1, <1>2, <1>6, <3>1
  <2>2. Head(t) \in Range(t)
    BY <1>1, <1>5
  <2>3. Range(Tail(t)) \subseteq Range(t)
    BY <1>5, <1>7
  <2>4. QED
    BY <1>5, <2>1, <2>2, <2>3
<1>10. Head(t).op \in Final => Tail(t) = <<>>
  <2>1. SUFFICES ASSUME Head(t).op \in Final, Tail(t) # <<>> PROVE FALSE
    OBVIOUS
  <2>2. 1 \in 1 .. (Len(t) - 1)
    <3>1. Len(Tail(t)) # 0
      BY <1>1, <2>1
    <3>2. QED
      BY <1>1, <3>1
  <2>3. Tail(t)[1] \in Range(Tail(t))
    BY <1>6, <2>2
  <2>4. QED
    BY <1>8, <2>1, <2>3 DEF OutOfOrder
<1>11. QED
  BY <1>1, <1>4, <1>8, <1>9, <1>10

(* Steps after others: none of them has to be taken before those.          *)
LEMMA StepsAfter ==
  ASSUME NEW a, Ordered(a), NEW b, Ordered(b),
         \A e \in Range(a), f \in Range(b) : ~OutOfOrder(e, f)
  PROVE  Ordered(a \o b) /\ Range(a \o b) = Range(a) \union Range(b)
<1>1. /\ a \in Seq(StepSet) /\ b \in Seq(StepSet) /\ a \o b \in Seq(StepSet)
      /\ Len(a) \in Nat /\ Len(b) \in Nat /\ Len(a \o b) = Len(a) + Len(b)
  BY DEF Ordered
<1>2. Range(a \o b) = Range(a) \union Range(b)
  BY <1>1, RangeConcatenation
<1>3. \A i \in 1 .. (Len(a) + Len(b)) :
        (a \o b)[i] = IF i <= Len(a) THEN a[i] ELSE b[i - Len(a)]
  BY <1>1
<1>4. ASSUME NEW i \in 1 .. (Len(a) + Len(b)), NEW j \in 1 .. (Len(a) + Len(b)), i < j
      PROVE  ~OutOfOrder((a \o b)[i], (a \o b)[j])
  <2>1. CASE j <= Len(a)
    <3>1. i \in 1 .. Len(a) /\ j \in 1 .. Len(a) /\ (a \o b)[i] = a[i] /\ (a \o b)[j] = a[j]
      BY <1>1, <1>3, <1>4, <2>1
    <3>2. QED
      BY <1>4, <3>1 DEF Ordered
  <2>2. CASE Len(a) < i
    <3>1. /\ i - Len(a) \in 1 .. Len(b) /\ j - Len(a) \in 1 .. Len(b) /\ i - Len(a) < j - Len(a)
          /\ (a \o b)[i] = b[i - Len(a)] /\ (a \o b)[j] = b[j - Len(a)]
      BY <1>1, <1>3, <1>4, <2>2
    <3>2. QED
      BY <3>1 DEF Ordered
  <2>3. CASE i <= Len(a) /\ Len(a) < j
    <3>1. /\ i \in 1 .. Len(a) /\ j - Len(a) \in 1 .. Len(b)
          /\ (a \o b)[i] = a[i] /\ (a \o b)[j] = b[j - Len(a)]
      BY <1>1, <1>3, <1>4, <2>3
    <3>2. a[i] \in Range(a) /\ b[j - Len(a)] \in Range(b)
      BY <1>1, <3>1, RangeEquality
    <3>3. QED
      BY <3>1, <3>2
  <2>4. QED
    BY <1>1, <2>1, <2>2, <2>3
<1>5. QED
  BY <1>1, <1>2, <1>4 DEF Ordered

(* The steps of t are those in S, none of them too early. *)
Goes(t, S) == Ordered(t) /\ Range(t) = S

(* No step of the first set has to be taken after one of the second. *)
Before(S, T) == \A e \in S, f \in T : ~OutOfOrder(e, f)

LEMMA GoesAfter ==
  ASSUME NEW a, NEW S, Goes(a, S), NEW b, NEW T, Goes(b, T), Before(S, T)
  PROVE  Goes(a \o b, S \union T)
BY StepsAfter DEF Goes, Before

LEMMA NoSteps == Goes(<<>>, {})
<1>1. Range(<<>>) = {}
  BY DEF Range
<1>2. Ordered(<<>>)
  BY DEF Ordered
<1>3. QED
  BY <1>1, <1>2 DEF Goes

LEMMA OneStep ==
  ASSUME NEW e \in StepSet
  PROVE  Goes(<<e>>, {e})
<1>1. Range(<<e>>) = {e}
  BY DEF Range
<1>2. Len(<<e>>) = 1 /\ <<e>> \in Seq(StepSet)
  OBVIOUS
<1>3. Ordered(<<e>>)
  BY <1>2 DEF Ordered
<1>4. QED
  BY <1>1, <1>3 DEF Goes

LEMMA TwoSteps ==
  ASSUME NEW e \in StepSet, NEW f \in StepSet
  PROVE  <<e>> \o <<f>> = <<e, f>>
<1> DEFINE a == <<e>>
           b == <<f>>
           c == <<e, f>>
<1>1. /\ a \in Seq(StepSet) /\ Len(a) = 1 /\ a[1] = e
      /\ b \in Seq(StepSet) /\ Len(b) = 1 /\ b[1] = f
      /\ c \in Seq(StepSet) /\ Len(c) = 2 /\ c[1] = e /\ c[2] = f
  OBVIOUS
<1> HIDE DEF a, b, c
<1>2. /\ a \o b \in Seq(StepSet) /\ Len(a \o b) = 2
      /\ (a \o b)[1] = e /\ (a \o b)[2] = f
  BY <1>1, ConcatProperties
<1>3. \A i \in 1 .. Len(a \o b) : (a \o b)[i] = c[i]
  <2>1. \A i \in 1 .. 2 : i = 1 \/ i = 2
    OBVIOUS
  <2>2. QED
    BY <1>1, <1>2, <2>1
<1>4. a \o b = c
  BY <1>1, <1>2, <1>3, SeqEqual
<1>5. QED
  BY <1>4 DEF a, b, c

(* Two steps of which the second need not be the first. *)
LEMMA OneAndOne ==
  ASSUME NEW e \in StepSet, NEW f \in StepSet, ~OutOfOrder(e, f)
  PROVE  Goes(<<e, f>>, {e, f})
<1>1. Before({e}, {f})
  BY DEF Before
<1>2. Goes(<<e>> \o <<f>>, {e} \union {f})
  BY <1>1, OneStep, GoesAfter
<1>3. QED
  BY <1>2, TwoSteps

-----------------------------------------------------------------------------
(* The steps with which keys are made and deleted.                         *)

FileSet(k) == {Create(k, "private"), Create(k, "public"), Fill(k)}

LEMMA MakeOne ==
  ASSUME NEW k \in Keys
  PROVE  Goes(MakeSteps(k), IF k[1] = "file" THEN FileSet(k) ELSE {Generate(k)})
<1>1. /\ Create(k, "private") \in StepSet /\ Create(k, "public") \in StepSet
      /\ Fill(k) \in StepSet /\ Generate(k) \in StepSet
  BY DEF StepSet, Parts
<1>2. CASE k[1] # "file"
  BY <1>1, <1>2, OneStep DEF MakeSteps
<1>3. CASE k[1] = "file"
  <2> DEFINE a == Create(k, "private")
             b == Create(k, "public")
             c == Fill(k)
  <2>1. ~OutOfOrder(a, b) /\ Before({a, b}, {c})
    BY StepFields DEF Before, OutOfOrder, Makes, Final
  <2>2. FileSteps(k) = <<a, b>> \o <<c>>
    BY DEF FileSteps
  <2>3. FileSet(k) = {a, b} \union {c}
    BY DEF FileSet
  <2>4. Goes(<<a, b>>, {a, b}) /\ Goes(<<c>>, {c})
    BY <1>1, <2>1, OneAndOne, OneStep
  <2> HIDE DEF a, b, c
  <2>5. Goes(<<a, b>> \o <<c>>, {a, b} \union {c})
    BY <2>1, <2>4, GoesAfter
  <2>6. QED
    BY <1>3, <2>2, <2>3, <2>5 DEF MakeSteps
<1>4. QED
  BY <1>2, <1>3

LEMMA DeleteIsStep ==
  ASSUME NEW k \in Keys, NEW part \in Parts, NEW required \in BOOLEAN
  PROVE  Delete(k, part, required) \in StepSet
<1>1. Delete(k, part, required) \in [op : {"delete"}, key : Keys, part : Parts, required : BOOLEAN]
  BY DEF Delete
<1>2. QED
  BY <1>1 DEF StepSet

LEMMA DeleteBoth ==
  ASSUME NEW k \in Keys, NEW first \in BOOLEAN, NEW second \in BOOLEAN
  PROVE  Goes(<<Delete(k, "private", first), Delete(k, "public", second)>>,
              {Delete(k, "private", first), Delete(k, "public", second)})
<1> DEFINE e == Delete(k, "private", first)
           f == Delete(k, "public", second)
<1>1. e \in StepSet /\ f \in StepSet
  BY DeleteIsStep DEF Parts
<1>2. e.op = "delete" /\ f.op = "delete" /\ e.part = "private" /\ f.part = "public"
  BY StepFields
<1> HIDE DEF e, f
<1>3. ~OutOfOrder(e, f)
  BY <1>2 DEF OutOfOrder, Makes, Final
<1>4. Goes(<<e, f>>, {e, f})
  BY <1>1, <1>3, OneAndOne
<1>5. QED
  BY <1>4 DEF e, f

(* What is to be done to make the keys new, and to delete them. *)
MakingSet(new) ==
  UNION {IF k[1] = "file" THEN FileSet(k) ELSE {Generate(k)} : k \in new}

CleanupSet(new) ==
  UNION {{Delete(k, "private", TRUE), Delete(k, "public", TRUE)} : k \in new}

LEMMA CleanupOne ==
  ASSUME NEW k \in Keys
  PROVE  Goes(CleanupSteps(k), {Delete(k, "private", TRUE), Delete(k, "public", TRUE)})
<1>1. CleanupSteps(k) = <<Delete(k, "private", TRUE), Delete(k, "public", TRUE)>>
  BY Zenon DEF CleanupSteps, DeleteAll
<1>2. TRUE \in BOOLEAN
  OBVIOUS
<1>3. QED
  BY <1>1, <1>2, DeleteBoth, Zenon

(* The keys of a roll: none, one or two.                                   *)
FewKeys(new) == \/ new = <<>>
                \/ \E k \in Keys : new = <<k>>
                \/ \E k, l \in Keys : k # l /\ new = <<k, l>>

LEMMA FewKeysAre ==
  ASSUME NEW new, FewKeys(new)
  PROVE  /\ new = <<>> => ToSet(new) = {}
         /\ \A k : new = <<k>> => ToSet(new) = {k} /\ Len(new) = 1 /\ new # <<>> /\ new[1] = k
         /\ \A k, l : new = <<k, l>> => /\ ToSet(new) = {k, l} /\ Len(new) = 2 /\ new # <<>>
                                        /\ new[1] = k /\ new[2] = l
BY DEF ToSet

LEMMA MakeAll ==
  ASSUME NEW new, FewKeys(new)
  PROVE  Goes(Steps(new, MakeSteps), MakingSet(ToSet(new)))
<1> DEFINE Set(k) == IF k[1] = "file" THEN FileSet(k) ELSE {Generate(k)}
<1>1. /\ MakingSet({}) = {} /\ \A k : MakingSet({k}) = Set(k)
      /\ \A k, l : MakingSet({k, l}) = Set(k) \union Set(l)
  BY DEF MakingSet
<1>2. \A k \in Keys : Goes(MakeSteps(k), Set(k))
  BY MakeOne
<1>3. \A k, l \in Keys : k # l => Before(Set(k), Set(l))
  BY StepFields DEF FileSet, Before, OutOfOrder, Makes, Final
<1> HIDE DEF Set
<1>4. CASE new = <<>>
  <2>1. Steps(new, MakeSteps) = <<>> /\ ToSet(new) = {}
    BY <1>4, FewKeysAre DEF Steps
  <2>2. QED
    BY <1>1, <2>1, NoSteps
<1>5. ASSUME NEW k \in Keys, new = <<k>>
      PROVE  Goes(Steps(new, MakeSteps), MakingSet(ToSet(new)))
  <2>1. Steps(new, MakeSteps) = MakeSteps(k) /\ ToSet(new) = {k}
    BY <1>5, FewKeysAre DEF Steps
  <2>2. QED
    BY <1>1, <1>2, <2>1
<1>6. ASSUME NEW k \in Keys, NEW l \in Keys, k # l, new = <<k, l>>
      PROVE  Goes(Steps(new, MakeSteps), MakingSet(ToSet(new)))
  <2>1. Steps(new, MakeSteps) = MakeSteps(k) \o MakeSteps(l) /\ ToSet(new) = {k, l}
    BY <1>6, FewKeysAre DEF Steps
  <2>2. Goes(MakeSteps(k) \o MakeSteps(l), Set(k) \union Set(l))
    BY <1>2, <1>3, <1>6, GoesAfter
  <2>3. QED
    BY <1>1, <2>1, <2>2
<1>7. QED
  BY <1>4, <1>5, <1>6 DEF FewKeys

LEMMA CleanupAll ==
  ASSUME NEW new, FewKeys(new)
  PROVE  Goes(Steps(new, CleanupSteps), CleanupSet(ToSet(new)))
<1> DEFINE Set(k) == {Delete(k, "private", TRUE), Delete(k, "public", TRUE)}
<1>1. /\ CleanupSet({}) = {} /\ \A k : CleanupSet({k}) = Set(k)
      /\ \A k, l : CleanupSet({k, l}) = Set(k) \union Set(l)
  <2> HIDE DEF Set
  <2>1. \A new_ : CleanupSet(new_) = UNION {Set(k) : k \in new_}
    BY Zenon DEF CleanupSet, Set
  <2>2. QED
    BY <2>1
<1>2. \A k \in Keys : Goes(CleanupSteps(k), Set(k))
  BY CleanupOne, Zenon
<1>3. ASSUME NEW k \in Keys, NEW l \in Keys, k # l PROVE Before(Set(k), Set(l))
  <2>1. ASSUME NEW x \in Keys, NEW e \in Set(x) PROVE e.op = "delete" /\ e.key = x
    <3>1. e = Delete(x, "private", TRUE) \/ e = Delete(x, "public", TRUE)
      BY Zenon
    <3>2. /\ Delete(x, "private", TRUE).op = "delete" /\ Delete(x, "private", TRUE).key = x
          /\ Delete(x, "public", TRUE).op = "delete" /\ Delete(x, "public", TRUE).key = x
      BY DeleteFields, Zenon
    <3>3. QED
      BY <3>1, <3>2, Zenon
  <2> HIDE DEF Set
  <2>2. QED
    BY <1>3, <2>1 DEF Before, OutOfOrder, Makes, Final
<1> HIDE DEF Set
<1>4. CASE new = <<>>
  <2>1. Steps(new, CleanupSteps) = <<>> /\ ToSet(new) = {}
    BY <1>4, FewKeysAre DEF Steps
  <2>2. QED
    BY <1>1, <2>1, NoSteps
<1>5. ASSUME NEW k \in Keys, new = <<k>>
      PROVE  Goes(Steps(new, CleanupSteps), CleanupSet(ToSet(new)))
  <2>1. Steps(new, CleanupSteps) = CleanupSteps(k) /\ ToSet(new) = {k}
    BY <1>5, FewKeysAre DEF Steps
  <2>2. QED
    BY <1>1, <1>2, <2>1
<1>6. ASSUME NEW k \in Keys, NEW l \in Keys, k # l, new = <<k, l>>
      PROVE  Goes(Steps(new, CleanupSteps), CleanupSet(ToSet(new)))
  <2>1. Steps(new, CleanupSteps) = CleanupSteps(k) \o CleanupSteps(l) /\ ToSet(new) = {k, l}
    BY <1>6, FewKeysAre DEF Steps
  <2>2. Goes(CleanupSteps(k) \o CleanupSteps(l), Set(k) \union Set(l))
    BY <1>2, <1>3, <1>6, GoesAfter
  <2>3. QED
    BY <1>1, <2>1, <2>2
<1>7. QED
  BY <1>4, <1>5, <1>6 DEF FewKeys

-----------------------------------------------------------------------------
(* What an invocation leaves that can stop anywhere.                       *)

Pending == Range(todo)

New == KeysOf(ws) \ KeysOf(state)
Gone == KeysOf(state) \ KeysOf(ws)

FreshKey == [private |-> TRUE, decoupled |-> FALSE, stale |-> FALSE]

(* What the running invocation is about: the keys it makes are those it    *)
(* adds, it deletes those it takes from the state file, or, when the roll  *)
(* is refused, those it made.                                              *)
DeletesNamed(e) ==
  /\ e.key \in Gone
  /\ e.part \in PartsOf(state.keys[e.key])
  /\ state.keys[e.key].decoupled => autoremove

DeletesMade(e) == e.key \in New /\ e.required /\ WriteState \notin Pending

PlanInv ==
  /\ Ordered(todo)
  /\ Idle \/ WriteState \in Pending \/ Refuse \in Pending \/ Fails \in Pending
  /\ \A e \in Pending :
       /\ e.op \in {"create", "fill", "generate"} => e.key \in New
       /\ e.op = "create" => Fill(e.key) \in Pending
       /\ e.op = "delete" => DeletesNamed(e) \/ DeletesMade(e)
       /\ e.op = "delete" /\ Refuse \in Pending => DeletesMade(e)
  /\ Refuse \in Pending => lost = {}
  /\ lost \subseteq Gone
  /\ \A k \in KeysOf(state) \intersect KeysOf(ws) : ws.keys[k] = state.keys[k]
  /\ \A k \in New : ws.keys[k] = FreshKey

TypeInv ==
  /\ TypeOK
  /\ IsFiniteSet(KeysOf(state)) /\ IsFiniteSet(KeysOf(ws))

Usable(s, k) == (\A part \in PartsOf(s.keys[k]) : Has(k, part)) /\ kept[k].written

Making(k) == \E e \in Pending : Makes(e, k)

(* A new key can be used, or is still to be made.                          *)
Coming(k) ==
  \/ Usable(ws, k)
  \/ Generate(k) \in Pending
  \/ /\ Fill(k) \in Pending
     /\ \A part \in Parts : Has(k, part) \/ Create(k, part) \in Pending

(* The keys in the state file, and those that come there next.             *)
UsableInv ==
  /\ \A k \in KeysOf(state) \ hurt : Usable(state, k)
  /\ WriteState \in Pending => \A k \in New : Coming(k)

(* Whose a key is. *)
OwnedInv ==
  /\ owned \subseteq DOMAIN kept
  /\ owned \subseteq KeysOf(state) \union KeysOf(ws)
  /\ \A k \in KeysOf(state) :
       IF state.keys[k].decoupled THEN k \notin owned
       ELSE k \in owned \/ \A part \in PartsOf(state.keys[k]) : ~Has(k, part)
  /\ \A k \in New :
       \/ k \in owned \/ Generate(k) \in Pending \/ Create(k, "private") \in Pending
       \/ WriteState \notin Pending /\ k \notin DOMAIN kept

Deleting(k, part) == \E e \in Pending : e.op = "delete" /\ e.key = k /\ e.part = part

(* What is owned and is not to be named any more is deleted, or given up.  *)
OrphanInv ==
  /\ WriteState \in Pending =>
       \A k \in (Gone \intersect owned) \ lost :
         /\ Deleting(k, "public")
         /\ state.keys[k].private /\ Has(k, "private") => Deleting(k, "private")
  /\ Refuse \in Pending =>
       \A k \in New :
         /\ k \in owned \/ Making(k) => Deleting(k, "public")
         /\ Has(k, "private") \/ Making(k) => Deleting(k, "private")

(* Where the credentials are, and where they come. *)
CredentialsInv ==
  /\ \A s \in DOMAIN state.servers \ upset :
       state.servers[s] # None => s \in In(state.servers[s])
  /\ \A p \in Paths : Unlink(p) \in Pending =>
       In(p) = {} \/ \E s \in Servers : In(p) = {s} /\ Take(p, s) \in Pending
  /\ WriteState \in Pending =>
       \A s \in DOMAIN ws.servers :
         LET p == ws.servers[s]
         IN  p # None /\ ~UsesPath(s, p) =>
               \/ Insert(p, s) \in Pending
               \/ s \in In(p) /\ \A e \in Pending : e.op \notin {"take", "unlink"}

StoreInv == TypeInv /\ PlanInv /\ UsableInv /\ OwnedInv /\ OrphanInv /\ CredentialsInv

-----------------------------------------------------------------------------
(* A step is taken, others are left.                                       *)

Popped(e) ==
  /\ e \in StepSet /\ e.op \notin Final
  /\ Pending = {e} \union Pending'
  /\ \A f \in Pending' : f \in StepSet /\ ~OutOfOrder(e, f)
  /\ Ordered(todo')

LEMMA Pop ==
  ASSUME PlanInv, ~Idle, Head(todo).op \notin Final, todo' = Tail(todo)
  PROVE  Popped(Head(todo))
<1>1. Ordered(todo) /\ todo # <<>>
  BY DEF PlanInv, Idle
<1>2. QED
  BY <1>1, FirstStep DEF Popped, Pending

LEMMA StepsPending == PlanInv => \A e \in Pending : e \in StepSet
<1>1. SUFFICES ASSUME PlanInv PROVE \A e \in Pending : e \in StepSet
  OBVIOUS
<1>2. todo \in Seq(StepSet)
  BY <1>1 DEF PlanInv, Ordered
<1>3. \A i \in 1 .. Len(todo) : todo[i] \in StepSet
  BY <1>2
<1>4. QED
  BY <1>2, <1>3, RangeEquality DEF Pending

LEMMA NonePending == Idle => Pending = {}
BY NoSteps DEF Idle, Pending, Goes

LEMMA NotFinal ==
  /\ \A k, part : Create(k, part).op \notin Final
  /\ \A k : Fill(k).op \notin Final /\ Generate(k).op \notin Final
  /\ \A k, part, required : Delete(k, part, required).op \notin Final
  /\ \A p, t : Insert(p, t).op \notin Final /\ Take(p, t).op \notin Final
  /\ \A p : Unlink(p).op \notin Final
  /\ WriteState.op \in Final /\ Refuse.op \in Final /\ Fails.op \in Final
BY StepFields DEF Final

(* What the invocation is about stays the same, step by step.              *)
LEMMA PlanStep ==
  ASSUME PlanInv, NEW e, Popped(e), UNCHANGED <<state, ws, autoremove>>,
         lost' \subseteq lost \/ (Optional(e) /\ lost' \subseteq lost \union {e.key})
  PROVE  PlanInv'
<1>1. /\ Pending' \subseteq Pending /\ e \in Pending
      /\ \A x : x.op \in Final /\ x \in Pending => x \in Pending'
      /\ Idle' => Pending' = {}
  <2>1. Idle' => Pending' = {}
    BY NoSteps DEF Idle, Pending, Goes
  <2>2. QED
    BY <2>1 DEF Popped
<1>2. /\ New' = New /\ Gone' = Gone /\ KeysOf(state)' = KeysOf(state) /\ KeysOf(ws)' = KeysOf(ws)
  BY DEF New, Gone, KeysOf
<1>3. Ordered(todo)'
  BY DEF Popped
<1>4. (Idle \/ WriteState \in Pending \/ Refuse \in Pending \/ Fails \in Pending)'
  <2>1. ~Idle
    BY <1>1, NonePending
  <2>2. WriteState \in Pending \/ Refuse \in Pending \/ Fails \in Pending
    BY <2>1 DEF PlanInv
  <2>3. QED
    BY <1>1, <2>2, NotFinal
<1>5. ASSUME NEW f \in Pending', f.op = "create"
      PROVE  Fill(f.key) \in Pending'
  <2>1. Fill(f.key) \in Pending
    BY <1>1, <1>5 DEF PlanInv
  <2>2. Fill(f.key) # e
    <3>1. ~OutOfOrder(e, f)
      BY DEF Popped
    <3>2. QED
      BY <1>5, <3>1, StepFields DEF OutOfOrder
  <2>3. QED
    BY <2>1, <2>2 DEF Popped
<1>6. \A f \in Pending' :
        /\ f.op \in {"create", "fill", "generate"} => f.key \in New
        /\ f.op = "delete" => DeletesNamed(f) \/ DeletesMade(f)
        /\ f.op = "delete" /\ Refuse \in Pending => DeletesMade(f)
  BY <1>1 DEF PlanInv
<1>7. \A f : /\ DeletesNamed(f) => DeletesNamed(f)'
             /\ DeletesMade(f) => DeletesMade(f)'
  BY <1>1, <1>2 DEF DeletesNamed, DeletesMade
<1>8. (Refuse \in Pending => lost = {})' /\ (lost \subseteq Gone)'
  <2>1. CASE lost' \subseteq lost
    BY <1>1, <1>2, <2>1 DEF PlanInv
  <2>2. CASE Optional(e) /\ lost' \subseteq lost \union {e.key}
    <3>1. e.op = "delete" /\ ~e.required
      BY <2>2 DEF Optional
    <3>2. ~DeletesMade(e)
      BY <3>1 DEF DeletesMade
    <3>3. e.key \in Gone /\ Refuse \notin Pending
      BY <1>1, <3>1, <3>2 DEF PlanInv, DeletesNamed
    <3>4. QED
      BY <1>1, <1>2, <2>2, <3>3 DEF PlanInv
  <2>3. QED
    BY <2>1, <2>2
<1>9. QED
  BY <1>1, <1>2, <1>3, <1>4, <1>5, <1>6, <1>7, <1>8 DEF PlanInv

-----------------------------------------------------------------------------
(* The steps that make a key.                                              *)

KeptType(f) ==
  /\ DOMAIN f \subseteq Keys
  /\ \A k \in DOMAIN f : f[k] \in [parts : (SUBSET Parts) \ {{}}, written : BOOLEAN]

(* g is f with the value v for k. *)
Changed(f, g, k, v) ==
  DOMAIN g = DOMAIN f \union {k} /\ g[k] = v /\ \A x \in DOMAIN f \ {k} : g[x] = f[x]

LEMMA Overridden ==
  ASSUME NEW f, NEW k, NEW v
  PROVE  Changed(f, Override(f, {k}, v), k, v)
<1> DEFINE g == Override(f, {k}, v)
<1>1. g = [x \in DOMAIN f \union {k} |-> IF x \in {k} THEN v ELSE f[x]]
  BY Zenon DEF Override
<1> HIDE DEF g
<1>2. DOMAIN g = DOMAIN f \union {k}
  BY <1>1
<1>3. \A x \in DOMAIN f \union {k} : g[x] = IF x \in {k} THEN v ELSE f[x]
  BY <1>1, Zenon
<1>4. g[k] = v
  BY <1>3, Zenon
<1>5. ASSUME NEW x \in DOMAIN f \ {k} PROVE g[x] = f[x]
  BY <1>3, Zenon
<1>6. Changed(f, g, k, v)
  BY <1>2, <1>4, <1>5, Zenon DEF Changed
<1>7. QED
  BY <1>6 DEF g

LEMMA KeptOverridden ==
  ASSUME NEW f, KeptType(f), NEW k \in Keys, NEW parts \in (SUBSET Parts) \ {{}},
         NEW written \in BOOLEAN, NEW g, Changed(f, g, k, Kept(parts, written))
  PROVE  KeptType(g)
<1>1. Kept(parts, written) \in [parts : (SUBSET Parts) \ {{}}, written : BOOLEAN]
  BY DEF Kept
<1>2. QED
  BY <1>1 DEF KeptType, Changed

LEMMA KeptFields ==
  \A parts, written :
    Kept(parts, written).parts = parts /\ Kept(parts, written).written = written
BY DEF Kept

(* What is left as it is while the steps of an invocation are taken.       *)
Going(e) == PlanInv /\ PlanInv' /\ Popped(e) /\ UNCHANGED <<state, ws, autoremove>>

LEMMA GoingSame ==
  ASSUME NEW e, Going(e)
  PROVE  /\ New' = New /\ Gone' = Gone /\ KeysOf(state)' = KeysOf(state) /\ KeysOf(ws)' = KeysOf(ws)
         /\ Pending' \subseteq Pending /\ e \in Pending /\ Pending = {e} \union Pending'
         /\ WriteState \in Pending <=> WriteState \in Pending'
         /\ Refuse \in Pending <=> Refuse \in Pending'
         /\ ~Idle /\ ~Idle'
<1>1. /\ Pending' \subseteq Pending /\ e \in Pending /\ Pending = {e} \union Pending'
      /\ WriteState \in Pending <=> WriteState \in Pending'
      /\ Refuse \in Pending <=> Refuse \in Pending'
  BY NotFinal DEF Going, Popped
<1>2. /\ New' = New /\ Gone' = Gone /\ KeysOf(state)' = KeysOf(state) /\ KeysOf(ws)' = KeysOf(ws)
  BY DEF Going, New, Gone, KeysOf
<1>3. ~Idle
  BY <1>1, NonePending
<1>4. ~Idle'
  <2>1. WriteState \in Pending \/ Refuse \in Pending \/ Fails \in Pending
    BY <1>3 DEF Going, PlanInv
  <2>2. Pending' # {}
    BY <1>1, <2>1, NotFinal DEF Going, Popped
  <2>3. Idle' => Pending' = {}
    BY NoSteps DEF Idle, Pending, Goes
  <2>4. QED
    BY <2>2, <2>3
<1>5. QED
  BY <1>1, <1>2, <1>3, <1>4

(* A key that is made is not yet named.                                    *)
LEMMA MadeKey ==
  ASSUME NEW e, Going(e), e.op \in {"create", "fill", "generate"}
  PROVE  /\ e.key \in New /\ e.key \in Keys /\ e.key \notin KeysOf(state)
         /\ ws.keys[e.key] = FreshKey /\ PartsOf(ws.keys[e.key]) = Parts
<1>1. e.key \in New /\ e.key \in Keys
  BY GoingSame, StepsAre DEF Going, PlanInv, Popped
<1>2. ws.keys[e.key] = FreshKey
  BY <1>1 DEF Going, PlanInv
<1>3. PartsOf(FreshKey) = Parts
  BY DEF FreshKey, PartsOf
<1>4. QED
  BY <1>1, <1>2, <1>3 DEF New

LEMMA GoingOn ==
  ASSUME PlanInv, ~Idle, Head(todo).op \notin Final, todo' = Tail(todo),
         UNCHANGED <<state, ws, autoremove>>,
         \/ lost' \subseteq lost
         \/ Optional(Head(todo)) /\ lost' \subseteq lost \union {Head(todo).key}
  PROVE  Going(Head(todo))
<1>1. Popped(Head(todo))
  BY Pop
<1>2. PlanInv'
  BY <1>1, PlanStep
<1>3. QED
  BY <1>1, <1>2 DEF Going

(* Of the keys that are kept, no other one changes. *)
SameBut(k) ==
  /\ DOMAIN kept' \ {k} = DOMAIN kept \ {k}
  /\ \A x \in DOMAIN kept \ {k} : kept'[x] = kept[x]

LEMMA HasSame ==
  ASSUME NEW k, SameBut(k), NEW x, x # k
  PROVE  /\ x \in DOMAIN kept <=> x \in DOMAIN kept'
         /\ \A part : Has(x, part) <=> Has(x, part)'
BY DEF SameBut, Has

LEMMA UsableKept ==
  ASSUME NEW s, NEW x, Usable(s, x)
  PROVE  x \in DOMAIN kept
<1>1. "public" \in PartsOf(s.keys[x])
  BY DEF PartsOf, Parts
<1>2. QED
  BY <1>1 DEF Usable, Has

LEMMA UsableSame ==
  ASSUME NEW k, SameBut(k), UNCHANGED <<state, ws>>, NEW x, x # k
  PROVE  /\ Usable(state, x) => Usable(state, x)'
         /\ Usable(ws, x) => Usable(ws, x)'
<1>1. Usable(state, x) \/ Usable(ws, x) => x \in DOMAIN kept /\ kept'[x] = kept[x]
  BY UsableKept DEF SameBut
<1>2. QED
  BY <1>1, HasSame DEF Usable

(* What the steps that make a key have in common. *)
Grows(e) ==
  /\ Going(e) /\ e.op \in {"create", "fill", "generate"}
  /\ SameBut(e.key) /\ DOMAIN kept \subseteq DOMAIN kept'
  /\ e.key \in DOMAIN kept => kept[e.key].parts \subseteq kept'[e.key].parts
  /\ owned \subseteq owned' /\ owned' \subseteq owned \union {e.key}
  /\ owned' \subseteq DOMAIN kept'
  /\ UNCHANGED <<credentials, failures, lost, hurt, upset>>

LEMMA GrowsOwned ==
  ASSUME StoreInv, NEW e, Grows(e),
         IF e.op = "fill" THEN DOMAIN kept' = DOMAIN kept ELSE e.key \in owned'
  PROVE  OwnedInv'
<1>1. /\ e.key \in New /\ e.key \notin KeysOf(state) /\ e.key \in KeysOf(ws)
  BY MadeKey DEF Grows, New
<1>2. /\ New' = New /\ KeysOf(state)' = KeysOf(state) /\ KeysOf(ws)' = KeysOf(ws)
      /\ Pending = {e} \union Pending' /\ (WriteState \in Pending <=> WriteState \in Pending')
  BY GoingSame DEF Grows
<1>3. state' = state
  BY DEF Grows, Going
<1>4. ASSUME NEW x \in KeysOf(state)
      PROVE  IF state.keys[x].decoupled THEN x \notin owned'
             ELSE x \in owned' \/ \A part \in PartsOf(state.keys[x]) : ~Has(x, part)'
  <2>1. x # e.key
    BY <1>1
  <2>2. x \in owned <=> x \in owned'
    BY <2>1 DEF Grows
  <2>3. \A part : Has(x, part) <=> Has(x, part)'
    BY <2>1, HasSame DEF Grows
  <2>4. IF state.keys[x].decoupled THEN x \notin owned
        ELSE x \in owned \/ \A part \in PartsOf(state.keys[x]) : ~Has(x, part)
    BY DEF StoreInv, OwnedInv
  <2>5. QED
    BY <2>2, <2>3, <2>4
<1>5. ASSUME NEW x \in New
      PROVE  \/ x \in owned' \/ Generate(x) \in Pending' \/ Create(x, "private") \in Pending'
             \/ WriteState \notin Pending' /\ x \notin DOMAIN kept'
  <2>1. \/ x \in owned \/ Generate(x) \in Pending \/ Create(x, "private") \in Pending
        \/ WriteState \notin Pending /\ x \notin DOMAIN kept
    BY DEF StoreInv, OwnedInv
  <2>2. CASE x \in owned
    BY <2>2 DEF Grows
  <2>3. CASE Generate(x) \in Pending
    BY <1>2, <2>3, StepFields
  <2>4. CASE Create(x, "private") \in Pending
    BY <1>2, <2>4, StepFields
  <2>5. CASE WriteState \notin Pending /\ x \notin DOMAIN kept
    <3>1. CASE x # e.key
      BY <1>2, <2>5, <3>1, HasSame DEF Grows
    <3>2. CASE x = e.key /\ x \in DOMAIN kept'
      BY <2>5, <3>2
    <3>3. QED
      BY <1>2, <2>5, <3>1, <3>2
  <2>6. QED
    BY <2>1, <2>2, <2>3, <2>4, <2>5
<1>6. owned' \subseteq DOMAIN kept' /\ owned' \subseteq KeysOf(state) \union KeysOf(ws)
  BY <1>1 DEF Grows, StoreInv, OwnedInv
<1>7. QED
  BY <1>2, <1>3, <1>4, <1>5, <1>6 DEF OwnedInv

LEMMA GrowsOrphan ==
  ASSUME StoreInv, NEW e, Grows(e),
         Has(e.key, "private")' => Has(e.key, "private") \/ e.op # "fill",
         e.op = "fill" => owned' = owned
  PROVE  OrphanInv'
<1>1. /\ e.key \in New /\ e.key \notin KeysOf(state)
      /\ e.op \in {"create", "fill", "generate"}
  BY MadeKey DEF Grows
<1>2. /\ New' = New /\ Gone' = Gone /\ Pending = {e} \union Pending'
      /\ (WriteState \in Pending <=> WriteState \in Pending')
      /\ (Refuse \in Pending <=> Refuse \in Pending')
  BY GoingSame DEF Grows
<1>3. state' = state /\ lost' = lost
  BY DEF Grows, Going
<1>4. \A x, part : Deleting(x, part) => Deleting(x, part)'
  BY <1>1, <1>2 DEF Deleting
<1>5. \A x : Making(x)' => Making(x)
  BY <1>2 DEF Making
<1>6. e.op # "fill" => Making(e.key)
  BY <1>1, <1>2 DEF Making, Makes
<1>7. ASSUME WriteState \in Pending, NEW x \in (Gone \intersect owned') \ lost
      PROVE  /\ Deleting(x, "public")'
             /\ state.keys[x].private /\ Has(x, "private")' => Deleting(x, "private")'
  <2>1. x # e.key
    BY <1>1 DEF New, Gone
  <2>2. x \in owned /\ (Has(x, "private") <=> Has(x, "private")')
    BY <2>1, HasSame DEF Grows
  <2>3. /\ Deleting(x, "public")
        /\ state.keys[x].private /\ Has(x, "private") => Deleting(x, "private")
    BY <1>7, <2>2 DEF StoreInv, OrphanInv
  <2>4. QED
    BY <1>4, <2>2, <2>3
<1>8. ASSUME Refuse \in Pending, NEW x \in New
      PROVE  /\ x \in owned' \/ Making(x)' => Deleting(x, "public")'
             /\ Has(x, "private")' \/ Making(x)' => Deleting(x, "private")'
  <2>1. /\ x \in owned \/ Making(x) => Deleting(x, "public")
        /\ Has(x, "private") \/ Making(x) => Deleting(x, "private")
    BY <1>8 DEF StoreInv, OrphanInv
  <2>2. CASE x # e.key
    <3>1. (x \in owned' => x \in owned) /\ (Has(x, "private") <=> Has(x, "private")')
      BY <2>2, HasSame DEF Grows
    <3>2. QED
      BY <1>4, <1>5, <2>1, <3>1
  <2>3. CASE x = e.key /\ e.op # "fill"
    BY <1>4, <1>6, <2>1, <2>3
  <2>4. CASE x = e.key /\ e.op = "fill"
    BY <1>4, <1>5, <2>1, <2>4
  <2>5. QED
    BY <2>2, <2>3, <2>4
<1>9. QED
  BY <1>2, <1>3, <1>7, <1>8 DEF OrphanInv

LEMMA GrowsCredentials ==
  ASSUME StoreInv, NEW e, Going(e), e.op \in {"create", "fill", "generate", "delete"},
         UNCHANGED <<credentials, upset>>
  PROVE  CredentialsInv'
<1>1. /\ Pending = {e} \union Pending' /\ (WriteState \in Pending <=> WriteState \in Pending')
  BY GoingSame
<1>2. /\ state' = state /\ ws' = ws /\ credentials' = credentials /\ upset' = upset
      /\ \A p : In(p)' = In(p) /\ \A s : UsesPath(s, p)' <=> UsesPath(s, p)
  BY DEF Going, In, UsesPath
<1>3. ASSUME NEW p \in Paths, Unlink(p) \in Pending'
      PROVE  In(p) = {} \/ \E s \in Servers : In(p) = {s} /\ Take(p, s) \in Pending'
  <2>1. In(p) = {} \/ \E s \in Servers : In(p) = {s} /\ Take(p, s) \in Pending
    BY <1>1, <1>3 DEF StoreInv, CredentialsInv
  <2>2. \A s : Take(p, s) # e
    BY StepFields
  <2>3. QED
    BY <1>1, <2>1, <2>2
<1>4. ASSUME WriteState \in Pending, NEW s \in DOMAIN ws.servers, NEW p, p = ws.servers[s],
             p # None, ~UsesPath(s, p)
      PROVE  \/ Insert(p, s) \in Pending'
             \/ s \in In(p) /\ \A f \in Pending' : f.op \notin {"take", "unlink"}
  <2>1. \/ Insert(p, s) \in Pending
        \/ s \in In(p) /\ \A f \in Pending : f.op \notin {"take", "unlink"}
    BY <1>4 DEF StoreInv, CredentialsInv
  <2>2. Insert(p, s) # e
    BY StepFields
  <2>3. QED
    BY <1>1, <2>1, <2>2
<1>5. \A s \in DOMAIN state.servers \ upset :
        state.servers[s] # None => s \in In(state.servers[s])
  BY DEF StoreInv, CredentialsInv
<1>6. QED
  BY <1>1, <1>2, <1>3, <1>4, <1>5 DEF CredentialsInv

LEMMA GrowsUsable ==
  ASSUME StoreInv, NEW e, Grows(e), WriteState \in Pending => Coming(e.key)'
  PROVE  UsableInv'
<1>1. /\ e.key \in New /\ e.key \notin KeysOf(state)
  BY MadeKey DEF Grows
<1>2. /\ New' = New /\ KeysOf(state)' = KeysOf(state) /\ Pending = {e} \union Pending'
      /\ (WriteState \in Pending <=> WriteState \in Pending')
  BY GoingSame DEF Grows
<1>3. state' = state /\ ws' = ws /\ hurt' = hurt /\ SameBut(e.key)
  BY DEF Grows, Going
<1>4. ASSUME NEW x \in KeysOf(state) \ hurt
      PROVE  Usable(state, x)'
  <2>1. Usable(state, x)
    BY DEF StoreInv, UsableInv
  <2>2. x # e.key
    BY <1>1
  <2>3. QED
    BY <1>3, <2>1, <2>2, UsableSame
<1>5. ASSUME WriteState \in Pending, NEW x \in New
      PROVE  Coming(x)'
  <2>1. CASE x = e.key
    BY <1>5, <2>1
  <2>2. CASE x # e.key
    <3>1. Coming(x)
      BY <1>5 DEF StoreInv, UsableInv
    <3>2. Usable(ws, x) => Usable(ws, x)'
      BY <1>3, <2>2, UsableSame
    <3>3. \A part : Has(x, part) <=> Has(x, part)'
      BY <1>3, <2>2, HasSame
    <3>4. Generate(x) # e /\ Fill(x) # e /\ \A part : Create(x, part) # e
      BY <2>2, StepFields
    <3>5. QED
      BY <1>2, <3>1, <3>2, <3>3, <3>4 DEF Coming
  <2>3. QED
    BY <2>1, <2>2
<1>6. QED
  BY <1>2, <1>3, <1>4, <1>5 DEF UsableInv

LEMMA CreateComing ==
  ASSUME StoreInv, NEW e, Grows(e), e.op = "create", Has(e.key, e.part)',
         WriteState \in Pending
  PROVE  Coming(e.key)'
<1>1. Pending = {e} \union Pending' /\ e \in Pending
  BY GoingSame DEF Grows
<1>2. e.key \in New
  BY MadeKey DEF Grows
<1>3. Fill(e.key) \in Pending'
  <2>1. Fill(e.key) \in Pending
    BY <1>1 DEF StoreInv, PlanInv
  <2>2. QED
    BY <1>1, <2>1, StepFields
<1>4. Coming(e.key)
  BY <1>2 DEF StoreInv, UsableInv
<1>5. \A part : Has(e.key, part) => Has(e.key, part)'
  BY DEF Grows, Has
<1>6. Generate(e.key) # e /\ \A part : Create(e.key, part) = e => Has(e.key, part)'
  BY StepFields
<1>7. \A part \in Parts : Has(e.key, part)' \/ Create(e.key, part) \in Pending' \/ Generate(e.key) \in Pending'
  <2>1. CASE Usable(ws, e.key)
    <3>1. PartsOf(ws.keys[e.key]) = Parts
      BY MadeKey DEF Grows
    <3>2. QED
      BY <1>5, <2>1, <3>1 DEF Usable
  <2>2. CASE Generate(e.key) \in Pending
    BY <1>1, <1>6, <2>2
  <2>3. CASE \A part \in Parts : Has(e.key, part) \/ Create(e.key, part) \in Pending
    BY <1>1, <1>5, <1>6, <2>3
  <2>4. QED
    BY <1>4, <2>1, <2>2, <2>3 DEF Coming
<1>8. QED
  BY <1>3, <1>7 DEF Coming

LEMMA FillComing ==
  ASSUME StoreInv, NEW e, Grows(e), e.op = "fill",
         \A part : Has(e.key, part) => Has(e.key, part)',
         e.key \in DOMAIN kept => kept'[e.key].written, WriteState \in Pending
  PROVE  Coming(e.key)'
<1>1. /\ Pending = {e} \union Pending' /\ e \in Pending
      /\ \A f \in Pending' : ~OutOfOrder(e, f)
  BY GoingSame DEF Grows, Going, Popped
<1>2. e.key \in New /\ PartsOf(ws.keys[e.key]) = Parts /\ ws' = ws
  BY MadeKey DEF Grows, Going
<1>3. Coming(e.key)
  BY <1>2 DEF StoreInv, UsableInv
<1>4. \A part : Create(e.key, part) \notin Pending
  BY <1>1, StepFields DEF OutOfOrder
<1>5. CASE Generate(e.key) \in Pending
  <2>1. Generate(e.key) \in Pending'
    BY <1>1, <1>5, StepFields
  <2>2. QED
    BY <2>1 DEF Coming
<1>6. CASE Usable(ws, e.key) \/ \A part \in Parts : Has(e.key, part)
  <2>1. \A part \in Parts : Has(e.key, part)
    BY <1>2, <1>6 DEF Usable
  <2>2. e.key \in DOMAIN kept
    BY <2>1 DEF Has, Parts
  <2>3. Usable(ws, e.key)'
    BY <1>2, <2>1, <2>2 DEF Usable
  <2>4. QED
    BY <2>3 DEF Coming
<1>7. QED
  BY <1>3, <1>4, <1>5, <1>6 DEF Coming

CredentialsType(f) ==
  DOMAIN f \subseteq Paths /\ \A p \in DOMAIN f : f[p] \subseteq Servers \union {Garbage}

LEMMA GoingType ==
  ASSUME StoreInv, NEW e, Going(e), KeptType(kept'), CredentialsType(credentials'),
         failures' \in 0 .. MaxFailures, upset' \subseteq Servers,
         owned' \subseteq Keys, lost' \subseteq Keys, hurt' \subseteq Keys
  PROVE  TypeInv'
<1>1. ~Idle' /\ state' = state /\ ws' = ws
  BY GoingSame DEF Going
<1>2. (StateFile(state) /\ StateFile(ws))'
  BY <1>1 DEF StoreInv, TypeInv, TypeOK, StateFile, KeysOf
<1>3. (IsFiniteSet(KeysOf(state)) /\ IsFiniteSet(KeysOf(ws)))'
  BY <1>1 DEF StoreInv, TypeInv, KeysOf
<1>4. QED
  BY <1>1, <1>2, <1>3 DEF TypeInv, TypeOK, KeptType, CredentialsType

LEMMA TypeGives ==
  ASSUME StoreInv
  PROVE  /\ KeptType(kept) /\ CredentialsType(credentials)
         /\ failures \in 0 .. MaxFailures /\ upset \subseteq Servers
         /\ owned \subseteq Keys /\ lost \subseteq Keys /\ hurt \subseteq Keys
BY DEF StoreInv, TypeInv, TypeOK, KeptType, CredentialsType

(* Others' keys stay. *)
KeepsOthers ==
  \A k \in DOMAIN kept \ owned : k \in DOMAIN kept' /\ kept[k].parts \subseteq kept'[k].parts

LEMMA GrowsKeepsOthers ==
  ASSUME NEW e, Grows(e)
  PROVE  KeepsOthers
BY DEF Grows, SameBut, KeepsOthers

LEMMA GrowsAll ==
  ASSUME StoreInv, NEW e, Grows(e), KeptType(kept'),
         IF e.op = "fill" THEN DOMAIN kept' = DOMAIN kept /\ owned' = owned
         ELSE e.key \in owned',
         Has(e.key, "private")' => Has(e.key, "private") \/ e.op # "fill",
         WriteState \in Pending => Coming(e.key)'
  PROVE  StoreInv'
<1>1. TypeInv'
  <2>1. e.key \in Keys /\ Going(e)
    BY MadeKey DEF Grows
  <2>2. /\ CredentialsType(credentials') /\ failures' \in 0 .. MaxFailures /\ upset' \subseteq Servers
        /\ owned' \subseteq Keys /\ lost' \subseteq Keys /\ hurt' \subseteq Keys
    BY <2>1, TypeGives DEF Grows
  <2>3. QED
    BY <2>1, <2>2, GoingType
<1>2. PlanInv'
  BY DEF Grows, Going
<1>3. UsableInv'
  BY GrowsUsable
<1>4. OwnedInv'
  BY GrowsOwned
<1>5. OrphanInv'
  BY GrowsOrphan
<1>6. CredentialsInv'
  BY GrowsCredentials DEF Grows
<1>7. QED
  BY <1>1, <1>2, <1>3, <1>4, <1>5, <1>6 DEF StoreInv

LEMMA CreateKeeps ==
  ASSUME StoreInv, DoCreate, autoremove' = autoremove
  PROVE  StoreInv' /\ KeepsOthers
<1>0. PICK e, parts : e = Head(todo) /\ parts = PartsOfKey(e.key) \union {e.part}
  OBVIOUS
<1>1. /\ ~Idle /\ e.op = "create" /\ ~Has(e.key, e.part)
      /\ kept' = Override(kept, {e.key}, Kept(parts, FALSE))
      /\ owned' = owned \union {e.key} /\ todo' = Tail(todo)
      /\ UNCHANGED <<state, ws, credentials, failures, lost, hurt, upset>>
  BY <1>0 DEF DoCreate, Doing, Possible
<1>2. Going(e)
  BY <1>0, <1>1, GoingOn DEF StoreInv, Final
<1>3. e.key \in New /\ e.key \in Keys /\ e.part \in Parts
  BY <1>1, <1>2, MadeKey, StepsAre DEF Going, Popped
<1>4. parts \in (SUBSET Parts) \ {{}} /\ e.part \in parts
  BY <1>0, <1>3, TypeGives DEF KeptType, PartsOfKey
<1>5. Changed(kept, kept', e.key, Kept(parts, FALSE))
  BY <1>1, Overridden, Zenon
<1>6. kept'[e.key].parts = parts
  BY <1>5, KeptFields, Zenon DEF Changed
<1>7. KeptType(kept')
  BY <1>3, <1>4, <1>5, TypeGives, KeptOverridden
<1>8. /\ DOMAIN kept' = DOMAIN kept \union {e.key}
      /\ \A x \in DOMAIN kept \ {e.key} : kept'[x] = kept[x]
  BY <1>5, Zenon DEF Changed
<1>9. e.key \in DOMAIN kept => kept[e.key].parts \subseteq parts
  BY <1>0 DEF PartsOfKey
<1>10. Grows(e)
  BY <1>1, <1>2, <1>6, <1>8, <1>9 DEF Grows, SameBut, StoreInv, OwnedInv
<1>11. Has(e.key, e.part)'
  BY <1>4, <1>6, <1>8 DEF Has
<1>12. WriteState \in Pending => Coming(e.key)'
  BY <1>1, <1>10, <1>11, CreateComing
<1>13. StoreInv'
  BY <1>1, <1>7, <1>10, <1>12, GrowsAll
<1>14. QED
  BY <1>10, <1>13, GrowsKeepsOthers

LEMMA FillKeeps ==
  ASSUME StoreInv, DoFill, autoremove' = autoremove
  PROVE  StoreInv' /\ KeepsOthers
<1>0. PICK e : e = Head(todo)
  OBVIOUS
<1>1. /\ ~Idle /\ e.op = "fill" /\ kept' = [kept EXCEPT ![e.key].written = TRUE]
      /\ owned' = owned /\ todo' = Tail(todo)
      /\ UNCHANGED <<state, ws, credentials, failures, lost, hurt, upset>>
  BY <1>0 DEF DoFill, Doing
<1>2. Going(e)
  BY <1>0, <1>1, GoingOn DEF StoreInv, Final
<1>3. KeptType(kept)
  BY TypeGives
<1>4. /\ DOMAIN kept' = DOMAIN kept /\ SameBut(e.key)
      /\ \A x \in DOMAIN kept : kept'[x].parts = kept[x].parts
      /\ e.key \in DOMAIN kept => kept'[e.key].written
  BY <1>1, <1>3 DEF SameBut, KeptType
<1>5. KeptType(kept')
  BY <1>1, <1>3 DEF KeptType
<1>6. Grows(e)
  BY <1>1, <1>2, <1>4 DEF Grows, StoreInv, OwnedInv
<1>7. \A part : Has(e.key, part)' <=> Has(e.key, part)
  BY <1>4 DEF Has
<1>8. WriteState \in Pending => Coming(e.key)'
  BY <1>1, <1>4, <1>6, <1>7, FillComing
<1>9. StoreInv'
  BY <1>1, <1>4, <1>5, <1>6, <1>7, <1>8, GrowsAll
<1>10. QED
  BY <1>6, <1>9, GrowsKeepsOthers

LEMMA GenerateKeeps ==
  ASSUME StoreInv, DoGenerate, autoremove' = autoremove
  PROVE  StoreInv' /\ KeepsOthers
<1>0. PICK e : e = Head(todo)
  OBVIOUS
<1>1. /\ ~Idle /\ e.op = "generate"
      /\ kept' = Override(kept, {e.key}, Kept(Parts, TRUE))
      /\ owned' = owned \union {e.key} /\ todo' = Tail(todo)
      /\ UNCHANGED <<state, ws, credentials, failures, lost, hurt, upset>>
  BY <1>0 DEF DoGenerate, Doing
<1>2. Going(e)
  BY <1>0, <1>1, GoingOn DEF StoreInv, Final
<1>3. /\ e.key \in New /\ e.key \in Keys /\ PartsOf(ws.keys[e.key]) = Parts /\ ws' = ws
      /\ Parts \in (SUBSET Parts) \ {{}}
  BY <1>1, <1>2, MadeKey DEF Going, Parts
<1>4. Changed(kept, kept', e.key, Kept(Parts, TRUE))
  BY <1>1, Overridden, Zenon
<1>5. kept'[e.key].parts = Parts /\ kept'[e.key].written
  BY <1>4, KeptFields, Zenon DEF Changed
<1>6. KeptType(kept')
  <2>1. TRUE \in BOOLEAN
    OBVIOUS
  <2>2. QED
    BY <1>3, <1>4, <2>1, TypeGives, KeptOverridden, Zenon
<1>7. /\ DOMAIN kept' = DOMAIN kept \union {e.key}
      /\ \A x \in DOMAIN kept \ {e.key} : kept'[x] = kept[x]
  BY <1>4, Zenon DEF Changed
<1>8. e.key \in DOMAIN kept => kept[e.key].parts \subseteq Parts
  BY TypeGives DEF KeptType
<1>9. Grows(e)
  BY <1>1, <1>2, <1>5, <1>7, <1>8 DEF Grows, SameBut, StoreInv, OwnedInv
<1>10. Coming(e.key)'
  BY <1>3, <1>5, <1>7 DEF Coming, Usable, Has
<1>11. StoreInv'
  BY <1>1, <1>6, <1>9, <1>10, GrowsAll
<1>12. QED
  BY <1>9, <1>11, GrowsKeepsOthers

-----------------------------------------------------------------------------
(* A step that deletes a part of a key.                                    *)

Deleted(e) ==
  \/ kept[e.key].parts \ {e.part} = {}
  \/ e.key \in KeysOf(state) /\ ~state.keys[e.key].private

Shrinks(e) ==
  /\ Going(e) /\ e.op = "delete" /\ e.key \in Keys /\ e.part \in Parts
  /\ Has(e.key, e.part) /\ SameBut(e.key)
  /\ e.key \in DOMAIN kept' <=> kept[e.key].parts \ {e.part} # {}
  /\ e.key \in DOMAIN kept' => kept'[e.key].parts = kept[e.key].parts \ {e.part}
  /\ Deleted(e) => owned' = owned \ {e.key} /\ lost' = lost \ {e.key}
  /\ ~Deleted(e) => owned' = owned /\ lost' = lost
  /\ hurt' = hurt \union ({e.key} \intersect KeysOf(state))
  /\ UNCHANGED <<credentials, failures, upset>>

LEMMA ShrinksHas ==
  ASSUME NEW e, Shrinks(e), NEW part
  PROVE  Has(e.key, part)' <=> Has(e.key, part) /\ part # e.part
BY DEF Shrinks, Has

(* What is to be done before a part of a key is deleted, has been done.    *)
LEMMA ShrinksOrder ==
  ASSUME NEW e, Shrinks(e)
  PROVE  /\ ~Making(e.key)'
         /\ e.part = "public" => ~Deleting(e.key, "private") /\ ~Deleting(e.key, "private")'
         /\ \A part : part # e.part /\ Deleting(e.key, part) => Deleting(e.key, part)'
         /\ \A x, part : x # e.key /\ Deleting(x, part) => Deleting(x, part)'
<1>1. Pending = {e} \union Pending' /\ \A f \in Pending' : ~OutOfOrder(e, f)
  BY GoingSame DEF Shrinks, Going, Popped
<1>2. ~Making(e.key)'
  BY <1>1 DEF Making, OutOfOrder, Shrinks
<1>3. e.part = "public" => ~Deleting(e.key, "private") /\ ~Deleting(e.key, "private")'
  BY <1>1 DEF Deleting, OutOfOrder, Shrinks
<1>4. /\ \A part : part # e.part /\ Deleting(e.key, part) => Deleting(e.key, part)'
      /\ \A x, part : x # e.key /\ Deleting(x, part) => Deleting(x, part)'
  BY <1>1 DEF Deleting
<1>5. QED
  BY <1>2, <1>3, <1>4

LEMMA ShrinksPlan ==
  ASSUME NEW e, Shrinks(e)
  PROVE  /\ DeletesNamed(e) \/ DeletesMade(e)
         /\ e.key \in KeysOf(state) => DeletesNamed(e)
         /\ e.key \in New => DeletesMade(e)
         /\ WriteState \in Pending => e.key \in Gone
<1>1. DeletesNamed(e) \/ DeletesMade(e)
  BY GoingSame DEF Shrinks, Going, PlanInv
<1>2. QED
  BY <1>1 DEF DeletesNamed, DeletesMade, New, Gone

(* Only what is owned is deleted, but for what autoremove does.            *)
LEMMA ShrinksOwned ==
  ASSUME StoreInv, NEW e, Shrinks(e)
  PROVE  \/ e.key \in owned
         \/ autoremove /\ e.key \in KeysOf(state) /\ state.keys[e.key].decoupled
<1>1. CASE DeletesNamed(e)
  <2>1. /\ e.key \in KeysOf(state) /\ e.part \in PartsOf(state.keys[e.key])
        /\ state.keys[e.key].decoupled => autoremove
    BY <1>1 DEF DeletesNamed, Gone
  <2>2. state.keys[e.key].decoupled \/ e.key \in owned
          \/ \A part \in PartsOf(state.keys[e.key]) : ~Has(e.key, part)
    BY <2>1 DEF StoreInv, OwnedInv
  <2>3. QED
    BY <2>1, <2>2 DEF Shrinks
<1>2. CASE DeletesMade(e)
  <2>1. e.key \in New
    BY <1>2 DEF DeletesMade
  <2>2. \/ e.key \in owned \/ Generate(e.key) \in Pending \/ Create(e.key, "private") \in Pending
        \/ e.key \notin DOMAIN kept
    BY <2>1 DEF StoreInv, OwnedInv
  <2>3. Pending = {e} \union Pending'
    BY GoingSame DEF Shrinks
  <2>4. Generate(e.key) \notin Pending
    <3>1. SUFFICES ASSUME Generate(e.key) \in Pending PROVE FALSE
      OBVIOUS
    <3>2. Generate(e.key) \in Pending' /\ Makes(Generate(e.key), e.key)
      BY <2>3, <3>1, StepFields DEF Makes, Shrinks
    <3>3. QED
      BY <3>2, ShrinksOrder DEF Making
  <2>5. Create(e.key, "private") \notin Pending
    <3>1. SUFFICES ASSUME Create(e.key, "private") \in Pending PROVE FALSE
      OBVIOUS
    <3>2. Create(e.key, "private") \in Pending' /\ Makes(Create(e.key, "private"), e.key)
      BY <2>3, <3>1, StepFields DEF Makes, Shrinks
    <3>3. QED
      BY <3>2, ShrinksOrder DEF Making
  <2>6. QED
    BY <2>2, <2>4, <2>5 DEF Shrinks, Has
<1>3. QED
  BY <1>1, <1>2, ShrinksPlan

LEMMA ShrinksKeepsOthers ==
  ASSUME StoreInv, NEW e, Shrinks(e)
  PROVE  ~autoremove => KeepsOthers
BY ShrinksOwned DEF KeepsOthers, Shrinks, SameBut

LEMMA ShrinksOwnedInv ==
  ASSUME StoreInv, NEW e, Shrinks(e)
  PROVE  OwnedInv'
<1>1. /\ New' = New /\ KeysOf(state)' = KeysOf(state) /\ KeysOf(ws)' = KeysOf(ws)
      /\ Pending = {e} \union Pending' /\ (WriteState \in Pending <=> WriteState \in Pending')
      /\ state' = state
  BY GoingSame DEF Shrinks, Going
<1>2. /\ owned' \subseteq owned
      /\ e.key \in owned' => ~Deleted(e)
      /\ \A x : x # e.key /\ x \in owned => x \in owned'
  BY DEF Shrinks
<1>3. owned' \subseteq DOMAIN kept'
  <2>1. ASSUME NEW x \in owned' PROVE x \in DOMAIN kept'
    <3>1. x \in DOMAIN kept
      BY <1>2 DEF StoreInv, OwnedInv
    <3>2. CASE x = e.key
      BY <1>2, <2>1, <3>2 DEF Shrinks, Deleted
    <3>3. CASE x # e.key
      BY <3>1, <3>3 DEF Shrinks, SameBut
    <3>4. QED
      BY <3>2, <3>3
  <2>2. QED
    BY <2>1
<1>4. ASSUME NEW x \in KeysOf(state)
      PROVE  IF state.keys[x].decoupled THEN x \notin owned'
             ELSE x \in owned' \/ \A part \in PartsOf(state.keys[x]) : ~Has(x, part)'
  <2>1. IF state.keys[x].decoupled THEN x \notin owned
        ELSE x \in owned \/ \A part \in PartsOf(state.keys[x]) : ~Has(x, part)
    BY DEF StoreInv, OwnedInv
  <2>2. CASE x # e.key
    <3>1. \A part : Has(x, part) <=> Has(x, part)'
      BY <2>2, HasSame DEF Shrinks
    <3>2. QED
      BY <1>2, <2>1, <2>2, <3>1
  <2>3. CASE x = e.key /\ ~Deleted(e)
    <3>1. owned' = owned
      BY <2>3 DEF Shrinks
    <3>2. \A part : Has(x, part)' => Has(x, part)
      BY <2>3, ShrinksHas
    <3>3. QED
      BY <2>1, <3>1, <3>2
  <2>4. CASE x = e.key /\ Deleted(e)
    <3>1. x \notin owned'
      BY <2>4 DEF Shrinks
    <3>2. ASSUME NEW part \in PartsOf(state.keys[x]) PROVE ~Has(x, part)'
      <4>1. CASE kept[e.key].parts \ {e.part} = {}
        BY <2>4, <4>1 DEF Shrinks, Has
      <4>2. CASE ~state.keys[x].private
        <5>1. e.part \in PartsOf(state.keys[x])
          BY <2>4, ShrinksPlan DEF DeletesNamed
        <5>2. e.part = part
          BY <3>2, <4>2, <5>1 DEF PartsOf
        <5>3. QED
          BY <2>4, <5>2, ShrinksHas
      <4>3. QED
        BY <2>4, <4>1, <4>2 DEF Deleted
    <3>3. QED
      BY <3>1, <3>2
  <2>5. QED
    BY <2>2, <2>3, <2>4
<1>5. ASSUME NEW x \in New
      PROVE  \/ x \in owned' \/ Generate(x) \in Pending' \/ Create(x, "private") \in Pending'
             \/ WriteState \notin Pending' /\ x \notin DOMAIN kept'
  <2>1. \/ x \in owned \/ Generate(x) \in Pending \/ Create(x, "private") \in Pending
        \/ WriteState \notin Pending /\ x \notin DOMAIN kept
    BY DEF StoreInv, OwnedInv
  <2>2. CASE x # e.key
    <3>1. Generate(x) # e /\ Create(x, "private") # e
      BY <2>2, StepFields
    <3>2. x \in DOMAIN kept <=> x \in DOMAIN kept'
      BY <2>2, HasSame DEF Shrinks
    <3>3. QED
      BY <1>1, <1>2, <2>1, <2>2, <3>1, <3>2
  <2>3. CASE x = e.key /\ ~Deleted(e)
    <3>1. x \notin KeysOf(state)
      BY DEF New
    <3>2. x \in owned
      BY <2>3, <3>1, ShrinksOwned
    <3>3. QED
      BY <2>3, <3>2 DEF Shrinks
  <2>4. CASE x = e.key /\ Deleted(e)
    <3>1. x \notin KeysOf(state)
      BY DEF New
    <3>2. x \notin DOMAIN kept'
      BY <2>4, <3>1 DEF Deleted, Shrinks
    <3>3. WriteState \notin Pending
      BY <2>4, ShrinksPlan DEF DeletesMade
    <3>4. QED
      BY <1>1, <3>2, <3>3
  <2>5. QED
    BY <2>2, <2>3, <2>4
<1>6. owned' \subseteq KeysOf(state) \union KeysOf(ws)
  BY <1>2 DEF StoreInv, OwnedInv
<1>7. QED
  BY <1>1, <1>3, <1>4, <1>5, <1>6 DEF OwnedInv

LEMMA ShrinksUsable ==
  ASSUME StoreInv, NEW e, Shrinks(e)
  PROVE  UsableInv'
<1>1. /\ New' = New /\ KeysOf(state)' = KeysOf(state) /\ Pending = {e} \union Pending'
      /\ (WriteState \in Pending <=> WriteState \in Pending')
  BY GoingSame DEF Shrinks
<1>2. state' = state /\ ws' = ws /\ SameBut(e.key)
  BY DEF Shrinks, Going
<1>3. ASSUME NEW x \in KeysOf(state) \ hurt'
      PROVE  Usable(state, x)'
  <2>1. x # e.key /\ x \notin hurt
    BY DEF Shrinks
  <2>2. Usable(state, x)
    BY <2>1 DEF StoreInv, UsableInv
  <2>3. QED
    BY <1>2, <2>1, <2>2, UsableSame
<1>4. ASSUME WriteState \in Pending, NEW x \in New
      PROVE  Coming(x)'
  <2>1. x # e.key
    BY <1>4, ShrinksPlan DEF New, Gone
  <2>2. Coming(x)
    BY <1>4 DEF StoreInv, UsableInv
  <2>3. Usable(ws, x) => Usable(ws, x)'
    BY <1>2, <2>1, UsableSame
  <2>4. \A part : Has(x, part) <=> Has(x, part)'
    BY <1>2, <2>1, HasSame
  <2>5. Generate(x) # e /\ Fill(x) # e /\ \A part : Create(x, part) # e
    BY <2>1, StepFields
  <2>6. QED
    BY <1>1, <2>2, <2>3, <2>4, <2>5 DEF Coming
<1>5. QED
  BY <1>1, <1>2, <1>3, <1>4 DEF UsableInv

LEMMA ShrinksOrphan ==
  ASSUME StoreInv, NEW e, Shrinks(e)
  PROVE  OrphanInv'
<1>1. /\ New' = New /\ Gone' = Gone /\ Pending = {e} \union Pending'
      /\ (WriteState \in Pending <=> WriteState \in Pending')
      /\ (Refuse \in Pending <=> Refuse \in Pending')
      /\ state' = state
  BY GoingSame DEF Shrinks, Going
<1>2. /\ owned' \subseteq owned
      /\ e.key \in owned' => ~Deleted(e)
      /\ \A x : x # e.key => (x \in lost <=> x \in lost')
      /\ e.key \in owned' => lost' = lost
      /\ e.part \in {"private", "public"}
  BY DEF Shrinks, Parts
<1>3. \A x : Making(x)' => Making(x)
  BY <1>1 DEF Making
<1>4. e.part = "public" /\ ~Deleted(e) => Has(e.key, "private") /\ (e.key \in Gone => state.keys[e.key].private)
  <2>1. SUFFICES ASSUME e.part = "public", ~Deleted(e)
                 PROVE  Has(e.key, "private") /\ (e.key \in Gone => state.keys[e.key].private)
    OBVIOUS
  <2>2. e.key \in Gone => state.keys[e.key].private
    BY <2>1 DEF Deleted, Gone
  <2>3. KeptType(kept)
    BY TypeGives
  <2>4. kept[e.key].parts \subseteq {"private", "public"}
    BY <2>3 DEF Shrinks, Has, KeptType, Parts
  <2>5. Has(e.key, "private")
    BY <2>1, <2>4 DEF Deleted, Shrinks, Has
  <2>6. QED
    BY <2>2, <2>5
<1>5. ASSUME WriteState \in Pending, NEW x \in (Gone \intersect owned') \ lost'
      PROVE  /\ Deleting(x, "public")'
             /\ state.keys[x].private /\ Has(x, "private")' => Deleting(x, "private")'
  <2>1. x \in owned /\ x \notin lost
    BY <1>2, <1>5
  <2>2. /\ Deleting(x, "public")
        /\ state.keys[x].private /\ Has(x, "private") => Deleting(x, "private")
    BY <1>5, <2>1 DEF StoreInv, OrphanInv
  <2>3. CASE x # e.key
    <3>1. Has(x, "private") <=> Has(x, "private")'
      BY <2>3, HasSame DEF Shrinks
    <3>2. QED
      BY <2>2, <2>3, <3>1, ShrinksOrder
  <2>4. CASE x = e.key
    <3>1. ~Deleted(e)
      BY <1>2, <1>5, <2>4
    <3>2. e.part # "public"
      BY <1>4, <1>5, <2>2, <2>4, <3>1, ShrinksOrder
    <3>3. e.part = "private" /\ ~Has(x, "private")'
      BY <1>2, <2>4, <3>2, ShrinksHas
    <3>4. QED
      BY <2>2, <2>4, <3>3, ShrinksOrder
  <2>5. QED
    BY <2>3, <2>4
<1>6. ASSUME Refuse \in Pending, NEW x \in New
      PROVE  /\ x \in owned' \/ Making(x)' => Deleting(x, "public")'
             /\ Has(x, "private")' \/ Making(x)' => Deleting(x, "private")'
  <2>1. /\ x \in owned \/ Making(x) => Deleting(x, "public")
        /\ Has(x, "private") \/ Making(x) => Deleting(x, "private")
    BY <1>6 DEF StoreInv, OrphanInv
  <2>2. CASE x # e.key
    <3>1. Has(x, "private") <=> Has(x, "private")'
      BY <2>2, HasSame DEF Shrinks
    <3>2. QED
      BY <1>2, <1>3, <2>1, <2>2, <3>1, ShrinksOrder
  <2>3. CASE x = e.key /\ e.part = "private"
    <3>1. ~Making(x)' /\ ~Has(x, "private")'
      BY <2>3, ShrinksOrder, ShrinksHas
    <3>2. x \in owned' => Deleting(x, "public")'
      BY <1>2, <2>1, <2>3, ShrinksOrder
    <3>3. QED
      BY <3>1, <3>2
  <2>4. CASE x = e.key /\ e.part = "public"
    <3>1. ~Making(x)' /\ ~Deleting(x, "private")
      BY <2>4, ShrinksOrder
    <3>2. ~Has(x, "private")
      BY <2>1, <3>1
    <3>3. ~Has(x, "private")'
      BY <2>4, <3>2, ShrinksHas
    <3>4. x \notin owned'
      BY <1>2, <1>4, <2>4, <3>2
    <3>5. QED
      BY <3>1, <3>3, <3>4
  <2>5. QED
    BY <1>2, <2>2, <2>3, <2>4
<1>7. QED
  BY <1>1, <1>5, <1>6 DEF OrphanInv

LEMMA DeleteKeeps ==
  ASSUME StoreInv, DoDelete, autoremove' = autoremove
  PROVE  StoreInv' /\ (~autoremove => KeepsOthers)
<1>0. PICK e, rest : e = Head(todo) /\ rest = kept[e.key].parts \ {e.part}
  OBVIOUS
<1>1. /\ ~Idle /\ e.op = "delete" /\ Has(e.key, e.part)
      /\ kept' = IF rest = {} THEN Restrict(kept, DOMAIN kept \ {e.key})
                 ELSE [kept EXCEPT ![e.key].parts = rest]
      /\ hurt' = hurt \union ({e.key} \intersect KeysOf(state)) /\ todo' = Tail(todo)
      /\ UNCHANGED <<state, ws, credentials, failures, upset>>
  BY <1>0 DEF DoDelete, Doing, Possible
<1>2. /\ Deleted(e) => owned' = owned \ {e.key} /\ lost' = lost \ {e.key}
      /\ ~Deleted(e) => owned' = owned /\ lost' = lost
  BY <1>0 DEF DoDelete, Deleted
<1>3. Going(e)
  <2>1. lost' \subseteq lost
    BY <1>2
  <2>2. QED
    BY <1>0, <1>1, <2>1, GoingOn DEF StoreInv, Final
<1>4. e.key \in Keys /\ e.part \in Parts
  BY <1>1, <1>3, StepsAre DEF Going, Popped
<1>5. KeptType(kept) /\ e.key \in DOMAIN kept
  BY <1>1, TypeGives DEF Has
<1>6. /\ KeptType(kept') /\ SameBut(e.key)
      /\ e.key \in DOMAIN kept' <=> rest # {}
      /\ e.key \in DOMAIN kept' => kept'[e.key].parts = rest
  <2>1. CASE rest = {}
    <3>1. kept' = [x \in DOMAIN kept \ {e.key} |-> kept[x]]
      BY <1>1, <2>1 DEF Restrict
    <3>2. KeptType(kept') /\ SameBut(e.key) /\ e.key \notin DOMAIN kept'
      BY <1>5, <3>1 DEF KeptType, SameBut
    <3>3. QED
      BY <2>1, <3>2
  <2>2. CASE rest # {}
    <3>1. kept' = [kept EXCEPT ![e.key].parts = rest]
      BY <1>1, <2>2
    <3>2. rest \in (SUBSET Parts) \ {{}}
      BY <1>0, <1>5, <2>2 DEF KeptType
    <3>3. KeptType(kept') /\ SameBut(e.key) /\ e.key \in DOMAIN kept' /\ kept'[e.key].parts = rest
      BY <1>5, <3>1, <3>2 DEF KeptType, SameBut
    <3>4. QED
      BY <2>2, <3>3
  <2>3. QED
    BY <2>1, <2>2
<1>7. Shrinks(e)
  BY <1>0, <1>1, <1>2, <1>3, <1>4, <1>6 DEF Shrinks
<1>8. TypeInv'
  <2>1. /\ CredentialsType(credentials') /\ failures' \in 0 .. MaxFailures /\ upset' \subseteq Servers
        /\ owned' \subseteq Keys /\ lost' \subseteq Keys /\ hurt' \subseteq Keys
    BY <1>1, <1>2, <1>4, TypeGives
  <2>2. QED
    BY <1>3, <1>6, <2>1, GoingType
<1>9. PlanInv'
  BY <1>3 DEF Going
<1>10. CredentialsInv'
  BY <1>1, <1>3, GrowsCredentials
<1>11. StoreInv'
  BY <1>7, <1>8, <1>9, <1>10, ShrinksUsable, ShrinksOwnedInv, ShrinksOrphan DEF StoreInv
<1>12. QED
  BY <1>7, <1>11, ShrinksKeepsOthers

-----------------------------------------------------------------------------
(* The steps that leave the keys alone.                                    *)

LEMMA KeysSame ==
  ASSUME StoreInv, NEW e, Going(e), e.op \in {"insert", "take", "unlink", "delete"},
         UNCHANGED <<kept, owned, hurt>>
  PROVE  UsableInv' /\ OwnedInv'
<1>1. /\ New' = New /\ KeysOf(state)' = KeysOf(state) /\ KeysOf(ws)' = KeysOf(ws)
      /\ Pending = {e} \union Pending' /\ (WriteState \in Pending <=> WriteState \in Pending')
      /\ state' = state /\ ws' = ws
  BY GoingSame DEF Going
<1>2. /\ \A x, part : Has(x, part)' <=> Has(x, part)
      /\ \A x : Usable(state, x)' <=> Usable(state, x)
      /\ \A x : Usable(ws, x)' <=> Usable(ws, x)
  BY <1>1 DEF Usable, Has
<1>3. \A x : Generate(x) # e /\ Fill(x) # e /\ \A part : Create(x, part) # e
  BY StepFields
<1>4. \A x : Coming(x) => Coming(x)'
  BY <1>1, <1>2, <1>3 DEF Coming
<1>5. UsableInv'
  BY <1>1, <1>2, <1>4 DEF StoreInv, UsableInv
<1>6. OwnedInv'
  BY <1>1, <1>2, <1>3 DEF StoreInv, OwnedInv
<1>7. QED
  BY <1>5, <1>6

LEMMA SameOrphan ==
  ASSUME StoreInv, NEW e, Going(e), e.op \in {"insert", "take", "unlink"},
         UNCHANGED <<kept, owned, lost>>
  PROVE  OrphanInv'
<1>1. /\ New' = New /\ Gone' = Gone /\ Pending = {e} \union Pending'
      /\ (WriteState \in Pending <=> WriteState \in Pending')
      /\ (Refuse \in Pending <=> Refuse \in Pending')
      /\ state' = state
  BY GoingSame DEF Going
<1>2. /\ \A x, part : Has(x, part)' <=> Has(x, part)
      /\ \A x, part : Deleting(x, part)' <=> Deleting(x, part)
      /\ \A x : Making(x)' => Making(x)
  BY <1>1 DEF Has, Deleting, Making
<1>3. QED
  BY <1>1, <1>2 DEF StoreInv, OrphanInv

LEMMA SkipKeeps ==
  ASSUME StoreInv, Skip, autoremove' = autoremove
  PROVE  StoreInv' /\ KeepsOthers
<1>0. PICK e : e = Head(todo)
  OBVIOUS
<1>1. /\ ~Idle /\ Optional(e) /\ e.op = "delete" /\ ~e.required
      /\ lost' = lost \union ({e.key} \intersect DOMAIN kept) /\ todo' = Tail(todo)
      /\ UNCHANGED <<state, ws, kept, credentials, owned, hurt, upset>>
  BY <1>0 DEF Skip, Optional
<1>2. Going(e)
  BY <1>0, <1>1, GoingOn DEF StoreInv, Final
<1>3. e.key \in Keys
  BY <1>1, <1>2, StepsAre DEF Going, Popped
<1>4. TypeInv'
  <2>1. failures' \in 0 .. MaxFailures
    <3>1. failures' = failures \/ (failures < MaxFailures /\ failures' = failures + 1)
      BY DEF Skip
    <3>2. QED
      BY <3>1, TypeGives, InvocationAssumption
  <2>2. KeptType(kept') /\ CredentialsType(credentials') /\ upset' \subseteq Servers
    BY <1>1, TypeGives
  <2>3. owned' \subseteq Keys /\ lost' \subseteq Keys /\ hurt' \subseteq Keys
    BY <1>1, <1>3, TypeGives
  <2>4. QED
    BY <1>2, <2>1, <2>2, <2>3, GoingType
<1>5. UsableInv' /\ OwnedInv'
  BY <1>1, <1>2, KeysSame
<1>6. CredentialsInv'
  BY <1>1, <1>2, GrowsCredentials
<1>7. OrphanInv'
  <2>1. /\ Gone' = Gone /\ e \in Pending /\ Pending = {e} \union Pending'
        /\ (WriteState \in Pending <=> WriteState \in Pending')
        /\ (Refuse \in Pending <=> Refuse \in Pending')
    BY <1>2, GoingSame
  <2>2. Refuse \notin Pending
    BY <1>1, <1>2, <2>1 DEF Going, PlanInv, DeletesMade
  <2>3. ASSUME WriteState \in Pending, NEW x \in (Gone \intersect owned) \ lost'
        PROVE  /\ Deleting(x, "public")'
               /\ state.keys[x].private /\ Has(x, "private") => Deleting(x, "private")'
    <3>1. x \in DOMAIN kept
      BY <2>3 DEF StoreInv, OwnedInv
    <3>2. x # e.key /\ x \notin lost
      BY <1>1, <2>3, <3>1
    <3>3. /\ Deleting(x, "public")
          /\ state.keys[x].private /\ Has(x, "private") => Deleting(x, "private")
      BY <2>3, <3>2 DEF StoreInv, OrphanInv
    <3>4. \A part : Deleting(x, part) => Deleting(x, part)'
      BY <2>1, <3>2 DEF Deleting
    <3>5. QED
      BY <3>3, <3>4
  <2>4. QED
    BY <1>1, <2>1, <2>2, <2>3 DEF OrphanInv, Has
<1>8. PlanInv' /\ KeepsOthers
  BY <1>1, <1>2 DEF Going, KeepsOthers
<1>9. QED
  BY <1>4, <1>5, <1>6, <1>7, <1>8 DEF StoreInv

-----------------------------------------------------------------------------
(* The steps that change a file with credentials.                          *)

(* Of the credentials files, no other one changes. *)
InSame(p) == \A q : q # p => In(q)' = In(q)

LEMMA InsertCredentials ==
  ASSUME StoreInv, NEW e, Going(e), e.op = "insert", InSame(e.path),
         In(e.path)' = In(e.path) \union {e.server},
         upset' = IF UsesPath(e.server, e.path) THEN upset \ {e.server} ELSE upset
  PROVE  CredentialsInv'
<1>1. /\ Pending = {e} \union Pending' /\ (WriteState \in Pending <=> WriteState \in Pending')
      /\ \A f \in Pending' : ~OutOfOrder(e, f)
      /\ state' = state /\ ws' = ws
  BY GoingSame DEF Going, Popped
<1>2. \A s, p : UsesPath(s, p)' <=> UsesPath(s, p)
  BY <1>1 DEF UsesPath
<1>3. \A q : In(q) \subseteq In(q)'
  BY DEF InSame
<1>4. \A f \in Pending' : f.op \notin {"take", "unlink"}
  BY <1>1 DEF OutOfOrder
<1>5. ASSUME NEW s \in DOMAIN state.servers \ upset', NEW p, p = state.servers[s], p # None
      PROVE  s \in In(p)'
  <2>1. CASE s \notin upset
    BY <1>3, <1>5, <2>1 DEF StoreInv, CredentialsInv
  <2>2. CASE s \in upset
    BY <1>5, <2>2 DEF UsesPath
  <2>3. QED
    BY <2>1, <2>2
<1>6. ASSUME NEW p \in Paths PROVE Unlink(p) \notin Pending'
  BY <1>4, StepFields
<1>7. ASSUME WriteState \in Pending, NEW s \in DOMAIN ws.servers, NEW p, p = ws.servers[s],
             p # None, ~UsesPath(s, p)
      PROVE  Insert(p, s) \in Pending' \/ s \in In(p)'
  <2>1. Insert(p, s) \in Pending \/ s \in In(p)
    BY <1>7 DEF StoreInv, CredentialsInv
  <2>2. Insert(p, s) = e => s \in In(p)'
    BY StepFields
  <2>3. QED
    BY <1>1, <1>3, <2>1, <2>2
<1>8. QED
  BY <1>1, <1>2, <1>4, <1>5, <1>6, <1>7 DEF CredentialsInv

LEMMA TakeCredentials ==
  ASSUME StoreInv, NEW e, Going(e), e.op = "take", InSame(e.path), e.server \in In(e.path),
         In(e.path)' = In(e.path) \ {e.server}, upset' = upset \union {e.server}
  PROVE  CredentialsInv'
<1>1. /\ Pending = {e} \union Pending' /\ (WriteState \in Pending <=> WriteState \in Pending')
      /\ state' = state /\ ws' = ws
  BY GoingSame DEF Going
<1>2. \A s, p : UsesPath(s, p)' <=> UsesPath(s, p)
  BY <1>1 DEF UsesPath
<1>3. \A q, s : s \in In(q) /\ s # e.server => s \in In(q)'
  BY DEF InSame
<1>4. ASSUME NEW s \in DOMAIN state.servers \ upset', NEW p, p = state.servers[s], p # None
      PROVE  s \in In(p)'
  BY <1>3, <1>4 DEF StoreInv, CredentialsInv
<1>5. ASSUME NEW p \in Paths, Unlink(p) \in Pending'
      PROVE  In(p)' = {} \/ \E s \in Servers : In(p)' = {s} /\ Take(p, s) \in Pending'
  <2>1. In(p) = {} \/ \E s \in Servers : In(p) = {s} /\ Take(p, s) \in Pending
    BY <1>1, <1>5 DEF StoreInv, CredentialsInv
  <2>2. CASE p = e.path
    BY <2>1, <2>2
  <2>3. CASE p # e.path
    <3>1. \A s : Take(p, s) # e
      BY <2>3, StepFields
    <3>2. QED
      BY <1>1, <2>1, <2>3, <3>1 DEF InSame
  <2>4. QED
    BY <2>2, <2>3
<1>6. ASSUME WriteState \in Pending, NEW s \in DOMAIN ws.servers, NEW p, p = ws.servers[s],
             p # None, ~UsesPath(s, p)
      PROVE  Insert(p, s) \in Pending'
  <2>1. Insert(p, s) \in Pending
    BY <1>1, <1>6 DEF StoreInv, CredentialsInv
  <2>2. QED
    BY <1>1, <2>1, StepFields
<1>7. QED
  BY <1>1, <1>2, <1>4, <1>5, <1>6 DEF CredentialsInv

LEMMA UnlinkCredentials ==
  ASSUME StoreInv, NEW e, Going(e), e.op = "unlink", InSame(e.path), In(e.path)' = {},
         upset' = upset
  PROVE  CredentialsInv'
<1>1. /\ Pending = {e} \union Pending' /\ (WriteState \in Pending <=> WriteState \in Pending')
      /\ \A f \in Pending' : ~OutOfOrder(e, f)
      /\ state' = state /\ ws' = ws /\ e \in StepSet
  BY GoingSame DEF Going, Popped
<1>2. \A s, p : UsesPath(s, p)' <=> UsesPath(s, p)
  BY <1>1 DEF UsesPath
<1>3. In(e.path) = {}
  <2>1. e.path \in Paths /\ Unlink(e.path) \in Pending
    BY <1>1, StepsAre
  <2>2. In(e.path) = {} \/ \E s \in Servers : Take(e.path, s) \in Pending
    BY <2>1 DEF StoreInv, CredentialsInv
  <2>3. \A s : Take(e.path, s) \notin Pending
    BY <1>1, StepFields DEF OutOfOrder
  <2>4. QED
    BY <2>2, <2>3
<1>4. \A q : In(q)' = In(q)
  BY <1>3 DEF InSame
<1>5. ASSUME NEW s \in DOMAIN state.servers \ upset', NEW p, p = state.servers[s], p # None
      PROVE  s \in In(p)'
  BY <1>4, <1>5 DEF StoreInv, CredentialsInv
<1>6. ASSUME NEW p \in Paths, Unlink(p) \in Pending'
      PROVE  In(p)' = {} \/ \E s \in Servers : In(p)' = {s} /\ Take(p, s) \in Pending'
  <2>1. In(p) = {} \/ \E s \in Servers : In(p) = {s} /\ Take(p, s) \in Pending
    BY <1>1, <1>6 DEF StoreInv, CredentialsInv
  <2>2. \A s : Take(p, s) # e
    BY StepFields
  <2>3. QED
    BY <1>1, <1>4, <2>1, <2>2
<1>7. ASSUME WriteState \in Pending, NEW s \in DOMAIN ws.servers, NEW p, p = ws.servers[s],
             p # None, ~UsesPath(s, p)
      PROVE  Insert(p, s) \in Pending'
  <2>1. Insert(p, s) \in Pending
    BY <1>1, <1>7 DEF StoreInv, CredentialsInv
  <2>2. QED
    BY <1>1, <2>1, StepFields
<1>8. QED
  BY <1>1, <1>2, <1>5, <1>6, <1>7 DEF CredentialsInv

LEMMA CredentialsChanged ==
  ASSUME NEW p, NEW v, Changed(credentials, credentials', p, v)
  PROVE  In(p)' = v /\ InSame(p)
BY DEF Changed, In, InSame

LEMMA TypeChanged ==
  ASSUME NEW f, CredentialsType(f), NEW p \in Paths, NEW v, v \subseteq Servers \union {Garbage},
         NEW g, Changed(f, g, p, v)
  PROVE  CredentialsType(g)
BY DEF CredentialsType, Changed

LEMMA InType ==
  ASSUME CredentialsType(credentials), NEW p
  PROVE  In(p) \subseteq Servers \union {Garbage}
BY DEF CredentialsType, In

LEMMA CredentialsKeep ==
  ASSUME StoreInv, DoCredentials, autoremove' = autoremove
  PROVE  StoreInv' /\ KeepsOthers
<1>0. PICK e : e = Head(todo)
  OBVIOUS
<1>1. /\ ~Idle /\ e.op \in {"insert", "take", "unlink"} /\ todo' = Tail(todo)
      /\ UNCHANGED <<state, ws, kept, failures, owned, lost, hurt>>
  BY <1>0 DEF DoCredentials, Doing
<1>2. Going(e)
  BY <1>0, <1>1, GoingOn DEF StoreInv, Final
<1>3. /\ e.path \in Paths
      /\ e.op \in {"insert", "take"} => e.server \in Servers
  BY <1>1, <1>2, StepsAre DEF Going, Popped
<1>4. KeptType(kept') /\ CredentialsType(credentials) /\ upset \subseteq Servers
  BY <1>1, TypeGives
<1>5. CredentialsInv' /\ CredentialsType(credentials') /\ upset' \subseteq Servers
  <2>1. CASE e.op = "insert"
    <3>1. /\ credentials' = Override(credentials, {e.path}, In(e.path) \union {e.server})
          /\ upset' = IF UsesPath(e.server, e.path) THEN upset \ {e.server} ELSE upset
      BY <1>0, <2>1 DEF DoCredentials, Doing
    <3>2. PICK v : v = In(e.path) \union {e.server}
      OBVIOUS
    <3>3. Changed(credentials, credentials', e.path, v)
      BY <3>1, <3>2, Overridden
    <3>4. In(e.path)' = In(e.path) \union {e.server} /\ InSame(e.path)
      BY <3>2, <3>3, CredentialsChanged
    <3>5. v \subseteq Servers \union {Garbage}
      BY <1>3, <1>4, <2>1, <3>2, InType
    <3>6. CredentialsType(credentials')
      BY <1>3, <1>4, <3>3, <3>5, TypeChanged
    <3>7. upset' \subseteq Servers
      BY <1>4, <3>1
    <3>8. CredentialsInv'
      BY <1>2, <2>1, <3>1, <3>4, InsertCredentials
    <3>9. QED
      BY <3>6, <3>7, <3>8
  <2>2. CASE e.op = "take"
    <3>1. /\ credentials' = [credentials EXCEPT ![e.path] = @ \ {e.server}]
          /\ upset' = upset \union {e.server}
          /\ e.path \in DOMAIN credentials /\ e.server \in credentials[e.path]
      BY <1>0, <2>2 DEF DoCredentials, Doing, Possible, Readable
    <3>2. PICK v : v = In(e.path) \ {e.server}
      OBVIOUS
    <3>3. Changed(credentials, credentials', e.path, v)
      BY <3>1, <3>2 DEF Changed, In
    <3>4. In(e.path)' = In(e.path) \ {e.server} /\ InSame(e.path)
      BY <3>2, <3>3, CredentialsChanged
    <3>5. v \subseteq Servers \union {Garbage}
      BY <1>4, <3>2, InType
    <3>6. CredentialsType(credentials')
      BY <1>3, <1>4, <3>3, <3>5, TypeChanged
    <3>7. upset' \subseteq Servers
      BY <1>3, <1>4, <2>2, <3>1
    <3>8. CredentialsInv'
      BY <1>2, <2>2, <3>1, <3>4, TakeCredentials DEF In
    <3>9. QED
      BY <3>6, <3>7, <3>8
  <2>3. CASE e.op = "unlink"
    <3>1. /\ credentials' = Restrict(credentials, DOMAIN credentials \ {e.path})
          /\ upset' = upset
      BY <1>0, <2>3 DEF DoCredentials, Doing
    <3>2. credentials' = [q \in DOMAIN credentials \ {e.path} |-> credentials[q]]
      BY <3>1 DEF Restrict
    <3>3. In(e.path)' = {} /\ InSame(e.path)
      BY <3>2 DEF In, InSame
    <3>4. CredentialsType(credentials')
      BY <1>4, <3>2 DEF CredentialsType
    <3>5. CredentialsInv'
      BY <1>2, <2>3, <3>1, <3>3, UnlinkCredentials
    <3>6. QED
      BY <1>4, <3>1, <3>4, <3>5
  <2>4. QED
    BY <1>1, <2>1, <2>2, <2>3
<1>6. TypeInv'
  <2>1. failures' \in 0 .. MaxFailures /\ owned' \subseteq Keys /\ lost' \subseteq Keys /\ hurt' \subseteq Keys
    BY <1>1, TypeGives
  <2>2. QED
    BY <1>2, <1>4, <1>5, <2>1, GoingType
<1>7. UsableInv' /\ OwnedInv' /\ OrphanInv'
  BY <1>1, <1>2, KeysSame, SameOrphan
<1>8. PlanInv' /\ KeepsOthers
  BY <1>1, <1>2 DEF Going, KeepsOthers
<1>9. QED
  BY <1>5, <1>6, <1>7, <1>8 DEF StoreInv

-----------------------------------------------------------------------------
(* The end of an invocation.                                               *)

(* Between invocations everything is as the state file says. *)
RestInv ==
  /\ \A k \in KeysOf(state) \ hurt : Usable(state, k)
  /\ owned \subseteq DOMAIN kept /\ owned \subseteq KeysOf(state)
  /\ \A k \in KeysOf(state) :
       IF state.keys[k].decoupled THEN k \notin owned
       ELSE k \in owned \/ \A part \in PartsOf(state.keys[k]) : ~Has(k, part)
  /\ \A s \in DOMAIN state.servers \ upset :
       state.servers[s] # None => s \in In(state.servers[s])

LEMMA AtRest == TypeInv /\ RestInv /\ Idle => StoreInv
<1> SUFFICES ASSUME TypeInv, RestInv, Idle PROVE StoreInv
  OBVIOUS
<1>1. Pending = {} /\ ws = state /\ lost = {} /\ todo = <<>>
  BY NonePending DEF TypeInv, TypeOK, Idle
<1>2. New = {} /\ Gone = {}
  BY <1>1 DEF New, Gone
<1>3. Ordered(todo)
  BY <1>1, NoSteps DEF Goes
<1>4. PlanInv
  BY <1>1, <1>2, <1>3 DEF PlanInv, Idle
<1>5. UsableInv /\ OwnedInv
  BY <1>1, <1>2 DEF RestInv, UsableInv, OwnedInv
<1>6. OrphanInv /\ CredentialsInv
  BY <1>1 DEF RestInv, OrphanInv, CredentialsInv
<1>7. QED
  BY <1>4, <1>5, <1>6 DEF StoreInv

LEMMA AtRestNext == TypeInv' /\ RestInv' /\ Idle' => StoreInv'
BY AtRest, PTL

LEMMA Rest ==
  ASSUME StoreInv, Idle
  PROVE  RestInv
<1>1. Pending = {} /\ ws = state
  BY NonePending DEF StoreInv, TypeInv, TypeOK, Idle
<1>2. QED
  BY <1>1 DEF RestInv, StoreInv, UsableInv, OwnedInv, CredentialsInv

LEMMA LastStep ==
  ASSUME PlanInv, ~Idle, Head(todo).op \in Final
  PROVE  Pending = {Head(todo)} /\ Head(todo) \in StepSet
<1>1. Ordered(todo) /\ todo # <<>>
  BY DEF PlanInv, Idle
<1>2. /\ Head(todo) \in StepSet /\ Tail(todo) = <<>>
      /\ Range(todo) = {Head(todo)} \union Range(Tail(todo))
  BY <1>1, FirstStep
<1>3. QED
  BY <1>2, NoSteps DEF Pending, Goes

LEMMA WriteKeeps ==
  ASSUME StoreInv, DoWrite
  PROVE  StoreInv' /\ KeepsOthers
<1>1. /\ ~Idle /\ Head(todo).op = "write" /\ state' = ws /\ ws' = ws /\ todo' = <<>>
      /\ owned' = owned \ lost /\ hurt' = hurt \intersect KeysOf(ws) /\ lost' = {}
      /\ upset' = {s \in upset \intersect DOMAIN ws.servers : UsesPath(s, ws.servers[s])}
      /\ kept' = kept /\ credentials' = credentials /\ failures' = failures
  BY DEF DoWrite, Doing
<1>2. Pending = {WriteState}
  BY <1>1, LastStep, StepsAre DEF StoreInv, Final
<1>3. /\ KeysOf(state)' = KeysOf(ws) /\ KeysOf(ws)' = KeysOf(ws) /\ Idle'
      /\ \A k, part : Has(k, part)' <=> Has(k, part)
      /\ \A p : In(p)' = In(p)
  BY <1>1 DEF KeysOf, Idle, Has, In
<1>4. /\ \A k \in KeysOf(state) \intersect KeysOf(ws) : ws.keys[k] = state.keys[k]
      /\ \A k \in New : ws.keys[k] = FreshKey
      /\ lost \subseteq Gone
  BY DEF StoreInv, PlanInv
<1>5. /\ \A k : Generate(k) \notin Pending /\ Fill(k) \notin Pending
      /\ \A k, part : Create(k, part) \notin Pending /\ ~Deleting(k, part)
      /\ \A p, s : Insert(p, s) \notin Pending
  BY <1>2, StepFields DEF Deleting
<1>6. TypeInv'
  <2>1. (StateFile(state) /\ StateFile(ws))'
    BY <1>1 DEF StoreInv, TypeInv, TypeOK, StateFile, KeysOf
  <2>2. (IsFiniteSet(KeysOf(state)) /\ IsFiniteSet(KeysOf(ws)))'
    BY <1>3 DEF StoreInv, TypeInv
  <2>3. KeptType(kept') /\ CredentialsType(credentials') /\ failures' \in 0 .. MaxFailures
    BY <1>1, TypeGives
  <2>4. upset' \subseteq Servers /\ owned' \subseteq Keys /\ lost' \subseteq Keys /\ hurt' \subseteq Keys
    BY <1>1, TypeGives
  <2>5. QED
    BY <1>1, <2>1, <2>2, <2>3, <2>4 DEF TypeInv, TypeOK, KeptType, CredentialsType
<1>7. ASSUME NEW k \in KeysOf(ws) \ hurt'
      PROVE  Usable(ws, k)
  <2>1. k \notin hurt
    BY <1>1, <1>7
  <2>2. CASE k \in KeysOf(state)
    BY <1>4, <2>1, <2>2 DEF StoreInv, UsableInv, Usable
  <2>3. CASE k \in New
    <3>1. Coming(k)
      BY <1>2, <2>3 DEF StoreInv, UsableInv
    <3>2. QED
      BY <1>5, <3>1 DEF Coming
  <2>4. QED
    BY <2>2, <2>3 DEF New
<1>8. owned' \subseteq DOMAIN kept' /\ owned' \subseteq KeysOf(ws)
  <2>1. ASSUME NEW k \in owned \ lost PROVE k \in KeysOf(ws)
    <3>1. k \in KeysOf(state) \union KeysOf(ws)
      BY DEF StoreInv, OwnedInv
    <3>2. k \notin Gone
      BY <1>2, <1>5 DEF StoreInv, OrphanInv
    <3>3. QED
      BY <3>1, <3>2 DEF Gone
  <2>2. owned \subseteq DOMAIN kept
    BY DEF StoreInv, OwnedInv
  <2>3. QED
    BY <1>1, <2>1, <2>2
<1>9. ASSUME NEW k \in KeysOf(ws)
      PROVE  IF ws.keys[k].decoupled THEN k \notin owned'
             ELSE k \in owned' \/ \A part \in PartsOf(ws.keys[k]) : ~Has(k, part)
  <2>1. k \in owned' <=> k \in owned
    BY <1>1, <1>4 DEF Gone
  <2>2. CASE k \in KeysOf(state)
    <3>1. ws.keys[k] = state.keys[k]
      BY <1>4, <2>2
    <3>2. IF state.keys[k].decoupled THEN k \notin owned
          ELSE k \in owned \/ \A part \in PartsOf(state.keys[k]) : ~Has(k, part)
      BY <2>2 DEF StoreInv, OwnedInv
    <3>3. QED
      BY <2>1, <3>1, <3>2
  <2>3. CASE k \in New
    <3>1. ~ws.keys[k].decoupled
      BY <1>4, <2>3 DEF FreshKey
    <3>2. k \in owned
      BY <1>2, <1>5, <2>3 DEF StoreInv, OwnedInv
    <3>3. QED
      BY <2>1, <3>1, <3>2
  <2>4. QED
    BY <2>2, <2>3 DEF New
<1>10. ASSUME NEW s \in DOMAIN ws.servers \ upset', NEW p, p = ws.servers[s], p # None
       PROVE  s \in In(p)
  <2>1. CASE UsesPath(s, p)
    <3>1. s \notin upset
      BY <1>1, <1>10, <2>1
    <3>2. s \in DOMAIN state.servers /\ state.servers[s] = p
      BY <2>1 DEF UsesPath
    <3>3. QED
      BY <1>10, <3>1, <3>2 DEF StoreInv, CredentialsInv
  <2>2. CASE ~UsesPath(s, p)
    BY <1>2, <1>5, <1>10, <2>2 DEF StoreInv, CredentialsInv
  <2>3. QED
    BY <2>1, <2>2
<1>11. RestInv'
  <2>1. \A k : Usable(state, k)' <=> Usable(ws, k)
    BY <1>1 DEF Usable, Has
  <2>2. QED
    BY <1>1, <1>3, <1>7, <1>8, <1>9, <1>10, <2>1 DEF RestInv
<1>12. StoreInv'
  BY <1>3, <1>6, <1>11, AtRestNext
<1>13. QED
  BY <1>1, <1>12 DEF KeepsOthers

LEMMA RefuseKeeps ==
  ASSUME StoreInv, DoRefuse
  PROVE  StoreInv' /\ KeepsOthers
<1>1. /\ ~Idle /\ Head(todo).op = "refuse" /\ ws' = state /\ todo' = <<>>
      /\ UNCHANGED <<state, kept, credentials, failures, owned, lost, hurt, upset>>
  BY DEF DoRefuse, Doing
<1>2. Pending = {Refuse}
  BY <1>1, LastStep, StepsAre DEF StoreInv, Final
<1>3. lost = {}
  BY <1>2 DEF StoreInv, PlanInv
<1>4. owned \subseteq KeysOf(state)
  <2>1. ASSUME NEW k \in owned PROVE k \in KeysOf(state)
    <3>1. k \in KeysOf(state) \union KeysOf(ws)
      BY DEF StoreInv, OwnedInv
    <3>2. \A part : ~Deleting(k, part)
      BY <1>2, StepFields DEF Deleting
    <3>3. k \notin New
      BY <1>2, <3>2 DEF StoreInv, OrphanInv
    <3>4. QED
      BY <3>1, <3>3 DEF New
  <2>2. QED
    BY <2>1
<1>5. RestInv
  BY <1>4 DEF RestInv, StoreInv, UsableInv, OwnedInv, CredentialsInv
<1>6. RestInv'
  BY <1>1, <1>5 DEF RestInv, Usable, Has, KeysOf, In
<1>7. TypeInv' /\ Idle'
  BY <1>1, <1>3 DEF StoreInv, TypeInv, TypeOK, StateFile, KeysOf, Idle
<1>8. StoreInv'
  BY <1>6, <1>7, AtRestNext
<1>9. QED
  BY <1>1, <1>8 DEF KeepsOthers

LEMMA AbandonKeeps ==
  ASSUME StoreInv, Abandon, UNCHANGED <<state, kept, hurt>>, failures' \in 0 .. MaxFailures,
         CredentialsType(credentials'), upset' \subseteq Servers,
         \A s \in DOMAIN state.servers \ upset' :
           \A p : p = state.servers[s] /\ p # None => s \in In(p)'
  PROVE  StoreInv' /\ KeepsOthers
<1>1. /\ ws' = state /\ todo' = <<>> /\ lost' = {} /\ state' = state /\ kept' = kept /\ hurt' = hurt
      /\ owned' = owned \ ((lost \union KeysOf(ws)) \ KeysOf(state))
  BY DEF Abandon
<1>2. /\ Idle' /\ KeysOf(state)' = KeysOf(state) /\ KeysOf(ws)' = KeysOf(state)
      /\ \A k, part : Has(k, part)' <=> Has(k, part)
      /\ \A k : Usable(state, k)' <=> Usable(state, k)
  BY <1>1 DEF KeysOf, Idle, Has, Usable
<1>3. TypeInv'
  <2>1. (StateFile(state) /\ StateFile(ws))'
    BY <1>1 DEF StoreInv, TypeInv, TypeOK, StateFile, KeysOf
  <2>2. (IsFiniteSet(KeysOf(state)) /\ IsFiniteSet(KeysOf(ws)))'
    BY <1>2 DEF StoreInv, TypeInv
  <2>3. KeptType(kept') /\ owned' \subseteq Keys /\ lost' \subseteq Keys /\ hurt' \subseteq Keys
    BY <1>1, TypeGives
  <2>4. QED
    BY <1>1, <2>1, <2>2, <2>3 DEF TypeInv, TypeOK, KeptType, CredentialsType
<1>4. /\ owned' \subseteq DOMAIN kept' /\ owned' \subseteq KeysOf(state)
      /\ \A k \in KeysOf(state) : k \in owned' <=> k \in owned
  BY <1>1 DEF StoreInv, OwnedInv
<1>5. /\ \A k \in KeysOf(state) \ hurt : Usable(state, k)
      /\ \A k \in KeysOf(state) :
           IF state.keys[k].decoupled THEN k \notin owned
           ELSE k \in owned \/ \A part \in PartsOf(state.keys[k]) : ~Has(k, part)
  BY DEF StoreInv, UsableInv, OwnedInv
<1>6. RestInv'
  BY <1>1, <1>2, <1>4, <1>5 DEF RestInv
<1>7. StoreInv'
  BY <1>2, <1>3, <1>6, AtRestNext
<1>8. QED
  BY <1>1, <1>7 DEF KeepsOthers

LEMMA SameCredentials ==
  ASSUME StoreInv, UNCHANGED <<credentials, upset>>
  PROVE  /\ CredentialsType(credentials') /\ upset' \subseteq Servers
         /\ \A s \in DOMAIN state.servers \ upset' :
              \A p : p = state.servers[s] /\ p # None => s \in In(p)'
<1>1. \A p : In(p)' = In(p)
  BY DEF In
<1>2. \A s \in DOMAIN state.servers \ upset :
        \A p : p = state.servers[s] /\ p # None => s \in In(p)
  BY DEF StoreInv, CredentialsInv
<1>3. QED
  BY <1>1, <1>2, TypeGives

LEMMA FailuresType ==
  ASSUME StoreInv, \/ failures' = failures
                   \/ failures < MaxFailures /\ failures' = failures + 1
  PROVE  failures' \in 0 .. MaxFailures
BY TypeGives, InvocationAssumption

LEMMA ErrorKeeps ==
  ASSUME StoreInv, Error \/ Failure
  PROVE  StoreInv' /\ KeepsOthers
<1>1. /\ Abandon /\ UNCHANGED <<state, kept, hurt, credentials, upset>>
      /\ failures' = failures \/ (failures < MaxFailures /\ failures' = failures + 1)
  BY DEF Error, Failure
<1>2. failures' \in 0 .. MaxFailures
  BY <1>1, FailuresType
<1>3. QED
  BY <1>1, <1>2, SameCredentials, AbandonKeeps

LEMMA CutOffKeeps ==
  ASSUME StoreInv, CutOff
  PROVE  StoreInv' /\ KeepsOthers
<1>0. PICK e, v : e = Head(todo) /\ v = {Garbage}
  OBVIOUS
<1>1. /\ ~Idle /\ e.op \in {"insert", "take"} /\ Abandon /\ UNCHANGED <<state, kept, hurt>>
      /\ failures < MaxFailures /\ failures' = failures + 1
      /\ credentials' = Override(credentials, {e.path}, v)
      /\ upset' = upset \union {s \in DOMAIN state.servers : UsesPath(s, e.path)}
  BY <1>0 DEF CutOff, Doing
<1>2. e.path \in Paths
  <2>1. Ordered(todo) /\ todo # <<>>
    BY <1>1 DEF StoreInv, PlanInv, Idle
  <2>2. e \in StepSet
    BY <1>0, <2>1, FirstStep
  <2>3. QED
    BY <1>1, <2>2, StepsAre
<1>3. Changed(credentials, credentials', e.path, v)
  BY <1>1, Overridden
<1>4. InSame(e.path) /\ CredentialsType(credentials')
  <2>1. v \subseteq Servers \union {Garbage}
    BY <1>0
  <2>2. QED
    BY <1>2, <1>3, <2>1, TypeGives, CredentialsChanged, TypeChanged
<1>5. upset' \subseteq Servers
  <2>1. DOMAIN state.servers \subseteq Servers
    BY DEF StoreInv, TypeInv, TypeOK, StateFile
  <2>2. QED
    BY <1>1, <2>1, TypeGives
<1>6. ASSUME NEW s \in DOMAIN state.servers \ upset', NEW p, p = state.servers[s], p # None
      PROVE  s \in In(p)'
  <2>1. s \notin upset /\ p # e.path
    BY <1>1, <1>6 DEF UsesPath
  <2>2. s \in In(p)
    BY <1>6, <2>1 DEF StoreInv, CredentialsInv
  <2>3. QED
    BY <1>4, <2>1, <2>2 DEF InSame
<1>7. failures' \in 0 .. MaxFailures
  BY <1>1, FailuresType
<1>8. QED
  BY <1>1, <1>4, <1>5, <1>6, <1>7, AbandonKeeps

LEMMA InvocationsStore ==
  ASSUME StoreInv, Invocations
  PROVE  StoreInv' /\ (~autoremove => KeepsOthers)
<1>1. autoremove' = autoremove
  BY DEF Invocations
<1>2. CASE DoCreate
  BY <1>1, <1>2, CreateKeeps
<1>3. CASE DoFill
  BY <1>1, <1>3, FillKeeps
<1>4. CASE DoGenerate
  BY <1>1, <1>4, GenerateKeeps
<1>5. CASE DoDelete
  BY <1>1, <1>5, DeleteKeeps
<1>6. CASE DoCredentials
  BY <1>1, <1>6, CredentialsKeep
<1>7. CASE DoWrite \/ DoRefuse
  BY <1>7, WriteKeeps, RefuseKeeps
<1>8. CASE Skip
  BY <1>1, <1>8, SkipKeeps
<1>9. CASE Error \/ Failure \/ CutOff
  BY <1>9, ErrorKeeps, CutOffKeeps
<1>10. QED
  BY <1>2, <1>3, <1>4, <1>5, <1>6, <1>7, <1>8, <1>9 DEF Invocations, Running, Disturbed

-----------------------------------------------------------------------------
(* What commands make of the state file.                                   *)

AddedTo(s, t, new, key) ==
  /\ StateFile(t) /\ KeysOf(t) = KeysOf(s) \union new /\ t.servers = s.servers
  /\ \A k \in new : t.keys[k] = key
  /\ \A k \in KeysOf(s) \ new : t.keys[k] = s.keys[k]

TakenFrom(s, t, gone) ==
  /\ StateFile(t) /\ KeysOf(t) = KeysOf(s) \ gone /\ t.servers = s.servers
  /\ \A k \in KeysOf(t) : t.keys[k] = s.keys[k]

LEMMA KeysAdded ==
  ASSUME NEW s, StateFile(s), NEW new \in SUBSET Keys, NEW key \in Key
  PROVE  AddedTo(s, AddKeys(s, new, key), new, key)
<1> DEFINE t == AddKeys(s, new, key)
<1>1. /\ DOMAIN t = DOMAIN s /\ t.servers = s.servers /\ t.default = s.default
      /\ t.keys = Override(s.keys, new, key)
  BY DEF StateFile, AddKeys
<1>2. t.keys = [k \in DOMAIN s.keys \union new |-> IF k \in new THEN key ELSE s.keys[k]]
  BY <1>1 DEF Override
<1> HIDE DEF t
<1>3. /\ KeysOf(t) = KeysOf(s) \union new
      /\ \A k \in new : t.keys[k] = key
      /\ \A k \in KeysOf(s) \ new : t.keys[k] = s.keys[k]
  BY <1>2 DEF KeysOf
<1>4. \A k \in KeysOf(t) : t.keys[k] \in Key
  BY <1>3 DEF StateFile
<1>5. StateFile(t)
  BY <1>1, <1>3, <1>4 DEF StateFile
<1>6. AddedTo(s, t, new, key)
  BY <1>1, <1>3, <1>5 DEF AddedTo
<1>7. QED
  BY <1>6 DEF t

LEMMA KeysTaken ==
  ASSUME NEW s, StateFile(s), NEW gone
  PROVE  TakenFrom(s, RemoveKeys(s, gone), gone)
<1> DEFINE t == RemoveKeys(s, gone)
<1>1. /\ DOMAIN t = DOMAIN s /\ t.servers = s.servers /\ t.default = s.default
      /\ t.keys = [k \in DOMAIN s.keys \ gone |-> s.keys[k]]
  BY DEF StateFile, RemoveKeys, Restrict
<1> HIDE DEF t
<1>2. KeysOf(t) = KeysOf(s) \ gone /\ \A k \in KeysOf(t) : t.keys[k] = s.keys[k]
  BY <1>1 DEF KeysOf
<1>3. StateFile(t)
  BY <1>1, <1>2 DEF StateFile
<1>4. TakenFrom(s, t, gone)
  BY <1>1, <1>2, <1>3 DEF TakenFrom
<1>5. QED
  BY <1>4 DEF t

(* A server and its credentials, with the keys left as they are. *)
ServerSet(t, s, path) ==
  /\ StateFile(t) /\ t.keys = state.keys
  /\ \A x \in DOMAIN t.servers :
       IF x = s THEN t.servers[x] = path
       ELSE x \in DOMAIN state.servers /\ t.servers[x] = state.servers[x]

LEMMA ServerIsSet ==
  ASSUME StateFile(state), NEW s \in Servers, NEW path \in Paths \union {None}, NEW default
  PROVE  ServerSet(WithServer(s, path, default), s, path)
<1> DEFINE t == WithServer(s, path, default)
<1>1. /\ DOMAIN t = DOMAIN state /\ t.keys = state.keys
      /\ t.default \in {s, state.default}
      /\ t.servers = Override(state.servers, {s}, path)
  BY DEF StateFile, WithServer
<1> HIDE DEF t
<1>2. Changed(state.servers, t.servers, s, path)
  BY <1>1, Overridden
<1>3. StateFile(t)
  BY <1>1, <1>2 DEF StateFile, Changed, KeysOf
<1>4. ServerSet(t, s, path)
  BY <1>1, <1>2, <1>3 DEF ServerSet, Changed
<1>5. QED
  BY <1>4 DEF t

LEMMA ServerGone ==
  ASSUME StateFile(state), NEW s, NEW path
  PROVE  ServerSet([state EXCEPT !.servers = Restrict(@, DOMAIN @ \ {s})], s, path)
<1> DEFINE t == [state EXCEPT !.servers = Restrict(@, DOMAIN @ \ {s})]
<1>1. /\ DOMAIN t = DOMAIN state /\ t.keys = state.keys /\ t.default = state.default
      /\ t.servers = [x \in DOMAIN state.servers \ {s} |-> state.servers[x]]
  BY DEF StateFile, Restrict
<1> HIDE DEF t
<1>2. StateFile(t)
  BY <1>1 DEF StateFile, KeysOf
<1>3. ServerSet(t, s, path)
  BY <1>1, <1>2 DEF ServerSet
<1>4. QED
  BY <1>3 DEF t

-----------------------------------------------------------------------------
(* A command that is done at once.                                         *)

Committable(new) ==
  /\ StateFile(new)
  /\ KeysOf(new) \subseteq KeysOf(state)
  /\ \A k \in KeysOf(new) : /\ PartsOf(new.keys[k]) = PartsOf(state.keys[k])
                            /\ new.keys[k].decoupled = state.keys[k].decoupled
  /\ \A k \in KeysOf(state) \ KeysOf(new) : k \notin owned
  /\ \A s \in DOMAIN new.servers : \A p : p = new.servers[s] /\ p # None =>
       UsesPath(s, p) \/ s \in In(p)

LEMMA CommitStore ==
  ASSUME StoreInv, NEW new, Commit(new), Committable(new)
  PROVE  StoreInv' /\ KeepsOthers
<1>1. /\ Idle /\ state' = new /\ ws' = new /\ hurt' = hurt \intersect KeysOf(new)
      /\ UNCHANGED <<todo, kept, credentials, failures, owned, lost, upset>>
  BY DEF Commit
<1>2. RestInv /\ lost = {}
  BY <1>1, Rest DEF StoreInv, TypeInv, TypeOK
<1>3. /\ Idle' /\ KeysOf(state)' = KeysOf(new) /\ KeysOf(ws)' = KeysOf(new)
      /\ \A k, part : Has(k, part)' <=> Has(k, part)
      /\ \A p : In(p)' = In(p)
      /\ \A k : Usable(state, k)' <=> Usable(new, k)
  BY <1>1 DEF Idle, KeysOf, Has, In, Usable
<1>4. TypeInv'
  <2>1. StateFile(new)
    BY DEF Committable
  <2>2. (StateFile(state) /\ StateFile(ws))'
    BY <1>1, <2>1 DEF StateFile, KeysOf
  <2>3. IsFiniteSet(KeysOf(new))
    BY FS_Subset DEF Committable, StoreInv, TypeInv
  <2>4. KeptType(kept') /\ CredentialsType(credentials') /\ failures' \in 0 .. MaxFailures
    BY <1>1, TypeGives
  <2>5. upset' \subseteq Servers /\ owned' \subseteq Keys /\ lost' \subseteq Keys /\ hurt' \subseteq Keys
    BY <1>1, TypeGives
  <2>6. QED
    BY <1>1, <1>2, <1>3, <2>2, <2>3, <2>4, <2>5 DEF TypeInv, TypeOK, KeptType, CredentialsType
<1>5. ASSUME NEW k \in KeysOf(new) \ hurt' PROVE Usable(new, k)
  <2>1. k \in KeysOf(state) \ hurt /\ PartsOf(new.keys[k]) = PartsOf(state.keys[k])
    BY <1>1, <1>5 DEF Committable
  <2>2. Usable(state, k)
    BY <1>2, <2>1 DEF RestInv
  <2>3. QED
    BY <2>1, <2>2 DEF Usable
<1>6. owned \subseteq DOMAIN kept /\ owned \subseteq KeysOf(new)
  BY <1>2 DEF RestInv, Committable
<1>7. ASSUME NEW k \in KeysOf(new)
      PROVE  IF new.keys[k].decoupled THEN k \notin owned
             ELSE k \in owned \/ \A part \in PartsOf(new.keys[k]) : ~Has(k, part)
  <2>1. /\ k \in KeysOf(state) /\ PartsOf(new.keys[k]) = PartsOf(state.keys[k])
        /\ new.keys[k].decoupled = state.keys[k].decoupled
    BY DEF Committable
  <2>2. IF state.keys[k].decoupled THEN k \notin owned
        ELSE k \in owned \/ \A part \in PartsOf(state.keys[k]) : ~Has(k, part)
    BY <1>2, <2>1 DEF RestInv
  <2>3. QED
    BY <2>1, <2>2
<1>8. ASSUME NEW s \in DOMAIN new.servers \ upset, NEW p, p = new.servers[s], p # None
      PROVE  s \in In(p)
  <2>1. UsesPath(s, p) \/ s \in In(p)
    BY <1>8 DEF Committable
  <2>2. UsesPath(s, p) => s \in In(p)
    BY <1>2, <1>8 DEF RestInv, UsesPath
  <2>3. QED
    BY <2>1, <2>2
<1>9. RestInv'
  BY <1>1, <1>3, <1>5, <1>6, <1>7, <1>8 DEF RestInv
<1>10. StoreInv'
  BY <1>3, <1>4, <1>9, AtRestNext
<1>11. QED
  BY <1>1, <1>10 DEF KeepsOthers

(* The keys and the servers stay as they are.                              *)
LEMMA ServersUsePaths ==
  ASSUME NEW t, t.servers = state.servers
  PROVE  \A s \in DOMAIN t.servers : \A p : p = t.servers[s] => UsesPath(s, p)
BY DEF UsesPath

LEMMA MarkedCommittable ==
  ASSUME StateFile(state), NEW k \in KeysOf(state)
  PROVE  Committable([state EXCEPT !.keys[k].stale = TRUE])
<1> DEFINE t == [state EXCEPT !.keys[k].stale = TRUE]
<1>1. /\ DOMAIN t = DOMAIN state /\ t.servers = state.servers /\ t.default = state.default
      /\ t.keys = [state.keys EXCEPT ![k].stale = TRUE]
  BY DEF StateFile
<1>2. state.keys[k] \in Key
  BY DEF StateFile
<1> HIDE DEF t
<1>3. KeysOf(t) = KeysOf(state) /\ \A x \in KeysOf(state) \ {k} : t.keys[x] = state.keys[x]
  BY <1>1 DEF KeysOf
<1>4. t.keys[k] = [state.keys[k] EXCEPT !.stale = TRUE]
  BY <1>1 DEF KeysOf
<1>5. /\ t.keys[k] \in Key /\ t.keys[k].private = state.keys[k].private
      /\ t.keys[k].decoupled = state.keys[k].decoupled
  BY <1>2, <1>4 DEF Key
<1>6. StateFile(t)
  <2>1. \A x \in KeysOf(t) : t.keys[x] \in Key
    BY <1>3, <1>5 DEF StateFile
  <2>2. QED
    BY <1>1, <1>3, <2>1 DEF StateFile
<1>7. \A x \in KeysOf(t) : /\ PartsOf(t.keys[x]) = PartsOf(state.keys[x])
                           /\ t.keys[x].decoupled = state.keys[x].decoupled
  BY <1>3, <1>5 DEF PartsOf
<1>8. Committable(t)
  BY <1>1, <1>3, <1>6, <1>7, ServersUsePaths DEF Committable
<1>9. QED
  BY <1>8 DEF t

LEMMA ForgottenCommittable ==
  ASSUME StoreInv, NEW k \in KeysOf(state), state.keys[k].decoupled
  PROVE  Committable(RemoveKeys(state, {k}))
<1>1. PICK t : t = RemoveKeys(state, {k})
  OBVIOUS
<1>2. StateFile(state)
  BY DEF StoreInv, TypeInv, TypeOK
<1>3. TakenFrom(state, t, {k})
  BY <1>1, <1>2, KeysTaken
<1>4. k \notin owned
  BY DEF StoreInv, OwnedInv
<1>5. Committable(t)
  BY <1>3, <1>4, ServersUsePaths DEF Committable, TakenFrom
<1>6. QED
  BY <1>1, <1>5

LEMMA DefaultCommittable ==
  ASSUME StateFile(state), NEW d \in Servers \union {None}
  PROVE  Committable([state EXCEPT !.default = d])
<1>1. PICK t : t = [state EXCEPT !.default = d]
  OBVIOUS
<1>2. /\ DOMAIN t = DOMAIN state /\ t.keys = state.keys /\ t.servers = state.servers /\ t.default = d
  BY <1>1 DEF StateFile
<1>3. StateFile(t)
  BY <1>2 DEF StateFile, KeysOf
<1>4. Committable(t)
  BY <1>2, <1>3, ServersUsePaths DEF Committable, KeysOf
<1>5. QED
  BY <1>1, <1>4

LEMMA ServerCommittable ==
  ASSUME NEW t, NEW s, NEW path, ServerSet(t, s, path),
         path = None \/ UsesPath(s, path) \/ s \in In(path)
  PROVE  Committable(t)
<1>1. \A x \in DOMAIN t.servers : \A p : p = t.servers[x] /\ p # None =>
        UsesPath(x, p) \/ x \in In(p)
  BY DEF ServerSet, UsesPath
<1>2. QED
  BY <1>1 DEF ServerSet, Committable, KeysOf

-----------------------------------------------------------------------------
(* What is not a step of an invocation.                                    *)

LEMMA ImportStore ==
  ASSUME StoreInv, NEW k \in Keys, NEW private \in BOOLEAN, NEW decoupled \in BOOLEAN,
         Import(k, private, decoupled)
  PROVE  StoreInv' /\ KeepsOthers
<1>0. PICK key : key = [private |-> private, decoupled |-> decoupled, stale |-> FALSE]
  OBVIOUS
<1>1. /\ Idle /\ k \notin KeysOf(state)
      /\ \A part \in PartsOf(key) : Has(k, part)
      /\ kept[k].written
      /\ state' = AddKeys(state, {k}, key) /\ ws' = state'
      /\ UNCHANGED <<todo, kept, credentials, failures, lost, hurt, upset>>
  BY <1>0 DEF Import
<1>2. owned' = IF decoupled THEN owned \ {k} ELSE owned \union {k}
  BY DEF Import
<1>3. key \in Key /\ key.decoupled = decoupled
  BY <1>0 DEF Key
<1>4. StateFile(state) /\ RestInv /\ lost = {}
  BY <1>1, Rest DEF StoreInv, TypeInv, TypeOK
<1>5. PICK t : t = AddKeys(state, {k}, key)
  OBVIOUS
<1>6. AddedTo(state, t, {k}, key) /\ state' = t /\ ws' = t
  BY <1>1, <1>3, <1>4, <1>5, KeysAdded
<1>7. /\ Idle' /\ KeysOf(state)' = KeysOf(t) /\ KeysOf(ws)' = KeysOf(t)
      /\ \A x, part : Has(x, part)' <=> Has(x, part)
      /\ \A p : In(p)' = In(p)
      /\ \A x : Usable(state, x)' <=> Usable(t, x)
  BY <1>1, <1>6 DEF Idle, KeysOf, Has, In, Usable
<1>8. KeysOf(t) = KeysOf(state) \union {k} /\ t.keys[k] = key
      /\ \A x \in KeysOf(state) : x # k /\ t.keys[x] = state.keys[x]
  BY <1>1, <1>6 DEF AddedTo
<1>9. "public" \in PartsOf(key)
  BY DEF PartsOf, Parts
<1>10. Usable(t, k) /\ k \in DOMAIN kept
  BY <1>1, <1>8, <1>9 DEF Usable, Has
<1>11. TypeInv'
  <2>1. (StateFile(state) /\ StateFile(ws))'
    BY <1>6 DEF AddedTo, StateFile, KeysOf
  <2>2. IsFiniteSet(KeysOf(t))
    BY <1>8, FS_AddElement DEF StoreInv, TypeInv
  <2>3. KeptType(kept') /\ CredentialsType(credentials') /\ failures' \in 0 .. MaxFailures
    BY <1>1, TypeGives
  <2>4. owned' \subseteq Keys
    BY <1>2, TypeGives
  <2>5. upset' \subseteq Servers /\ lost' \subseteq Keys /\ hurt' \subseteq Keys
    BY <1>1, TypeGives
  <2>6. QED
    BY <1>1, <1>4, <1>6, <1>7, <2>1, <2>2, <2>3, <2>4, <2>5
    DEF TypeInv, TypeOK, KeptType, CredentialsType
<1>12. \A x \in KeysOf(t) \ hurt : Usable(t, x)
  <2>1. ASSUME NEW x \in KeysOf(state) \ hurt PROVE Usable(t, x)
    BY <1>4, <1>8, <2>1 DEF RestInv, Usable
  <2>2. QED
    BY <1>8, <1>10, <2>1
<1>13. owned' \subseteq DOMAIN kept /\ owned' \subseteq KeysOf(t)
  BY <1>2, <1>4, <1>8, <1>10 DEF RestInv
<1>14. ASSUME NEW x \in KeysOf(t)
       PROVE  IF t.keys[x].decoupled THEN x \notin owned'
              ELSE x \in owned' \/ \A part \in PartsOf(t.keys[x]) : ~Has(x, part)
  <2>1. CASE x = k
    BY <1>2, <1>3, <1>8, <2>1
  <2>2. CASE x \in KeysOf(state)
    <3>1. /\ t.keys[x] = state.keys[x] /\ (x \in owned' <=> x \in owned)
      BY <1>2, <1>8, <2>2
    <3>2. QED
      BY <1>4, <2>2, <3>1 DEF RestInv
  <2>3. QED
    BY <1>8, <2>1, <2>2
<1>15. ASSUME NEW s \in DOMAIN t.servers \ upset, NEW p, p = t.servers[s], p # None
       PROVE  s \in In(p)
  BY <1>4, <1>6, <1>15 DEF RestInv, AddedTo
<1>16. RestInv'
  BY <1>1, <1>6, <1>7, <1>12, <1>13, <1>14, <1>15 DEF RestInv
<1>17. StoreInv'
  BY <1>7, <1>11, <1>16, AtRestNext
<1>18. QED
  BY <1>1, <1>17 DEF KeepsOthers

LEMMA PlanSame ==
  ASSUME PlanInv, UNCHANGED <<state, ws, todo, lost, autoremove>>
  PROVE  /\ PlanInv' /\ Pending' = Pending /\ New' = New /\ Gone' = Gone
         /\ KeysOf(state)' = KeysOf(state) /\ KeysOf(ws)' = KeysOf(ws)
         /\ \A x, part : Deleting(x, part)' <=> Deleting(x, part)
         /\ \A x : Making(x)' <=> Making(x)
<1>1. /\ Pending' = Pending /\ New' = New /\ Gone' = Gone
      /\ KeysOf(state)' = KeysOf(state) /\ KeysOf(ws)' = KeysOf(ws)
  BY DEF Pending, New, Gone, KeysOf
<1>2. /\ \A x, part : Deleting(x, part)' <=> Deleting(x, part)
      /\ \A x : Making(x)' <=> Making(x)
      /\ \A e : /\ DeletesNamed(e)' <=> DeletesNamed(e)
                /\ DeletesMade(e)' <=> DeletesMade(e)
  BY <1>1 DEF Deleting, Making, DeletesNamed, DeletesMade
<1>3. PlanInv'
  BY <1>1, <1>2 DEF PlanInv, Idle
<1>4. QED
  BY <1>1, <1>2, <1>3

LEMMA ForeignStore ==
  ASSUME StoreInv, NEW k, k \notin KeysOf(state) \union KeysOf(ws) \union owned, SameBut(k),
         KeptType(kept'), DOMAIN kept \subseteq DOMAIN kept',
         k \in DOMAIN kept => kept[k].parts \subseteq kept'[k].parts,
         UNCHANGED <<state, ws, todo, credentials, failures, owned, lost, hurt, upset, autoremove>>
  PROVE  StoreInv' /\ KeepsOthers
<1>1. /\ PlanInv' /\ Pending' = Pending /\ New' = New /\ Gone' = Gone
      /\ KeysOf(state)' = KeysOf(state) /\ KeysOf(ws)' = KeysOf(ws)
      /\ \A x, part : Deleting(x, part)' <=> Deleting(x, part)
      /\ \A x : Making(x)' <=> Making(x)
  BY PlanSame DEF StoreInv
<1>2. /\ \A x : x # k => \A part : Has(x, part) <=> Has(x, part)'
      /\ \A x : x # k => (x \in DOMAIN kept <=> x \in DOMAIN kept')
  BY HasSame
<1>3. /\ \A x : x # k /\ Usable(state, x) => Usable(state, x)'
      /\ \A x : x # k /\ Usable(ws, x) => Usable(ws, x)'
  BY UsableSame
<1>4. k \notin New /\ k \notin Gone /\ k \notin KeysOf(state)
  BY DEF New, Gone
<1>5. TypeInv'
  BY <1>1 DEF StoreInv, TypeInv, TypeOK, KeptType, StateFile, KeysOf, Idle
<1>6. UsableInv'
  <2>1. \A x : x # k /\ Coming(x) => Coming(x)'
    BY <1>1, <1>2, <1>3 DEF Coming
  <2>2. \A x \in KeysOf(state) \ hurt : Usable(state, x)'
    BY <1>3, <1>4 DEF StoreInv, UsableInv
  <2>3. WriteState \in Pending => \A x \in New : Coming(x)'
    BY <1>4, <2>1 DEF StoreInv, UsableInv
  <2>4. QED
    BY <1>1, <2>2, <2>3 DEF UsableInv
<1>7. OwnedInv'
  <2>1. owned \subseteq DOMAIN kept' /\ owned \subseteq KeysOf(state) \union KeysOf(ws)
    BY DEF StoreInv, OwnedInv
  <2>2. \A x \in KeysOf(state) :
          IF state.keys[x].decoupled THEN x \notin owned
          ELSE x \in owned \/ \A part \in PartsOf(state.keys[x]) : ~Has(x, part)'
    BY <1>2, <1>4 DEF StoreInv, OwnedInv
  <2>3. \A x \in New :
          \/ x \in owned \/ Generate(x) \in Pending \/ Create(x, "private") \in Pending
          \/ WriteState \notin Pending /\ x \notin DOMAIN kept'
    BY <1>2, <1>4 DEF StoreInv, OwnedInv
  <2>4. QED
    BY <1>1, <2>1, <2>2, <2>3 DEF OwnedInv
<1>8. OrphanInv'
  BY <1>1, <1>2, <1>4 DEF StoreInv, OrphanInv
<1>9. CredentialsInv'
  BY <1>1 DEF StoreInv, CredentialsInv, In, UsesPath
<1>10. KeepsOthers
  BY DEF KeepsOthers, SameBut
<1>11. QED
  BY <1>1, <1>5, <1>6, <1>7, <1>8, <1>9, <1>10 DEF StoreInv

LEMMA ForeignMade ==
  ASSUME StoreInv, NEW k \in Keys, k \notin DOMAIN kept \union KeysOf(state) \union KeysOf(ws),
         NEW parts \in (SUBSET Parts) \ {{}}, NEW written \in BOOLEAN,
         kept' = Override(kept, {k}, Kept(parts, written)),
         UNCHANGED <<state, ws, todo, credentials, failures, owned, lost, hurt, upset, autoremove>>
  PROVE  StoreInv' /\ KeepsOthers
<1>1. PICK v : v = Kept(parts, written)
  OBVIOUS
<1>2. Changed(kept, kept', k, v)
  BY <1>1, Overridden
<1>3. KeptType(kept')
  BY <1>1, <1>2, TypeGives, KeptOverridden
<1>4. k \notin owned
  BY DEF StoreInv, OwnedInv
<1>5. SameBut(k) /\ DOMAIN kept \subseteq DOMAIN kept'
  BY <1>2 DEF Changed, SameBut
<1>6. QED
  BY <1>3, <1>4, <1>5, ForeignStore

LEMMA KeygenStore ==
  ASSUME StoreInv, Keygen
  PROVE  StoreInv' /\ KeepsOthers
<1>1. PICK k \in Foreign :
        /\ k[1] = "file" /\ k \notin KeysOf(state) \union KeysOf(ws) \union owned
        /\ \/ /\ k \notin DOMAIN kept /\ RoomForOthers
              /\ kept' = Override(kept, {k}, Kept({"private"}, FALSE))
           \/ /\ k \in DOMAIN kept /\ kept[k] = Kept({"private"}, FALSE)
              /\ kept' = [kept EXCEPT ![k] = Kept(Parts, FALSE)]
           \/ /\ k \in DOMAIN kept /\ kept[k] = Kept(Parts, FALSE)
              /\ kept' = [kept EXCEPT ![k].written = TRUE]
  BY DEF Keygen
<1>2. UNCHANGED <<state, ws, todo, credentials, failures, owned, lost, hurt, upset, autoremove>>
  BY DEF Keygen
<1>3. k \in Keys /\ {"private"} \in (SUBSET Parts) \ {{}} /\ Parts \in (SUBSET Parts) \ {{}}
  BY InvocationAssumption DEF Parts
<1>4. KeptType(kept)
  BY TypeGives
<1>5. CASE k \notin DOMAIN kept /\ kept' = Override(kept, {k}, Kept({"private"}, FALSE))
  <2>1. FALSE \in BOOLEAN
    OBVIOUS
  <2>2. k \notin DOMAIN kept \union KeysOf(state) \union KeysOf(ws)
    BY <1>1, <1>5
  <2>3. QED
    BY <1>2, <1>3, <1>5, <2>1, <2>2, ForeignMade, Zenon
<1>6. CASE /\ k \in DOMAIN kept /\ kept[k] = Kept({"private"}, FALSE)
           /\ kept' = [kept EXCEPT ![k] = Kept(Parts, FALSE)]
  <2>1. PICK v : v = Kept(Parts, FALSE)
    OBVIOUS
  <2>2. v.parts = Parts /\ v \in [parts : (SUBSET Parts) \ {{}}, written : BOOLEAN]
    BY <1>3, <2>1 DEF Kept
  <2>3. kept' = [kept EXCEPT ![k] = v]
    BY <1>6, <2>1, Zenon
  <2>4. KeptType(kept') /\ SameBut(k) /\ DOMAIN kept' = DOMAIN kept /\ kept'[k].parts = Parts
    BY <1>4, <1>6, <2>2, <2>3 DEF KeptType, SameBut
  <2>5. kept[k].parts \subseteq Parts
    BY <1>4, <1>6 DEF KeptType
  <2>6. QED
    BY <1>1, <1>2, <2>4, <2>5, ForeignStore
<1>7. CASE k \in DOMAIN kept /\ kept' = [kept EXCEPT ![k].written = TRUE]
  <2>1. KeptType(kept') /\ SameBut(k) /\ DOMAIN kept' = DOMAIN kept /\ kept'[k].parts = kept[k].parts
    BY <1>4, <1>7 DEF KeptType, SameBut
  <2>2. QED
    BY <1>1, <1>2, <2>1, ForeignStore
<1>8. QED
  BY <1>1, <1>5, <1>6, <1>7, Zenon

LEMMA OtherKeyStore ==
  ASSUME StoreInv, OtherKey
  PROVE  StoreInv' /\ KeepsOthers
<1>1. PICK k \in Foreign :
        /\ k \notin DOMAIN kept \union KeysOf(state) \union KeysOf(ws)
        /\ kept' = Override(kept, {k}, Kept(Parts, TRUE))
  BY DEF OtherKey
<1>2. UNCHANGED <<state, ws, todo, credentials, failures, owned, lost, hurt, upset, autoremove>>
  BY DEF OtherKey
<1>3. k \in Keys /\ Parts \in (SUBSET Parts) \ {{}}
  BY InvocationAssumption DEF Parts
<1>4. TRUE \in BOOLEAN
  OBVIOUS
<1>5. QED
  BY <1>1, <1>2, <1>3, <1>4, ForeignMade, Zenon

(* The look into a credentials file that makes an empty one.               *)
LEMMA AddServerRefusedStore ==
  ASSUME StoreInv, NEW path \in Paths, AddServerRefused(path), autoremove' = autoremove
  PROVE  StoreInv' /\ KeepsOthers
<1>1. /\ Idle /\ path \notin DOMAIN credentials /\ credentials' = Override(credentials, {path}, {})
      /\ UNCHANGED <<state, ws, todo, kept, failures, owned, lost, hurt, upset>>
  BY DEF AddServerRefused
<1>2. PICK v : v = {}
  OBVIOUS
<1>3. Changed(credentials, credentials', path, v)
  BY <1>1, <1>2, Overridden
<1>4. \A p : In(p)' = In(p)
  BY <1>1, <1>2, <1>3, CredentialsChanged DEF InSame, In
<1>5. CredentialsType(credentials')
  BY <1>2, <1>3, TypeGives, TypeChanged
<1>6. RestInv /\ Idle'
  BY <1>1, Rest DEF Idle
<1>7. RestInv'
  BY <1>1, <1>4, <1>6 DEF RestInv, KeysOf, Usable, Has
<1>8. TypeInv'
  BY <1>1, <1>5 DEF StoreInv, TypeInv, TypeOK, CredentialsType, StateFile, KeysOf, Idle
<1>9. StoreInv'
  BY <1>6, <1>7, <1>8, AtRestNext
<1>10. QED
  BY <1>1, <1>9 DEF KeepsOthers

LEMMA StutterStore ==
  ASSUME StoreInv, UNCHANGED vars
  PROVE  StoreInv' /\ KeepsOthers
<1>1. /\ UNCHANGED <<state, ws, todo, kept, credentials, failures, owned, lost, hurt, upset>>
      /\ autoremove' = autoremove
  BY DEF vars, invocationVars
<1>2. /\ PlanInv' /\ Pending' = Pending /\ New' = New /\ Gone' = Gone
      /\ KeysOf(state)' = KeysOf(state) /\ KeysOf(ws)' = KeysOf(ws)
      /\ \A x, part : Deleting(x, part)' <=> Deleting(x, part)
      /\ \A x : Making(x)' <=> Making(x)
  BY <1>1, PlanSame DEF StoreInv
<1>3. TypeInv'
  BY <1>1, <1>2 DEF StoreInv, TypeInv, TypeOK, StateFile, KeysOf, Idle
<1>4. UsableInv' /\ OwnedInv'
  BY <1>1, <1>2 DEF StoreInv, UsableInv, OwnedInv, Coming, Usable, Has
<1>5. OrphanInv' /\ CredentialsInv'
  BY <1>1, <1>2 DEF StoreInv, OrphanInv, CredentialsInv, Has, In, UsesPath
<1>6. QED
  BY <1>1, <1>2, <1>3, <1>4, <1>5 DEF StoreInv, KeepsOthers

-----------------------------------------------------------------------------
(* A command begins.                                                       *)

Deletes(S, k, part) == \E e \in S : e.op = "delete" /\ e.key = k /\ e.part = part

KeysIn(new, S) ==
  /\ StateFile(new) /\ IsFiniteSet(KeysOf(new))
  /\ \A k \in KeysOf(new) \intersect KeysOf(state) : new.keys[k] = state.keys[k]
  /\ \A k \in KeysOf(new) \ KeysOf(state) :
       /\ new.keys[k] = FreshKey
       /\ Generate(k) \in S \/ (Fill(k) \in S /\ \A part \in Parts : Create(k, part) \in S)
  /\ \A e \in S :
       /\ e.op \in {"create", "fill", "generate"} => e.key \in KeysOf(new) \ KeysOf(state)
       /\ e.op = "create" => Fill(e.key) \in S

DeletesIn(new, S) ==
  /\ \A e \in S : e.op = "delete" =>
       \/ /\ e.key \in KeysOf(state) \ KeysOf(new)
          /\ e.part \in PartsOf(state.keys[e.key])
          /\ state.keys[e.key].decoupled => autoremove
          /\ Refuse \notin S
       \/ e.key \in KeysOf(new) \ KeysOf(state) /\ e.required /\ WriteState \notin S
  /\ WriteState \in S =>
       \A k \in KeysOf(state) \ KeysOf(new) :
         \A part \in PartsOf(state.keys[k]) : Deletes(S, k, part)
  /\ Refuse \in S =>
       \A k \in KeysOf(new) \ KeysOf(state) : \A part \in Parts : Deletes(S, k, part)

CredentialsIn(new, S) ==
  /\ \A p \in Paths : Unlink(p) \in S => \E s \in Servers : In(p) = {s} /\ Take(p, s) \in S
  /\ WriteState \in S =>
       \A s \in DOMAIN new.servers : \A p : p = new.servers[s] /\ p # None =>
         UsesPath(s, p) \/ Insert(p, s) \in S

Program(new, S) ==
  /\ WriteState \in S \/ Refuse \in S \/ Fails \in S
  /\ KeysIn(new, S) /\ DeletesIn(new, S) /\ CredentialsIn(new, S)

LEMMA BeginStore ==
  ASSUME StoreInv, NEW new, NEW steps, NEW S, Begin(new, steps), autoremove' = autoremove,
         Goes(steps, S), Program(new, S)
  PROVE  StoreInv' /\ KeepsOthers
<1>1. /\ Idle /\ ws' = new /\ todo' = steps
      /\ UNCHANGED <<state, kept, credentials, failures, owned, lost, hurt, upset>>
  BY DEF Begin
<1>2. RestInv /\ lost = {}
  BY <1>1, Rest DEF StoreInv, TypeInv, TypeOK
<1>3. Pending' = S /\ Ordered(todo)' /\ S # {} /\ ~Idle'
  <2>1. S # {}
    BY DEF Program
  <2>2. Pending' = S /\ Ordered(todo)'
    BY <1>1 DEF Pending, Goes
  <2>3. Idle' => Pending' = {}
    BY NoSteps DEF Idle, Pending, Goes
  <2>4. QED
    BY <2>1, <2>2, <2>3
<1>4. PICK N, G : N = KeysOf(new) \ KeysOf(state) /\ G = KeysOf(state) \ KeysOf(new)
  OBVIOUS
<1>5. /\ New' = N /\ Gone' = G /\ KeysOf(state)' = KeysOf(state) /\ KeysOf(ws)' = KeysOf(new)
      /\ \A x, part : Has(x, part)' <=> Has(x, part)
      /\ \A p : In(p)' = In(p) /\ \A s : UsesPath(s, p)' <=> UsesPath(s, p)
      /\ \A x : Usable(state, x)' <=> Usable(state, x)
  BY <1>1, <1>4 DEF New, Gone, KeysOf, Has, In, UsesPath, Usable
<1>6. \A x, part : Deleting(x, part)' <=> Deletes(S, x, part)
  BY <1>3 DEF Deleting, Deletes
<1>7. TypeInv'
  <2>1. StateFile(new) /\ IsFiniteSet(KeysOf(new))
    BY DEF Program, KeysIn
  <2>2. (StateFile(state) /\ StateFile(ws))'
    BY <1>1, <2>1 DEF StoreInv, TypeInv, TypeOK, StateFile, KeysOf
  <2>3. (IsFiniteSet(KeysOf(state)) /\ IsFiniteSet(KeysOf(ws)))'
    BY <1>5, <2>1 DEF StoreInv, TypeInv
  <2>4. KeptType(kept') /\ CredentialsType(credentials') /\ failures' \in 0 .. MaxFailures
    BY <1>1, TypeGives
  <2>5. upset' \subseteq Servers /\ owned' \subseteq Keys /\ lost' \subseteq Keys /\ hurt' \subseteq Keys
    BY <1>1, TypeGives
  <2>6. QED
    BY <1>3, <2>2, <2>3, <2>4, <2>5 DEF TypeInv, TypeOK, KeptType, CredentialsType
<1>8. PlanInv'
  <2>1. \A k \in KeysOf(state) \intersect KeysOf(new) : new.keys[k] = state.keys[k]
    BY DEF Program, KeysIn
  <2>2. \A k \in N : new.keys[k] = FreshKey
    BY <1>4 DEF Program, KeysIn
  <2>3. \A e \in S : /\ e.op \in {"create", "fill", "generate"} => e.key \in N
                     /\ e.op = "create" => Fill(e.key) \in S
    BY <1>4 DEF Program, KeysIn
  <2>4. \A e \in S : e.op = "delete" =>
          \/ /\ e.key \in G /\ e.part \in PartsOf(state.keys[e.key])
             /\ state.keys[e.key].decoupled => autoremove
             /\ Refuse \notin S
          \/ e.key \in N /\ e.required /\ WriteState \notin S
    BY <1>4 DEF Program, DeletesIn
  <2>5. \A e : /\ DeletesNamed(e)' <=> /\ e.key \in G /\ e.part \in PartsOf(state.keys[e.key])
                                       /\ state.keys[e.key].decoupled => autoremove
               /\ DeletesMade(e)' <=> e.key \in N /\ e.required /\ WriteState \notin S
    BY <1>1, <1>3, <1>5 DEF DeletesNamed, DeletesMade
  <2>6. \A e \in S : /\ e.op = "delete" => DeletesNamed(e)' \/ DeletesMade(e)'
                     /\ e.op = "delete" /\ Refuse \in S => DeletesMade(e)'
    BY <2>4, <2>5
  <2>7. WriteState \in S \/ Refuse \in S \/ Fails \in S
    BY DEF Program
  <2>8. QED
    BY <1>1, <1>2, <1>3, <1>5, <2>1, <2>2, <2>3, <2>6, <2>7 DEF PlanInv
<1>9. UsableInv'
  <2>1. \A k \in N : Coming(k)'
    BY <1>3, <1>4 DEF Program, KeysIn, Coming
  <2>2. QED
    BY <1>1, <1>2, <1>5, <2>1 DEF RestInv, UsableInv
<1>10. OwnedInv'
  <2>1. "private" \in Parts
    BY DEF Parts
  <2>2. \A k \in N : Generate(k) \in S \/ Create(k, "private") \in S
    BY <1>4, <2>1 DEF Program, KeysIn
  <2>3. QED
    BY <1>1, <1>2, <1>3, <1>5, <2>2 DEF RestInv, OwnedInv
<1>11. OrphanInv'
  <2>1. ASSUME WriteState \in S, NEW k \in G
        PROVE  /\ Deletes(S, k, "public")
               /\ state.keys[k].private => Deletes(S, k, "private")
    <3>1. \A part \in PartsOf(state.keys[k]) : Deletes(S, k, part)
      BY <1>4, <2>1 DEF Program, DeletesIn
    <3>2. /\ "public" \in PartsOf(state.keys[k])
          /\ state.keys[k].private => "private" \in PartsOf(state.keys[k])
      BY DEF PartsOf, Parts
    <3>3. QED
      BY <3>1, <3>2
  <2>2. ASSUME Refuse \in S, NEW k \in N
        PROVE  Deletes(S, k, "public") /\ Deletes(S, k, "private")
    BY <1>4, <2>2 DEF Program, DeletesIn, Parts
  <2>3. QED
    BY <1>1, <1>3, <1>5, <1>6, <2>1, <2>2 DEF OrphanInv
<1>12. CredentialsInv'
  <2>1. /\ \A p \in Paths : Unlink(p) \in S => \E s \in Servers : In(p) = {s} /\ Take(p, s) \in S
        /\ WriteState \in S =>
             \A s \in DOMAIN new.servers : \A p : p = new.servers[s] /\ p # None =>
               UsesPath(s, p) \/ Insert(p, s) \in S
    BY DEF Program, CredentialsIn
  <2>2. \A s \in DOMAIN state.servers \ upset :
          state.servers[s] # None => s \in In(state.servers[s])
    BY <1>2 DEF RestInv
  <2>3. QED
    BY <1>1, <1>3, <1>5, <2>1, <2>2 DEF CredentialsInv
<1>13. KeepsOthers
  BY <1>1 DEF KeepsOthers
<1>14. QED
  BY <1>7, <1>8, <1>9, <1>10, <1>11, <1>12, <1>13 DEF StoreInv

-----------------------------------------------------------------------------
(* The invocations that make and delete keys.                              *)

LEMMA MakingFacts ==
  ASSUME NEW A
  PROVE  /\ \A e \in MakingSet(A) :
              /\ e.op \in {"create", "fill", "generate"} /\ e.key \in A
              /\ e.op = "create" => Fill(e.key) \in MakingSet(A)
         /\ \A k \in A : \/ Generate(k) \in MakingSet(A)
                         \/ /\ Fill(k) \in MakingSet(A)
                            /\ \A part \in Parts : Create(k, part) \in MakingSet(A)
<1>1. ASSUME NEW k \in A, k[1] = "file"
      PROVE  FileSet(k) \subseteq MakingSet(A)
  BY <1>1 DEF MakingSet
<1>2. ASSUME NEW k \in A, k[1] # "file"
      PROVE  Generate(k) \in MakingSet(A)
  BY <1>2 DEF MakingSet
<1>3. \A k : Fill(k) \in FileSet(k) /\ \A part \in Parts : Create(k, part) \in FileSet(k)
  BY DEF FileSet, Parts
<1>4. ASSUME NEW e \in MakingSet(A)
      PROVE  /\ e.op \in {"create", "fill", "generate"} /\ e.key \in A
             /\ e.op = "create" => Fill(e.key) \in MakingSet(A)
  <2>1. PICK k \in A : e \in IF k[1] = "file" THEN FileSet(k) ELSE {Generate(k)}
    BY DEF MakingSet
  <2>2. CASE k[1] = "file"
    <3>1. e.op \in {"create", "fill"} /\ e.key = k
      BY <2>1, <2>2, StepFields DEF FileSet
    <3>2. QED
      BY <1>1, <1>3, <2>2, <3>1
  <2>3. CASE k[1] # "file"
    BY <2>1, <2>3, StepFields
  <2>4. QED
    BY <2>2, <2>3
<1>5. QED
  BY <1>1, <1>2, <1>3, <1>4

LEMMA CleanupFacts ==
  ASSUME NEW A
  PROVE  /\ \A e \in CleanupSet(A) : e.op = "delete" /\ e.key \in A /\ e.required
         /\ \A k \in A, part \in Parts : Deletes(CleanupSet(A), k, part)
<1>1. ASSUME NEW e \in CleanupSet(A)
      PROVE  e.op = "delete" /\ e.key \in A /\ e.required
  <2>1. PICK k \in A : e = Delete(k, "private", TRUE) \/ e = Delete(k, "public", TRUE)
    BY Zenon DEF CleanupSet
  <2>2. PICK part : e = Delete(k, part, TRUE)
    BY <2>1, Zenon
  <2>3. QED
    BY <2>2, DeleteFields, Zenon
<1>2. ASSUME NEW k \in A, NEW part \in Parts
      PROVE  Deletes(CleanupSet(A), k, part)
  <2>1. part = "private" \/ part = "public"
    BY DEF Parts
  <2>2. Delete(k, part, TRUE) \in {Delete(k, "private", TRUE), Delete(k, "public", TRUE)}
    BY <2>1, Zenon
  <2>3. Delete(k, part, TRUE) \in CleanupSet(A)
    BY <2>2, Zenon DEF CleanupSet
  <2>4. /\ Delete(k, part, TRUE).op = "delete" /\ Delete(k, part, TRUE).key = k
        /\ Delete(k, part, TRUE).part = part
    BY DeleteFields, Zenon
  <2>5. QED
    BY <2>3, <2>4, Zenon DEF Deletes
<1>3. QED
  BY <1>1, <1>2

(* The keys A are new, the keys in G are gone.                             *)
Replaced(t, A, G) ==
  /\ StateFile(t) /\ t.servers = state.servers
  /\ KeysOf(t) = (KeysOf(state) \union A) \ G
  /\ \A k \in A : t.keys[k] = FreshKey
  /\ \A k \in KeysOf(state) \ G : t.keys[k] = state.keys[k]

Removal(D, G) ==
  /\ \A e \in D : /\ e.op = "delete" /\ e.key \in G /\ e.part \in PartsOf(state.keys[e.key])
                  /\ state.keys[e.key].decoupled => autoremove
  /\ \A k \in G : \A part \in PartsOf(state.keys[k]) : Deletes(D, k, part)

LEMMA ReplacedKeys ==
  ASSUME StoreInv, NEW A, IsFiniteSet(A), A \intersect KeysOf(state) = {},
         NEW G \in SUBSET KeysOf(state), NEW t, Replaced(t, A, G)
  PROVE  /\ IsFiniteSet(KeysOf(t))
         /\ KeysOf(t) \ KeysOf(state) = A /\ KeysOf(state) \ KeysOf(t) = G
         /\ \A s \in DOMAIN t.servers : \A p : p = t.servers[s] => UsesPath(s, p)
<1>1. IsFiniteSet(KeysOf(state) \union A)
  BY FS_Union DEF StoreInv, TypeInv
<1>2. KeysOf(t) \subseteq KeysOf(state) \union A
  BY DEF Replaced
<1>3. IsFiniteSet(KeysOf(t))
  BY <1>1, <1>2, FS_Subset
<1>4. KeysOf(t) \ KeysOf(state) = A /\ KeysOf(state) \ KeysOf(t) = G
  BY DEF Replaced
<1>5. QED
  BY <1>3, <1>4, ServersUsePaths DEF Replaced

LEMMA RollProgram ==
  ASSUME StoreInv, NEW A, IsFiniteSet(A), A \intersect KeysOf(state) = {},
         NEW G \in SUBSET KeysOf(state), NEW D, Removal(D, G), NEW t, Replaced(t, A, G)
  PROVE  Program(t, (MakingSet(A) \union D) \union {WriteState})
<1>1. PICK S : S = (MakingSet(A) \union D) \union {WriteState}
  OBVIOUS
<1>2. /\ IsFiniteSet(KeysOf(t))
      /\ KeysOf(t) \ KeysOf(state) = A /\ KeysOf(state) \ KeysOf(t) = G
      /\ \A s \in DOMAIN t.servers : \A p : p = t.servers[s] => UsesPath(s, p)
  BY ReplacedKeys
<1>3. \A e \in S : \/ e \in MakingSet(A) /\ e.op \in {"create", "fill", "generate"}
                   \/ e \in D /\ e.op = "delete"
                   \/ e = WriteState /\ e.op = "write"
  BY <1>1, MakingFacts, StepFields DEF Removal
<1>4. KeysIn(t, S)
  <2>1. \A k \in A : Generate(k) \in S \/ (Fill(k) \in S /\ \A part \in Parts : Create(k, part) \in S)
    BY <1>1, MakingFacts
  <2>2. ASSUME NEW e \in S
        PROVE  /\ e.op \in {"create", "fill", "generate"} => e.key \in A
               /\ e.op = "create" => Fill(e.key) \in S
    <3>1. e.op \in {"create", "fill", "generate"} => e \in MakingSet(A)
      BY <1>3
    <3>2. QED
      BY <1>1, <3>1, MakingFacts
  <2>3. QED
    BY <1>2, <2>1, <2>2 DEF KeysIn, Replaced
<1>5. Refuse \notin S /\ WriteState \in S /\ \A p : Unlink(p) \notin S
  BY <1>1, <1>3, StepFields
<1>6. DeletesIn(t, S)
  <2>1. ASSUME NEW e \in S, e.op = "delete"
        PROVE  /\ e.key \in G /\ e.part \in PartsOf(state.keys[e.key])
               /\ state.keys[e.key].decoupled => autoremove
    BY <1>3, <2>1 DEF Removal
  <2>2. \A k \in G : \A part \in PartsOf(state.keys[k]) : Deletes(S, k, part)
    BY <1>1 DEF Removal, Deletes
  <2>3. QED
    BY <1>2, <1>5, <2>1, <2>2 DEF DeletesIn
<1>7. CredentialsIn(t, S)
  BY <1>2, <1>5 DEF CredentialsIn
<1>8. Program(t, S)
  BY <1>4, <1>5, <1>6, <1>7 DEF Program
<1>9. QED
  BY <1>1, <1>8

LEMMA RefusedProgram ==
  ASSUME StoreInv, NEW A, IsFiniteSet(A), A \intersect KeysOf(state) = {},
         NEW t, Replaced(t, A, {})
  PROVE  Program(t, (MakingSet(A) \union CleanupSet(A)) \union {Refuse})
<1>1. PICK S : S = (MakingSet(A) \union CleanupSet(A)) \union {Refuse}
  OBVIOUS
<1>2. /\ IsFiniteSet(KeysOf(t))
      /\ KeysOf(t) \ KeysOf(state) = A /\ KeysOf(state) \ KeysOf(t) = {}
  BY ReplacedKeys
<1>3. \A e \in S : \/ e \in MakingSet(A) /\ e.op \in {"create", "fill", "generate"}
                   \/ e \in CleanupSet(A) /\ e.op = "delete"
                   \/ e = Refuse /\ e.op = "refuse"
  BY <1>1, MakingFacts, CleanupFacts, StepFields
<1>4. KeysIn(t, S)
  <2>1. \A k \in A : Generate(k) \in S \/ (Fill(k) \in S /\ \A part \in Parts : Create(k, part) \in S)
    BY <1>1, MakingFacts
  <2>2. ASSUME NEW e \in S
        PROVE  /\ e.op \in {"create", "fill", "generate"} => e.key \in A
               /\ e.op = "create" => Fill(e.key) \in S
    <3>1. e.op \in {"create", "fill", "generate"} => e \in MakingSet(A)
      BY <1>3
    <3>2. QED
      BY <1>1, <3>1, MakingFacts
  <2>3. QED
    BY <1>2, <2>1, <2>2 DEF KeysIn, Replaced
<1>5. Refuse \in S /\ WriteState \notin S /\ \A p : Unlink(p) \notin S
  BY <1>1, <1>3, StepFields
<1>6. DeletesIn(t, S)
  <2>1. ASSUME NEW e \in S, e.op = "delete" PROVE e.key \in A /\ e.required
    BY <1>3, <2>1, CleanupFacts
  <2>2. \A k \in A : \A part \in Parts : Deletes(S, k, part)
    BY <1>1, CleanupFacts DEF Deletes
  <2>3. QED
    BY <1>2, <1>5, <2>1, <2>2 DEF DeletesIn
<1>7. CredentialsIn(t, S)
  BY <1>5 DEF CredentialsIn
<1>8. Program(t, S)
  BY <1>4, <1>5, <1>6, <1>7 DEF Program
<1>9. QED
  BY <1>1, <1>8

LEMMA NewKeysAre ==
  ASSUME StateFile(state), NEW new \in NewKeys
  PROVE  FewKeys(new) /\ ToSet(new) \intersect KeysOf(state) = {}
<1> DEFINE store == IF state.default = None THEN "file" ELSE state.default
           fresh == {k \in {store} \X (Names \ Tags) : store = "file" \/ k \notin DOMAIN kept}
<1>1. ASSUME NEW k \in fresh PROVE k \in Keys /\ k \notin KeysOf(state)
  <2>1. store \in Stores
    BY DEF StateFile, Stores
  <2>2. k \in {store} \X (Names \ Tags)
    OBVIOUS
  <2>3. k \in Keys /\ k[2] \notin Tags
    BY <2>1, <2>2 DEF Keys
  <2>4. \A x \in KeysOf(state) : x[2] \in Tags
    BY DEF Tags
  <2>5. QED
    BY <2>3, <2>4
<1>2. /\ new \in {<<k>> : k \in fresh} \union (fresh \X fresh)
      /\ Len(new) = 2 => new[1] # new[2]
  BY DEF NewKeys
<1> HIDE DEF store, fresh
<1>3. (\E k \in fresh : new = <<k>>) \/ (\E k, l \in fresh : k # l /\ new = <<k, l>>)
  <2>1. ASSUME new \in fresh \X fresh PROVE \E k, l \in fresh : k # l /\ new = <<k, l>>
    <3>1. PICK k \in fresh, l \in fresh : new = <<k, l>>
      BY <2>1
    <3>2. Len(new) = 2 /\ new[1] = k /\ new[2] = l
      BY <3>1
    <3>3. QED
      BY <1>2, <3>1, <3>2
  <2>2. QED
    BY <1>2, <2>1
<1>4. FewKeys(new)
  BY <1>1, <1>3 DEF FewKeys
<1>5. ToSet(new) \subseteq fresh
  BY <1>3, <1>4, FewKeysAre
<1>6. QED
  BY <1>1, <1>4, <1>5

LEMMA FewKeysSet ==
  ASSUME NEW new, FewKeys(new)
  PROVE  ToSet(new) \in SUBSET Keys /\ IsFiniteSet(ToSet(new))
<1>1. IsFiniteSet({}) /\ (\A k : IsFiniteSet({k})) /\ \A k, l : IsFiniteSet({k, l})
  <2>1. IsFiniteSet({})
    BY FS_EmptySet
  <2>2. \A k : IsFiniteSet({k})
    BY FS_Singleton
  <2>3. ASSUME NEW k, NEW l PROVE IsFiniteSet({k, l})
    <3>1. IsFiniteSet({k} \union {l})
      BY <2>2, FS_AddElement
    <3>2. {k} \union {l} = {k, l}
      OBVIOUS
    <3>3. QED
      BY <3>1, <3>2
  <2>4. QED
    BY <2>1, <2>2, <2>3
<1>2. \/ ToSet(new) = {} \/ \E k \in Keys : ToSet(new) = {k}
      \/ \E k, l \in Keys : ToSet(new) = {k, l}
  BY FewKeysAre DEF FewKeys
<1>3. QED
  BY <1>1, <1>2

LEMMA MadeReplaced ==
  ASSUME StoreInv, NEW new, FewKeys(new), ToSet(new) \intersect KeysOf(state) = {},
         NEW gone \in SUBSET KeysOf(state)
  PROVE  /\ Replaced(Made(new), ToSet(new), {})
         /\ Replaced(RemoveKeys(Made(new), gone), ToSet(new), gone)
<1>1. PICK A, t, u : A = ToSet(new) /\ t = Made(new) /\ u = RemoveKeys(Made(new), gone)
  OBVIOUS
<1>2. A \in SUBSET Keys /\ A \intersect KeysOf(state) = {}
  BY <1>1, FewKeysSet
<1>3. FreshKey \in Key
  BY DEF FreshKey, Key
<1>4. StateFile(state)
  BY DEF StoreInv, TypeInv, TypeOK
<1>5. t = AddKeys(state, A, FreshKey)
  BY <1>1, Zenon DEF Made, FreshKey
<1>6. AddedTo(state, t, A, FreshKey)
  BY <1>2, <1>3, <1>4, <1>5, KeysAdded
<1>7. TakenFrom(t, u, gone)
  BY <1>1, <1>6, KeysTaken DEF AddedTo
<1>8. Replaced(t, A, {})
  BY <1>2, <1>6 DEF Replaced, AddedTo
<1>9. Replaced(u, A, gone)
  BY <1>2, <1>6, <1>7 DEF Replaced, AddedTo, TakenFrom
<1>10. QED
  BY <1>1, <1>8, <1>9

LEMMA FinalIsLast ==
  ASSUME NEW e \in StepSet, e.op \in Final, NEW t, NEW S, Goes(t, S),
         \A f \in S : f.op \notin Final /\ ~OutOfOrder(f, e)
  PROVE  Goes(t \o <<e>>, S \union {e})
<1>1. Goes(<<e>>, {e})
  BY OneStep
<1>2. Before(S, {e})
  BY DEF Before
<1>3. QED
  BY <1>1, <1>2, GoesAfter

(* Keys are deleted in any order, but of each its private key first.       *)
LEMMA DeletesAre ==
  ASSUME NEW gone
  PROVE  \A e : e \in DeletesOf(gone) <=>
           \E k \in gone : \E part \in PartsOf(state.keys[k]) : e = Delete(k, part, TRUE)
<1> DEFINE Those(k) == {Delete(k, part, TRUE) : part \in PartsOf(state.keys[k])}
<1>1. DeletesOf(gone) = UNION {Those(k) : k \in gone}
  BY Zenon DEF DeletesOf
<1>2. \A e, k : e \in Those(k) <=> \E part \in PartsOf(state.keys[k]) : e = Delete(k, part, TRUE)
  BY Zenon
<1> HIDE DEF Those
<1>3. \A e : e \in DeletesOf(gone) <=> \E k \in gone : e \in Those(k)
  BY <1>1
<1>4. QED
  BY <1>2, <1>3, Zenon

LEMMA DeletesFinite ==
  ASSUME NEW gone, IsFiniteSet(gone)
  PROVE  IsFiniteSet(DeletesOf(gone))
<1>1. PICK yes : yes = TRUE
  OBVIOUS
<1>2. PICK S : S = DeletesOf(gone)
  OBVIOUS
<1>3. \A e \in S : \E k \in gone : \E part \in Parts : e = Delete(k, part, yes)
  <2>1. \A k : PartsOf(state.keys[k]) \subseteq Parts
    BY DEF PartsOf, Parts
  <2>2. ASSUME NEW e \in S PROVE \E k \in gone : \E part \in Parts : e = Delete(k, part, yes)
    <3>1. PICK k \in gone : \E part \in PartsOf(state.keys[k]) : e = Delete(k, part, TRUE)
      BY <1>2, DeletesAre, Zenon
    <3>2. PICK part \in PartsOf(state.keys[k]) : e = Delete(k, part, TRUE)
      BY <3>1, Zenon
    <3>3. part \in Parts
      BY <2>1
    <3>4. QED
      BY <1>1, <3>2, <3>3, Zenon
  <2>3. QED
    BY <2>2
<1>4. IsFiniteSet(gone \X Parts)
  <2>1. IsFiniteSet({"private"} \union {"public"})
    BY FS_Singleton, FS_AddElement
  <2>2. {"private"} \union {"public"} = Parts
    BY DEF Parts
  <2>3. IsFiniteSet(Parts)
    BY <2>1, <2>2
  <2>4. QED
    BY <2>3, FS_Product
<1> DEFINE f == [x \in gone \X Parts |-> Delete(x[1], x[2], yes)]
           T == {f[x] : x \in gone \X Parts}
<1>5. f \in Surjection(gone \X Parts, T)
  BY DEF Surjection
<1>6. IsFiniteSet(T)
  BY <1>4, <1>5, FS_Surjection
<1>7. S \subseteq T
  <2>1. ASSUME NEW k \in gone, NEW part \in Parts PROVE Delete(k, part, yes) \in T
    <3>1. <<k, part>> \in gone \X Parts /\ f[<<k, part>>] = Delete(k, part, yes)
      OBVIOUS
    <3>2. QED
      BY <3>1
  <2>2. QED
    BY <1>3, <2>1
<1>8. QED
  BY <1>2, <1>6, <1>7, FS_Subset

LEMMA EachOnce ==
  ASSUME NEW S, IsFiniteSet(S), NEW t \in SetToSeqs(S)
  PROVE  /\ t \in Seq(S) /\ Range(t) = S
         /\ \A i, j \in 1 .. Len(t) : i # j => t[i] # t[j]
<1>1. PICK n : n = Cardinality(S)
  OBVIOUS
<1>2. n \in Nat
  BY <1>1, FS_CardinalityType
<1>3. t \in [1 .. n -> S] /\ \A i, j \in 1 .. n : i # j => t[i] # t[j]
  BY <1>1 DEF SetToSeqs
<1>4. t \in Seq(S) /\ Len(t) = n
  BY <1>2, <1>3
<1>5. IsFiniteSet(1 .. n) /\ Cardinality(1 .. n) = n
  BY <1>2, FS_Interval
<1>6. t \in Injection(1 .. n, S)
  BY <1>3 DEF Injection, IsInjective
<1>7. t \in Surjection(1 .. n, S)
  BY <1>1, <1>5, <1>6, FS_Injection
<1>8. Range(t) = S
  <2>1. Range(t) = {t[i] : i \in 1 .. n}
    BY <1>4, RangeEquality
  <2>2. QED
    BY <1>3, <1>7, <2>1 DEF Surjection
<1>9. QED
  BY <1>3, <1>4, <1>8

LEMMA RemovalSteps ==
  ASSUME StoreInv, autoremove, NEW gone \in SUBSET KeysOf(state), NEW t \in DeleteSteps(gone)
  PROVE  Goes(t, DeletesOf(gone)) /\ Removal(DeletesOf(gone), gone)
<1>1. PICK S, yes : S = DeletesOf(gone) /\ yes = TRUE
  OBVIOUS
<1>2. gone \subseteq Keys /\ IsFiniteSet(gone)
  BY FS_Subset DEF StoreInv, TypeInv, TypeOK, StateFile
<1>3. IsFiniteSet(S)
  BY <1>1, <1>2, DeletesFinite
<1>4. /\ t \in SetToSeqs(S)
      /\ \A i \in DOMAIN t : t[i].part = "private" =>
           i < Len(t) /\ t[i + 1] = Delete(t[i].key, "public", yes)
  BY <1>1, Zenon DEF DeleteSteps
<1>5. /\ t \in Seq(S) /\ Range(t) = S
      /\ \A i, j \in 1 .. Len(t) : i # j => t[i] # t[j]
  BY <1>3, <1>4, EachOnce
<1>6. \A e \in S : /\ e.op = "delete" /\ e.key \in gone /\ e.part \in PartsOf(state.keys[e.key])
                   /\ e = Delete(e.key, e.part, yes)
  <2>1. SUFFICES ASSUME NEW e \in S
                 PROVE  /\ e.op = "delete" /\ e.key \in gone
                        /\ e.part \in PartsOf(state.keys[e.key]) /\ e = Delete(e.key, e.part, yes)
    OBVIOUS
  <2>2. PICK k \in gone : \E part \in PartsOf(state.keys[k]) : e = Delete(k, part, TRUE)
    BY <1>1, DeletesAre, Zenon
  <2>3. PICK part \in PartsOf(state.keys[k]) : e = Delete(k, part, yes)
    BY <1>1, <2>2, Zenon
  <2>4. e.op = "delete" /\ e.key = k /\ e.part = part
    BY <2>3, DeleteFields
  <2>5. QED
    BY <2>3, <2>4
<1>7. \A k \in gone : \A part \in PartsOf(state.keys[k]) : Delete(k, part, yes) \in S
  BY <1>1, DeletesAre, Zenon
<1>8. S \subseteq StepSet
  <2>1. yes \in BOOLEAN
    BY <1>1
  <2>2. \A k : PartsOf(state.keys[k]) \subseteq Parts
    BY DEF PartsOf, Parts
  <2>3. QED
    BY <1>2, <1>6, <2>1, <2>2, DeleteIsStep
<1>9. ASSUME NEW i \in 1 .. Len(t), NEW j \in 1 .. Len(t), i < j
      PROVE  ~OutOfOrder(t[i], t[j])
  <2>1. t[i] \in S /\ t[j] \in S /\ DOMAIN t = 1 .. Len(t) /\ Len(t) \in Nat
    BY <1>5
  <2>2. SUFFICES ASSUME t[j].key = t[i].key, t[i].part = "public", t[j].part = "private"
                 PROVE  FALSE
    BY <1>6, <2>1 DEF OutOfOrder, Makes, Final
  <2>3. j < Len(t) /\ t[j + 1] = Delete(t[j].key, "public", yes)
    BY <1>4, <2>1, <2>2
  <2>4. t[i] = Delete(t[i].key, t[i].part, yes)
    BY <1>6, <2>1
  <2>5. t[j + 1] = t[i]
    BY <2>2, <2>3, <2>4
  <2>6. j + 1 \in 1 .. Len(t) /\ j + 1 # i
    BY <1>9, <2>1, <2>3
  <2>7. QED
    BY <1>5, <2>5, <2>6
<1>10. t \in Seq(StepSet)
  <2>1. t \in [1 .. Len(t) -> S] /\ Len(t) \in Nat
    BY <1>5
  <2>2. t \in [1 .. Len(t) -> StepSet]
    BY <1>8, <2>1
  <2>3. QED
    BY <2>1, <2>2
<1>11. Goes(t, S)
  BY <1>5, <1>9, <1>10 DEF Goes, Ordered
<1>12. Removal(S, gone)
  <2>1. \A k \in gone : \A part \in PartsOf(state.keys[k]) : Deletes(S, k, part)
    <3>1. SUFFICES ASSUME NEW k \in gone, NEW part \in PartsOf(state.keys[k])
                   PROVE  Deletes(S, k, part)
      OBVIOUS
    <3>2. Delete(k, part, yes) \in S
      BY <1>7
    <3>3. QED
      BY <3>2, DeleteFields DEF Deletes
  <2>2. QED
    BY <1>6, <2>1 DEF Removal
<1>13. QED
  BY <1>1, <1>11, <1>12

LEMMA MakeThenDelete ==
  ASSUME NEW A, NEW a, Goes(a, MakingSet(A)), NEW b, NEW D, Goes(b, D),
         \A f \in D : f.op = "delete",
         NEW e \in StepSet, e.op \in {"write", "refuse"}
  PROVE  Goes((a \o b) \o <<e>>, (MakingSet(A) \union D) \union {e})
<1>1. Before(MakingSet(A), D)
  BY MakingFacts DEF Before, OutOfOrder, Final
<1>2. Goes(a \o b, MakingSet(A) \union D)
  BY <1>1, GoesAfter
<1>3. \A f \in MakingSet(A) \union D : f.op \notin Final /\ ~OutOfOrder(f, e)
  BY MakingFacts DEF OutOfOrder, Makes, Final
<1>4. e.op \in Final
  BY DEF Final
<1>5. QED
  BY <1>2, <1>3, <1>4, FinalIsLast

LEMMA LastSteps ==
  /\ WriteState \in StepSet /\ Refuse \in StepSet /\ Fails \in StepSet
  /\ WriteState.op = "write" /\ Refuse.op = "refuse" /\ Fails.op = "fails"
BY StepFields DEF StepSet

LEMMA StartRollStore ==
  ASSUME StoreInv, StartRoll
  PROVE  StoreInv' /\ KeepsOthers
<1>1. PICK new \in NewKeys : Begin(Made(new), Steps(new, MakeSteps) \o <<WriteState>>)
  BY DEF StartRoll
<1>2. FewKeys(new) /\ ToSet(new) \intersect KeysOf(state) = {}
  BY NewKeysAre DEF StoreInv, TypeInv, TypeOK
<1>3. PICK A, t, a : A = ToSet(new) /\ t = Made(new) /\ a = Steps(new, MakeSteps)
  OBVIOUS
<1>4. IsFiniteSet(A) /\ A \intersect KeysOf(state) = {} /\ Replaced(t, A, {})
  BY <1>2, <1>3, FewKeysSet, MadeReplaced
<1>5. Goes(a, MakingSet(A))
  BY <1>2, <1>3, MakeAll
<1>6. Goes(a \o <<WriteState>>, MakingSet(A) \union {WriteState})
  <2>1. \A f \in MakingSet(A) : f.op \notin Final /\ ~OutOfOrder(f, WriteState)
    BY LastSteps, MakingFacts DEF OutOfOrder, Makes, Final
  <2>2. WriteState.op \in Final
    BY LastSteps DEF Final
  <2>3. QED
    BY <1>5, <2>1, <2>2, LastSteps, FinalIsLast
<1>7. Removal({}, {})
  BY DEF Removal
<1>8. Program(t, (MakingSet(A) \union {}) \union {WriteState})
  BY <1>4, <1>7, RollProgram
<1>9. Program(t, MakingSet(A) \union {WriteState})
  <2>1. MakingSet(A) \union {} = MakingSet(A)
    OBVIOUS
  <2>2. QED
    BY <1>8, <2>1
<1>10. Begin(t, a \o <<WriteState>>) /\ autoremove' = autoremove
  BY <1>1, <1>3 DEF StartRoll
<1>11. QED
  BY <1>6, <1>9, <1>10, BeginStore

LEMMA RefuseRollStore ==
  ASSUME StoreInv, RefuseRoll
  PROVE  StoreInv' /\ KeepsOthers
<1>1. PICK new \in NewKeys :
        Begin(Made(new), Steps(new, MakeSteps) \o Steps(new, CleanupSteps) \o <<Refuse>>)
  BY DEF RefuseRoll
<1>2. FewKeys(new) /\ ToSet(new) \intersect KeysOf(state) = {}
  BY NewKeysAre DEF StoreInv, TypeInv, TypeOK
<1>3. PICK A, t, a, b : /\ A = ToSet(new) /\ t = Made(new)
                        /\ a = Steps(new, MakeSteps) /\ b = Steps(new, CleanupSteps)
  OBVIOUS
<1>4. IsFiniteSet(A) /\ A \intersect KeysOf(state) = {} /\ Replaced(t, A, {})
  BY <1>2, <1>3, FewKeysSet, MadeReplaced
<1>5. Goes(a, MakingSet(A)) /\ Goes(b, CleanupSet(A))
  BY <1>2, <1>3, MakeAll, CleanupAll
<1>6. \A f \in CleanupSet(A) : f.op = "delete"
  BY CleanupFacts
<1>7. Goes((a \o b) \o <<Refuse>>, (MakingSet(A) \union CleanupSet(A)) \union {Refuse})
  BY <1>5, <1>6, LastSteps, MakeThenDelete
<1>8. Program(t, (MakingSet(A) \union CleanupSet(A)) \union {Refuse})
  BY <1>4, RefusedProgram
<1>9. Begin(t, (a \o b) \o <<Refuse>>) /\ autoremove' = autoremove
  BY <1>1, <1>3 DEF RefuseRoll
<1>10. QED
  BY <1>7, <1>8, <1>9, BeginStore

LEMMA CronStore ==
  ASSUME StoreInv, Cron
  PROVE  StoreInv' /\ KeepsOthers
<1>1. PICK new \in {<<>>} \union NewKeys, gone \in SUBSET StaleKeys \ {{}} :
        \E deletes \in DeleteSteps(gone) :
          Begin(RemoveKeys(Made(new), gone), Steps(new, MakeSteps) \o deletes \o <<WriteState>>)
  BY DEF Cron
<1>2. PICK b \in DeleteSteps(gone) :
        Begin(RemoveKeys(Made(new), gone), Steps(new, MakeSteps) \o b \o <<WriteState>>)
  BY <1>1
<1>3. autoremove /\ autoremove' = autoremove
  BY DEF Cron
<1>4. FewKeys(new) /\ ToSet(new) \intersect KeysOf(state) = {}
  <2>1. CASE new \in NewKeys
    BY <2>1, NewKeysAre DEF StoreInv, TypeInv, TypeOK
  <2>2. CASE new = <<>>
    BY <2>2, FewKeysAre DEF FewKeys
  <2>3. QED
    BY <2>1, <2>2
<1>5. gone \in SUBSET KeysOf(state)
  BY DEF StaleKeys
<1>6. PICK A, t, a, D : /\ A = ToSet(new) /\ t = RemoveKeys(Made(new), gone)
                        /\ a = Steps(new, MakeSteps) /\ D = DeletesOf(gone)
  OBVIOUS
<1>7. IsFiniteSet(A) /\ A \intersect KeysOf(state) = {} /\ Replaced(t, A, gone)
  BY <1>4, <1>5, <1>6, FewKeysSet, MadeReplaced
<1>8. Goes(a, MakingSet(A)) /\ Goes(b, D) /\ Removal(D, gone)
  BY <1>3, <1>4, <1>5, <1>6, MakeAll, RemovalSteps
<1>9. \A f \in D : f.op = "delete"
  BY <1>8 DEF Removal
<1>10. Goes((a \o b) \o <<WriteState>>, (MakingSet(A) \union D) \union {WriteState})
  BY <1>8, <1>9, LastSteps, MakeThenDelete
<1>11. Program(t, (MakingSet(A) \union D) \union {WriteState})
  BY <1>5, <1>7, <1>8, RollProgram
<1>12. Begin(t, (a \o b) \o <<WriteState>>)
  BY <1>2, <1>6
<1>13. QED
  BY <1>3, <1>10, <1>11, <1>12, BeginStore

(* remove-key takes the private key, if there is one, then the public one. *)
LEMMA RemoveStepsAre ==
  ASSUME NEW k, NEW continue
  PROVE  \E first, second \in BOOLEAN :
           RemoveSteps(k, continue) =
             (IF state.keys[k].private THEN <<Delete(k, "private", first)>> ELSE <<>>)
               \o <<Delete(k, "public", second), WriteState>>
<1>1. (~continue) \in BOOLEAN /\ (~(state.keys[k].private \/ continue)) \in BOOLEAN
  OBVIOUS
<1>2. RemoveSteps(k, continue) =
        (IF state.keys[k].private THEN <<Delete(k, "private", ~continue)>> ELSE <<>>)
          \o <<Delete(k, "public", ~(state.keys[k].private \/ continue)), WriteState>>
  BY Zenon DEF RemoveSteps
<1>3. QED
  BY <1>1, <1>2, Zenon

LEMMA RemoveKeySteps ==
  ASSUME StoreInv, NEW k \in KeysOf(state), ~state.keys[k].decoupled, NEW continue
  PROVE  \E D : /\ Goes(RemoveSteps(k, continue), D \union {WriteState})
                /\ Removal(D, {k}) /\ \A f \in D : f.op = "delete"
<1>1. PICK first \in BOOLEAN, second \in BOOLEAN :
        RemoveSteps(k, continue) =
          (IF state.keys[k].private THEN <<Delete(k, "private", first)>> ELSE <<>>)
            \o <<Delete(k, "public", second), WriteState>>
  BY RemoveStepsAre, Zenon
<1>2. PICK d, e, w : /\ d = Delete(k, "private", first) /\ e = Delete(k, "public", second)
                     /\ w = WriteState
  OBVIOUS
<1>3. /\ d.op = "delete" /\ d.key = k /\ d.part = "private"
      /\ e.op = "delete" /\ e.key = k /\ e.part = "public" /\ w.op = "write"
  BY <1>2, DeleteFields, LastSteps
<1>4. k \in Keys
  BY DEF StoreInv, TypeInv, TypeOK, StateFile
<1>5. d \in StepSet /\ e \in StepSet /\ w \in StepSet
  <2>1. "private" \in Parts /\ "public" \in Parts
    BY DEF Parts
  <2>2. d \in StepSet /\ e \in StepSet
    BY <1>2, <1>4, <2>1, DeleteIsStep, Zenon
  <2>3. QED
    BY <1>2, <2>2, LastSteps
<1>6. Goes(<<e, w>>, {e, w})
  <2>1. ~OutOfOrder(e, w)
    BY <1>3 DEF OutOfOrder, Makes, Final
  <2>2. QED
    BY <1>5, <2>1, OneAndOne
<1>7. CASE state.keys[k].private
  <2>1. Goes(<<d>>, {d})
    BY <1>5, OneStep
  <2>2. Before({d}, {e, w})
    BY <1>3 DEF Before, OutOfOrder, Makes, Final
  <2>3. Goes(<<d>> \o <<e, w>>, {d} \union {e, w})
    BY <1>6, <2>1, <2>2, GoesAfter
  <2>4. RemoveSteps(k, continue) = <<d>> \o <<e, w>>
    BY <1>1, <1>2, <1>7, Zenon
  <2>5. {d} \union {e, w} = {d, e} \union {w}
    OBVIOUS
  <2>6. PartsOf(state.keys[k]) = {"private", "public"}
    BY <1>7 DEF PartsOf, Parts
  <2>7. Removal({d, e}, {k})
    BY <1>3, <2>6 DEF Removal, Deletes
  <2>8. PICK D : D = {d, e}
    OBVIOUS
  <2>9. /\ Goes(RemoveSteps(k, continue), D \union {WriteState})
        /\ Removal(D, {k}) /\ \A f \in D : f.op = "delete"
    BY <1>2, <1>3, <2>3, <2>4, <2>5, <2>7, <2>8
  <2>10. QED
    BY <2>9
<1>8. CASE ~state.keys[k].private
  <2>1. Before({}, {e, w})
    BY DEF Before
  <2>2. Goes(<<>> \o <<e, w>>, {} \union {e, w})
    BY <1>6, <2>1, NoSteps, GoesAfter
  <2>3. RemoveSteps(k, continue) = <<>> \o <<e, w>>
    BY <1>1, <1>2, <1>8, Zenon
  <2>4. {} \union {e, w} = {e} \union {w}
    OBVIOUS
  <2>5. PartsOf(state.keys[k]) = {"public"}
    BY <1>8 DEF PartsOf
  <2>6. Removal({e}, {k})
    BY <1>3, <2>5 DEF Removal, Deletes
  <2>7. PICK D : D = {e}
    OBVIOUS
  <2>8. /\ Goes(RemoveSteps(k, continue), D \union {WriteState})
        /\ Removal(D, {k}) /\ \A f \in D : f.op = "delete"
    BY <1>2, <1>3, <2>2, <2>3, <2>4, <2>6, <2>7
  <2>9. QED
    BY <2>8
<1>9. QED
  BY <1>7, <1>8

LEMMA RemoveKeyStore ==
  ASSUME StoreInv, NEW k, NEW force, NEW continue, RemoveKey(k, force, continue)
  PROVE  StoreInv' /\ KeepsOthers
<1>1. k \in KeysOf(state) /\ autoremove' = autoremove
  BY DEF RemoveKey
<1>2. CASE state.keys[k].decoupled
  <2>1. Commit(RemoveKeys(state, {k}))
    BY <1>2 DEF RemoveKey
  <2>2. Committable(RemoveKeys(state, {k}))
    BY <1>1, <1>2, ForgottenCommittable
  <2>3. QED
    BY <2>1, <2>2, CommitStore
<1>3. CASE ~state.keys[k].decoupled
  <2>1. PICK t : t = RemoveKeys(state, {k})
    OBVIOUS
  <2>2. Begin(t, RemoveSteps(k, continue))
    BY <1>3, <2>1 DEF RemoveKey
  <2>3. PICK D : /\ Goes(RemoveSteps(k, continue), D \union {WriteState})
                 /\ Removal(D, {k})
    BY <1>1, <1>3, RemoveKeySteps
  <2>4. StateFile(state)
    BY DEF StoreInv, TypeInv, TypeOK
  <2>5. Replaced(t, {}, {k})
    BY <2>1, <2>4, KeysTaken DEF TakenFrom, Replaced
  <2>6. IsFiniteSet({}) /\ {} \intersect KeysOf(state) = {} /\ {k} \in SUBSET KeysOf(state)
    BY <1>1, FS_EmptySet
  <2>7. Program(t, (MakingSet({}) \union D) \union {WriteState})
    BY <2>3, <2>5, <2>6, RollProgram
  <2>8. MakingSet({}) = {}
    BY DEF MakingSet
  <2>9. Program(t, D \union {WriteState})
    <3>1. (MakingSet({}) \union D) \union {WriteState} = D \union {WriteState}
      BY <2>8
    <3>2. QED
      BY <2>7, <3>1
  <2>10. QED
    BY <1>1, <2>2, <2>3, <2>9, BeginStore
<1>4. QED
  BY <1>2, <1>3

-----------------------------------------------------------------------------
(* The invocations that change KMIP servers and their credentials.         *)

Careful(B) ==
  /\ \A f \in B : f.op \in {"take", "unlink", "insert"}
  /\ \A p \in Paths : Unlink(p) \in B => \E s \in Servers : In(p) = {s} /\ Take(p, s) \in B

LEMMA ServerProgram ==
  ASSUME StoreInv, NEW t, NEW s, NEW path, ServerSet(t, s, path), NEW B, Careful(B),
         s \in DOMAIN t.servers => path = None \/ UsesPath(s, path) \/ Insert(path, s) \in B,
         NEW e \in {WriteState, Fails}
  PROVE  Program(t, B \union {e})
<1>1. PICK S : S = B \union {e}
  OBVIOUS
<1>2. \A f \in S : f.op \in {"take", "unlink", "insert", "write", "fails"}
  BY <1>1, LastSteps DEF Careful
<1>3. KeysOf(t) = KeysOf(state) /\ t.keys = state.keys /\ StateFile(t)
  BY DEF ServerSet, KeysOf
<1>4. KeysIn(t, S)
  BY <1>2, <1>3 DEF KeysIn, StoreInv, TypeInv
<1>5. Refuse \notin S
  BY <1>2, LastSteps
<1>6. DeletesIn(t, S)
  BY <1>2, <1>3, <1>5 DEF DeletesIn
<1>7. CredentialsIn(t, S)
  <2>1. \A p : Unlink(p) \in S => Unlink(p) \in B
    BY <1>1, LastSteps, StepFields
  <2>2. ASSUME NEW x \in DOMAIN t.servers, NEW p, p = t.servers[x], p # None
        PROVE  UsesPath(x, p) \/ Insert(p, x) \in S
    BY <1>1, <2>2 DEF ServerSet, UsesPath
  <2>3. QED
    BY <1>1, <2>1, <2>2 DEF Careful, CredentialsIn
<1>8. Program(t, S)
  BY <1>1, <1>4, <1>6, <1>7 DEF Program
<1>9. QED
  BY <1>1, <1>8

LEMMA ServerStore ==
  ASSUME StoreInv, NEW t, NEW s, NEW path, ServerSet(t, s, path),
         NEW b, NEW B, Goes(b, B), Careful(B),
         s \in DOMAIN t.servers => path = None \/ UsesPath(s, path) \/ Insert(path, s) \in B,
         NEW e \in {WriteState, Fails}, Begin(t, b \o <<e>>), autoremove' = autoremove
  PROVE  StoreInv' /\ KeepsOthers
<1>1. e \in StepSet /\ e.op \in Final /\ e.op \notin {"delete", "create", "generate", "take"}
  BY LastSteps DEF Final
<1>2. \A f \in B : f.op \notin Final /\ ~OutOfOrder(f, e)
  BY <1>1, LastSteps DEF Careful, OutOfOrder, Final
<1>3. Goes(b \o <<e>>, B \union {e})
  BY <1>1, <1>2, FinalIsLast
<1>4. Program(t, B \union {e})
  BY ServerProgram
<1>5. QED
  BY <1>3, <1>4, BeginStore

(* The credentials of the server go, and the file if nothing is left in it.*)
LEMMA TakeStepsGo ==
  ASSUME NEW s \in Servers, NEW old \in Paths \union {None}
  PROVE  \E U : Goes(TakeSteps(old, s), U) /\ Careful(U) /\ \A f \in U : f.op \in {"take", "unlink"}
<1>1. CASE old = None
  <2>1. TakeSteps(old, s) = <<>> /\ Careful({})
    BY <1>1 DEF TakeSteps, Careful
  <2>2. QED
    BY <2>1, NoSteps
<1>2. CASE old # None
  <2>1. PICK e, f : e = Take(old, s) /\ f = Unlink(old)
    OBVIOUS
  <2>2. e \in StepSet /\ f \in StepSet
    BY <1>2, <2>1 DEF StepSet
  <2>3. e.op = "take" /\ f.op = "unlink"
    BY <2>1, StepFields
  <2>4. \A p : /\ Unlink(p) = f => p = old
               /\ Unlink(p) # e
    BY <2>1, <2>3, StepFields
  <2>5. CASE In(old) = {s}
    <3>1. ~OutOfOrder(e, f)
      BY <2>3 DEF OutOfOrder, Final
    <3>2. Goes(<<e, f>>, {e, f})
      BY <2>2, <3>1, OneAndOne
    <3>3. TakeSteps(old, s) = <<e, f>>
      BY <1>2, <2>1, <2>5 DEF TakeSteps
    <3>4. PICK U : U = {e, f}
      OBVIOUS
    <3>5. Careful(U)
      BY <2>1, <2>3, <2>4, <2>5, <3>4 DEF Careful
    <3>6. Goes(TakeSteps(old, s), U) /\ \A x \in U : x.op \in {"take", "unlink"}
      BY <2>3, <3>2, <3>3, <3>4
    <3>7. QED
      BY <3>5, <3>6
  <2>6. CASE In(old) # {s}
    <3>1. Goes(<<e>>, {e})
      BY <2>2, OneStep
    <3>2. TakeSteps(old, s) = <<e>>
      BY <1>2, <2>1, <2>6 DEF TakeSteps
    <3>3. PICK U : U = {e}
      OBVIOUS
    <3>4. Careful(U)
      BY <2>3, <2>4, <3>3 DEF Careful
    <3>5. Goes(TakeSteps(old, s), U) /\ \A x \in U : x.op \in {"take", "unlink"}
      BY <2>3, <3>1, <3>2, <3>3
    <3>6. QED
      BY <3>4, <3>5
  <2>7. QED
    BY <2>5, <2>6
<1>3. QED
  BY <1>1, <1>2

(* New credentials. *)
LEMMA InsertGoes ==
  ASSUME NEW s \in Servers, NEW path \in Paths
  PROVE  Goes(<<Insert(path, s)>>, {Insert(path, s)}) /\ Careful({Insert(path, s)})
<1>1. Insert(path, s) \in StepSet
  BY DEF StepSet
<1>2. Insert(path, s).op = "insert" /\ \A p : Unlink(p).op = "unlink"
  BY StepFields
<1>3. Careful({Insert(path, s)})
  BY <1>2 DEF Careful
<1>4. QED
  BY <1>1, <1>3, OneStep

LEMMA KmipTypes ==
  ASSUME StoreInv
  PROVE  /\ StateFile(state)
         /\ \A s \in DOMAIN state.servers : s \in Servers /\ state.servers[s] \in Paths \union {None}
BY DEF StoreInv, TypeInv, TypeOK, StateFile

LEMMA AddServerStore ==
  ASSUME StoreInv, NEW s \in Servers, NEW path \in Paths \union {None}, NEW username, NEW pending,
         AddServer(s, path, username, pending), autoremove' = autoremove
  PROVE  StoreInv' /\ KeepsOthers
<1>1. \A p \in Paths \union {None} : ServerSet(WithServer(s, p, ~pending), s, p)
  BY KmipTypes, ServerIsSet
<1>2. CASE path = None
  <2>1. Commit(WithServer(s, None, ~pending))
    BY <1>2 DEF AddServer
  <2>2. Committable(WithServer(s, None, ~pending))
    BY <1>1, ServerCommittable
  <2>3. QED
    BY <2>1, <2>2, CommitStore
<1>3. CASE path # None /\ ~username
  <2>1. Commit(WithServer(s, path, ~pending)) /\ s \in In(path)
    BY <1>3 DEF AddServer
  <2>2. Committable(WithServer(s, path, ~pending))
    BY <1>1, <2>1, ServerCommittable
  <2>3. QED
    BY <2>1, <2>2, CommitStore
<1>4. CASE path # None /\ username
  <2>1. PICK e, t : e = Insert(path, s) /\ t = WithServer(s, path, ~pending)
    OBVIOUS
  <2>2. Begin(t, <<e, WriteState>>)
    BY <1>4, <2>1 DEF AddServer
  <2>3. Goes(<<e>>, {e}) /\ Careful({e})
    BY <1>4, <2>1, InsertGoes
  <2>4. <<e, WriteState>> = <<e>> \o <<WriteState>>
    <3>1. e \in StepSet /\ WriteState \in StepSet
      BY <1>4, <2>1, LastSteps DEF StepSet
    <3>2. QED
      BY <3>1, TwoSteps
  <2>5. Begin(t, <<e>> \o <<WriteState>>)
    BY <2>2, <2>4
  <2>6. ServerSet(t, s, path) /\ Insert(path, s) \in {e}
    BY <1>1, <2>1
  <2>7. QED
    BY <2>3, <2>5, <2>6, ServerStore
<1>5. QED
  BY <1>2, <1>3, <1>4

LEMMA RemoveServerStore ==
  ASSUME StoreInv, NEW s \in Servers, RemoveServer(s), autoremove' = autoremove
  PROVE  StoreInv' /\ KeepsOthers
<1>1. PICK t, old : /\ t = [state EXCEPT !.servers = Restrict(@, DOMAIN @ \ {s})]
                    /\ old = state.servers[s]
  OBVIOUS
<1>2. Begin(t, Append(TakeSteps(old, s), WriteState)) /\ s \in DOMAIN state.servers
  BY <1>1 DEF RemoveServer
<1>3. old \in Paths \union {None} /\ StateFile(state)
  BY <1>1, <1>2, KmipTypes
<1>4. PICK U : Goes(TakeSteps(old, s), U) /\ Careful(U)
  BY <1>3, TakeStepsGo
<1>5. Append(TakeSteps(old, s), WriteState) = TakeSteps(old, s) \o <<WriteState>>
  <2>1. PICK a, w : a = TakeSteps(old, s) /\ w = WriteState
    OBVIOUS
  <2>2. a \in Seq(StepSet) /\ w \in StepSet
    BY <1>4, <2>1, LastSteps DEF Goes, Ordered
  <2>3. Append(a, w) = a \o <<w>>
    BY <2>2, AppendIsConcat
  <2>4. QED
    BY <2>1, <2>3
<1>6. Begin(t, TakeSteps(old, s) \o <<WriteState>>)
  BY <1>2, <1>5
<1>7. ServerSet(t, s, None) /\ UsesPath(s, old)
  BY <1>1, <1>2, <1>3, ServerGone DEF UsesPath
<1>8. QED
  BY <1>4, <1>6, <1>7, ServerStore

LEMMA ModifyServerStore ==
  ASSUME StoreInv, NEW s \in Servers, NEW path \in Paths \union {None}, NEW how, NEW wrong,
         ModifyServer(s, path, how, wrong), autoremove' = autoremove
  PROVE  StoreInv' /\ KeepsOthers
<1>1. PICK old : old = state.servers[s]
  OBVIOUS
<1>2. PICK e \in {WriteState, Fails} : OtherSettings(wrong) = <<e>>
  BY DEF OtherSettings
<1>3. /\ s \in DOMAIN state.servers
      /\ \/ path = old /\ Commit(WithServer(s, old, TRUE))
         \/ path = None /\ Begin(WithServer(s, None, TRUE), TakeSteps(old, s) \o <<e>>)
         \/ /\ path # None
            /\ Begin(WithServer(s, path, TRUE), TakeSteps(old, s) \o <<Insert(path, s)>> \o <<e>>)
         \/ /\ path = old /\ old # None
            /\ Begin(WithServer(s, old, TRUE), <<Insert(old, s)>> \o <<e>>)
  BY <1>1, <1>2, Zenon DEF ModifyServer, ModifyCredentials
<1>4. old \in Paths \union {None} /\ StateFile(state) /\ UsesPath(s, old)
  BY <1>1, <1>3, KmipTypes DEF UsesPath
<1>5. PICK yes : yes = TRUE
  OBVIOUS
<1>6. \A p \in Paths \union {None} : ServerSet(WithServer(s, p, yes), s, p)
  BY <1>4, ServerIsSet
<1>7. PICK U : Goes(TakeSteps(old, s), U) /\ Careful(U) /\ \A f \in U : f.op \in {"take", "unlink"}
  BY <1>4, TakeStepsGo
<1>8. PICK t : t = WithServer(s, path, yes)
  OBVIOUS
<1>9. ServerSet(t, s, path)
  BY <1>6, <1>8
<1>10. CASE path = old /\ Commit(WithServer(s, old, TRUE))
  <2>1. Commit(t)
    BY <1>5, <1>8, <1>10, Zenon
  <2>2. Committable(t)
    BY <1>4, <1>9, <1>10, ServerCommittable
  <2>3. QED
    BY <2>1, <2>2, CommitStore
<1>11. CASE path = None /\ Begin(WithServer(s, None, TRUE), TakeSteps(old, s) \o <<e>>)
  <2>1. Begin(t, TakeSteps(old, s) \o <<e>>)
    BY <1>5, <1>8, <1>11, Zenon
  <2>2. QED
    BY <1>7, <1>9, <1>11, <2>1, ServerStore
<1>12. CASE /\ path # None
            /\ Begin(WithServer(s, path, TRUE), TakeSteps(old, s) \o <<Insert(path, s)>> \o <<e>>)
  <2>1. PICK i : i = Insert(path, s)
    OBVIOUS
  <2>2. Goes(<<i>>, {i}) /\ Careful({i}) /\ i.op = "insert"
    BY <1>12, <2>1, InsertGoes, StepFields
  <2>3. Before(U, {i})
    BY <1>7, <2>2 DEF Before, OutOfOrder, Final
  <2>4. Goes(TakeSteps(old, s) \o <<i>>, U \union {i})
    BY <1>7, <2>2, <2>3, GoesAfter
  <2>5. Careful(U \union {i})
    BY <1>7, <2>2 DEF Careful
  <2>6. Begin(t, (TakeSteps(old, s) \o <<i>>) \o <<e>>)
    BY <1>5, <1>8, <1>12, <2>1, Zenon
  <2>7. Insert(path, s) \in U \union {i}
    BY <2>1
  <2>8. QED
    BY <1>9, <2>4, <2>5, <2>6, <2>7, ServerStore
<1>13. CASE /\ path = old /\ old # None
            /\ Begin(WithServer(s, old, TRUE), <<Insert(old, s)>> \o <<e>>)
  <2>1. PICK i : i = Insert(old, s)
    OBVIOUS
  <2>2. Goes(<<i>>, {i}) /\ Careful({i})
    BY <1>4, <1>13, <2>1, InsertGoes
  <2>3. Begin(t, <<i>> \o <<e>>)
    BY <1>5, <1>8, <1>13, <2>1, Zenon
  <2>4. UsesPath(s, path)
    BY <1>4, <1>13
  <2>5. QED
    BY <1>9, <2>2, <2>3, <2>4, ServerStore
<1>14. QED
  BY <1>3, <1>10, <1>11, <1>12, <1>13

-----------------------------------------------------------------------------
LEMMA RollDoneStore ==
  ASSUME StoreInv, RollDone
  PROVE  StoreInv' /\ KeepsOthers
<1>1. PICK k \in KeysOf(state) : Commit([state EXCEPT !.keys[k].stale = TRUE])
  BY DEF RollDone
<1>2. Committable([state EXCEPT !.keys[k].stale = TRUE])
  BY KmipTypes, MarkedCommittable
<1>3. QED
  BY <1>1, <1>2, CommitStore

LEMMA DefaultStore ==
  ASSUME StoreInv, NEW s \in Servers, Disable \/ SetDefaultServer(s)
  PROVE  StoreInv' /\ KeepsOthers
<1>1. PICK d \in Servers \union {None} : Commit([state EXCEPT !.default = d])
  BY DEF Disable, SetDefaultServer
<1>2. Committable([state EXCEPT !.default = d])
  BY KmipTypes, DefaultCommittable
<1>3. QED
  BY <1>1, <1>2, CommitStore

LEMMA KeyCommandsStore ==
  ASSUME StoreInv, KeyCommands
  PROVE  StoreInv' /\ KeepsOthers
<1>1. ASSUME NEW k \in Keys, NEW a \in BOOLEAN, NEW b \in BOOLEAN, Import(k, a, b)
      PROVE  StoreInv' /\ KeepsOthers
  BY <1>1, ImportStore
<1>2. ASSUME NEW k \in Keys, NEW a \in BOOLEAN, NEW b \in BOOLEAN, RemoveKey(k, a, b)
      PROVE  StoreInv' /\ KeepsOthers
  BY <1>2, RemoveKeyStore
<1>3. QED
  BY <1>1, <1>2, StartRollStore, RefuseRollStore, CronStore, RollDoneStore DEF KeyCommands

LEMMA KmipCommandsStore ==
  ASSUME StoreInv, KmipCommands
  PROVE  StoreInv' /\ KeepsOthers
<1>1. autoremove' = autoremove
  BY DEF KmipCommands
<1>2. PICK s \in Servers : kmip_command(s)
  BY DEF KmipCommands
<1>3. CASE Disable \/ SetDefaultServer(s)
  BY <1>3, DefaultStore
<1>4. CASE RemoveServer(s)
  BY <1>1, <1>4, RemoveServerStore
<1>5. CASE \E path \in Paths : AddServerRefused(path)
  BY <1>1, <1>5, AddServerRefusedStore
<1>6. CASE \E path \in Paths \union {None}, a, b \in BOOLEAN : AddServer(s, path, a, b)
  BY <1>1, <1>6, AddServerStore
<1>7. CASE \E path \in Paths \union {None}, how \in {"leave", "remove", "move", "change"},
             wrong \in BOOLEAN : ModifyServer(s, path, how, wrong)
  BY <1>1, <1>7, ModifyServerStore
<1>8. QED
  BY <1>2, <1>3, <1>4, <1>5, <1>6, <1>7 DEF kmip_command

LEMMA StoreStep ==
  ASSUME StoreInv, [Next]_vars
  PROVE  StoreInv' /\ (~autoremove => KeepsOthers)
<1>1. CASE Invocations
  BY <1>1, InvocationsStore
<1>2. CASE KeyCommands
  BY <1>2, KeyCommandsStore
<1>3. CASE KmipCommands
  BY <1>3, KmipCommandsStore
<1>4. CASE Keygen
  BY <1>4, KeygenStore
<1>5. CASE OtherKey
  BY <1>5, OtherKeyStore
<1>6. CASE UNCHANGED vars
  BY <1>6, StutterStore
<1>7. QED
  BY <1>1, <1>2, <1>3, <1>4, <1>5, <1>6 DEF Next

LEMMA StoreInit == Init => StoreInv
<1> SUFFICES ASSUME Init PROVE StoreInv
  OBVIOUS
<1>1. /\ state = [keys |-> [k \in {} |-> {}], servers |-> [s \in {} |-> {}], default |-> None]
      /\ ws = state /\ todo = <<>> /\ kept = [k \in {} |-> {}] /\ credentials = [p \in {} |-> {}]
      /\ failures = 0 /\ owned = {} /\ lost = {} /\ hurt = {} /\ upset = {}
  BY DEF Init
<1>2. KeysOf(state) = {} /\ KeysOf(ws) = {} /\ DOMAIN state.servers = {}
  BY <1>1 DEF KeysOf
<1>3. StateFile(state) /\ StateFile(ws)
  <2>1. DOMAIN state = {"keys", "servers", "default"} /\ state.default = None
    BY <1>1
  <2>2. QED
    BY <1>1, <1>2, <2>1 DEF StateFile
<1>4. TypeInv
  <2>1. DOMAIN kept = {} /\ DOMAIN credentials = {}
    BY <1>1
  <2>2. failures \in 0 .. MaxFailures
    BY <1>1, InvocationAssumption
  <2>3. QED
    BY <1>1, <1>2, <1>3, <2>1, <2>2, FS_EmptySet DEF TypeInv, TypeOK
<1>5. RestInv
  BY <1>1, <1>2 DEF RestInv
<1>6. QED
  BY <1>1, <1>4, <1>5, AtRest DEF Idle

(* What holds at any moment, the moments between two steps of an           *)
(* invocation included.                                                    *)
THEOREM StoreInvAlways == Spec => []StoreInv
<1>1. QED
  BY StoreInit, StoreStep, PTL DEF Spec

(* The types, and that an invocation that ends, in whatever way, leaves    *)
(* nothing pending: Keyset::run starts from what the state file says.      *)
THEOREM TypeCorrect == Spec => []TypeOK
<1>1. StoreInv => TypeOK
  BY DEF StoreInv, TypeInv
<1>2. QED
  BY <1>1, StoreInvAlways, PTL

(* The keys in the state file can be used: new_keys has them on disk or in *)
(* the HSM before Keyset::run writes a state file that names them, and     *)
(* remove_key_command and autoremove delete none that stay in it, wherever *)
(* an invocation fails or is killed.                                       *)
THEOREM KeysUsableAlways == Spec => []KeysUsable
<1>1. StoreInv => KeysUsable
  <2>1. SUFFICES ASSUME StoreInv, Idle, NEW k \in KeysOf(state) \ hurt
                 PROVE  Usable(state, k)
    BY DEF KeysUsable, Usable
  <2>2. QED
    BY <2>1, Rest DEF RestInv
<1>2. QED
  BY <1>1, StoreInvAlways, PTL

(* No key that keyset owns is left behind without a name: a refused roll   *)
(* deletes what new_keys made, remove_key_command and autoremove delete    *)
(* what they take from the state file, unless they fail or give it up.     *)
THEOREM NoOrphanAlways == Spec => []NoOrphan
<1>1. StoreInv => NoOrphan
  BY Rest DEF NoOrphan, RestInv
<1>2. QED
  BY <1>1, StoreInvAlways, PTL

(* The credentials of a server are where the state file says: what         *)
(* add-server, modify-server and remove-server do to the file of one       *)
(* server leaves those of the others.                                      *)
THEOREM CredentialsKeptAlways == Spec => []CredentialsKept
<1>1. StoreInv => CredentialsKept
  <2>1. SUFFICES ASSUME StoreInv, Idle, NEW s \in DOMAIN state.servers \ upset,
                        NEW p, p = state.servers[s], p # None
                 PROVE  p \in DOMAIN credentials /\ s \in credentials[p]
    BY DEF CredentialsKept
  <2>2. s \in In(p)
    BY <2>1, Rest DEF RestInv
  <2>3. QED
    BY <2>2 DEF In
<1>2. QED
  BY <1>1, StoreInvAlways, PTL

(* No step of any command, roll, or failure takes away a part of a key of  *)
(* somebody else, as long as autoremove is off: remove_key is called for   *)
(* keys that new_keys made, or that are coupled.                           *)
THEOREM OthersKeptAlways == Spec => OthersKept
<1>1. ASSUME StoreInv, [Next]_vars
      PROVE  [~autoremove => \A k \in DOMAIN kept \ owned :
                k \in DOMAIN kept' /\ kept[k].parts \subseteq kept'[k].parts]_vars
  BY <1>1, StoreStep DEF KeepsOthers
<1>2. QED
  BY <1>1, StoreInvAlways, PTL DEF Spec, OthersKept
=============================================================================
