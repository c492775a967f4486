------------------------- MODULE KeysetLock_proofs -------------------------
(***************************************************************************)
(* What is proved about KeysetLock for any number of invocations of keyset *)
(* and any number of attempts to get the lock.                             *)
(***************************************************************************)
EXTENDS KeysetLock, TLAPS

(* The types hold in every reachable state, and the number of attempts to  *)
(* get the lock stays within MAX_FILE_LOCK_TRIES (file_with_write_lock).   *)
THEOREM TypeCorrect == Spec => []TypeOK
<1> USE LockAssumption DEF TypeOK
<1>1. Init => TypeOK
  BY DEF Init, States, Held, Ended, Files
<1>2. TypeOK /\ [Next]_vars => TypeOK'
  <2> SUFFICES ASSUME TypeOK, [Next]_vars PROVE TypeOK'
    OBVIOUS
  <2> USE DEF States, Held, Ended
  <2>1. ASSUME NEW p \in Procs, Start(p) PROVE TypeOK'
    BY <2>1 DEF Start, Goto
  <2>2. ASSUME NEW p \in Procs, Open(p) PROVE TypeOK'
    BY <2>2 DEF Open, Goto
  <2>3. ASSUME NEW p \in Procs, Lock(p) PROVE TypeOK'
    BY <2>3 DEF Lock, Goto
  <2>4. ASSUME NEW p \in Procs, Compare(p) PROVE TypeOK'
    <3>1. CASE handle[p] = name
      BY <2>4, <3>1 DEF Compare, Goto
    <3>2. CASE handle[p] # name
      <4>1. tries[p] \in Nat /\ tries[p] < MaxTries
        BY <2>4 DEF Compare
      <4>2. /\ tries' = [tries EXCEPT ![p] = @ + 1]
            /\ pc' = [pc EXCEPT ![p] = IF tries[p] + 1 < MaxTries THEN "open" ELSE "failed"]
            /\ UNCHANGED <<name, content, temp, handle, copy, todo, child>>
        BY <2>4, <3>2 DEF Compare, Goto
      <4>3. tries[p] + 1 \in 0 .. MaxTries
        BY <4>1
      <4>4. tries' \in [Procs -> 0 .. MaxTries]
        BY <4>2, <4>3
      <4>5. ASSUME NEW q \in Procs, pc'[q] \notin Ended PROVE tries'[q] < MaxTries
        BY <4>1, <4>2, <4>5
      <4>6. pc' \in [Procs -> States]
        BY <4>2
      <4> QED
        BY <4>2, <4>4, <4>5, <4>6
    <3> QED
      BY <3>1, <3>2
  <2>5. ASSUME NEW p \in Procs, Read(p) PROVE TypeOK'
    BY <2>5 DEF Read, Goto
  <2>6. ASSUME NEW p \in Procs, Execute(p) PROVE TypeOK'
    BY <2>6 DEF Execute, Goto, Files
  <2>7. ASSUME NEW p \in Procs, WriteNew(p) PROVE TypeOK'
    BY <2>7 DEF WriteNew, Goto, Target, Files
  <2>8. ASSUME NEW p \in Procs, Rename(p) PROVE TypeOK'
    <3>1. CASE temp[Target(p)] = {} /\ Goto(p, "failed") /\ UNCHANGED <<name, content, temp, todo>>
      BY <2>8, <3>1 DEF Rename, Goto
    <3>2. ASSUME NEW new \in temp[Target(p)],
                 content' = [content EXCEPT ![Target(p)] = new],
                 temp' = [temp EXCEPT ![Target(p)] = {}],
                 name' = IF Target(p) = "config" THEN name + 1 ELSE name,
                 todo' = [todo EXCEPT ![p] = @ \ {Target(p)}],
                 Goto(p, IF todo[p] = {Target(p)} THEN "command" ELSE "write")
          PROVE  TypeOK'
      <4>1. Target(p) \in Files
        BY DEF Target, Files
      <4>2. new \in SUBSET Procs
        BY <4>1
      <4>3. content' \in [Files -> SUBSET Procs] /\ temp' \in [Files -> SUBSET SUBSET Procs]
        BY <3>2, <4>1, <4>2
      <4>4. name' \in Nat /\ todo' \in [Procs -> SUBSET Files]
        BY <3>2
      <4>5. UNCHANGED <<handle, tries, copy, child>> /\ pc[p] = "rename"
        BY <2>8 DEF Rename
      <4>6. /\ pc' \in [Procs -> States]
            /\ \A q \in Procs : pc'[q] \notin Ended => pc[q] \notin Ended
        BY <3>2, <4>5 DEF Goto
      <4> QED
        BY <4>3, <4>4, <4>5, <4>6
    <3> QED
      BY <2>8, <3>1, <3>2 DEF Rename
  <2>9. ASSUME NEW p \in Procs, RunCommand(p) PROVE TypeOK'
    <3>1. CASE Goto(p, "done") /\ UNCHANGED child
      BY <2>9, <3>1 DEF RunCommand, Goto
    <3>2. ASSUME NEW c \in Procs \ {p}, pc[c] = "idle",
                 child' = [child EXCEPT ![p] = c],
                 pc' = [pc EXCEPT ![p] = "wait", ![c] = "open"]
          PROVE  TypeOK'
      <4>1. /\ pc' \in [Procs -> States]
            /\ \A q \in Procs : pc'[q] \notin Ended => pc[q] \notin Ended
        BY <2>9, <3>2 DEF RunCommand
      <4>2. child' \in [Procs -> Procs \union {Nobody}]
        BY <3>2
      <4> QED
        BY <2>9, <4>1, <4>2 DEF RunCommand
    <3> QED
      BY <2>9, <3>1, <3>2 DEF RunCommand
  <2>10. ASSUME NEW p \in Procs, CommandEnds(p) PROVE TypeOK'
    BY <2>10 DEF CommandEnds, Goto
  <2>11. ASSUME NEW p \in Procs, Crash(p) PROVE TypeOK'
    BY <2>11 DEF Crash, Goto
  <2>12. CASE UNCHANGED vars
    BY <2>12 DEF vars
  <2> QED
    BY <2>1, <2>2, <2>3, <2>4, <2>5, <2>6, <2>7, <2>8, <2>9, <2>10, <2>11, <2>12
    DEF Next, Progress
<1> QED
  BY <1>1, <1>2, PTL DEF Spec

-----------------------------------------------------------------------------
(* A process that works on protected files holds the lock. *)
LEMMA SoleHolds ==
  ASSUME NEW p \in Procs, Sole(p) PROVE pc[p] \in Held
BY DEF Sole, Held

LEMMA ProtectedFiles ==
  /\ "config" \in Protected /\ Protected \subseteq Files
  /\ OneFileEach => Protected = Files
BY DEF Protected, Files

(* Every step keeps the lock exclusive. *)
LEMMA ExclusiveStep ==
  ASSUME TypeOK, Exclusive, UpToDate, [Next]_vars
  PROVE  Exclusive'
<1> USE DEF TypeOK, Exclusive, Sole, Held, States, Ended, Target
<1>1. ASSUME NEW p \in Procs, Start(p) PROVE Exclusive'
  BY <1>1 DEF Start, Goto
<1>2. ASSUME NEW p \in Procs, Open(p) PROVE Exclusive'
  BY <1>2 DEF Open, Goto
<1>3. ASSUME NEW p \in Procs, Lock(p) PROVE Exclusive'
  BY <1>3 DEF Lock, Locked, Goto
<1>4. ASSUME NEW p \in Procs, Compare(p) PROVE Exclusive'
  <2>1. CASE handle[p] = name
    BY <1>4, <2>1 DEF Compare, Goto
  <2>2. CASE handle[p] # name
    <3>1. pc' = [pc EXCEPT ![p] = IF tries[p] + 1 < MaxTries THEN "open" ELSE "failed"]
      BY <1>4, <2>2 DEF Compare, Goto
    <3>2. UNCHANGED <<name, handle, todo>>
      BY <1>4 DEF Compare
    <3>3. \A q \in Procs : /\ pc'[q] \in Held => pc[q] \in Held
                           /\ Sole(q)' => Sole(q)
      BY <3>1, <3>2
    <3> QED
      BY <3>2, <3>3
  <2> QED
    BY <2>1, <2>2
<1>5. ASSUME NEW p \in Procs, Read(p) PROVE Exclusive'
  BY <1>5 DEF Read, Goto
<1>6. ASSUME NEW p \in Procs, Execute(p) PROVE Exclusive'
  BY <1>6 DEF Execute, Goto
<1>7. ASSUME NEW p \in Procs, WriteNew(p) PROVE Exclusive'
  BY <1>7 DEF WriteNew, Goto
<1>8. ASSUME NEW p \in Procs, Rename(p) PROVE Exclusive'
  <2>1. CASE Goto(p, "failed") /\ UNCHANGED <<name, content, temp, todo>>
    BY <1>8, <2>1 DEF Rename, Goto
  <2>2. CASE /\ name' = IF Target(p) = "config" THEN name + 1 ELSE name
             /\ todo' = [todo EXCEPT ![p] = @ \ {Target(p)}]
             /\ Goto(p, IF todo[p] = {Target(p)} THEN "command" ELSE "write")
    <3>0. /\ pc[p] = "rename" /\ UNCHANGED <<handle, copy, child>>
          /\ todo[p] # {} /\ todo[p] \subseteq Files
      BY <1>8 DEF Rename, UpToDate
    <3>1. CASE "config" \in todo[p]
      <4>1. Sole(p) /\ Target(p) = "config" /\ name' = name + 1
        BY <2>2, <3>0, <3>1, ProtectedFiles
      <4>2. ASSUME NEW q \in Procs, q # p PROVE ~Sole(q)
        BY <4>1, <4>2, SoleHolds
      <4>3. ASSUME NEW q \in Procs, q # p PROVE ~Sole(q)'
        BY <2>2, <4>2, <4>3 DEF Goto
      <4>4. ~Sole(p)'
        <5>1. CASE todo[p] = {"config"}
          BY <2>2, <4>1, <5>1 DEF Goto
        <5>2. CASE todo[p] # {"config"}
          <6>1. todo[p] = Files
            BY <3>0, <3>1, <5>2 DEF Files
          <6>2. ~OneFileEach
            BY <3>0, <6>1 DEF UpToDate
          <6>3. todo'[p] = {"state"} /\ Protected = {"config"}
            BY <2>2, <4>1, <6>1, <6>2 DEF Protected, Files
          <6>4. pc'[p] = "write"
            BY <2>2, <4>1, <5>2 DEF Goto
          <6> QED
            BY <6>3, <6>4
        <5> QED
          BY <5>1, <5>2
      <4>5. \A q \in Procs : ~Sole(q)'
        BY <4>3, <4>4
      <4>6. \A q \in Procs : handle'[q] <= name'
        BY <3>0, <4>1
      <4>7. \A q \in Procs : pc'[q] \in Held => pc[q] \in Held
        BY <2>2, <3>0 DEF Goto
      <4> QED
        BY <3>0, <4>5, <4>6, <4>7
    <3>2. CASE "config" \notin todo[p]
      <4>1. todo[p] = {"state"} /\ Target(p) = "state"
        BY <3>0, <3>2 DEF Files
      <4>2. name' = name /\ pc' = [pc EXCEPT ![p] = "command"]
        BY <2>2, <4>1 DEF Goto
      <4>3. \A q \in Procs : Sole(q)' => Sole(q)
        BY <2>2, <4>2
      <4> QED
        BY <3>0, <4>2, <4>3
    <3> QED
      BY <3>1, <3>2
  <2> QED
    BY <1>8, <2>1, <2>2 DEF Rename
<1>9. ASSUME NEW p \in Procs, RunCommand(p) PROVE Exclusive'
  <2>1. CASE Goto(p, "done")
    BY <1>9, <2>1 DEF RunCommand, Goto
  <2>2. CASE \E c \in Procs \ {p} : pc' = [pc EXCEPT ![p] = "wait", ![c] = "open"]
    BY <1>9, <2>2 DEF RunCommand
  <2> QED
    BY <1>9, <2>1, <2>2 DEF RunCommand
<1>10. ASSUME NEW p \in Procs, CommandEnds(p) PROVE Exclusive'
  BY <1>10 DEF CommandEnds, Goto
<1>11. ASSUME NEW p \in Procs, Crash(p) PROVE Exclusive'
  BY <1>11 DEF Crash, Goto
<1>12. CASE UNCHANGED vars
  BY <1>12 DEF vars
<1> QED
  BY <1>1, <1>2, <1>3, <1>4, <1>5, <1>6, <1>7, <1>8, <1>9, <1>10, <1>11, <1>12
  DEF Next, Progress

(* No two processes work on protected files at the same time. *)
LEMMA Alone ==
  ASSUME Exclusive, NEW p \in Procs, NEW q \in Procs, p # q, Sole(p), Sole(q)
  PROVE  FALSE
BY SoleHolds DEF Exclusive

(* Who still has to rewrite a protected file works on protected files. *)
LEMMA WriterSole ==
  ASSUME NEW p \in Procs, pc[p] \in {"write", "rename"},
         NEW f \in todo[p], f \in Protected
  PROVE  Sole(p)
BY DEF Sole, Target, Protected, Files

(* What happens to p, if it is not p that takes the step. *)
LEMMA OthersUpToDate ==
  ASSUME TypeOK, UpToDate, NEW q \in Procs,
         pc'[q] = pc[q], copy'[q] = copy[q], todo'[q] = todo[q],
         Sole(q) => \A f \in Protected : content'[f] = content[f] /\ temp'[f] = temp[f]
  PROVE  /\ pc'[q] = "execute" => \A f \in Protected : copy'[q][f] = content'[f]
         /\ pc'[q] \in {"write", "rename"} =>
              /\ todo'[q] # {} /\ (OneFileEach => todo'[q] # Files)
              /\ \A f \in todo'[q] \intersect Protected :
                   copy'[q][f] = content'[f] \union {q}
         /\ pc'[q] = "rename" /\ Target(q)' \in Protected =>
              temp'[Target(q)'] = {copy'[q][Target(q)']}
<1>1. Target(q)' = Target(q)
  BY DEF Target
<1>2. pc[q] = "execute" => Sole(q)
  BY DEF Sole
<1>3. pc[q] = "rename" /\ Target(q) \in Protected => Sole(q)
  BY DEF Sole
<1>4. pc[q] \in {"write", "rename"} =>
        \A f \in todo[q] \intersect Protected : content'[f] = content[f]
  BY WriterSole
<1>5. UpToDate!(q)
  BY DEF UpToDate
<1> QED
  BY <1>1, <1>2, <1>3, <1>4, <1>5

(* Every step keeps what is about to be written up to date. *)
LEMMA UpToDateStep ==
  ASSUME TypeOK, Exclusive, UpToDate, [Next]_vars
  PROVE  UpToDate'
<1> USE DEF TypeOK
<1> DEFINE Up(q) ==
      /\ pc[q] = "execute" => \A f \in Protected : copy[q][f] = content[f]
      /\ pc[q] \in {"write", "rename"} =>
           /\ todo[q] # {} /\ (OneFileEach => todo[q] # Files)
           /\ \A f \in todo[q] \intersect Protected : copy[q][f] = content[f] \union {q}
      /\ pc[q] = "rename" /\ Target(q) \in Protected =>
           temp[Target(q)] = {copy[q][Target(q)]}
<1>0. /\ UpToDate <=> \A q \in Procs : Up(q)
      /\ UpToDate' <=> \A q \in Procs : Up(q)'
  BY DEF UpToDate
<1>a. ASSUME NEW q \in Procs, UNCHANGED <<content, temp>>,
             pc'[q] = pc[q] \/ pc'[q] \notin {"execute", "write", "rename"},
             copy'[q] = copy[q], todo'[q] = todo[q]
      PROVE  Up(q)'
  BY <1>a, <1>0, OthersUpToDate
<1>1. ASSUME NEW p \in Procs, Start(p) PROVE UpToDate'
  BY <1>1, <1>0, <1>a DEF Start, Goto
<1>2. ASSUME NEW p \in Procs, Open(p) PROVE UpToDate'
  BY <1>2, <1>0, <1>a DEF Open, Goto
<1>3. ASSUME NEW p \in Procs, Lock(p) PROVE UpToDate'
  BY <1>3, <1>0, <1>a DEF Lock, Goto
<1>4. ASSUME NEW p \in Procs, Compare(p) PROVE UpToDate'
  BY <1>4, <1>0, <1>a DEF Compare, Goto
<1>5. ASSUME NEW p \in Procs, Read(p) PROVE UpToDate'
  <2>1. ASSUME NEW q \in Procs, q # p PROVE Up(q)'
    BY <1>5, <2>1, <1>a DEF Read, Goto
  <2>2. Up(p)'
    BY <1>5 DEF Read, Goto
  <2> QED
    BY <2>1, <2>2, <1>0
<1>6. ASSUME NEW p \in Procs, Execute(p) PROVE UpToDate'
  <2>0. /\ UNCHANGED <<content, temp>>
        /\ \A q \in Procs :
             q # p => pc'[q] = pc[q] /\ copy'[q] = copy[q] /\ todo'[q] = todo[q]
    BY <1>6 DEF Execute, Goto
  <2>1. ASSUME NEW q \in Procs, q # p PROVE Up(q)'
    BY <2>0, <2>1, <1>a
  <2>2. Up(p)'
    <3>1. PICK changes \in ChangeSets \union {{}} :
            /\ todo' = [todo EXCEPT ![p] = changes]
            /\ copy' = [copy EXCEPT ![p] =
                 [f \in Files |-> IF f \in changes THEN @[f] \union {p} ELSE @[f]]]
            /\ pc' = [pc EXCEPT ![p] = IF changes = {} THEN "done" ELSE "write"]
      BY <1>6 DEF Execute, Goto
    <3>2. pc[p] = "execute" /\ UNCHANGED <<content, temp>>
      BY <1>6 DEF Execute
    <3>3. changes \subseteq Files /\ (OneFileEach => changes # Files)
      BY LockAssumption DEF OneFileEach, Files
    <3>4. \A f \in Protected : copy[p][f] = content[f]
      BY <3>2, <1>0
    <3>5. \A f \in changes : copy'[p][f] = copy[p][f] \union {p}
      BY <3>1, <3>3
    <3>6. todo'[p] = changes /\ pc'[p] = IF changes = {} THEN "done" ELSE "write"
      BY <3>1
    <3> QED
      BY <3>2, <3>3, <3>4, <3>5, <3>6
  <2> QED
    BY <2>1, <2>2, <1>0
<1>7. ASSUME NEW p \in Procs, WriteNew(p) PROVE UpToDate'
  <2>1. /\ pc[p] = "write" /\ temp' = [temp EXCEPT ![Target(p)] = {copy[p][Target(p)]}]
        /\ pc' = [pc EXCEPT ![p] = "rename"] /\ UNCHANGED <<content, copy, todo>>
    BY <1>7 DEF WriteNew, Goto
  <2>2. ASSUME NEW q \in Procs, q # p PROVE Up(q)'
    <3>1. Sole(q) => \A f \in Protected : temp'[f] = temp[f]
      BY <2>1, <2>2, Alone, ProtectedFiles DEF Sole
    <3> QED
      BY <2>1, <2>2, <3>1, OthersUpToDate
  <2>3. Up(p)'
    <3>1. Target(p)' = Target(p) /\ Target(p) \in Files
      BY <2>1 DEF Target, Files
    <3>2. Up(p) /\ temp'[Target(p)] = {copy[p][Target(p)]}
      BY <2>1, <3>1, <1>0
    <3> QED
      BY <2>1, <3>1, <3>2
  <2> QED
    BY <2>2, <2>3, <1>0
<1>8. ASSUME NEW p \in Procs, Rename(p) PROVE UpToDate'
  <2>0. pc[p] = "rename" /\ UNCHANGED copy
    BY <1>8 DEF Rename
  <2>1. CASE Goto(p, "failed") /\ UNCHANGED <<content, temp, todo>>
    BY <2>0, <2>1, <1>0, <1>a DEF Goto
  <2>2. ASSUME NEW new \in temp[Target(p)],
               content' = [content EXCEPT ![Target(p)] = new],
               temp' = [temp EXCEPT ![Target(p)] = {}],
               todo' = [todo EXCEPT ![p] = @ \ {Target(p)}],
               Goto(p, IF todo[p] = {Target(p)} THEN "command" ELSE "write")
        PROVE  UpToDate'
    <3>1. ASSUME NEW q \in Procs, q # p PROVE Up(q)'
      <4>1. Sole(q) => \A f \in Protected : content'[f] = content[f] /\ temp'[f] = temp[f]
        BY <2>0, <2>2, <3>1, Alone, ProtectedFiles DEF Sole
      <4>2. pc'[q] = pc[q] /\ copy'[q] = copy[q] /\ todo'[q] = todo[q]
        BY <2>0, <2>2, <3>1 DEF Goto
      <4> QED
        BY <4>1, <4>2, OthersUpToDate
    <3>2. Up(p)'
      <4>1. Up(p) /\ todo'[p] = todo[p] \ {Target(p)}
        BY <2>2, <1>0
      <4>2. pc'[p] = IF todo[p] = {Target(p)} THEN "command" ELSE "write"
        BY <2>2 DEF Goto
      <4>3. todo[p] # {} /\ (OneFileEach => todo[p] # Files) /\ todo[p] \subseteq Files
        BY <2>0, <4>1
      <4>4. CASE todo[p] = {Target(p)}
        BY <4>2, <4>4
      <4>5. CASE todo[p] # {Target(p)}
        <5>1. todo[p] = Files /\ Target(p) = "config"
          BY <4>3, <4>5 DEF Files, Target
        <5>2. ASSUME NEW f \in todo'[p]
              PROVE  f # Target(p) /\ f \in todo[p] /\ content'[f] = content[f]
          BY <2>2, <4>1, <4>3, <5>1, <5>2
        <5>3. todo'[p] # {} /\ todo'[p] # Files
          <6>1. "state" \in todo'[p] /\ "config" \notin todo'[p]
            BY <4>1, <5>1 DEF Files
          <6> QED
            BY <6>1 DEF Files
        <5>4. pc'[p] = "write" /\ copy'[p] = copy[p]
          BY <2>0, <4>2, <4>5
        <5>5. ASSUME NEW f \in todo'[p], f \in Protected
              PROVE  copy'[p][f] = content'[f] \union {p}
          <6>1. copy[p][f] = content[f] \union {p}
            BY <2>0, <4>1, <5>2, <5>5
          <6> QED
            BY <5>2, <5>4, <6>1
        <5> QED
          BY <5>3, <5>4, <5>5
      <4> QED
        BY <4>4, <4>5
    <3> QED
      BY <3>1, <3>2, <1>0
  <2> QED
    BY <1>8, <2>1, <2>2 DEF Rename
<1>9. ASSUME NEW p \in Procs, RunCommand(p) PROVE UpToDate'
  <2>1. UNCHANGED <<content, temp, copy, todo>>
    BY <1>9 DEF RunCommand
  <2>2. \A q \in Procs : pc'[q] = pc[q] \/ pc'[q] \notin {"execute", "write", "rename"}
    BY <1>9 DEF RunCommand, Goto
  <2> QED
    BY <2>1, <2>2, <1>0, <1>a
<1>10. ASSUME NEW p \in Procs, CommandEnds(p) PROVE UpToDate'
  BY <1>10, <1>0, <1>a DEF CommandEnds, Goto
<1>11. ASSUME NEW p \in Procs, Crash(p) PROVE UpToDate'
  BY <1>11, <1>0, <1>a DEF Crash, Goto
<1>12. CASE UNCHANGED vars
  BY <1>12, <1>0, <1>a DEF vars
<1> QED
  BY <1>1, <1>2, <1>3, <1>4, <1>5, <1>6, <1>7, <1>8, <1>9, <1>10, <1>11, <1>12
  DEF Next, Progress

-----------------------------------------------------------------------------
(* The lock is exclusive, and nobody overwrites what it has not seen: for  *)
(* every number of processes, wherever they are killed (Keyset::run).      *)
THEOREM LockWorks == Spec => [](Exclusive /\ UpToDate)
<1>1. Init => Exclusive /\ UpToDate
  BY DEF Init, Exclusive, UpToDate, Sole, Held
<1>2. TypeOK /\ Exclusive /\ UpToDate /\ [Next]_vars => (Exclusive /\ UpToDate)'
  BY ExclusiveStep, UpToDateStep
<1> QED
  BY <1>1, <1>2, TypeCorrect, PTL DEF Spec

(* Between the read and the rename of an invocation nobody else renames:   *)
(* what Keyset::run writes is what is there, with its own change, however  *)
(* many invocations wait for the lock or are killed with it.               *)
THEOREM UpToDateAlways == Spec => []UpToDate
BY LockWorks, PTL

(* A rename of a protected file only adds the change of the process. *)
LEMMA RenameAdds ==
  ASSUME TypeOK, Exclusive, UpToDate, NEW p \in Procs, Rename(p), Target(p) \in Protected
  PROVE  \/ UNCHANGED content
         \/ content' = [content EXCEPT ![Target(p)] = @ \union {p}]
<1>1. CASE UNCHANGED content
  BY <1>1
<1>2. ASSUME NEW new \in temp[Target(p)], content' = [content EXCEPT ![Target(p)] = new]
      PROVE  content' = [content EXCEPT ![Target(p)] = @ \union {p}]
  <2>1. pc[p] = "rename" /\ todo[p] \subseteq Files
    BY DEF Rename, TypeOK
  <2>2. todo[p] # {} /\ temp[Target(p)] = {copy[p][Target(p)]}
    BY <2>1 DEF UpToDate
  <2>3. Target(p) \in todo[p]
    BY <2>1, <2>2 DEF Target, Files
  <2>4. copy[p][Target(p)] = content[Target(p)] \union {p}
    BY <2>1, <2>3 DEF UpToDate
  <2> QED
    BY <1>2, <2>2, <2>4
<1> QED
  BY <1>1, <1>2 DEF Rename

(* Only a rename changes the content of the files. *)
LEMMA OnlyRename ==
  ASSUME [Next]_vars, ~UNCHANGED content
  PROVE  \E p \in Procs : Rename(p)
BY DEF Next, Progress, Start, Open, Lock, Compare, Read, Execute, WriteNew,
       RunCommand, CommandEnds, Crash, vars

(* No change of the config is ever lost (file_with_write_lock). *)
THEOREM ConfigIsKept == Spec => ConfigKept
<1>1. ASSUME TypeOK, Exclusive, UpToDate, [Next]_vars
      PROVE  content["config"] \subseteq content'["config"]
  <2>1. CASE UNCHANGED content
    BY <2>1
  <2>2. ASSUME NEW p \in Procs, Rename(p) PROVE content["config"] \subseteq content'["config"]
    <3>1. CASE Target(p) = "config"
      <4>1. \/ UNCHANGED content
            \/ content' = [content EXCEPT !["config"] = @ \union {p}]
        BY <1>1, <2>2, <3>1, RenameAdds, ProtectedFiles
      <4> QED
        BY <1>1, <4>1 DEF TypeOK
    <3>2. CASE Target(p) # "config"
      <4>1. Target(p) = "state"
        BY <3>2 DEF Target
      <4>2. \/ UNCHANGED content
            \/ \E new \in temp["state"] : content' = [content EXCEPT !["state"] = new]
        BY <2>2, <4>1 DEF Rename
      <4> QED
        BY <1>1, <4>2 DEF TypeOK, Files
    <3> QED
      BY <3>1, <3>2
  <2> QED
    BY <1>1, <2>1, <2>2, OnlyRename
<1> QED
  BY <1>1, TypeCorrect, LockWorks, PTL DEF Spec, ConfigKept

-----------------------------------------------------------------------------
(* The change of a process is in no file before the process renames one.   *)
Fresh ==
  \A p \in Procs :
    pc[p] \notin {"command", "wait"} \union Ended => \A f \in Files : p \notin content[f]

(* A rename is the change of one file in the abstract specification. *)
LEMMA RenameIsChange ==
  ASSUME OneFileEach, TypeOK, Exclusive, UpToDate, Fresh, NEW p \in Procs, Rename(p)
  PROVE  UNCHANGED content \/ Atomic!Change(p, Target(p))
<1>1. Target(p) \in Files /\ Target(p) \in Protected
  BY ProtectedFiles DEF Target, Files
<1>2. \A g \in Files : p \notin content[g]
  BY DEF Rename, Fresh, Ended
<1> QED
  BY <1>1, <1>2, RenameAdds DEF Atomic!Change, Atomic!Files, Files

LEMMA FreshStep ==
  ASSUME OneFileEach, TypeOK, Exclusive, UpToDate, Fresh, [Next]_vars
  PROVE  Fresh'
<1> USE DEF TypeOK, Fresh, Ended
<1>1. ASSUME UNCHANGED content,
             \A q \in Procs : pc[q] \in {"command", "wait"} \union Ended =>
                               pc'[q] \in {"command", "wait"} \union Ended
      PROVE  Fresh'
  BY <1>1
<1>2. ASSUME NEW p \in Procs, Rename(p) PROVE Fresh'
  <2>1. CASE Goto(p, "failed") /\ UNCHANGED content
    BY <1>1, <2>1, <1>2 DEF Goto
  <2>2. ASSUME NEW new \in temp[Target(p)],
               content' = [content EXCEPT ![Target(p)] = new],
               Goto(p, IF todo[p] = {Target(p)} THEN "command" ELSE "write")
        PROVE  Fresh'
    <3>1. todo[p] = {Target(p)}
      BY <1>2 DEF Rename, UpToDate, Target, Files
    <3>2. pc' = [pc EXCEPT ![p] = "command"]
      BY <2>2, <3>1 DEF Goto
    <3>3. \A f \in Files : content'[f] \subseteq content[f] \union {p}
      BY <1>2, RenameAdds, ProtectedFiles DEF Target, Files
    <3> QED
      BY <3>2, <3>3
  <2> QED
    BY <1>2, <2>1, <2>2 DEF Rename
<1>3. ASSUME NEW p \in Procs, Start(p) PROVE Fresh'
  BY <1>1, <1>3 DEF Start, Goto
<1>4. ASSUME NEW p \in Procs, Open(p) \/ Lock(p) \/ Read(p) \/ WriteNew(p) PROVE Fresh'
  BY <1>1, <1>4 DEF Open, Lock, Read, WriteNew, Goto
<1>5. ASSUME NEW p \in Procs, Compare(p) PROVE Fresh'
  BY <1>1, <1>5 DEF Compare, Goto
<1>6. ASSUME NEW p \in Procs, Execute(p) PROVE Fresh'
  BY <1>1, <1>6 DEF Execute, Goto
<1>7. ASSUME NEW p \in Procs, RunCommand(p) PROVE Fresh'
  <2>1. UNCHANGED content /\ pc[p] = "command"
    BY <1>7 DEF RunCommand
  <2>2. CASE Goto(p, "done")
    BY <1>1, <2>1, <2>2 DEF Goto
  <2>3. ASSUME NEW c \in Procs \ {p}, pc[c] = "idle",
               pc' = [pc EXCEPT ![p] = "wait", ![c] = "open"]
        PROVE  Fresh'
    BY <1>1, <2>1, <2>3
  <2> QED
    BY <1>7, <2>2, <2>3 DEF RunCommand
<1>8. ASSUME NEW p \in Procs, CommandEnds(p) \/ Crash(p) PROVE Fresh'
  BY <1>1, <1>8 DEF CommandEnds, Crash, Goto
<1>9. CASE UNCHANGED vars
  BY <1>1, <1>9 DEF vars
<1> QED
  BY <1>2, <1>3, <1>4, <1>5, <1>6, <1>7, <1>8, <1>9 DEF Next, Progress

(* When no command changes both files, the invocations of keyset take      *)
(* effect one after the other, each in a single step (Keyset::run).        *)
THEOREM Serializable ==
  ASSUME OneFileEach PROVE Spec => OneAfterAnother
<1>1. Init => Atomic!Init /\ Fresh
  BY DEF Init, Atomic!Init, Atomic!Files, Files, Fresh
<1>2. TypeOK /\ Exclusive /\ UpToDate /\ Fresh /\ [Next]_vars => Fresh'
  BY FreshStep
<1>3. TypeOK /\ Exclusive /\ UpToDate /\ Fresh /\ [Next]_vars => [Atomic!Next]_content
  <2> SUFFICES ASSUME TypeOK, Exclusive, UpToDate, Fresh, [Next]_vars, ~UNCHANGED content
               PROVE  Atomic!Next
    OBVIOUS
  <2>1. PICK p \in Procs : Rename(p)
    BY OnlyRename
  <2>2. Target(p) \in Atomic!Files
    BY DEF Target, Atomic!Files
  <2> QED
    BY <2>1, <2>2, RenameIsChange DEF Atomic!Next
<1> QED
  BY <1>1, <1>2, <1>3, TypeCorrect, LockWorks, PTL DEF Spec, OneAfterAnother, Atomic!Spec
=============================================================================
