----------------------------- MODULE KeysetLock -----------------------------
(***************************************************************************)
(* How invocations of keyset share the config and the state file: the lock *)
(* on the config file, the rewriting of a file by writing a new one and    *)
(* renaming it, and the command keyset runs to update the DS records       *)
(* (Keyset::run, file_with_write_lock, write_to_new_and_rename in          *)
(* src/commands/keyset/cmd.rs).                                            *)
(*                                                                         *)
(* The lock belongs to the file, not to its name: renaming puts another,   *)
(* unlocked file at the name. The content of a file is the set of          *)
(* invocations whose change it holds. A process runs one command.          *)
(***************************************************************************)
EXTENDS Naturals

CONSTANTS
  Procs,        \* the invocations of keyset
  ChangeSets,   \* the sets of files a command may have to rewrite
  DsCommand,    \* whether update_ds_command is configured
  MaxTries,     \* MAX_FILE_LOCK_TRIES
  Nobody        \* no process

Files == {"config", "state"}

ASSUME LockAssumption ==
  /\ ChangeSets \subseteq SUBSET Files
  /\ DsCommand \in BOOLEAN
  /\ MaxTries \in Nat \ {0}
  /\ Nobody \notin Procs

VARIABLES
  name,      \* which of the config files ever created has the name now
  content,   \* file -> the content at its name
  temp,      \* file -> {the content of its ".new" file}, or {} if there is none
  pc,        \* process -> what it does next
  handle,    \* process -> the config file it opened
  tries,     \* process -> failed attempts to get the lock
  copy,      \* process -> file -> what it read, with its own change
  todo,      \* process -> the files it still has to rewrite
  child      \* process -> the process its update_ds_command runs, or Nobody

vars == <<name, content, temp, pc, handle, tries, copy, todo, child>>

Ended == {"done", "failed"}

(* A lock that outlives its process. *)
HeldForever ==
  {"compare", "read", "execute", "write", "rename", "command", "wait"} \union Ended

(* From lock_exclusive to the end of the process, which closes its files.  *)
Held == {"compare", "read", "execute", "write", "rename", "command", "wait"}

States == {"idle", "open", "lock"} \union Held \union Ended

Locked(i) == \E q \in Procs : pc[q] \in Held /\ handle[q] = i

-----------------------------------------------------------------------------
Goto(p, state) == pc' = [pc EXCEPT ![p] = state]

Start(p) ==
  /\ pc[p] = "idle"
  /\ Goto(p, "open")
  /\ UNCHANGED <<name, content, temp, handle, tries, copy, todo, child>>

Open(p) ==
  /\ pc[p] = "open"
  /\ handle' = [handle EXCEPT ![p] = name]
  /\ Goto(p, "lock")
  /\ UNCHANGED <<name, content, temp, tries, copy, todo, child>>

(* A shared lock. *)
LockShared(p) ==
  /\ pc[p] = "lock"
  /\ Goto(p, "compare")
  /\ UNCHANGED <<name, content, temp, handle, tries, copy, todo, child>>

(* lock_exclusive blocks until the lock is free. *)
Lock(p) ==
  /\ pc[p] = "lock"
  /\ ~Locked(handle[p])
  /\ Goto(p, "compare")
  /\ UNCHANGED <<name, content, temp, handle, tries, copy, todo, child>>

(* Whatever file was locked is used. *)
CompareNever(p) ==
  /\ pc[p] = "compare"
  /\ Goto(p, "read")
  /\ UNCHANGED <<name, content, temp, handle, tries, copy, todo, child>>

(* One attempt too many. *)
CompareOnceMore(p) ==
  /\ pc[p] = "compare"
  /\ \/ /\ handle[p] = name
        /\ Goto(p, "read")
        /\ UNCHANGED tries
     \/ /\ handle[p] # name
        /\ Goto(p, IF tries[p] < MaxTries THEN "open" ELSE "failed")
        /\ tries' = [tries EXCEPT ![p] = @ + 1]
  /\ UNCHANGED <<name, content, temp, handle, copy, todo, child>>

(* Is the locked file still the one that has the name? *)
Compare(p) ==
  /\ pc[p] = "compare"
  /\ \/ /\ handle[p] = name
        /\ Goto(p, "read")
        /\ UNCHANGED tries
     \/ /\ handle[p] # name
        /\ Goto(p, IF tries[p] + 1 < MaxTries THEN "open" ELSE "failed")
        /\ tries' = [tries EXCEPT ![p] = @ + 1]
  /\ UNCHANGED <<name, content, temp, handle, copy, todo, child>>

(* Mutant: the files were read before the lock was there. *)
ReadBefore(p) ==
  /\ pc[p] = "read"
  /\ Goto(p, "execute")
  /\ UNCHANGED <<name, content, temp, handle, tries, copy, todo, child>>

(* The state is read from its name, the config from the locked file: as    *)
(* long as a process has that one locked, it is the file with the name.    *)
Read(p) ==
  /\ pc[p] = "read"
  /\ copy' = [copy EXCEPT ![p] = content]
  /\ Goto(p, "execute")
  /\ UNCHANGED <<name, content, temp, handle, tries, todo, child>>

(* The command. One that update_ds_command runs only reads ("get ds"). A   *)
(* command that changes nothing ends here, as does one that fails.         *)
Execute(p) ==
  /\ pc[p] = "execute"
  /\ \E changes \in ChangeSets \union {{}} :
       /\ (\E q \in Procs : child[q] = p) => changes = {}
       /\ todo' = [todo EXCEPT ![p] = changes]
       /\ copy' = [copy EXCEPT ![p] =
                     [f \in Files |-> IF f \in changes THEN @[f] \union {p} ELSE @[f]]]
       /\ Goto(p, IF changes = {} THEN "done" ELSE "write")
  /\ UNCHANGED <<name, content, temp, handle, tries, child>>

(* The config file is rewritten before the state file. *)
Target(p) == IF "config" \in todo[p] THEN "config" ELSE "state"

WriteNew(p) ==
  /\ pc[p] = "write"
  /\ temp' = [temp EXCEPT ![Target(p)] = {copy[p][Target(p)]}]
  /\ Goto(p, "rename")
  /\ UNCHANGED <<name, content, handle, tries, copy, todo, child>>

(* A rename whose ".new" file somebody else renamed is an error. *)
Rename(p) ==
  /\ pc[p] = "rename"
  /\ \/ /\ temp[Target(p)] = {}
        /\ Goto(p, "failed")
        /\ UNCHANGED <<name, content, temp, todo>>
     \/ \E new \in temp[Target(p)] :
          /\ content' = [content EXCEPT ![Target(p)] = new]
          /\ temp' = [temp EXCEPT ![Target(p)] = {}]
          /\ name' = IF Target(p) = "config" THEN name + 1 ELSE name
          /\ todo' = [todo EXCEPT ![p] = @ \ {Target(p)}]
          /\ Goto(p, IF todo[p] = {Target(p)} THEN "command" ELSE "write")
  /\ UNCHANGED <<handle, tries, copy, child>>

(* After the files are written: update_ds_command, if there is one and the *)
(* command changed the DS records. It may call keyset again; keyset waits  *)
(* for its output.                                                         *)
RunCommand(p) ==
  /\ pc[p] = "command"
  /\ \/ /\ Goto(p, "done")
        /\ UNCHANGED child
     \/ /\ DsCommand /\ p \in copy[p]["state"]
        /\ \E c \in Procs \ {p} :
             /\ pc[c] = "idle"
             /\ child' = [child EXCEPT ![p] = c]
             /\ pc' = [pc EXCEPT ![p] = "wait", ![c] = "open"]
  /\ UNCHANGED <<name, content, temp, handle, tries, copy, todo>>

CommandEnds(p) ==
  /\ pc[p] = "wait"
  /\ pc[child[p]] \in Ended
  /\ Goto(p, "done")
  /\ UNCHANGED <<name, content, temp, handle, tries, copy, todo, child>>

(* A process can be killed at any time. *)
Crash(p) ==
  /\ pc[p] \notin {"idle"} \union Ended
  /\ Goto(p, "failed")
  /\ UNCHANGED <<name, content, temp, handle, tries, copy, todo, child>>

Init ==
  /\ name = 0
  /\ content = [f \in Files |-> {}]
  /\ temp = [f \in Files |-> {}]
  /\ pc = [p \in Procs |-> "idle"]
  /\ handle = [p \in Procs |-> 0]
  /\ tries = [p \in Procs |-> 0]
  /\ copy = [p \in Procs |-> [f \in Files |-> {}]]
  /\ todo = [p \in Procs |-> {}]
  /\ child = [p \in Procs |-> Nobody]

Progress(p) ==
  \/ Open(p) \/ Lock(p) \/ Compare(p) \/ Read(p) \/ Execute(p)
  \/ WriteNew(p) \/ Rename(p) \/ RunCommand(p) \/ CommandEnds(p)

Next == \E p \in Procs : Start(p) \/ Progress(p) \/ Crash(p)

Spec == Init /\ [][Next]_vars

(* A running process goes on; nobody has to start one. *)
FairSpec == Spec /\ \A p \in Procs : WF_vars(Progress(p))

-----------------------------------------------------------------------------
(* The types of the variables; and no process tries to get the lock more   *)
(* often than MAX_FILE_LOCK_TRIES times.                                   *)
TypeOK ==
  /\ name \in Nat
  /\ content \in [Files -> SUBSET Procs]
  /\ temp \in [Files -> SUBSET SUBSET Procs]
  /\ pc \in [Procs -> States]
  /\ handle \in [Procs -> Nat]
  /\ tries \in [Procs -> 0 .. MaxTries]
  /\ \A p \in Procs : pc[p] \notin Ended => tries[p] < MaxTries
  /\ copy \in [Procs -> [Files -> SUBSET Procs]]
  /\ todo \in [Procs -> SUBSET Files]
  /\ child \in [Procs -> Procs \union {Nobody}]

(* When no command changes both files. *)
OneFileEach == Files \notin ChangeSets

(* The files that the lock protects: after the config file is renamed, its *)
(* new version is not locked.                                              *)
Protected == IF OneFileEach THEN Files ELSE {"config"}

(* p works on protected files. *)
Sole(p) ==
  \/ pc[p] \in {"read", "execute"}
  \/ pc[p] \in {"write", "rename"} /\ Target(p) \in Protected

(* The lock is exclusive, and who works on protected files has locked the  *)
(* file that has the name of the config (file_with_write_lock): so no two  *)
(* processes do at the same time, and no third one renames under them.     *)
Exclusive ==
  /\ \A p, q \in Procs :
       p # q /\ pc[p] \in Held /\ pc[q] \in Held => handle[p] # handle[q]
  /\ \A p \in Procs : handle[p] <= name
  /\ \A p \in Procs : Sole(p) => handle[p] = name

(* What a process is about to write is what is there with its own change   *)
(* (Keyset::run reads the files before it writes them): never less.        *)
UpToDate ==
  \A p \in Procs :
    /\ pc[p] = "execute" => \A f \in Protected : copy[p][f] = content[f]
    /\ pc[p] \in {"write", "rename"} =>
         /\ todo[p] # {} /\ (OneFileEach => todo[p] # Files)
         /\ \A f \in todo[p] \intersect Protected : copy[p][f] = content[f] \union {p}
    /\ pc[p] = "rename" /\ Target(p) \in Protected =>
         temp[Target(p)] = {copy[p][Target(p)]}

(* No change of the config is ever lost, whatever the other invocations do *)
(* and wherever they are killed: between a process reading the config and  *)
(* renaming its new version nobody else does so, because the lock is       *)
(* compared with the name (file_with_write_lock).                          *)
ConfigKept == [][content["config"] \subseteq content'["config"]]_vars

(* The same for the state file, which the lock on the config file is to    *)
(* protect as well.                                                        *)
StateKept == [][content["state"] \subseteq content'["state"]]_vars

Atomic == INSTANCE KeysetAtomic WITH files <- content

(* When no command changes both files, invocations take effect one after   *)
(* the other, each on what the ones before it left.                        *)
OneAfterAnother == Atomic!Spec

(* An invocation of keyset ends: it gets the lock sooner or later, or      *)
(* fails, and the command it runs ends.                                    *)
EveryoneEnds ==
  \A p \in Procs : (pc[p] = "open") ~> (pc[p] \in Ended)
=============================================================================
