---------------------------- MODULE KeysetAtomic ----------------------------
(***************************************************************************)
(* What the lock on the config file is for: seen from outside, every       *)
(* invocation of keyset reads the files, and applies its change to one of  *)
(* them, in one step. A file is the set of invocations whose change it     *)
(* holds.                                                                  *)
(***************************************************************************)
CONSTANT Procs
VARIABLE files    \* [config, state]

Files == {"config", "state"}

Init == files = [f \in Files |-> {}]

Change(p, f) ==
  /\ \A g \in Files : p \notin files[g]
  /\ files' = [files EXCEPT ![f] = @ \union {p}]

Next == \E p \in Procs, f \in Files : Change(p, f)

Spec == Init /\ [][Next]_files
=============================================================================
