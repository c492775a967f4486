---------------------------- MODULE MCKeysetLock ----------------------------
(* KeysetLock with a few invocations of keyset. *)
EXTENDS KeysetLock

OneFile == {{"config"}, {"state"}}

AnyFiles == SUBSET Files
=============================================================================
