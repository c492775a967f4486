----------------------------- MODULE MCKeyStore -----------------------------
(* KeyStore on a small instance. *)
EXTENDS KeyStore, TLC

ForeignKeys == Keys

Exchangeable == Permutations(Names) \union Permutations(Servers)
=============================================================================
