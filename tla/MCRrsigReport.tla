--------------------------- MODULE MCRrsigReport ---------------------------
(* RrsigReport with a hidden primary, a record and an NSEC3 record. *)
EXTENDS RrsigReport
=============================================================================
