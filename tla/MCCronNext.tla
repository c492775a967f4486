----------------------------- MODULE MCCronNext -----------------------------
(* CronNext with a few configurations. *)
EXTENDS CronNext

All == {"start", "report", "expire", "done"}

(* A KSK and a ZSK that are replaced in time by cron. *)
Split ==
  [use_csk |-> FALSE, algorithm |-> "rsa", autoremove |-> TRUE,
   validity |-> [KSK |-> {1}, ZSK |-> {}, CSK |-> {}],
   auto |-> [[v \in Variants |-> All] EXCEPT !["Zsk"] = {"report"}],
   ksk_roll_type |-> "KskRoll", zsk_roll_type |-> "ZskRoll"]

Few ==
  {Split,
   [Split EXCEPT !.use_csk = TRUE]}
=============================================================================
