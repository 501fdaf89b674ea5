----------------------------- MODULE MCDelivery -----------------------------
(***************************************************************************)
(* Instance of Delivery for TLC: a scheduled and a manual Job, whose runs  *)
(* overlap; the scheduled one is retried once.                             *)
(***************************************************************************)
EXTENDS Delivery

MCJobs  == {"scheduled", "manual"}
MCBackoff == [scheduled |-> 1, manual |-> 0]
=============================================================================
