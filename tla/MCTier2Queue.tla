---------------------------- MODULE MCTier2Queue ----------------------------
(* Tier2Queue on small instances. *)
EXTENDS Tier2Queue, TLC

CONSTANTS f, g, s
=============================================================================
