---------------------------- MODULE MCEpisodicLog ----------------------------
(* EpisodicLog on a small instance. *)
EXTENDS EpisodicLog

CONSTANTS p, q
=============================================================================
