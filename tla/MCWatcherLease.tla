--------------------------- MODULE MCWatcherLease ---------------------------
(* WatcherLease on a small instance. *)
EXTENDS WatcherLease, TLC

CONSTANTS d, s
=============================================================================
