------------------------------ MODULE MCWatcher ------------------------------
(* Watcher on small instances. *)
EXTENDS Watcher, TLC

CONSTANTS f, g, t1, t2
=============================================================================
