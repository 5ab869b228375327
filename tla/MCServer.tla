------------------------------- MODULE MCServer -------------------------------
(* Server on a small instance. *)
EXTENDS Server, TLC

CONSTANTS a, b

\* No action and no property tells the threads apart.
Threads == Permutations(Thread)
=============================================================================
