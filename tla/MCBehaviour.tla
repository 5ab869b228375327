----------------------------- MODULE MCBehaviour -----------------------------
(* Behaviour on a small instance. *)
EXTENDS Behaviour, TLC

CONSTANTS r, v, w, q1, q2, q3

Symmetry == Permutations({r, v}) \cup Permutations({q1, q2})
=============================================================================
