---------------------------- MODULE MCGraphStore ----------------------------
(* GraphStore on small instances: the processes and ops of a run are model *)
(* values, interchangeable within their roles.                             *)
EXTENDS GraphStore, TLC

Readers == Proc \ Writers
Symmetry ==
  Permutations(Op) \cup Permutations(Indexers)
    \cup Permutations(Writers \ Indexers) \cup Permutations(Readers)
=============================================================================
