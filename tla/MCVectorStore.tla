---------------------------- MODULE MCVectorStore ---------------------------
(* VectorStore on small instances. *)
EXTENDS VectorStore, TLC

CONSTANTS a, b, c, e1, e2, e3

NoSeeds == <<>>
ThreeSeeds == <<e1, e2, e3>>
=============================================================================
