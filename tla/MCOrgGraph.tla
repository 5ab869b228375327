----------------------------- MODULE MCOrgGraph -----------------------------
(* OrgGraph on small instances. *)
EXTENDS OrgTraversal, TLC

CONSTANTS a, b, c, p, q, x

Symmetry == Permutations({p, q})
=============================================================================
