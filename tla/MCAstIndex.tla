----------------------------- MODULE MCAstIndex -----------------------------
(* AstIndex on small instances. *)
EXTENDS AstIndex, TLC

CONSTANTS w, u, f, g

OneSeed == <<f>>
=============================================================================
