------------------------------ MODULE Selection ------------------------------
(***************************************************************************)
(* The choice of some entries of a list, in the order they have there: the *)
(* list comprehensions, sorted() and id filters of the stores.             *)
(***************************************************************************)
EXTENDS Integers, Sequences

\* The elements of K among 1 .. n, in ascending order.
InOrder(K, n) ==
  LET upTo[m \in 0 .. n] ==
        IF m = 0 THEN <<>>
        ELSE IF m \in K THEN Append(upTo[m - 1], m)
        ELSE upTo[m - 1]
  IN upTo[n]

\* The entries of sequence s whose positions are in K.
Selected(s, K) ==
  LET places == InOrder(K, Len(s)) IN [k \in DOMAIN places |-> s[places[k]]]
=============================================================================
