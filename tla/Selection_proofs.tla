--------------------------- MODULE Selection_proofs ---------------------------
(***************************************************************************)
(* Recursion over the naturals, and what the operators of Selection return *)
(* for any list and any choice: the lemmas that the proofs about the       *)
(* components share.                                                       *)
(***************************************************************************)
EXTENDS Selection, FiniteSetsExt, FiniteSetTheorems, SequenceTheorems, TLAPS

-----------------------------------------------------------------------------
(* Recursion over a sequence.  Induction is by the least counterexample.   *)

\* A set of naturals that is not empty has a least element: initial segments are
\* finite, and no sequence of finite sets shrinks for ever.
LEMMA LeastNatural ==
  ASSUME NEW T \in SUBSET Nat, T # {}
  PROVE  \E x \in T : \A y \in T : x <= y
<1> DEFINE R == StrictSubsetOrdering(Nat)
           U == {0 .. x : x \in T}
<1>1. IsWellFoundedOn(R, FiniteSubsetsOf(Nat))
  BY FS_StrictSubsetOrderingWellFounded
<1>2. U \subseteq FiniteSubsetsOf(Nat)
  <2> SUFFICES ASSUME NEW x \in T PROVE 0 .. x \in FiniteSubsetsOf(Nat)
    OBVIOUS
  <2>1. 0 .. x \in SUBSET Nat
    OBVIOUS
  <2>2. IsFiniteSet(0 .. x)
    BY FS_Interval
  <2> QED BY <2>1, <2>2 DEF FiniteSubsetsOf
<1>3. U # {}
  OBVIOUS
<1>4. \E u \in U : \A v \in U : ~ (<<v, u>> \in R)
  <2> HIDE DEF R, U
  <2> QED BY <1>1, <1>2, <1>3, WFMin
<1>5. PICK x \in T : \A y \in T : ~ (<<0 .. y, 0 .. x>> \in R)
  BY <1>4
<1>6. ASSUME NEW y \in T, y < x PROVE FALSE
  <2>1. 0 .. y \in SUBSET Nat /\ 0 .. x \in SUBSET Nat /\ 0 .. y \subseteq 0 .. x
    BY <1>6
  <2>2. x \in 0 .. x /\ x \notin 0 .. y
    BY <1>6
  <2>3. <<0 .. y, 0 .. x>> \in R
    BY <2>1, <2>2 DEF StrictSubsetOrdering
  <2> QED BY <1>5, <2>3
<1> QED BY <1>6

\* A bounded set of integers that is not empty has a maximum, which Max chooses.
LEMMA MaxIs ==
  ASSUME NEW S \in SUBSET Int, S # {}, NEW n \in Int, \A s \in S : s <= n
  PROVE  Max(S) \in S /\ \A s \in S : s <= Max(S)
<1> DEFINE T == {n - s : s \in S}
<1>1. \A s \in S : n - s \in Nat /\ n - s \in T
  OBVIOUS
<1>2. T \in SUBSET Nat /\ T # {}
  BY <1>1
<1>3. PICK x \in T : \A y \in T : x <= y
  <2> HIDE DEF T
  <2> QED BY <1>2, LeastNatural
<1>4. PICK m \in S : x = n - m
  BY <1>3
<1>5. \A s \in S : m >= s
  <2> SUFFICES ASSUME NEW s \in S PROVE m >= s
    OBVIOUS
  <2>1. n - s \in T
    BY <1>1
  <2>2. n - m <= n - s
    BY <1>3, <1>4, <2>1
  <2> QED BY <2>2
<1> QED BY <1>5 DEF Max

\* Function g takes N steps from b.
Iterates(g, b, N, step) ==
  g[0] = b /\ \A n \in 1 .. N : g[n] = step[<<g[n - 1], n>>]

\* A function of steps can be iterated.
LEMMA Iterated ==
  ASSUME NEW S, NEW b \in S, NEW N \in Nat, NEW step \in [S \X (1 .. N) -> S]
  PROVE  \E g \in [0 .. N -> S] : Iterates(g, b, N, step)
<1> USE DEF Iterates
<1> DEFINE T == {n \in 0 .. N : ~ \E g \in [0 .. n -> S] : Iterates(g, b, n, step)}
<1>1. T = {}
  <2> SUFFICES ASSUME T # {} PROVE FALSE
    OBVIOUS
  <2>1. T \in SUBSET Nat
    OBVIOUS
  <2>2. PICK x \in T : \A y \in T : x <= y
    <3> HIDE DEF T
    <3> QED BY <2>1, LeastNatural
  <2>3. x # 0
    <3>1. [k \in 0 .. 0 |-> b] \in [0 .. 0 -> S] /\ Iterates([k \in 0 .. 0 |-> b], b, 0, step)
      OBVIOUS
    <3> QED BY <3>1
  <2>4. x \in 1 .. N /\ x - 1 \in 0 .. N /\ x - 1 \notin T
    <3>1. x \in 0 .. N
      OBVIOUS
    <3>2. x \in 1 .. N /\ x - 1 \in 0 .. N
      BY <2>3, <3>1
    <3>3. ASSUME x - 1 \in T PROVE FALSE
      <4>1. x <= x - 1
        BY <2>2, <3>3
      <4> QED BY <3>1, <4>1
    <3> QED BY <3>2, <3>3
  <2>5. PICK g \in [0 .. x - 1 -> S] : Iterates(g, b, x - 1, step)
    BY <2>4
  <2> DEFINE h == [k \in 0 .. x |-> IF k = x THEN step[<<g[x - 1], x>>] ELSE g[k]]
  <2>6. g[x - 1] \in S /\ step[<<g[x - 1], x>>] \in S
    BY <2>4
  <2>7. h \in [0 .. x -> S]
    BY <2>4, <2>6
  <2>8. Iterates(h, b, x, step)
    <3>1. h[0] = b
      BY <2>4, <2>5
    <3>2. ASSUME NEW k \in 1 .. x PROVE h[k] = step[<<h[k - 1], k>>]
      <4>1. k - 1 \in 0 .. x - 1 /\ h[k - 1] = g[k - 1]
        BY <2>4
      <4>2. CASE k = x
        <5>1. h[k] = step[<<g[x - 1], x>>]
          BY <4>2
        <5> QED BY <4>1, <4>2, <5>1
      <4>3. CASE k # x
        <5>1. k \in 1 .. x - 1 /\ h[k] = g[k]
          BY <2>4, <4>3
        <5> QED BY <2>5, <4>1, <5>1
      <4> QED BY <4>2, <4>3
    <3> QED BY <3>1, <3>2
  <2> QED BY <2>7, <2>8
<1>2. N \notin T
  BY <1>1
<1> QED BY <1>2

-----------------------------------------------------------------------------
(* The operators of Selection.                                             *)

\* The recursion of InOrder has a solution.
LEMMA InOrderRuns ==
  ASSUME NEW K, NEW n \in Nat
  PROVE  \E r \in [0 .. n -> Seq(Nat)] :
           /\ r[0] = <<>>
           /\ \A m \in 1 .. n : r[m] = IF m \in K THEN Append(r[m - 1], m) ELSE r[m - 1]
           /\ InOrder(K, n) = r[n]
<1> DEFINE Eq(r) == r = [m \in 0 .. n |->
                           IF m = 0 THEN <<>>
                           ELSE IF m \in K THEN Append(r[m - 1], m)
                           ELSE r[m - 1]]
           step == [y \in Seq(Nat) \X (1 .. n) |->
                      IF y[2] \in K THEN Append(y[1], y[2]) ELSE y[1]]
<1>1. step \in [Seq(Nat) \X (1 .. n) -> Seq(Nat)]
  OBVIOUS
<1>2. PICK g \in [0 .. n -> Seq(Nat)] :
        g[0] = <<>> /\ \A m \in 1 .. n : g[m] = step[<<g[m - 1], m>>]
  <2> DEFINE S == Seq(Nat)
             b == <<>>
  <2>1. b \in S /\ step \in [S \X (1 .. n) -> S]
    BY <1>1
  <2>2. \E g \in [0 .. n -> S] : Iterates(g, b, n, step)
    <3> HIDE DEF step, S, b
    <3> QED BY <2>1, Iterated
  <2> QED BY <2>2 DEF Iterates
<1>3. Eq(g)
  <2>1. ASSUME NEW m \in 1 .. n
        PROVE  step[<<g[m - 1], m>>] = IF m \in K THEN Append(g[m - 1], m) ELSE g[m - 1]
    <3>1. g[m - 1] \in Seq(Nat)
      OBVIOUS
    <3> QED BY <3>1
  <2>2. \A m \in 0 .. n : m # 0 => m \in 1 .. n
    OBVIOUS
  <2> HIDE DEF step
  <2> QED BY <1>2, <2>1, <2>2
<1> DEFINE r == CHOOSE r : Eq(r)
<1>4. Eq(r)
  <2> HIDE DEF Eq
  <2> QED BY <1>3
<1>5. InOrder(K, n) = r[n]
  BY DEF InOrder
<1> HIDE DEF r
<1>6. /\ r[0] = <<>>
      /\ \A m \in 1 .. n : r[m] = IF m \in K THEN Append(r[m - 1], m) ELSE r[m - 1]
  <2>1. \A m \in 0 .. n : r[m] = IF m = 0 THEN <<>>
                                  ELSE IF m \in K THEN Append(r[m - 1], m)
                                  ELSE r[m - 1]
    BY <1>4
  <2>2. 0 \in 0 .. n /\ \A m \in 1 .. n : m \in 0 .. n /\ m # 0
    OBVIOUS
  <2> HIDE DEF Eq
  <2> QED BY <2>1, <2>2, Zenon
<1>7. r \in [0 .. n -> Seq(Nat)]
  <2> DEFINE T == {m \in 0 .. n : r[m] \notin Seq(Nat)}
  <2>1. T = {}
    <3> SUFFICES ASSUME T # {} PROVE FALSE
      OBVIOUS
    <3>1. PICK x \in T : \A y \in T : x <= y
      <4>1. T \in SUBSET Nat
        OBVIOUS
      <4> HIDE DEF T
      <4> QED BY <4>1, LeastNatural
    <3>2. x \in 0 .. n /\ r[x] \notin Seq(Nat)
      OBVIOUS
    <3>3. x # 0
      <4>1. <<>> \in Seq(Nat)
        OBVIOUS
      <4> QED BY <1>6, <3>2, <4>1
    <3>4. x \in 1 .. n /\ x - 1 \in 0 .. n /\ x - 1 < x
      BY <3>2, <3>3
    <3>5. r[x - 1] \in Seq(Nat)
      BY <3>1, <3>4
    <3>6. Append(r[x - 1], x) \in Seq(Nat)
      BY <3>4, <3>5
    <3>7. r[x] \in {Append(r[x - 1], x), r[x - 1]}
      BY <1>6, <3>4
    <3> QED BY <3>2, <3>5, <3>6, <3>7
  <2>2. DOMAIN r = 0 .. n /\ r = [m \in 0 .. n |-> r[m]]
    BY <1>4
  <2> QED BY <2>1, <2>2
<1> QED BY <1>5, <1>6, <1>7

\* What s is when it lists the elements of K up to n in ascending order.
Lists(s, K, n) ==
  /\ s \in Seq(Nat)
  /\ \A k \in DOMAIN s : s[k] \in K /\ s[k] \in 1 .. n
  /\ \A m \in 1 .. n : m \in K => \E k \in DOMAIN s : s[k] = m
  /\ \A i, j \in DOMAIN s : i < j => s[i] < s[j]

\* InOrder does: one position more adds one element or none.
LEMMA InOrderIs ==
  ASSUME NEW K, NEW n \in Nat
  PROVE  Lists(InOrder(K, n), K, n)
<1>1. PICK r \in [0 .. n -> Seq(Nat)] :
        /\ r[0] = <<>>
        /\ \A m \in 1 .. n : r[m] = IF m \in K THEN Append(r[m - 1], m) ELSE r[m - 1]
        /\ InOrder(K, n) = r[n]
  BY InOrderRuns
<1>2. Lists(r[0], K, 0)
  BY <1>1 DEF Lists
<1>3. ASSUME NEW m \in 1 .. n, Lists(r[m - 1], K, m - 1)
      PROVE  Lists(r[m], K, m)
  <2> DEFINE s == r[m - 1]
  <2>1. m - 1 \in 0 .. n /\ s \in Seq(Nat)
    OBVIOUS
  <2>2. CASE m \notin K
    <3>1. r[m] = s
      BY <1>1, <2>2
    <3>2. \A e \in 1 .. m : e \in K => e \in 1 .. m - 1
      BY <2>2
    <3>3. 1 .. m - 1 \subseteq 1 .. m
      OBVIOUS
    <3>4. Lists(s, K, m)
      <4> HIDE DEF s
      <4> QED BY <1>3, <2>1, <3>2, <3>3 DEF Lists, s
    <3> QED BY <3>1, <3>4
  <2>3. CASE m \in K
    <3>1. r[m] = Append(s, m)
      BY <1>1, <2>3
    <3> HIDE DEF s
    <3>2. /\ Append(s, m) \in Seq(Nat) /\ DOMAIN s = 1 .. Len(s) /\ Len(s) \in Nat
          /\ DOMAIN Append(s, m) = 1 .. Len(s) + 1
          /\ \A k \in 1 .. Len(s) : Append(s, m)[k] = s[k]
          /\ Append(s, m)[Len(s) + 1] = m
      BY <2>1
    <3>3. /\ \A k \in DOMAIN s : s[k] \in K /\ s[k] \in 1 .. m - 1
          /\ \A e \in 1 .. m - 1 : e \in K => \E k \in DOMAIN s : s[k] = e
          /\ \A i, j \in DOMAIN s : i < j => s[i] < s[j]
      BY <1>3 DEF Lists, s
    <3> DEFINE t == Append(s, m)
    <3>4. \A k \in DOMAIN t : t[k] \in K /\ t[k] \in 1 .. m
      BY <2>3, <3>2, <3>3
    <3>5. \A e \in 1 .. m : e \in K => \E k \in DOMAIN t : t[k] = e
      <4> SUFFICES ASSUME NEW e \in 1 .. m, e \in K PROVE \E k \in DOMAIN t : t[k] = e
        OBVIOUS
      <4>1. CASE e = m
        <5>1. Len(s) + 1 \in DOMAIN t
          BY <3>2
        <5> QED BY <3>2, <4>1, <5>1
      <4>2. CASE e # m
        <5>1. PICK k \in DOMAIN s : s[k] = e
          BY <3>3, <4>2
        <5> QED BY <3>2, <5>1
      <4> QED BY <4>1, <4>2
    <3>6. \A i, j \in DOMAIN t : i < j => t[i] < t[j]
      <4> SUFFICES ASSUME NEW i \in DOMAIN t, NEW j \in DOMAIN t, i < j
                   PROVE  t[i] < t[j]
        OBVIOUS
      <4>1. i \in 1 .. Len(s) /\ t[i] = s[i] /\ s[i] \in 1 .. m - 1
        BY <3>2, <3>3
      <4>2. CASE j = Len(s) + 1
        BY <3>2, <4>1, <4>2
      <4>3. CASE j # Len(s) + 1
        <5>1. j \in 1 .. Len(s) /\ t[j] = s[j]
          BY <3>2, <4>3
        <5> QED BY <3>2, <3>3, <4>1, <5>1
      <4> QED BY <4>2, <4>3
    <3> QED BY <3>1, <3>2, <3>4, <3>5, <3>6 DEF Lists
  <2> QED BY <2>2, <2>3
<1> DEFINE T == {m \in 0 .. n : ~Lists(r[m], K, m)}
<1>4. T = {}
  <2> SUFFICES ASSUME T # {} PROVE FALSE
    OBVIOUS
  <2>1. PICK x \in T : \A y \in T : x <= y
    <3>1. T \in SUBSET Nat
      OBVIOUS
    <3> HIDE DEF T
    <3> QED BY <3>1, LeastNatural
  <2>2. x # 0
    BY <1>2
  <2>3. x \in 1 .. n /\ x - 1 \in 0 .. n
    BY <2>2
  <2>4. x - 1 \notin T
    <3> HIDE DEF T
    <3> QED BY <2>1, <2>3
  <2> QED BY <1>3, <2>3, <2>4
<1>5. n \notin T
  BY <1>4
<1> QED BY <1>1, <1>5

\* Selected keeps exactly the entries at the given positions.
LEMMA SelectedIs ==
  ASSUME NEW S, NEW s \in Seq(S), NEW K \in SUBSET DOMAIN s
  PROVE  /\ Selected(s, K) \in Seq(S)
         /\ \A e : (\E k \in DOMAIN Selected(s, K) : Selected(s, K)[k] = e)
                     <=> \E k \in K : s[k] = e
<1> DEFINE q == InOrder(K, Len(s))
<1>1. Lists(q, K, Len(s))
  BY InOrderIs
<1>2. /\ q \in Seq(Nat)
      /\ \A k \in DOMAIN q : q[k] \in K /\ q[k] \in 1 .. Len(s)
      /\ \A m \in 1 .. Len(s) : m \in K => \E k \in DOMAIN q : q[k] = m
  BY <1>1 DEF Lists
<1>3. Selected(s, K) = [k \in DOMAIN q |-> s[q[k]]]
  BY DEF Selected
<1> HIDE DEF q
<1>4. DOMAIN q = 1 .. Len(q) /\ Len(q) \in Nat /\ DOMAIN s = 1 .. Len(s)
  BY <1>2
<1>5. Selected(s, K) \in Seq(S)
  <2>1. \A k \in 1 .. Len(q) : s[q[k]] \in S
    BY <1>2, <1>4
  <2> QED BY <1>3, <1>4, <2>1
<1> QED BY <1>2, <1>3, <1>4, <1>5

=============================================================================
