--------------------------- MODULE AstIndex_proofs ---------------------------
(***************************************************************************)
(* Proofs about AstIndex, for any instances, files, versions and numbers   *)
(* of edits and saves: records, vectors and descriptions stay together,    *)
(* and a save leaves alone what its instance did not change.               *)
(***************************************************************************)
EXTENDS AstIndex, Selection_proofs

-----------------------------------------------------------------------------
(* A store as sets: which vectors it has, and what is true of each.        *)

Has(x, v) == \E k \in DOMAIN x.index : x.index[k] = v

\* Every record points at a vector of its own symbol.
Pointed(x) ==
  \A f \in File : x.files[f].id >= 0 =>
    Has(x, [id |-> x.files[f].id, of |-> About("symbol", f, x.files[f].ver)])
\* Every vector has its description and, if of a symbol, the record that points at it.
Described(x) ==
  \A v \in Vector : Has(x, v) =>
    /\ v.id < Len(x.meta) /\ x.meta[v.id + 1] = v.of
    /\ v.of.source = "symbol" => x.files[v.of.file] = [ver |-> v.of.ver, id |-> v.id]
Complete(x) == \A f \in File : x.files[f].ver # 0 => x.files[f].id >= 0
Linked(x) == Pointed(x) /\ Described(x) /\ Complete(x)

\* The parts of a store.
LEMMA StoreIs ==
  ASSUME NEW x \in Store
  PROVE  /\ x.files \in [File -> Record] /\ x.index \in Seq(Vector) /\ x.meta \in Seq(Meta)
         /\ Len(x.meta) \in Nat /\ DOMAIN x.meta = 1 .. Len(x.meta)
         /\ Len(x.index) \in Nat /\ DOMAIN x.index = 1 .. Len(x.index)
         /\ \A k \in DOMAIN x.index : x.index[k] \in Vector
         /\ \A k \in DOMAIN x.meta : x.meta[k] \in Meta
         /\ \A v : Has(x, v) => v \in Vector
<1>1. x.files \in [File -> Record] /\ x.index \in Seq(Vector) /\ x.meta \in Seq(Meta)
  BY DEF Store
<1>2. /\ DOMAIN x.index = 1 .. Len(x.index) /\ Len(x.index) \in Nat
      /\ \A k \in DOMAIN x.index : x.index[k] \in Vector
  BY <1>1
<1>3. /\ DOMAIN x.meta = 1 .. Len(x.meta) /\ Len(x.meta) \in Nat
      /\ \A k \in DOMAIN x.meta : x.meta[k] \in Meta
  BY <1>1
<1>4. \A v : Has(x, v) => v \in Vector
  BY <1>2 DEF Has
<1> QED BY <1>1, <1>2, <1>3, <1>4

\* What a description, a vector and a record are made of.
LEMMA PartsAre ==
  /\ \A m \in Meta : /\ m.source \in {"symbol", "file_summary"} /\ m.file \in File
                     /\ m.ver \in Versions /\ m = About(m.source, m.file, m.ver)
  /\ \A v \in Vector : v.id \in Nat /\ v.of \in Meta /\ v = [id |-> v.id, of |-> v.of]
  /\ \A r \in Record : r.ver \in Versions \cup {0} /\ r.id \in Int
                       /\ r = [ver |-> r.ver, id |-> r.id]
  /\ \A source \in {"symbol", "file_summary"}, f \in File, w \in Versions :
       /\ About(source, f, w) \in Meta
       /\ About(source, f, w).source = source
       /\ About(source, f, w).file = f /\ About(source, f, w).ver = w
  /\ \A i \in Nat, m \in Meta : [id |-> i, of |-> m] \in Vector
  /\ \A w \in Versions : w \in Nat /\ w # 0
<1>1. \A m \in Meta : /\ m.source \in {"symbol", "file_summary"} /\ m.file \in File
                      /\ m.ver \in Versions /\ m = About(m.source, m.file, m.ver)
  BY DEF Meta, About
<1>2. \A v \in Vector : v.id \in Nat /\ v.of \in Meta /\ v = [id |-> v.id, of |-> v.of]
  BY DEF Vector
<1>3. \A r \in Record : r.ver \in Versions \cup {0} /\ r.id \in Int
                        /\ r = [ver |-> r.ver, id |-> r.id]
  BY DEF Record
<1>4. \A source \in {"symbol", "file_summary"}, f \in File, w \in Versions :
        /\ About(source, f, w) \in Meta
        /\ About(source, f, w).source = source
        /\ About(source, f, w).file = f /\ About(source, f, w).ver = w
  BY DEF Meta, About
<1>5. \A i \in Nat, m \in Meta : [id |-> i, of |-> m] \in Vector
  BY DEF Vector
<1>6. \A w \in Versions : w \in Nat /\ w # 0
  BY VersionsAssumption
<1> QED BY <1>1, <1>2, <1>3, <1>4, <1>5, <1>6

\* Where an id resolves, the vector is that of the last row that has the id.
LEMMA VectorAtIs ==
  ASSUME NEW x \in Store, NEW i \in Int, Resolves(x, i)
  PROVE  /\ i \in Nat /\ i + 1 \in DOMAIN x.meta /\ x.meta[i + 1] \in Meta
         /\ VectorAt(x, i) \in Meta
         /\ Has(x, [id |-> i, of |-> VectorAt(x, i)])
<1>1. i \in Nat /\ i < Len(x.meta) /\ At(x, i) # {}
  BY DEF Resolves
<1>2. At(x, i) \in SUBSET Int /\ \A k \in At(x, i) : k <= Len(x.index)
  <2>1. DOMAIN x.index = 1 .. Len(x.index) /\ Len(x.index) \in Nat
    BY StoreIs
  <2> QED BY <2>1 DEF At
<1>3. \E k \in At(x, i) : \A j \in At(x, i) : j <= k
  <2> DEFINE S == At(x, i)
  <2>1. Max(S) \in S /\ \A s \in S : s <= Max(S)
    <3>1. Len(x.index) \in Int
      BY StoreIs
    <3>2. S \in SUBSET Int /\ S # {} /\ \A s \in S : s <= Len(x.index)
      BY <1>1, <1>2
    <3> HIDE DEF S
    <3> QED BY <3>1, <3>2, MaxIs
  <2> QED BY <2>1
<1> DEFINE k == CHOOSE k \in At(x, i) : \A j \in At(x, i) : j <= k
<1>4. k \in At(x, i)
  BY <1>3
<1>5. VectorAt(x, i) = x.index[k].of
  BY DEF VectorAt
<1> HIDE DEF k
<1>6. k \in DOMAIN x.index /\ x.index[k].id = i
  BY <1>4 DEF At
<1>7. x.index[k] \in Vector
  BY <1>6, StoreIs
<1>8. x.index[k] = [id |-> i, of |-> VectorAt(x, i)] /\ VectorAt(x, i) \in Meta
  BY <1>5, <1>6, <1>7, PartsAre
<1>9. i + 1 \in DOMAIN x.meta /\ x.meta[i + 1] \in Meta
  <2>1. DOMAIN x.meta = 1 .. Len(x.meta) /\ Len(x.meta) \in Nat
    BY StoreIs
  <2>2. i + 1 \in DOMAIN x.meta
    BY <1>1, <2>1
  <2> QED BY <2>2, StoreIs
<1> QED BY <1>1, <1>6, <1>8, <1>9 DEF Has

\* An id resolves when there is a vector under it that is described.
LEMMA ResolvesWhen ==
  ASSUME NEW x \in Store, NEW v \in Vector, Has(x, v), v.id < Len(x.meta)
  PROVE  Resolves(x, v.id)
<1>1. v.id \in Nat
  BY PartsAre
<1>2. PICK k \in DOMAIN x.index : x.index[k] = v
  BY DEF Has
<1>3. k \in At(x, v.id)
  BY <1>2 DEF At
<1> QED BY <1>1, <1>3 DEF Resolves

\* In a linked store an id leads to what describes it.
LEMMA LinkedAt ==
  ASSUME NEW x \in Store, Described(x), NEW i \in Int, Resolves(x, i)
  PROVE  VectorAt(x, i) = x.meta[i + 1]
<1>1. /\ Has(x, [id |-> i, of |-> VectorAt(x, i)])
      /\ [id |-> i, of |-> VectorAt(x, i)] \in Vector
  BY VectorAtIs, StoreIs
<1> QED BY <1>1 DEF Described

\* Sound says of a store what Linked says of its vectors.
LEMMA SoundIs ==
  ASSUME NEW x \in Store
  PROVE  Sound(x) <=> Linked(x)
<1>1. ASSUME Sound(x) PROVE Linked(x)
  <2>1. Complete(x)
    BY <1>1 DEF Sound, Complete
  <2>2. Described(x)
    <3> SUFFICES ASSUME NEW v \in Vector, Has(x, v)
                 PROVE  /\ v.id < Len(x.meta) /\ x.meta[v.id + 1] = v.of
                        /\ v.of.source = "symbol" =>
                             x.files[v.of.file] = [ver |-> v.of.ver, id |-> v.id]
      BY DEF Described
    <3>1. PICK k \in DOMAIN x.index : x.index[k] = v
      BY DEF Has
    <3> QED BY <1>1, <3>1 DEF Sound, Consistent
  <2>3. Pointed(x)
    <3> SUFFICES ASSUME NEW f \in File, x.files[f].id >= 0
                 PROVE  Has(x, [id |-> x.files[f].id,
                                of |-> About("symbol", f, x.files[f].ver)])
      BY DEF Pointed
    <3>1. /\ Resolves(x, x.files[f].id)
          /\ VectorAt(x, x.files[f].id) = About("symbol", f, x.files[f].ver)
      BY <1>1 DEF Sound, Consistent
    <3>2. x.files[f].id \in Int
      BY StoreIs, PartsAre
    <3> QED BY <3>1, <3>2, VectorAtIs
  <2> QED BY <2>1, <2>2, <2>3 DEF Linked
<1>2. ASSUME Linked(x) PROVE Sound(x)
  <2>1. ASSUME NEW f \in File, x.files[f].id >= 0
        PROVE  /\ Resolves(x, x.files[f].id)
               /\ VectorAt(x, x.files[f].id) = About("symbol", f, x.files[f].ver)
    <3> DEFINE v == [id |-> x.files[f].id, of |-> About("symbol", f, x.files[f].ver)]
    <3>1. Has(x, v) /\ v \in Vector
      BY <1>2, <2>1, StoreIs DEF Linked, Pointed
    <3>2. v.id < Len(x.meta) /\ x.meta[v.id + 1] = v.of
      <4> HIDE DEF v
      <4> QED BY <1>2, <3>1 DEF Linked, Described
    <3>3. Resolves(x, v.id)
      <4> HIDE DEF v
      <4> QED BY <3>1, <3>2, ResolvesWhen
    <3>4. x.files[f].id \in Int
      BY StoreIs, PartsAre
    <3>5. VectorAt(x, x.files[f].id) = x.meta[x.files[f].id + 1]
      BY <1>2, <3>3, <3>4, LinkedAt DEF Linked
    <3> QED BY <3>2, <3>3, <3>5
  <2>2. ASSUME NEW k \in DOMAIN x.index
        PROVE  LET v == x.index[k] IN
               /\ v.id < Len(x.meta) /\ x.meta[v.id + 1] = v.of
               /\ v.of.source = "symbol" =>
                    x.files[v.of.file] = [ver |-> v.of.ver, id |-> v.id]
    <3>1. x.index[k] \in Vector /\ Has(x, x.index[k])
      BY StoreIs DEF Has
    <3> QED BY <1>2, <3>1 DEF Linked, Described
  <2>3. Complete(x)
    BY <1>2 DEF Linked
  <2> QED BY <2>1, <2>2, <2>3 DEF Sound, Consistent, Complete
<1> QED BY <1>1, <1>2

-----------------------------------------------------------------------------
(* The operations on a store.                                              *)

\* What remains when ids are removed.
LEMMA WithoutIs ==
  ASSUME NEW x \in Store, NEW I
  PROVE  /\ Without(x.index, I) \in Seq(Vector)
         /\ \A v : (\E k \in DOMAIN Without(x.index, I) : Without(x.index, I)[k] = v)
                     <=> Has(x, v) /\ v.id \notin I
<1> DEFINE K == {k \in DOMAIN x.index : x.index[k].id \notin I}
<1>1. x.index \in Seq(Vector) /\ K \in SUBSET DOMAIN x.index
  BY StoreIs
<1>2. Without(x.index, I) = Selected(x.index, K)
  BY DEF Without
<1>3. \A v : (\E k \in K : x.index[k] = v) <=> Has(x, v) /\ v.id \notin I
  BY DEF Has
<1> HIDE DEF K
<1>4. /\ Selected(x.index, K) \in Seq(Vector)
      /\ \A v : (\E k \in DOMAIN Selected(x.index, K) : Selected(x.index, K)[k] = v)
                  <=> \E k \in K : x.index[k] = v
  BY <1>1, SelectedIs
<1> QED BY <1>2, <1>3, <1>4

\* A store one record of which is replaced, and ids removed.
Replaced(x, I, f, r) == [x EXCEPT !.index = Without(x.index, I), !.files[f] = r]

LEMMA ReplacedIs ==
  ASSUME NEW x \in Store, NEW I, NEW f \in File, NEW r \in Record
  PROVE  /\ Replaced(x, I, f, r) \in Store
         /\ Replaced(x, I, f, r).files = [x.files EXCEPT ![f] = r]
         /\ Replaced(x, I, f, r).meta = x.meta
         /\ \A v : Has(Replaced(x, I, f, r), v) <=> Has(x, v) /\ v.id \notin I
<1> DEFINE y == Replaced(x, I, f, r)
<1>1. x.files \in [File -> Record] /\ Without(x.index, I) \in Seq(Vector)
  BY StoreIs, WithoutIs
<1>2. /\ y.files = [x.files EXCEPT ![f] = r] /\ y.index = Without(x.index, I)
      /\ y.meta = x.meta
  BY DEF Replaced, Store
<1>3. y.files \in [File -> Record]
  BY <1>1, <1>2
<1>4. y \in Store
  BY <1>1, <1>2, <1>3 DEF Replaced, Store
<1>5. \A v : Has(y, v) <=> Has(x, v) /\ v.id \notin I
  <2> DEFINE s == Without(x.index, I)
  <2>1. \A v : (\E k \in DOMAIN s : s[k] = v) <=> Has(x, v) /\ v.id \notin I
    BY WithoutIs
  <2>2. y.index = s
    BY <1>2
  <2> HIDE DEF y, s
  <2>3. \A v : Has(y, v) <=> \E k \in DOMAIN s : s[k] = v
    BY <2>2 DEF Has
  <2> QED BY <2>1, <2>3
<1> QED BY <1>2, <1>4, <1>5

\* A store with one vector and one description more.
LEMMA AddedIs ==
  ASSUME NEW x \in Store, NEW what \in Meta, NEW m \in Meta
  PROVE  LET y == Added(x, what, m) IN
         /\ y \in Store /\ y.files = x.files
         /\ Len(y.meta) = Len(x.meta) + 1
         /\ \A k \in 1 .. Len(x.meta) : y.meta[k] = x.meta[k]
         /\ y.meta[Len(x.meta) + 1] = m
         /\ \A v : Has(y, v) <=> Has(x, v) \/ v = [id |-> Len(x.meta), of |-> what]
<1> DEFINE y == Added(x, what, m)
           new == [id |-> Len(x.meta), of |-> what]
<1>1. /\ x.files \in [File -> Record] /\ x.index \in Seq(Vector) /\ x.meta \in Seq(Meta)
      /\ Len(x.meta) \in Nat /\ new \in Vector
  BY StoreIs, PartsAre
<1>2. y.files = x.files /\ y.index = Append(x.index, new) /\ y.meta = Append(x.meta, m)
  BY DEF Added, Store
<1>4. Append(x.index, new) \in Seq(Vector) /\ Append(x.meta, m) \in Seq(Meta)
  <2> HIDE DEF new
  <2> QED BY <1>1
<1>5. y \in Store
  BY <1>1, <1>4 DEF Added, Store
<1> HIDE DEF y, new
<1>6. /\ Len(y.meta) = Len(x.meta) + 1
      /\ \A k \in 1 .. Len(x.meta) : y.meta[k] = x.meta[k]
      /\ y.meta[Len(x.meta) + 1] = m
  BY <1>1, <1>2
<1>7. \A v : Has(y, v) <=> Has(x, v) \/ v = new
  <2>1. /\ DOMAIN y.index = 1 .. Len(x.index) + 1 /\ DOMAIN x.index = 1 .. Len(x.index)
        /\ \A k \in 1 .. Len(x.index) : y.index[k] = x.index[k]
        /\ y.index[Len(x.index) + 1] = new /\ Len(x.index) \in Nat
    BY <1>1, <1>2
  <2>2. ASSUME NEW v, Has(y, v) PROVE Has(x, v) \/ v = new
    <3>1. PICK k \in DOMAIN y.index : y.index[k] = v
      BY <2>2 DEF Has
    <3>2. k = Len(x.index) + 1 \/ k \in DOMAIN x.index
      BY <2>1, <3>1
    <3> QED BY <2>1, <3>1, <3>2 DEF Has
  <2>3. ASSUME NEW v, Has(x, v) PROVE Has(y, v)
    <3>1. PICK k \in DOMAIN x.index : x.index[k] = v
      BY <2>3 DEF Has
    <3>2. k \in DOMAIN y.index /\ y.index[k] = v
      BY <2>1, <3>1
    <3> QED BY <3>2 DEF Has
  <2>4. Has(y, new)
    <3>1. Len(x.index) + 1 \in DOMAIN y.index
      BY <2>1
    <3> QED BY <2>1, <3>1 DEF Has
  <2> QED BY <2>2, <2>3, <2>4
<1> QED BY <1>2, <1>5, <1>6, <1>7 DEF y, new

\* The same, when the description says what the vector is of.
LEMMA EmbeddedIs ==
  ASSUME NEW x \in Store, NEW m \in Meta
  PROVE  Embedded(x, m) \in Store /\ Embedded(x, m).files = x.files
BY AddedIs DEF Embedded

\* A store that is linked but for file f, which has no symbol vector.
LinkedBut(y, f) ==
  /\ y \in Store /\ Described(y)
  /\ \A g \in File \ {f} :
       /\ y.files[g].ver # 0 => y.files[g].id >= 0
       /\ y.files[g].id >= 0 =>
            Has(y, [id |-> y.files[g].id, of |-> About("symbol", g, y.files[g].ver)])
  /\ \A v \in Vector : Has(y, v) /\ v.of.source = "symbol" => v.of.file # f

\* Replacing the record of f and removing its symbol, with or without summaries.
LEMMA ReplacedLinked ==
  ASSUME NEW x \in Store, Linked(x), NEW f \in File, NEW r \in Record, NEW I,
         x.files[f].id \in I, I \subseteq {x.files[f].id} \cup Summaries(x, f)
  PROVE  LinkedBut(Replaced(x, I, f, r), f)
<1> DEFINE y == Replaced(x, I, f, r)
<1>1. /\ y \in Store
      /\ y.files = [x.files EXCEPT ![f] = r] /\ y.meta = x.meta
      /\ \A v : Has(y, v) <=> Has(x, v) /\ v.id \notin I
  BY ReplacedIs
<1> HIDE DEF y
<1>2. x.files \in [File -> Record]
  BY StoreIs
<1>3. \A v \in Vector : Has(x, v) =>
        /\ v.id < Len(x.meta) /\ x.meta[v.id + 1] = v.of
        /\ v.of.source = "symbol" => x.files[v.of.file] = [ver |-> v.of.ver, id |-> v.id]
  BY DEF Linked, Described
<1>4. ASSUME NEW v \in Vector, Has(y, v), v.of.source = "symbol"
      PROVE  v.of.file # f
  <2>1. Has(x, v) /\ v.id \notin I
    BY <1>1, <1>4
  <2>2. x.files[v.of.file] = [ver |-> v.of.ver, id |-> v.id]
    BY <1>3, <1>4, <2>1
  <2>3. x.files[v.of.file].id = v.id
    BY <2>2
  <2> QED BY <2>1, <2>3
<1>5. Described(y)
  <2> SUFFICES ASSUME NEW v \in Vector, Has(y, v)
               PROVE  /\ v.id < Len(y.meta) /\ y.meta[v.id + 1] = v.of
                      /\ v.of.source = "symbol" =>
                           y.files[v.of.file] = [ver |-> v.of.ver, id |-> v.id]
    BY DEF Described
  <2>1. v.of.source = "symbol" => v.of.file # f /\ v.of.file \in File
    BY <1>4, PartsAre
  <2>2. v.of.source = "symbol" => y.files[v.of.file] = x.files[v.of.file]
    BY <1>1, <1>2, <2>1
  <2> QED BY <1>1, <1>3, <2>2
<1>6. ASSUME NEW g \in File \ {f}
      PROVE  /\ y.files[g].ver # 0 => y.files[g].id >= 0
             /\ y.files[g].id >= 0 =>
                  Has(y, [id |-> y.files[g].id, of |-> About("symbol", g, y.files[g].ver)])
  <2>1. y.files[g] = x.files[g]
    BY <1>1, <1>2
  <2>2. y.files[g].ver # 0 => y.files[g].id >= 0
    BY <2>1 DEF Linked, Complete
  <2>3. ASSUME y.files[g].id >= 0
        PROVE  Has(y, [id |-> y.files[g].id, of |-> About("symbol", g, y.files[g].ver)])
    <3> DEFINE v == [id |-> x.files[g].id, of |-> About("symbol", g, x.files[g].ver)]
    <3>1. Has(x, v)
      BY <2>1, <2>3 DEF Linked, Pointed
    <3>2. v \in Vector
      BY <3>1, StoreIs
    <3>3. v.id = x.files[g].id /\ v.of = About("symbol", g, x.files[g].ver)
      OBVIOUS
    <3>4. v.of.source = "symbol" /\ v.of.file = g
      BY <3>3 DEF About
    <3> HIDE DEF v
    <3>5. x.meta[v.id + 1] = v.of /\ v.id \in Nat
      BY <1>3, <3>1, <3>2, PartsAre
    <3>6. v.id \notin Summaries(x, f)
      <4>1. ASSUME NEW n \in DOMAIN x.meta, x.meta[n].source = "file_summary", v.id = n - 1
            PROVE  FALSE
        <5>1. n = v.id + 1
          BY <3>5, <4>1, StoreIs
        <5> QED BY <3>4, <3>5, <4>1, <5>1
      <4> QED BY <4>1 DEF Summaries
    <3>7. v.id # x.files[f].id
      <4> SUFFICES ASSUME v.id = x.files[f].id PROVE FALSE
        OBVIOUS
      <4> DEFINE w == [id |-> x.files[f].id, of |-> About("symbol", f, x.files[f].ver)]
      <4>1. Has(x, w)
        BY <3>5 DEF Linked, Pointed
      <4>2. w \in Vector
        BY <4>1, StoreIs
      <4>3. w.id = v.id /\ w.of.file = f
        BY DEF About
      <4> HIDE DEF w
      <4>4. x.meta[v.id + 1] = w.of
        BY <1>3, <4>1, <4>2, <4>3
      <4> QED BY <3>4, <3>5, <4>3, <4>4
    <3>8. Has(y, v)
      BY <1>1, <3>1, <3>6, <3>7
    <3> QED BY <2>1, <3>8 DEF v
  <2> QED BY <2>2, <2>3
<1>7. LinkedBut(y, f)
  BY <1>1, <1>4, <1>5, <1>6 DEF LinkedBut
<1> QED BY <1>7 DEF y

\* A file without a record needs nothing more.
LEMMA AbsentLinked ==
  ASSUME NEW f \in File, NEW y, LinkedBut(y, f), y.files[f].ver = 0, ~ y.files[f].id >= 0
  PROVE  Linked(y)
<1>1. Pointed(y)
  BY DEF LinkedBut, Pointed
<1>2. Complete(y)
  BY DEF LinkedBut, Complete
<1> QED BY <1>1, <1>2 DEF LinkedBut, Linked

\* Its symbol completes a file whose record points at the next id.
LEMMA SymbolLinked ==
  ASSUME NEW f \in File, NEW y, LinkedBut(y, f), NEW w \in Versions,
         y.files[f] = [ver |-> w, id |-> Len(y.meta)]
  PROVE  Linked(Embedded(y, About("symbol", f, w)))
<1> DEFINE m == About("symbol", f, w)
           z == Embedded(y, m)
           new == [id |-> Len(y.meta), of |-> m]
<1>1. y \in Store /\ m \in Meta /\ m.source = "symbol" /\ m.file = f /\ m.ver = w
  BY PartsAre DEF LinkedBut
<1>2. z = Added(y, m, m)
  BY DEF Embedded
<1> HIDE DEF z, m
<1>3. /\ z \in Store /\ z.files = y.files
      /\ Len(z.meta) = Len(y.meta) + 1
      /\ \A k \in 1 .. Len(y.meta) : z.meta[k] = y.meta[k]
      /\ z.meta[Len(y.meta) + 1] = m
      /\ \A v : Has(z, v) <=> Has(y, v) \/ v = new
  BY <1>1, <1>2, AddedIs
<1>4. Len(y.meta) \in Nat
  BY <1>1, StoreIs
<1>5. new.id = Len(y.meta) /\ new.of = m
  OBVIOUS
<1> HIDE DEF new
<1>6. Described(z)
  <2> SUFFICES ASSUME NEW v \in Vector, Has(z, v)
               PROVE  /\ v.id < Len(z.meta) /\ z.meta[v.id + 1] = v.of
                      /\ v.of.source = "symbol" =>
                           z.files[v.of.file] = [ver |-> v.of.ver, id |-> v.id]
    BY DEF Described
  <2>1. CASE v = new
    <3>1. v.id < Len(z.meta) /\ z.meta[v.id + 1] = v.of
      BY <1>3, <1>4, <1>5, <2>1
    <3>2. z.files[v.of.file] = [ver |-> v.of.ver, id |-> v.id]
      BY <1>1, <1>3, <1>5, <2>1
    <3> QED BY <3>1, <3>2
  <2>2. CASE Has(y, v)
    <3>1. /\ v.id < Len(y.meta) /\ y.meta[v.id + 1] = v.of
          /\ v.of.source = "symbol" =>
               y.files[v.of.file] = [ver |-> v.of.ver, id |-> v.id]
      BY <2>2 DEF LinkedBut, Described
    <3>2. v.id \in Nat
      BY PartsAre
    <3>3. v.id + 1 \in 1 .. Len(y.meta) /\ v.id < Len(z.meta)
      BY <1>3, <1>4, <3>1, <3>2
    <3> QED BY <1>3, <3>1, <3>3
  <2> QED BY <1>3, <2>1, <2>2
<1>7. Pointed(z)
  <2> SUFFICES ASSUME NEW g \in File, z.files[g].id >= 0
               PROVE  Has(z, [id |-> z.files[g].id,
                              of |-> About("symbol", g, z.files[g].ver)])
    BY DEF Pointed
  <2>1. CASE g = f
    <3>1. new = [id |-> z.files[g].id, of |-> About("symbol", g, z.files[g].ver)]
      BY <1>3, <2>1 DEF new, m
    <3> QED BY <1>3, <3>1
  <2>2. CASE g # f
    BY <1>3, <2>2 DEF LinkedBut
  <2> QED BY <2>1, <2>2
<1>8. Complete(z)
  <2> SUFFICES ASSUME NEW g \in File, z.files[g].ver # 0 PROVE z.files[g].id >= 0
    BY DEF Complete
  <2>1. CASE g = f
    BY <1>3, <1>4, <2>1
  <2>2. CASE g # f
    BY <1>3, <2>2 DEF LinkedBut
  <2> QED BY <2>1, <2>2
<1>9. Linked(z)
  BY <1>6, <1>7, <1>8 DEF Linked
<1> QED BY <1>9 DEF z, m

\* A summary more keeps a store linked.
LEMMA SummaryLinked ==
  ASSUME NEW y \in Store, Linked(y), NEW m \in Meta, m.source = "file_summary"
  PROVE  Linked(Embedded(y, m))
<1> DEFINE z == Embedded(y, m)
           new == [id |-> Len(y.meta), of |-> m]
<1>2. z = Added(y, m, m)
  BY DEF Embedded
<1> HIDE DEF z
<1>3. /\ z \in Store /\ z.files = y.files
      /\ Len(z.meta) = Len(y.meta) + 1
      /\ \A k \in 1 .. Len(y.meta) : z.meta[k] = y.meta[k]
      /\ z.meta[Len(y.meta) + 1] = m
      /\ \A v : Has(z, v) <=> Has(y, v) \/ v = new
  BY <1>2, AddedIs
<1>4. Len(y.meta) \in Nat
  BY StoreIs
<1>5. new.id = Len(y.meta) /\ new.of = m
  OBVIOUS
<1> HIDE DEF new
<1>6. Described(z)
  <2> SUFFICES ASSUME NEW v \in Vector, Has(z, v)
               PROVE  /\ v.id < Len(z.meta) /\ z.meta[v.id + 1] = v.of
                      /\ v.of.source = "symbol" =>
                           z.files[v.of.file] = [ver |-> v.of.ver, id |-> v.id]
    BY DEF Described
  <2>1. CASE v = new
    BY <1>3, <1>4, <1>5, <2>1
  <2>2. CASE Has(y, v)
    <3>1. /\ v.id < Len(y.meta) /\ y.meta[v.id + 1] = v.of
          /\ v.of.source = "symbol" =>
               y.files[v.of.file] = [ver |-> v.of.ver, id |-> v.id]
      BY <2>2 DEF Linked, Described
    <3>2. v.id \in Nat
      BY PartsAre
    <3>3. v.id + 1 \in 1 .. Len(y.meta) /\ v.id < Len(z.meta)
      BY <1>3, <1>4, <3>1, <3>2
    <3> QED BY <1>3, <3>1, <3>3
  <2> QED BY <1>3, <2>1, <2>2
<1>7. Pointed(z) /\ Complete(z)
  BY <1>3 DEF Linked, Pointed, Complete
<1> QED BY <1>6, <1>7 DEF Linked, z

\* The versions that a store records.
Recorded(x, g) == x.files[g].ver

\* index_file(): the new content is recorded, embedded and found.
LEMMA IndexedIs ==
  ASSUME NEW x \in Store, NEW f \in File, NEW w \in Versions
  PROVE  /\ Indexed(x, f, w) \in Store
         /\ Linked(x) => Linked(Indexed(x, f, w))
         /\ \A g \in File : Recorded(Indexed(x, f, w), g) = IF g = f THEN w ELSE Recorded(x, g)
<1> DEFINE I == {x.files[f].id}
           r == [ver |-> w, id |-> Len(x.meta)]
           y == Replaced(x, I, f, r)
           s == About("symbol", f, w)
           t == About("file_summary", f, w)
           z == Embedded(y, s)
           u == Embedded(z, t)
<1>1. Len(x.meta) \in Nat /\ x.files \in [File -> Record]
  BY StoreIs
<1>2. r \in Record /\ s \in Meta /\ t \in Meta /\ t.source = "file_summary"
  <2>1. r \in Record
    BY <1>1 DEF Record
  <2> QED BY <2>1, PartsAre
<1>3. Indexed(x, f, w) = u
  BY DEF Indexed, Replaced
<1> HIDE DEF s, t
<1>4. y \in Store /\ y.files = [x.files EXCEPT ![f] = r] /\ y.meta = x.meta
  <2> HIDE DEF r
  <2> QED BY <1>2, ReplacedIs
<1> HIDE DEF y
<1>5. z \in Store /\ z.files = y.files
  BY <1>2, <1>4, EmbeddedIs
<1> HIDE DEF z
<1>6. u \in Store /\ u.files = z.files
  BY <1>2, <1>5, EmbeddedIs
<1> HIDE DEF u
<1>7. ASSUME NEW g \in File
      PROVE  Recorded(u, g) = IF g = f THEN w ELSE Recorded(x, g)
  BY <1>1, <1>4, <1>5, <1>6 DEF Recorded
<1>8. ASSUME Linked(x) PROVE Linked(u)
  <2>1. LinkedBut(y, f)
    <3>1. x.files[f].id \in I /\ I \subseteq {x.files[f].id} \cup Summaries(x, f)
      OBVIOUS
    <3> HIDE DEF I, r
    <3> QED BY <1>2, <1>8, <3>1, ReplacedLinked DEF y
  <2>2. y.files[f] = [ver |-> w, id |-> Len(y.meta)]
    BY <1>1, <1>4
  <2>3. Linked(z)
    BY <2>1, <2>2, SymbolLinked DEF z, s
  <2> QED BY <1>2, <1>5, <2>3, SummaryLinked DEF u
<1> QED BY <1>3, <1>6, <1>7, <1>8

\* _remove_mutate(): neither record nor symbol is left.
LEMMA RemovedIs ==
  ASSUME NEW x \in Store, NEW f \in File
  PROVE  /\ Removed(x, f) \in Store
         /\ Linked(x) => Linked(Removed(x, f))
         /\ \A g \in File : Recorded(Removed(x, f), g) = IF g = f THEN 0 ELSE Recorded(x, g)
<1> DEFINE I == {x.files[f].id}
           y == Replaced(x, I, f, NoRecord)
<1>1. x.files \in [File -> Record]
  BY StoreIs
<1>2. NoRecord \in Record /\ NoRecord.ver = 0 /\ ~ NoRecord.id >= 0
  BY DEF NoRecord, Record
<1>3. Removed(x, f) = y
  BY DEF Removed, Replaced, Store
<1>4. y \in Store /\ y.files = [x.files EXCEPT ![f] = NoRecord] /\ y.meta = x.meta
  BY <1>2, ReplacedIs
<1> HIDE DEF y
<1>5. ASSUME NEW g \in File
      PROVE  Recorded(y, g) = IF g = f THEN 0 ELSE Recorded(x, g)
  BY <1>1, <1>2, <1>4 DEF Recorded
<1>6. ASSUME Linked(x) PROVE Linked(y)
  <2>1. LinkedBut(y, f)
    <3>1. x.files[f].id \in I /\ I \subseteq {x.files[f].id} \cup Summaries(x, f)
      OBVIOUS
    <3> HIDE DEF I
    <3> QED BY <1>2, <1>6, <3>1, ReplacedLinked DEF y
  <2>2. y.files[f].ver = 0 /\ ~ y.files[f].id >= 0
    BY <1>1, <1>2, <1>4
  <2> QED BY <2>1, <2>2, AbsentLinked
<1> QED BY <1>3, <1>4, <1>5, <1>6

\* _transplant(): a vector with its description, or nothing.
LEMMA TransplantedIs ==
  ASSUME NEW x \in Store, NEW mine \in Store, NEW i \in Int
  PROVE  /\ Transplanted(x, mine, i) \in Store
         /\ Transplanted(x, mine, i).files = x.files
         /\ Described(mine) /\ Resolves(mine, i) =>
              Transplanted(x, mine, i) = Embedded(x, mine.meta[i + 1])
<1>1. CASE ~Resolves(mine, i)
  BY <1>1 DEF Transplanted
<1>2. CASE Resolves(mine, i)
  <2>1. VectorAt(mine, i) \in Meta /\ mine.meta[i + 1] \in Meta
    BY <1>2, VectorAtIs
  <2>2. Transplanted(x, mine, i) = Added(x, VectorAt(mine, i), mine.meta[i + 1])
    BY <1>2 DEF Transplanted
  <2>3. Described(mine) => VectorAt(mine, i) = mine.meta[i + 1]
    BY <1>2, LinkedAt
  <2> QED BY <2>1, <2>2, <2>3, AddedIs DEF Embedded
<1> QED BY <1>1, <1>2

\* The newest summary of a file is one of its summaries.
LEMMA NewestSummary ==
  ASSUME NEW x \in Store, NEW f \in File, Summaries(x, f) # {}
  PROVE  /\ Max(Summaries(x, f)) \in Int
         /\ Max(Summaries(x, f)) + 1 \in DOMAIN x.meta
         /\ x.meta[Max(Summaries(x, f)) + 1].source = "file_summary"
<1> DEFINE S == Summaries(x, f)
<1>1. DOMAIN x.meta = 1 .. Len(x.meta) /\ Len(x.meta) \in Nat
  BY StoreIs
<1>2. \A s \in S : s \in Int /\ s <= Len(x.meta) /\ s + 1 \in DOMAIN x.meta
                   /\ x.meta[s + 1].source = "file_summary"
  <2> SUFFICES ASSUME NEW n \in DOMAIN x.meta, x.meta[n].source = "file_summary"
               PROVE  /\ n - 1 \in Int /\ n - 1 <= Len(x.meta) /\ (n - 1) + 1 \in DOMAIN x.meta
                      /\ x.meta[(n - 1) + 1].source = "file_summary"
    BY DEF Summaries
  <2>1. (n - 1) + 1 = n
    BY <1>1
  <2> QED BY <1>1, <2>1
<1>3. Max(S) \in S
  <2>1. S \in SUBSET Int /\ \A s \in S : s <= Len(x.meta)
    BY <1>2
  <2>2. Len(x.meta) \in Int /\ S # {}
    BY <1>1
  <2> HIDE DEF S
  <2> QED BY <2>1, <2>2, MaxIs
<1> QED BY <1>2, <1>3

\* A file redone on another store is there as it is in mine.
LEMMA RedoIs ==
  ASSUME NEW mine \in Store, NEW x \in Store, NEW f \in File
  PROVE  /\ Redo(mine, x, f) \in Store
         /\ Linked(mine) /\ Linked(x) => Linked(Redo(mine, x, f))
         /\ \A g \in File : Recorded(Redo(mine, x, f), g) =
                              IF g = f THEN Recorded(mine, f) ELSE Recorded(x, g)
<1> DEFINE i == mine.files[f].id
           I == {x.files[f].id} \cup Summaries(x, f)
           r == [ver |-> mine.files[f].ver,
                 id |-> IF Resolves(mine, i) THEN Len(x.meta) ELSE -1]
           y == Replaced(x, I, f, r)
           z == Transplanted(y, mine, i)
           S == Summaries(mine, f)
           u == IF mine.files[f].ver = 0 \/ S = {} THEN z
                ELSE Transplanted(z, mine, Max(S))
<1>1. /\ x.files \in [File -> Record] /\ mine.files \in [File -> Record]
      /\ Len(x.meta) \in Nat /\ i \in Int
  BY StoreIs, PartsAre
<1>2. r \in Record
  <2>1. mine.files[f].ver \in Versions \cup {0}
    BY <1>1, PartsAre
  <2> QED BY <1>1, <2>1 DEF Record
<1>3. Redo(mine, x, f) = u
  BY DEF Redo, Replaced
<1>4. y \in Store /\ y.files = [x.files EXCEPT ![f] = r] /\ y.meta = x.meta
  <2> HIDE DEF r
  <2> QED BY <1>2, ReplacedIs
<1> HIDE DEF y
<1>5. /\ z \in Store /\ z.files = y.files
      /\ Described(mine) /\ Resolves(mine, i) => z = Embedded(y, mine.meta[i + 1])
  <2>1. y \in Store /\ i \in Int
    BY <1>1, <1>4
  <2> HIDE DEF i
  <2>2. /\ Transplanted(y, mine, i) \in Store /\ Transplanted(y, mine, i).files = y.files
        /\ Described(mine) /\ Resolves(mine, i) =>
             Transplanted(y, mine, i) = Embedded(y, mine.meta[i + 1])
    BY <2>1, TransplantedIs
  <2> QED BY <2>2 DEF z
<1> HIDE DEF z
<1>6. S # {} => Max(S) \in Int /\ Max(S) + 1 \in DOMAIN mine.meta
                /\ mine.meta[Max(S) + 1].source = "file_summary"
  BY NewestSummary
<1>7. S # {} => /\ Transplanted(z, mine, Max(S)) \in Store
                /\ Transplanted(z, mine, Max(S)).files = z.files
                /\ Described(mine) /\ Resolves(mine, Max(S)) =>
                     Transplanted(z, mine, Max(S)) = Embedded(z, mine.meta[Max(S) + 1])
  <2> HIDE DEF S
  <2> QED BY <1>5, <1>6, TransplantedIs
<1>8. u \in Store /\ u.files = y.files
  BY <1>5, <1>7
<1>9. ASSUME NEW g \in File
      PROVE  Recorded(u, g) = IF g = f THEN Recorded(mine, f) ELSE Recorded(x, g)
  <2> HIDE DEF u
  <2>1. r.ver = mine.files[f].ver
    OBVIOUS
  <2> HIDE DEF r
  <2> QED BY <1>1, <1>4, <1>8, <2>1 DEF Recorded
<1>10. ASSUME Linked(mine), Linked(x) PROVE Linked(u)
  <2>1. LinkedBut(y, f)
    <3>1. x.files[f].id \in I /\ I \subseteq {x.files[f].id} \cup Summaries(x, f)
      OBVIOUS
    <3> HIDE DEF I, r
    <3> QED BY <1>2, <1>10, <3>1, ReplacedLinked DEF y
  <2>2. Described(mine)
    BY <1>10 DEF Linked
  <2>3. Linked(z)
    <3>1. CASE i >= 0
      <4>1. /\ Resolves(mine, i)
            /\ VectorAt(mine, i) = About("symbol", f, mine.files[f].ver)
        <5>1. Sound(mine)
          BY <1>10, SoundIs
        <5> QED BY <3>1, <5>1 DEF Sound, Consistent
      <4>2. VectorAt(mine, i) \in Meta /\ VectorAt(mine, i) = mine.meta[i + 1]
        <5> HIDE DEF i
        <5> QED BY <1>1, <2>2, <4>1, VectorAtIs, LinkedAt
      <4>3. mine.files[f].ver \in Versions
        <5>1. About("symbol", f, mine.files[f].ver).ver = mine.files[f].ver
          BY DEF About
        <5> QED BY <4>1, <4>2, <5>1, PartsAre
      <4>4. z = Embedded(y, About("symbol", f, mine.files[f].ver))
        BY <1>5, <2>2, <4>1, <4>2
      <4>5. y.files[f] = [ver |-> mine.files[f].ver, id |-> Len(y.meta)]
        BY <1>1, <1>4, <4>1
      <4> HIDE DEF i
      <4> QED BY <2>1, <4>3, <4>4, <4>5, SymbolLinked
    <3>2. CASE ~ i >= 0
      <4>1. mine.files[f].ver = 0
        BY <1>10, <3>2 DEF Linked, Complete
      <4>2. ~Resolves(mine, i)
        BY <3>2 DEF Resolves
      <4>3. z = y
        BY <4>2 DEF z, Transplanted
      <4>4. y.files[f].ver = 0 /\ ~ y.files[f].id >= 0
        <5>1. y.files[f] = [ver |-> 0, id |-> -1]
          BY <1>1, <1>4, <4>1, <4>2
        <5> QED BY <5>1
      <4> QED BY <2>1, <4>3, <4>4, AbsentLinked
    <3> QED BY <3>1, <3>2
  <2>4. CASE mine.files[f].ver = 0 \/ S = {}
    BY <2>3, <2>4
  <2>5. CASE ~(mine.files[f].ver = 0 \/ S = {})
    <3>1. u = Transplanted(z, mine, Max(S))
      BY <2>5
    <3>2. CASE Resolves(mine, Max(S))
      <4>1. u = Embedded(z, mine.meta[Max(S) + 1])
        BY <1>7, <2>2, <2>5, <3>1, <3>2
      <4>2. mine.meta[Max(S) + 1] \in Meta /\ mine.meta[Max(S) + 1].source = "file_summary"
        BY <1>6, <2>5, StoreIs
      <4> HIDE DEF S, u
      <4> QED BY <1>5, <2>3, <4>1, <4>2, SummaryLinked
    <3>3. CASE ~Resolves(mine, Max(S))
      BY <2>3, <3>1, <3>3 DEF Transplanted
    <3> QED BY <3>2, <3>3
  <2> QED BY <2>4, <2>5
<1> QED BY <1>3, <1>8, <1>9, <1>10

-----------------------------------------------------------------------------
(* Rebasing, filling and compacting: many operations at once.              *)

\* Induction over a segment of the naturals, for a set of them.
LEMMA UpTo ==
  ASSUME NEW N \in Nat, NEW Good, 0 \in Good,
         \A n \in 1 .. N : n - 1 \in Good => n \in Good
  PROVE  0 .. N \subseteq Good
<1> DEFINE T == (0 .. N) \ Good
<1> SUFFICES ASSUME T # {} PROVE FALSE
  OBVIOUS
<1>1. T \in SUBSET Nat
  OBVIOUS
<1>2. PICK x \in T : \A y \in T : x <= y
  <2> HIDE DEF T
  <2> QED BY <1>1, LeastNatural
<1>3. x \in 1 .. N /\ x - 1 \in 0 .. N
  OBVIOUS
<1>4. x - 1 \notin T
  <2>1. ~ (x <= x - 1)
    BY <1>3
  <2> HIDE DEF T
  <2> QED BY <1>2, <2>1
<1> QED BY <1>3, <1>4

\* A solution of a recursion whose steps stay in S stays in S.
Solves(r, S, b, N, step) ==
  /\ r = [n \in 0 .. N |-> r[n]] /\ r[0] = b
  /\ \A n \in 1 .. N : r[n - 1] \in S => r[n] = step[<<r[n - 1], n>>]

LEMMA Stays ==
  ASSUME NEW S, NEW b \in S, NEW N \in Nat, NEW step \in [S \X (1 .. N) -> S],
         NEW r, Solves(r, S, b, N, step)
  PROVE  r \in [0 .. N -> S]
<1> USE DEF Solves
<1> DEFINE Good == {n \in 0 .. N : r[n] \in S}
<1>1. 0 .. N \subseteq Good
  <2>1. 0 \in Good
    OBVIOUS
  <2>2. ASSUME NEW n \in 1 .. N, n - 1 \in Good PROVE n \in Good
    <3>1. r[n - 1] \in S
      BY <2>2
    <3>2. r[n] = step[<<r[n - 1], n>>]
      BY <3>1
    <3>3. r[n] \in S
      BY <3>1, <3>2
    <3> QED BY <3>3
  <2> HIDE DEF Good
  <2> QED BY <2>1, <2>2, UpTo
<1> QED BY <1>1

\* The recursion of Rebased has a solution: the stores after each file.
LEMMA RebasedRuns ==
  ASSUME NEW mine \in Store, NEW fs \in Seq(File), NEW N \in Nat, N = Len(fs), disk \in Store
  PROVE  \E r \in [0 .. N -> Store] :
           /\ r[0] = disk
           /\ \A n \in 1 .. N : r[n] = Redo(mine, r[n - 1], fs[n])
           /\ Rebased(mine, fs) = r[N]
<1> DEFINE Eq(r) == r = [n \in 0 .. N |->
                           IF n = 0 THEN disk ELSE Redo(mine, r[n - 1], fs[n])]
           step == [y \in Store \X (1 .. N) |-> Redo(mine, y[1], fs[y[2]])]
<1>1. N \in Nat /\ \A n \in 1 .. N : fs[n] \in File
  OBVIOUS
<1>2. step \in [Store \X (1 .. N) -> Store]
  BY <1>1, RedoIs
<1>3. \A x \in Store, n \in 1 .. N : step[<<x, n>>] = Redo(mine, x, fs[n])
  OBVIOUS
<1> HIDE DEF step
<1>4. PICK g \in [0 .. N -> Store] :
        g[0] = disk /\ \A n \in 1 .. N : g[n] = step[<<g[n - 1], n>>]
  <2> DEFINE S == Store
             b == disk
  <2>1. N \in Nat /\ b \in S /\ step \in [S \X (1 .. N) -> S]
    BY <1>1, <1>2
  <2>2. \E g \in [0 .. N -> S] : Iterates(g, b, N, step)
    <3> HIDE DEF S, b
    <3> QED BY <2>1, Iterated
  <2> QED BY <2>2 DEF Iterates
<1>5. Eq(g)
  <2>1. \A n \in 1 .. N : g[n - 1] \in Store
    BY <1>1
  <2>2. \A n \in 0 .. N : n # 0 => n \in 1 .. N
    BY <1>1
  <2> QED BY <1>1, <1>3, <1>4, <2>1, <2>2
<1>6. PICK r : Eq(r) /\ Rebased(mine, fs) = r[N]
  <2> DEFINE c == CHOOSE r : Eq(r)
  <2>1. Eq(c)
    <3> HIDE DEF Eq
    <3> QED BY <1>5
  <2>2. Rebased(mine, fs) = c[N]
    BY DEF Rebased
  <2> HIDE DEF Eq, c
  <2> QED BY <2>1, <2>2
<1>7. Rebased(mine, fs) = r[N]
  BY <1>6
<1>8. /\ r[0] = disk
      /\ \A n \in 1 .. N : r[n] = Redo(mine, r[n - 1], fs[n])
  <2>1. \A n \in 0 .. N : r[n] = IF n = 0 THEN disk ELSE Redo(mine, r[n - 1], fs[n])
    BY <1>6
  <2>2. 0 \in 0 .. N /\ \A n \in 1 .. N : n \in 0 .. N /\ n # 0
    BY <1>1
  <2> HIDE DEF Eq
  <2> QED BY <2>1, <2>2, Zenon
<1>9. r \in [0 .. N -> Store]
  <2>1. r = [n \in 0 .. N |-> r[n]]
    BY <1>6
  <2>2. \A n \in 1 .. N : r[n - 1] \in Store => r[n] = step[<<r[n - 1], n>>]
    BY <1>3, <1>8
  <2> DEFINE S == Store
             b == disk
  <2>3. N \in Nat /\ b \in S /\ step \in [S \X (1 .. N) -> S] /\ r[0] = b
    BY <1>1, <1>2, <1>8
  <2>4. Solves(r, S, b, N, step)
    BY <2>1, <2>2, <2>3 DEF Solves
  <2>5. r \in [0 .. N -> S]
    <3> HIDE DEF Eq, S, b
    <3> QED BY <2>3, <2>4, Stays
  <2> QED BY <2>5
<1> QED BY <1>7, <1>8, <1>9

\* _rebase_onto_disk_locked(): the listed files are as in mine, the others as on disk.
LEMMA RebasedIs ==
  ASSUME NEW mine \in Store, NEW fs \in Seq(File), disk \in Store
  PROVE  /\ Rebased(mine, fs) \in Store
         /\ Linked(mine) /\ Linked(disk) => Linked(Rebased(mine, fs))
         /\ \A g \in File : Recorded(Rebased(mine, fs), g) =
              IF Contains(fs, g) THEN Recorded(mine, g) ELSE Recorded(disk, g)
<1>1. PICK r \in [0 .. Len(fs) -> Store] :
        /\ r[0] = disk
        /\ \A n \in 1 .. Len(fs) : r[n] = Redo(mine, r[n - 1], fs[n])
        /\ Rebased(mine, fs) = r[Len(fs)]
  BY RebasedRuns
<1>2. Len(fs) \in Nat /\ \A n \in 1 .. Len(fs) : fs[n] \in File
  OBVIOUS
<1>3. ASSUME NEW n \in 1 .. Len(fs)
      PROVE  /\ r[n - 1] \in Store /\ r[n] \in Store
             /\ Linked(mine) /\ Linked(r[n - 1]) => Linked(r[n])
             /\ \A g \in File : Recorded(r[n], g) =
                  IF g = fs[n] THEN Recorded(mine, g) ELSE Recorded(r[n - 1], g)
  <2> DEFINE x == r[n - 1]
             f == fs[n]
  <2>1. x \in Store /\ f \in File /\ r[n] = Redo(mine, x, f)
    BY <1>1, <1>2
  <2> HIDE DEF x, f
  <2>2. /\ Redo(mine, x, f) \in Store
        /\ Linked(mine) /\ Linked(x) => Linked(Redo(mine, x, f))
        /\ \A g \in File : Recorded(Redo(mine, x, f), g) =
                             IF g = f THEN Recorded(mine, f) ELSE Recorded(x, g)
    BY <2>1, RedoIs
  <2>3. \A g \in File : g = f => Recorded(mine, f) = Recorded(mine, g)
    OBVIOUS
  <2> QED BY <2>1, <2>2, <2>3 DEF x, f
<1>4. ASSUME Linked(mine), Linked(disk) PROVE Linked(r[Len(fs)])
  <2> DEFINE Good == {n \in 0 .. Len(fs) : Linked(r[n])}
  <2>1. 0 \in Good
    BY <1>1, <1>2, <1>4
  <2>2. ASSUME NEW n \in 1 .. Len(fs), n - 1 \in Good PROVE n \in Good
    BY <1>3, <1>4, <2>2
  <2>3. 0 .. Len(fs) \subseteq Good
    <3> HIDE DEF Good
    <3> QED BY <1>2, <2>1, <2>2, UpTo
  <2> QED BY <1>2, <2>3
<1>5. ASSUME NEW g \in File
      PROVE  Recorded(r[Len(fs)], g) =
               IF Contains(fs, g) THEN Recorded(mine, g) ELSE Recorded(disk, g)
  <2> DEFINE Upto(n) == \E k \in 1 .. n : fs[k] = g
             Good == {n \in 0 .. Len(fs) :
                        Recorded(r[n], g) =
                          IF Upto(n) THEN Recorded(mine, g) ELSE Recorded(disk, g)}
  <2>1. 0 \in Good
    BY <1>1, <1>2
  <2>2. ASSUME NEW n \in 1 .. Len(fs), n - 1 \in Good PROVE n \in Good
    <3>1. Upto(n) <=> fs[n] = g \/ Upto(n - 1)
      OBVIOUS
    <3>2. Recorded(r[n - 1], g) =
            IF Upto(n - 1) THEN Recorded(mine, g) ELSE Recorded(disk, g)
      BY <2>2
    <3>3. Recorded(r[n], g) = IF g = fs[n] THEN Recorded(mine, g) ELSE Recorded(r[n - 1], g)
      BY <1>3
    <3> HIDE DEF Upto
    <3>4. Recorded(r[n], g) = IF Upto(n) THEN Recorded(mine, g) ELSE Recorded(disk, g)
      BY <3>1, <3>2, <3>3
    <3> QED BY <3>4
  <2>3. 0 .. Len(fs) \subseteq Good
    <3> HIDE DEF Good
    <3> QED BY <1>2, <2>1, <2>2, UpTo
  <2>4. Contains(fs, g) <=> Upto(Len(fs))
    BY <1>2 DEF Contains
  <2> HIDE DEF Upto
  <2> QED BY <1>2, <2>3, <2>4
<1>6. r[Len(fs)] \in Store
  BY <1>2
<1> QED BY <1>1, <1>4, <1>5, <1>6

\* The store of an instance that has not loaded.
LEMMA EmptyIs ==
  /\ EmptyStore \in Store /\ Linked(EmptyStore)
<1>1. NoRecord \in Record /\ NoRecord.ver = 0 /\ ~ NoRecord.id >= 0
  BY DEF NoRecord, Record
<1>2. EmptyStore \in Store
  BY <1>1 DEF EmptyStore, Store
<1>3. \A f \in File : EmptyStore.files[f] = NoRecord
  BY DEF EmptyStore
<1>4. \A v : ~ Has(EmptyStore, v)
  BY DEF EmptyStore, Has
<1>5. Linked(EmptyStore)
  BY <1>1, <1>3, <1>4 DEF Linked, Pointed, Described, Complete
<1> QED BY <1>2, <1>5

\* What index-repo leaves is linked.
LEMMA FilledIs ==
  ASSUME NEW fs \in Seq(File), NEW N \in Nat, N = Len(fs)
  PROVE  Filled(fs) \in Store /\ Linked(Filled(fs))
<1> DEFINE Eq(r) == r = [n \in 0 .. N |->
                           IF n = 0 THEN EmptyStore ELSE Indexed(r[n - 1], fs[n], 1)]
           Good == {x \in Store : Linked(x)}
           step == [y \in Good \X (1 .. N) |-> Indexed(y[1], fs[y[2]], 1)]
<1>1. N \in Nat /\ (\A n \in 1 .. N : fs[n] \in File) /\ 1 \in Versions
  BY VersionsAssumption
<1>2. EmptyStore \in Good
  BY EmptyIs
<1>3. \A x \in Good, n \in 1 .. N : step[<<x, n>>] = Indexed(x, fs[n], 1)
  OBVIOUS
<1>4. step \in [Good \X (1 .. N) -> Good]
  BY <1>1, IndexedIs
<1> HIDE DEF step
<1>5. PICK g \in [0 .. N -> Good] :
        g[0] = EmptyStore /\ \A n \in 1 .. N : g[n] = step[<<g[n - 1], n>>]
  <2> DEFINE b == EmptyStore
  <2>1. N \in Nat /\ b \in Good /\ step \in [Good \X (1 .. N) -> Good]
    BY <1>1, <1>2, <1>4
  <2>2. \E g \in [0 .. N -> Good] : Iterates(g, b, N, step)
    <3> HIDE DEF Good, b
    <3> QED BY <2>1, Iterated
  <2> QED BY <2>2 DEF Iterates
<1>6. Eq(g)
  <2> HIDE DEF Good
  <2>1. \A n \in 1 .. N : g[n - 1] \in Good
    BY <1>1
  <2>2. \A n \in 0 .. N : n # 0 => n \in 1 .. N
    BY <1>1
  <2> QED BY <1>1, <1>3, <1>5, <2>1, <2>2
<1>7. PICK r : Eq(r) /\ Filled(fs) = r[N]
  <2> DEFINE c == CHOOSE r : Eq(r)
  <2>1. Eq(c)
    <3> HIDE DEF Eq
    <3> QED BY <1>6
  <2>2. Filled(fs) = c[N]
    BY DEF Filled
  <2> HIDE DEF Eq, c
  <2> QED BY <2>1, <2>2
<1>8. Filled(fs) = r[N]
  BY <1>7
<1>9. /\ r[0] = EmptyStore
      /\ \A n \in 1 .. N : r[n] = Indexed(r[n - 1], fs[n], 1)
  <2>1. \A n \in 0 .. N : r[n] = IF n = 0 THEN EmptyStore ELSE Indexed(r[n - 1], fs[n], 1)
    BY <1>7
  <2>2. 0 \in 0 .. N /\ \A n \in 1 .. N : n \in 0 .. N /\ n # 0
    BY <1>1
  <2> HIDE DEF Eq
  <2> QED BY <2>1, <2>2, Zenon
<1>10. r \in [0 .. N -> Good]
  <2>1. r = [n \in 0 .. N |-> r[n]]
    BY <1>7
  <2> HIDE DEF Good
  <2>2. \A n \in 1 .. N : r[n - 1] \in Good => r[n] = step[<<r[n - 1], n>>]
    BY <1>3, <1>9
  <2> DEFINE b == EmptyStore
  <2>3. N \in Nat /\ b \in Good /\ step \in [Good \X (1 .. N) -> Good] /\ r[0] = b
    BY <1>1, <1>2, <1>4, <1>9
  <2>4. Solves(r, Good, b, N, step)
    BY <2>1, <2>2, <2>3 DEF Solves
  <2>5. r \in [0 .. N -> Good]
    <3> HIDE DEF Eq, b
    <3> QED BY <2>3, <2>4, Stays
  <2> QED BY <2>5
<1>11. r[N] \in Good
  BY <1>1, <1>10
<1> QED BY <1>8, <1>11

\* What compact_faiss() keeps: the ids of records that resolve, each once.
LEMMA KeptIs ==
  ASSUME NEW x \in Store
  PROVE  /\ Kept(x) \in Seq(Nat)
         /\ \A k \in DOMAIN Kept(x) : Kept(x)[k] - 1 \in Int /\ Resolves(x, Kept(x)[k] - 1)
         /\ \A f \in File : Resolves(x, x.files[f].id) =>
              \E k \in DOMAIN Kept(x) : Kept(x)[k] = x.files[f].id + 1
         /\ \A k, l \in DOMAIN Kept(x) : Kept(x)[k] = Kept(x)[l] => k = l
<1> DEFINE J == {j \in {x.files[f].id : f \in File} : Resolves(x, j)}
           K == {i + 1 : i \in J}
           n == Len(x.meta)
           s == Kept(x)
<1>1. n \in Nat /\ \A f \in File : x.files[f].id \in Int
  BY StoreIs, PartsAre
<1>2. s = InOrder(K, n)
  BY DEF Kept
<1>3. Lists(s, K, n)
  <2> HIDE DEF K, n, s
  <2> QED BY <1>1, <1>2, InOrderIs
<1> HIDE DEF s, n
<1>4. /\ s \in Seq(Nat) /\ DOMAIN s = 1 .. Len(s) /\ Len(s) \in Nat
      /\ \A k \in DOMAIN s : s[k] \in K /\ s[k] \in 1 .. n
      /\ \A m \in 1 .. n : m \in K => \E k \in DOMAIN s : s[k] = m
      /\ \A i, j \in DOMAIN s : i < j => s[i] < s[j]
  <2> HIDE DEF K
  <2>1. s \in Seq(Nat)
    BY <1>3 DEF Lists
  <2>2. DOMAIN s = 1 .. Len(s) /\ Len(s) \in Nat
    BY <2>1
  <2> QED BY <1>3, <2>1, <2>2 DEF Lists
<1>5. ASSUME NEW k \in DOMAIN s PROVE s[k] - 1 \in Int /\ Resolves(x, s[k] - 1)
  <2>1. PICK i \in J : s[k] = i + 1
    BY <1>4
  <2>2. i \in Int /\ Resolves(x, i)
    BY <1>1
  <2> HIDE DEF J
  <2>3. s[k] - 1 = i
    BY <2>1, <2>2
  <2> QED BY <2>2, <2>3
<1>6. ASSUME NEW f \in File, Resolves(x, x.files[f].id)
      PROVE  \E k \in DOMAIN s : s[k] = x.files[f].id + 1
  <2>1. x.files[f].id + 1 \in K
    BY <1>6
  <2>2. x.files[f].id + 1 \in 1 .. n
    BY <1>1, <1>6 DEF Resolves, n
  <2> QED BY <1>4, <2>1, <2>2
<1>7. ASSUME NEW k \in DOMAIN s, NEW l \in DOMAIN s, s[k] = s[l]
      PROVE  k = l
  <2>1. k \in Int /\ l \in Int /\ s[k] \in Int /\ s[l] \in Int
    BY <1>4
  <2>2. ~ (k < l) /\ ~ (l < k)
    BY <1>4, <1>7, <2>1
  <2> QED BY <2>1, <2>2
<1>8. s \in Seq(Nat)
  BY <1>4
<1> HIDE DEF K, J
<1> QED BY <1>5, <1>6, <1>7, <1>8 DEF s

\* compact_faiss(): what the records point at, under new ids.
LEMMA CompactedIs ==
  ASSUME NEW x \in Store
  PROVE  /\ Compacted(x) \in Store
         /\ Linked(x) => Linked(Compacted(x))
         /\ \A g \in File : Recorded(Compacted(x), g) = Recorded(x, g)
<1> DEFINE kept == Kept(x)
           place(i) == CHOOSE k \in DOMAIN kept : kept[k] = i + 1
           newId(i) == IF Resolves(x, i) THEN place(i) - 1 ELSE -1
           c == Compacted(x)
<1>1. /\ x.files \in [File -> Record]
      /\ \A f \in File : x.files[f].id \in Int /\ x.files[f].ver \in Versions \cup {0}
  BY StoreIs, PartsAre
<1>2. /\ kept \in Seq(Nat)
      /\ \A k \in DOMAIN kept : kept[k] - 1 \in Int /\ Resolves(x, kept[k] - 1)
      /\ \A f \in File : Resolves(x, x.files[f].id) =>
           \E k \in DOMAIN kept : kept[k] = x.files[f].id + 1
      /\ \A k, l \in DOMAIN kept : kept[k] = kept[l] => k = l
  BY KeptIs
<1>3. /\ c.files = [f \in File |-> [x.files[f] EXCEPT !.id = newId(@)]]
      /\ c.index = [k \in DOMAIN kept |-> [id |-> k - 1, of |-> VectorAt(x, kept[k] - 1)]]
      /\ c.meta = [k \in DOMAIN kept |-> x.meta[kept[k]]]
      /\ c = [files |-> c.files, index |-> c.index, meta |-> c.meta]
  BY DEF Compacted
<1> HIDE DEF c, kept
<1>4. DOMAIN kept = 1 .. Len(kept) /\ Len(kept) \in Nat /\ \A k \in DOMAIN kept : kept[k] \in Nat
  BY <1>2
<1>5. ASSUME NEW f \in File, Resolves(x, x.files[f].id)
      PROVE  /\ place(x.files[f].id) \in DOMAIN kept
             /\ kept[place(x.files[f].id)] = x.files[f].id + 1
             /\ newId(x.files[f].id) = place(x.files[f].id) - 1
  BY <1>2, <1>5
<1>56. ASSUME NEW f \in File, ~Resolves(x, x.files[f].id) PROVE newId(x.files[f].id) = -1
  BY <1>56
<1>6. ASSUME NEW f \in File PROVE newId(x.files[f].id) \in Int
  <2>1. CASE Resolves(x, x.files[f].id)
    <3> DEFINE k == place(x.files[f].id)
    <3>1. k \in DOMAIN kept /\ newId(x.files[f].id) = k - 1
      BY <1>5, <2>1
    <3>2. k \in Int
      <4> HIDE DEF k
      <4> QED BY <1>4, <3>1
    <3> HIDE DEF k
    <3> QED BY <3>1, <3>2
  <2>2. CASE ~Resolves(x, x.files[f].id)
    BY <2>2
  <2> QED BY <2>1, <2>2
<1> HIDE DEF newId, place
<1>7. \A f \in File :
        /\ c.files[f] = [ver |-> x.files[f].ver, id |-> newId(x.files[f].id)]
        /\ c.files[f].ver = x.files[f].ver /\ c.files[f].id = newId(x.files[f].id)
  <2> SUFFICES ASSUME NEW f \in File
               PROVE  c.files[f] = [ver |-> x.files[f].ver, id |-> newId(x.files[f].id)]
    OBVIOUS
  <2>1. x.files[f] = [ver |-> x.files[f].ver, id |-> x.files[f].id]
    BY <1>1, PartsAre
  <2> QED BY <1>3, <2>1
<1>8. \A k \in DOMAIN kept :
        /\ VectorAt(x, kept[k] - 1) \in Meta /\ x.meta[kept[k]] \in Meta
        /\ Has(x, [id |-> kept[k] - 1, of |-> VectorAt(x, kept[k] - 1)])
  <2> SUFFICES ASSUME NEW k \in DOMAIN kept
               PROVE  /\ VectorAt(x, kept[k] - 1) \in Meta /\ x.meta[kept[k]] \in Meta
                      /\ Has(x, [id |-> kept[k] - 1, of |-> VectorAt(x, kept[k] - 1)])
    OBVIOUS
  <2> DEFINE i == kept[k] - 1
  <2>1. i \in Int /\ Resolves(x, i)
    BY <1>2
  <2>2. kept[k] = i + 1
    BY <1>4
  <2> HIDE DEF i
  <2>3. VectorAt(x, i) \in Meta /\ x.meta[i + 1] \in Meta /\ Has(x, [id |-> i, of |-> VectorAt(x, i)])
    BY <2>1, VectorAtIs
  <2> QED BY <2>2, <2>3 DEF i
<1>9. c \in Store
  <2>1. c.files \in [File -> Record]
    <3>1. \A f \in File : c.files[f] \in Record
      <4> SUFFICES ASSUME NEW f \in File PROVE c.files[f] \in Record
        OBVIOUS
      <4>1. x.files[f].ver \in Versions \cup {0} /\ newId(x.files[f].id) \in Int
        BY <1>1, <1>6
      <4>2. [ver |-> x.files[f].ver, id |-> newId(x.files[f].id)] \in Record
        BY <4>1 DEF Record
      <4> QED BY <1>7, <4>2
    <3>2. DOMAIN c.files = File /\ c.files = [f \in File |-> c.files[f]]
      BY <1>3
    <3> QED BY <3>1, <3>2
  <2>2. c.index \in Seq(Vector)
    <3> DEFINE v(k) == [id |-> k - 1, of |-> VectorAt(x, kept[k] - 1)]
    <3>1. ASSUME NEW k \in 1 .. Len(kept) PROVE v(k) \in Vector
      <4>1. k - 1 \in Nat /\ VectorAt(x, kept[k] - 1) \in Meta
        <5>1. k \in DOMAIN kept
          BY <1>4
        <5>2. VectorAt(x, kept[k] - 1) \in Meta
          BY <1>8, <5>1
        <5> QED BY <5>2
      <4> QED BY <4>1, PartsAre
    <3>2. c.index = [k \in 1 .. Len(kept) |-> v(k)]
      BY <1>3, <1>4
    <3> HIDE DEF v
    <3> QED BY <1>4, <3>1, <3>2
  <2>3. c.meta \in Seq(Meta)
    <3>1. c.meta = [k \in 1 .. Len(kept) |-> x.meta[kept[k]]]
      BY <1>3, <1>4
    <3>2. \A k \in 1 .. Len(kept) : x.meta[kept[k]] \in Meta
      BY <1>4, <1>8
    <3> QED BY <1>4, <3>1, <3>2
  <2> QED BY <1>3, <2>1, <2>2, <2>3 DEF Store
<1>10. ASSUME NEW g \in File PROVE Recorded(c, g) = Recorded(x, g)
  BY <1>7 DEF Recorded
<1>11. ASSUME Linked(x) PROVE Linked(c)
  <2>1. Sound(x)
    BY <1>11, SoundIs
  <2>2. ASSUME NEW f \in File, x.files[f].id >= 0
        PROVE  /\ Resolves(x, x.files[f].id)
               /\ VectorAt(x, x.files[f].id) = About("symbol", f, x.files[f].ver)
    BY <2>1, <2>2 DEF Sound, Consistent
  <2>3. ASSUME NEW f \in File, c.files[f].id >= 0
        PROVE  Has(c, [id |-> c.files[f].id, of |-> About("symbol", f, c.files[f].ver)])
    <3> DEFINE i == x.files[f].id
               k == place(i)
    <3>1. Resolves(x, i)
      <4> SUFFICES ASSUME ~Resolves(x, i) PROVE FALSE
        OBVIOUS
      <4>1. newId(i) = -1
        BY <1>56
      <4>2. c.files[f].id = newId(i)
        BY <1>7
      <4> HIDE DEF i
      <4> QED BY <2>3, <4>1, <4>2
    <3>2. k \in DOMAIN kept /\ kept[k] = i + 1 /\ newId(i) = k - 1 /\ i \in Int
      BY <1>1, <1>5, <3>1
    <3>3. i >= 0
      BY <3>1 DEF Resolves
    <3>4. VectorAt(x, i) = About("symbol", f, x.files[f].ver)
      BY <2>2, <3>3
    <3>5. c.files[f] = [ver |-> x.files[f].ver, id |-> k - 1]
      BY <1>7, <3>2
    <3> HIDE DEF k, i
    <3>6. k \in DOMAIN c.index /\ c.index[k] = [id |-> k - 1, of |-> VectorAt(x, i)]
      <4>1. kept[k] - 1 = i
        BY <3>2
      <4> QED BY <1>3, <3>2, <4>1
    <3> QED BY <3>4, <3>5, <3>6 DEF Has
  <2>4. ASSUME NEW v \in Vector, Has(c, v)
        PROVE  /\ v.id < Len(c.meta) /\ c.meta[v.id + 1] = v.of
               /\ v.of.source = "symbol" =>
                    c.files[v.of.file] = [ver |-> v.of.ver, id |-> v.id]
    <3>1. PICK k \in DOMAIN kept : v = [id |-> k - 1, of |-> VectorAt(x, kept[k] - 1)]
      BY <1>3, <2>4 DEF Has
    <3> DEFINE i == kept[k] - 1
               u == [id |-> i, of |-> VectorAt(x, i)]
    <3>2. v.id = k - 1 /\ v.of = VectorAt(x, i) /\ k \in 1 .. Len(kept)
      BY <1>4, <3>1
    <3>3. /\ i \in Int /\ Resolves(x, i) /\ kept[k] = i + 1 /\ Has(x, u)
      BY <1>2, <1>4, <1>8
    <3>4. VectorAt(x, i) = x.meta[i + 1]
      <4> HIDE DEF i
      <4> QED BY <1>11, <3>3, LinkedAt DEF Linked
    <3>5. u \in Vector /\ u.id = i /\ u.of = v.of
      BY <3>2, <3>3, StoreIs
    <3> HIDE DEF i, u
    <3>6. Len(c.meta) = Len(kept)
      <4>1. c.meta \in Seq(Meta) /\ DOMAIN c.meta = 1 .. Len(kept)
        BY <1>3, <1>4, <1>9, StoreIs
      <4> QED BY <1>4, <4>1
    <3>7. v.id < Len(c.meta) /\ c.meta[v.id + 1] = v.of
      <4>1. c.meta[k] = x.meta[i + 1] /\ (k - 1) + 1 = k
        BY <1>3, <1>4, <3>3
      <4> QED BY <1>4, <3>2, <3>4, <3>6, <4>1
    <3>8. ASSUME v.of.source = "symbol"
          PROVE  c.files[v.of.file] = [ver |-> v.of.ver, id |-> v.id]
      <4> DEFINE f == v.of.file
      <4>1. x.files[f] = [ver |-> v.of.ver, id |-> i]
        BY <1>11, <3>3, <3>5, <3>8 DEF Linked, Described
      <4>2. f \in File
        BY PartsAre
      <4> HIDE DEF f
      <4>3. x.files[f].id = i /\ x.files[f].ver = v.of.ver
        BY <4>1
      <4>4. place(i) \in DOMAIN kept /\ kept[place(i)] = i + 1 /\ newId(i) = place(i) - 1
        BY <1>5, <3>3, <4>2, <4>3
      <4>5. place(i) = k
        <5> QED BY <1>2, <3>3, <4>4
      <4>6. newId(i) = v.id
        BY <3>2, <4>4, <4>5
      <4> QED BY <1>7, <4>2, <4>3, <4>6 DEF f
    <3> QED BY <3>7, <3>8
  <2>5. ASSUME NEW f \in File, c.files[f].ver # 0 PROVE c.files[f].id >= 0
    <3> DEFINE i == x.files[f].id
               k == place(i)
    <3>1. Resolves(x, i)
      <4>1. x.files[f].ver # 0
        BY <1>7, <2>5
      <4> QED BY <1>11, <2>2, <4>1 DEF Linked, Complete
    <3>2. k \in DOMAIN kept /\ newId(i) = k - 1
      BY <1>5, <3>1
    <3>3. c.files[f].id = k - 1
      BY <1>7, <3>2
    <3> HIDE DEF k
    <3> QED BY <1>4, <3>2, <3>3
  <2> QED BY <2>3, <2>4, <2>5 DEF Linked, Pointed, Described, Complete
<1> QED BY <1>9, <1>10, <1>11 DEF c

-----------------------------------------------------------------------------
(* The invariant.                                                          *)

\* Stores are the same when their three parts are.
LEMMA StoreEquality ==
  /\ \A x \in Store : x = [files |-> x.files, index |-> x.index, meta |-> x.meta]
  /\ \A x, y \in Store :
       /\ [x EXCEPT !.files = y.files] = [files |-> y.files, index |-> x.index, meta |-> x.meta]
       /\ [x EXCEPT !.index = y.index] = [files |-> x.files, index |-> y.index, meta |-> x.meta]
       /\ [x EXCEPT !.meta = y.meta] = [files |-> x.files, index |-> x.index, meta |-> y.meta]
       /\ [x EXCEPT !.files = y.files] \in Store
       /\ [x EXCEPT !.index = y.index] \in Store
       /\ [x EXCEPT !.meta = y.meta] \in Store
BY DEF Store

\* A store that differs in one part becomes the other when given that part.
LEMMA PartPut ==
  ASSUME NEW x \in Store, NEW y \in Store
  PROVE  /\ x.files = y.files /\ x.index = y.index => [x EXCEPT !.meta = y.meta] = y
         /\ x.index = y.index /\ x.meta = y.meta => [x EXCEPT !.files = y.files] = y
         /\ [[x EXCEPT !.index = y.index] EXCEPT !.meta = y.meta] = [y EXCEPT !.files = x.files]
BY DEF Store

\* The steps, one by one.
LEMMA Steps ==
  ASSUME Next
  PROVE  \/ \E f \in File, v \in Versions \cup {0} : Edit(f, v)
         \/ \E p \in Proc : Start(p) \/ Reload(p)
         \/ \E p \in Proc : StartBuild(p)
         \/ \E p \in Proc : ReloadRebase(p)
         \/ \E p \in Proc : LoadFiles(p)
         \/ \E p \in Proc : LoadIndex(p)
         \/ \E p \in Proc : LoadMeta(p)
         \/ \E p \in Proc, f \in File : IndexFile(p, f)
         \/ \E p \in Proc, f \in File : RemoveFile(p, f)
         \/ \E p \in Proc : SaveBegin(p)
         \/ \E p \in Proc : SaveFiles(p)
         \/ \E p \in Proc : SaveIndex(p)
         \/ \E p \in Proc : SaveMeta(p)
         \/ \E p \in Proc : SaveFails(p)
         \/ \E p \in Proc : Crash(p)
BY DEF Next, Load, Save

\* A file that was touched is dirty, and so is what was.
LEMMA TouchedIs ==
  ASSUME NEW p \in Proc, NEW f \in File, dirty \in [Proc -> Seq(File)], Touched(p, f)
  PROVE  /\ dirty' \in [Proc -> Seq(File)]
         /\ \A q \in Proc : q # p => dirty'[q] = dirty[q]
         /\ \A g \in File : Contains(dirty'[p], g) <=> Contains(dirty[p], g) \/ g = f
<1> DEFINE s == dirty[p]
<1>1. s \in Seq(File)
  OBVIOUS
<1>2. dirty' = [dirty EXCEPT ![p] = IF Contains(s, f) THEN s ELSE Append(s, f)]
  BY DEF Touched
<1> HIDE DEF s
<1>3. CASE Contains(s, f)
  BY <1>1, <1>2, <1>3 DEF Contains, s
<1>4. CASE ~Contains(s, f)
  <2>1. dirty'[p] = Append(s, f) /\ Append(s, f) \in Seq(File)
    BY <1>1, <1>2, <1>4
  <2>2. \A g \in File : Contains(Append(s, f), g) <=> Contains(s, g) \/ g = f
    <3>1. /\ Len(Append(s, f)) = Len(s) + 1 /\ Len(s) \in Nat
          /\ \A k \in 1 .. Len(s) : Append(s, f)[k] = s[k]
          /\ Append(s, f)[Len(s) + 1] = f
      BY <1>1
    <3>2. \A k : k \in 1 .. Len(s) + 1 <=> k \in 1 .. Len(s) \/ k = Len(s) + 1
      BY <3>1
    <3> QED BY <3>1, <3>2 DEF Contains
  <2>3. dirty' \in [Proc -> Seq(File)] /\ \A q \in Proc : q # p => dirty'[q] = dirty[q]
    BY <1>2, <1>4, <2>1
  <2> QED BY <2>1, <2>2, <2>3 DEF s
<1> QED BY <1>3, <1>4

\* What an instance has before it saves: its copy, compacted or not.
LEMMA BeforeSaveIs ==
  ASSUME NEW p \in Proc, mem[p] \in Store, NEW own \in BeforeSave(p)
  PROVE  /\ own \in Store
         /\ Linked(mem[p]) => Linked(own)
         /\ \A g \in File : Recorded(own, g) = Recorded(mem[p], g)
<1>1. own \in {mem[p], Compacted(mem[p])}
  BY DEF BeforeSave
<1> DEFINE x == mem[p]
<1>2. /\ Compacted(x) \in Store
      /\ Linked(x) => Linked(Compacted(x))
      /\ \A g \in File : Recorded(Compacted(x), g) = Recorded(x, g)
  <2>1. x \in Store
    OBVIOUS
  <2> HIDE DEF x
  <2> QED BY <2>1, CompactedIs
<1> QED BY <1>1, <1>2

\* What SaveBegin leaves in memory.
LEMMA SaveBeginIs ==
  ASSUME TypeOK, NEW p \in Proc, SaveBegin(p)
  PROVE  /\ mem'[p] \in Store /\ mem' = [mem EXCEPT ![p] = mem'[p]]
         /\ Linked(mem[p]) /\ Linked(disk) => Linked(mem'[p])
         /\ \A g \in File : Recorded(mem'[p], g) =
              IF IsStale(p) /\ ~Contains(dirty[p], g) THEN Recorded(disk, g)
              ELSE Recorded(mem[p], g)
<1>1. disk \in Store /\ mem \in [Proc -> Store] /\ dirty[p] \in Seq(File) /\ mem[p] \in Store
  BY DEF TypeOK
<1>2. PICK own \in BeforeSave(p) :
        mem' = [mem EXCEPT ![p] = IF IsStale(p) THEN Rebased(own, dirty[p]) ELSE own]
  BY DEF SaveBegin
<1>3. /\ own \in Store /\ (Linked(mem[p]) => Linked(own))
      /\ \A g \in File : Recorded(own, g) = Recorded(mem[p], g)
  BY <1>1, BeforeSaveIs
<1> DEFINE fs == dirty[p]
<1>4. /\ Rebased(own, fs) \in Store
      /\ Linked(own) /\ Linked(disk) => Linked(Rebased(own, fs))
      /\ \A g \in File : Recorded(Rebased(own, fs), g) =
           IF Contains(fs, g) THEN Recorded(own, g) ELSE Recorded(disk, g)
  <2>1. fs \in Seq(File)
    BY <1>1
  <2> HIDE DEF fs
  <2> QED BY <1>1, <1>3, <2>1, RebasedIs
<1>5. mem'[p] = IF IsStale(p) THEN Rebased(own, fs) ELSE own
  BY <1>1, <1>2
<1>6. mem' = [mem EXCEPT ![p] = mem'[p]]
  BY <1>2, <1>5
<1> QED BY <1>3, <1>4, <1>5, <1>6

\* What ReloadRebase leaves in memory.
LEMMA ReloadRebaseIs ==
  ASSUME TypeOK, NEW p \in Proc, ReloadRebase(p)
  PROVE  /\ mem'[p] \in Store /\ mem' = [mem EXCEPT ![p] = mem'[p]]
         /\ Linked(mem[p]) /\ Linked(disk) => Linked(mem'[p])
         /\ \A g \in File : Recorded(mem'[p], g) =
              IF Contains(dirty[p], g) THEN Recorded(mem[p], g) ELSE Recorded(disk, g)
<1> DEFINE x == mem[p]
           fs == dirty[p]
<1>1. disk \in Store /\ mem \in [Proc -> Store] /\ fs \in Seq(File) /\ x \in Store
  BY DEF TypeOK
<1>2. mem' = [mem EXCEPT ![p] = Rebased(x, fs)]
  BY DEF ReloadRebase
<1> HIDE DEF x, fs
<1>3. /\ Rebased(x, fs) \in Store
      /\ Linked(x) /\ Linked(disk) => Linked(Rebased(x, fs))
      /\ \A g \in File : Recorded(Rebased(x, fs), g) =
           IF Contains(fs, g) THEN Recorded(x, g) ELSE Recorded(disk, g)
  BY <1>1, RebasedIs
<1>4. mem'[p] = Rebased(x, fs)
  BY <1>1, <1>2
<1> QED BY <1>2, <1>3, <1>4 DEF x, fs

\* What index_file() and _remove_mutate() leave in memory.
LEMMA UpdateIs ==
  ASSUME TypeOK, NEW p \in Proc, NEW f \in File, IndexFile(p, f) \/ RemoveFile(p, f)
  PROVE  /\ mem'[p] \in Store /\ mem' = [mem EXCEPT ![p] = mem'[p]]
         /\ Linked(mem[p]) => Linked(mem'[p])
         /\ dirty' \in [Proc -> Seq(File)]
         /\ \A q \in Proc : q # p => dirty'[q] = dirty[q]
         /\ \A g \in File : ~Contains(dirty'[p], g) =>
              ~Contains(dirty[p], g) /\ Recorded(mem'[p], g) = Recorded(mem[p], g)
<1> DEFINE x == mem[p]
<1>1. /\ mem \in [Proc -> Store] /\ x \in Store /\ dirty \in [Proc -> Seq(File)]
      /\ src[f] \in Versions \cup {0}
  BY DEF TypeOK
<1>2. CASE UNCHANGED <<mem, dirty>>
  BY <1>1, <1>2
<1>3. ASSUME NEW y, y \in Store, Linked(x) => Linked(y),
             \A g \in File : g # f => Recorded(y, g) = Recorded(x, g),
             mem' = [mem EXCEPT ![p] = y], Touched(p, f)
      PROVE  /\ mem'[p] \in Store /\ mem' = [mem EXCEPT ![p] = mem'[p]]
             /\ Linked(mem[p]) => Linked(mem'[p])
             /\ dirty' \in [Proc -> Seq(File)]
             /\ \A q \in Proc : q # p => dirty'[q] = dirty[q]
             /\ \A g \in File : ~Contains(dirty'[p], g) =>
                  ~Contains(dirty[p], g) /\ Recorded(mem'[p], g) = Recorded(mem[p], g)
  <2>1. mem'[p] = y
    BY <1>1, <1>3
  <2>2. /\ dirty' \in [Proc -> Seq(File)]
        /\ \A q \in Proc : q # p => dirty'[q] = dirty[q]
        /\ \A g \in File : Contains(dirty'[p], g) <=> Contains(dirty[p], g) \/ g = f
    BY <1>1, <1>3, TouchedIs
  <2> QED BY <1>3, <2>1, <2>2
<1>4. CASE IndexFile(p, f) /\ ~UNCHANGED <<mem, dirty>>
  <2> DEFINE v == src[f]
  <2>1. v \in Versions /\ mem' = [mem EXCEPT ![p] = Indexed(x, f, v)] /\ Touched(p, f)
    BY <1>1, <1>4 DEF IndexFile
  <2> HIDE DEF v, x
  <2>2. /\ Indexed(x, f, v) \in Store /\ (Linked(x) => Linked(Indexed(x, f, v)))
        /\ \A g \in File : g # f => Recorded(Indexed(x, f, v), g) = Recorded(x, g)
    BY <1>1, <2>1, IndexedIs
  <2> QED BY <1>3, <2>1, <2>2
<1>5. CASE RemoveFile(p, f)
  <2>1. mem' = [mem EXCEPT ![p] = Removed(x, f)] /\ Touched(p, f)
    BY <1>5 DEF RemoveFile
  <2> HIDE DEF x
  <2>2. /\ Removed(x, f) \in Store /\ (Linked(x) => Linked(Removed(x, f)))
        /\ \A g \in File : g # f => Recorded(Removed(x, f), g) = Recorded(x, g)
    BY <1>1, RemovedIs
  <2> QED BY <1>3, <2>1, <2>2
<1> QED BY <1>2, <1>4, <1>5


\* Every step keeps the types.
LEMMA TypeStep ==
  ASSUME IndexInv, [Next]_vars
  PROVE  TypeOK'
<1>1. TypeOK
  BY DEF IndexInv
<1> USE DEF TypeOK, Loading, Saving, world, self, history
<1>2. ASSUME NEW f \in File, NEW v \in Versions \cup {0}, Edit(f, v) PROVE TypeOK'
  <2>1. edits' \in 0 .. MaxEdits
    BY <1>1, <1>2, BoundAssumption DEF Edit
  <2>2. src' \in [File -> Versions \cup {0}]
    BY <1>1, <1>2 DEF Edit
  <2>3. events' \in [Proc -> SUBSET File]
    BY <1>1, <1>2 DEF Edit
  <2> QED BY <1>1, <1>2, <2>1, <2>2, <2>3 DEF Edit
<1>3. ASSUME NEW p \in Proc, Start(p) \/ Reload(p) PROVE TypeOK'
  <2>1. /\ pc' = [pc EXCEPT ![p] = "files"] /\ taken' = [taken EXCEPT ![p] = stamp]
        /\ UNCHANGED <<world, disk, stamp, lock, mem, dirty, synced, events, history>>
    BY <1>3 DEF Start, Reload, BeginLoad
  <2> QED BY <1>1, <2>1
<1>4. ASSUME NEW p \in Proc, StartBuild(p) PROVE TypeOK'
  BY <1>1, <1>4 DEF StartBuild
<1>5. ASSUME NEW p \in Proc, ReloadRebase(p) PROVE TypeOK'
  <2>1. mem' \in [Proc -> Store]
    BY <1>1, <1>5, ReloadRebaseIs
  <2> QED BY <1>1, <1>5, <2>1 DEF ReloadRebase
<1>6. ASSUME NEW p \in Proc, LoadFiles(p) PROVE TypeOK'
  <2>1. [mem[p] EXCEPT !.files = disk.files] \in Store
    BY <1>1, StoreEquality
  <2>2. mem' \in [Proc -> Store]
    BY <1>1, <1>6, <2>1 DEF LoadFiles
  <2> QED BY <1>1, <1>6, <2>2 DEF LoadFiles
<1>7. ASSUME NEW p \in Proc, LoadIndex(p) PROVE TypeOK'
  <2>1. [mem[p] EXCEPT !.index = disk.index] \in Store
    BY <1>1, StoreEquality
  <2>2. mem' \in [Proc -> Store]
    BY <1>1, <1>7, <2>1 DEF LoadIndex
  <2> QED BY <1>1, <1>7, <2>2 DEF LoadIndex
<1>8. ASSUME NEW p \in Proc, LoadMeta(p) PROVE TypeOK'
  <2>1. [mem[p] EXCEPT !.meta = disk.meta] \in Store
    BY <1>1, StoreEquality
  <2>2. mem' \in [Proc -> Store]
    BY <1>1, <1>8, <2>1 DEF LoadMeta
  <2> QED BY <1>1, <1>8, <2>2 DEF LoadMeta
<1>9. ASSUME NEW p \in Proc, NEW f \in File, IndexFile(p, f) \/ RemoveFile(p, f)
      PROVE  TypeOK'
  <2>1. mem' \in [Proc -> Store] /\ dirty' \in [Proc -> Seq(File)]
    BY <1>1, <1>9, UpdateIs
  <2>2. /\ events' = [events EXCEPT ![p] = @ \ {f}]
        /\ UNCHANGED <<world, disk, stamp, lock, pc, synced, taken, history>>
    BY <1>9 DEF IndexFile, RemoveFile, Handle
  <2> QED BY <1>1, <2>1, <2>2
<1>10. ASSUME NEW p \in Proc, SaveBegin(p) PROVE TypeOK'
  <2>1. mem' \in [Proc -> Store]
    BY <1>1, <1>10, SaveBeginIs
  <2> QED BY <1>1, <1>10, <2>1 DEF SaveBegin
<1>11. ASSUME NEW p \in Proc, SaveFiles(p) PROVE TypeOK'
  <2>1. [disk EXCEPT !.files = mem[p].files] \in Store
    BY <1>1, StoreEquality
  <2>2. /\ disk' \in Store /\ stamp' \in Nat
        /\ pc' = [pc EXCEPT ![p] = "saveIndex"]
        /\ UNCHANGED <<world, lock, self, events, history>>
    BY <1>1, <1>11, <2>1 DEF SaveFiles
  <2> QED BY <1>1, <2>2
<1>12. ASSUME NEW p \in Proc, SaveIndex(p) PROVE TypeOK'
  <2>1. [disk EXCEPT !.index = mem[p].index] \in Store
    BY <1>1, StoreEquality
  <2> QED BY <1>1, <1>12, <2>1 DEF SaveIndex
<1>13. ASSUME NEW p \in Proc, SaveMeta(p) PROVE TypeOK'
  <2>1. [disk EXCEPT !.meta = mem[p].meta] \in Store
    BY <1>1, StoreEquality
  <2>2. disk' \in Store /\ gen' \in [index : Nat, meta : Nat]
    BY <1>1, <1>13, <2>1 DEF SaveMeta
  <2>3. synced' \in [Proc -> Nat \cup {Never}] /\ dirty' \in [Proc -> Seq(File)]
    BY <1>1, <1>13 DEF SaveMeta
  <2> QED BY <1>1, <1>13, <2>2, <2>3 DEF SaveMeta
<1>14. ASSUME NEW p \in Proc, SaveFails(p) PROVE TypeOK'
  BY <1>1, <1>14 DEF SaveFails
<1>15. ASSUME NEW p \in Proc, Crash(p) PROVE TypeOK'
  <2>1. EmptyStore \in Store
    BY EmptyIs
  <2> QED BY <1>1, <1>15, <2>1 DEF Crash
<1>16. ASSUME UNCHANGED vars PROVE TypeOK'
  BY <1>16, <1>1 DEF vars, world, self, history
<1> QED BY <1>2, <1>3, <1>4, <1>5, <1>6, <1>7, <1>8, <1>9, <1>10, <1>11, <1>12, <1>13, <1>14, <1>15, <1>16, Steps

\* Who saves holds the lock.
LEMMA SaverStep ==
  ASSUME IndexInv, [Next]_vars
  PROVE  SaverHolds'
<1>1. TypeOK /\ SaverHolds
  BY DEF IndexInv
<1>2. pc \in [Proc -> {"down", "idle"} \cup Loading \cup Saving] /\ None \notin Proc
  BY <1>1, NoneAssumption DEF TypeOK
<1> USE DEF SaverHolds, Loading, Saving, world, self, history
<1>3. ASSUME NEW f \in File, NEW v \in Versions \cup {0}, Edit(f, v) PROVE SaverHolds'
  BY <1>1, <1>2, <1>3 DEF Edit
<1>4. ASSUME NEW p \in Proc, Start(p) \/ Reload(p) PROVE SaverHolds'
  BY <1>1, <1>2, <1>4 DEF Start, Reload, BeginLoad
<1>5. ASSUME NEW p \in Proc, StartBuild(p) PROVE SaverHolds'
  BY <1>1, <1>2, <1>5 DEF StartBuild
<1>6. ASSUME NEW p \in Proc, ReloadRebase(p) PROVE SaverHolds'
  BY <1>1, <1>2, <1>6 DEF ReloadRebase
<1>7. ASSUME NEW p \in Proc, LoadFiles(p) PROVE SaverHolds'
  BY <1>1, <1>2, <1>7 DEF LoadFiles
<1>8. ASSUME NEW p \in Proc, LoadIndex(p) PROVE SaverHolds'
  BY <1>1, <1>2, <1>8 DEF LoadIndex
<1>9. ASSUME NEW p \in Proc, LoadMeta(p) PROVE SaverHolds'
  BY <1>1, <1>2, <1>9 DEF LoadMeta
<1>10. ASSUME NEW p \in Proc, NEW f \in File, IndexFile(p, f) \/ RemoveFile(p, f)
      PROVE  SaverHolds'
  BY <1>1, <1>2, <1>10 DEF IndexFile, RemoveFile, Handle
<1>11. ASSUME NEW p \in Proc, SaveBegin(p) PROVE SaverHolds'
  BY <1>1, <1>2, <1>11 DEF SaveBegin
<1>12. ASSUME NEW p \in Proc, SaveFiles(p) PROVE SaverHolds'
  BY <1>1, <1>2, <1>12 DEF SaveFiles
<1>13. ASSUME NEW p \in Proc, SaveIndex(p) PROVE SaverHolds'
  BY <1>1, <1>2, <1>13 DEF SaveIndex
<1>14. ASSUME NEW p \in Proc, SaveMeta(p) PROVE SaverHolds'
  BY <1>1, <1>2, <1>14 DEF SaveMeta
<1>15. ASSUME NEW p \in Proc, SaveFails(p) PROVE SaverHolds'
  BY <1>1, <1>2, <1>15 DEF SaveFails
<1>16. ASSUME NEW p \in Proc, Crash(p) PROVE SaverHolds'
  BY <1>1, <1>2, <1>16 DEF Crash
<1>17. ASSUME UNCHANGED vars PROVE SaverHolds'
  BY <1>17, <1>1, <1>2 DEF vars, world, self, history
<1> QED BY <1>3, <1>4, <1>5, <1>6, <1>7, <1>8, <1>9, <1>10, <1>11, <1>12, <1>13, <1>14, <1>15, <1>16, <1>17, Steps

\* A save writes its own copy, file by file.
LEMMA WrittenStep ==
  ASSUME IndexInv, [Next]_vars
  PROVE  Written'
<1>1. TypeOK /\ SaverHolds /\ Written
  BY DEF IndexInv
<1>2. /\ pc \in [Proc -> {"down", "idle"} \cup Loading \cup Saving]
      /\ mem \in [Proc -> Store] /\ disk \in Store
  BY <1>1 DEF TypeOK
<1>3. \A p, q \in Proc : pc[p] \in Saving /\ pc[q] \in Saving => p = q
  BY <1>1 DEF SaverHolds
<1> USE DEF Written, Halfway, Loading, Saving, world, self, history
<1>4. ASSUME NEW f \in File, NEW v \in Versions \cup {0}, Edit(f, v) PROVE Written'
  BY <1>1, <1>2, <1>4 DEF Edit
<1>5. ASSUME NEW p \in Proc, Start(p) \/ Reload(p) PROVE Written'
  BY <1>1, <1>2, <1>5 DEF Start, Reload, BeginLoad
<1>6. ASSUME NEW p \in Proc, StartBuild(p) PROVE Written'
  BY <1>1, <1>2, <1>6 DEF StartBuild
<1>7. ASSUME NEW p \in Proc, ReloadRebase(p) PROVE Written'
  <2>1. \A q \in Proc : q # p => mem'[q] = mem[q]
    BY <1>1, <1>2, <1>7, ReloadRebaseIs
  <2> QED BY <1>1, <1>2, <1>7, <2>1 DEF ReloadRebase
<1>8. ASSUME NEW p \in Proc, LoadFiles(p) PROVE Written'
  BY <1>1, <1>2, <1>8 DEF LoadFiles
<1>9. ASSUME NEW p \in Proc, LoadIndex(p) PROVE Written'
  BY <1>1, <1>2, <1>9 DEF LoadIndex
<1>10. ASSUME NEW p \in Proc, LoadMeta(p) PROVE Written'
  BY <1>1, <1>2, <1>10 DEF LoadMeta
<1>11. ASSUME NEW p \in Proc, NEW f \in File, IndexFile(p, f) \/ RemoveFile(p, f)
      PROVE  Written'
  <2>1. \A q \in Proc : q # p => mem'[q] = mem[q]
    BY <1>1, <1>2, <1>11, UpdateIs
  <2> QED BY <1>1, <1>2, <1>11, <2>1 DEF IndexFile, RemoveFile, Handle
<1>12. ASSUME NEW p \in Proc, SaveBegin(p) PROVE Written'
  <2>1. \A q \in Proc : q # p => mem'[q] = mem[q]
    BY <1>1, <1>2, <1>12, SaveBeginIs
  <2> QED BY <1>1, <1>2, <1>12, <2>1 DEF SaveBegin
<1>13. ASSUME NEW p \in Proc, SaveFiles(p) PROVE Written'
  <2>1. disk'.files = mem[p].files /\ disk'.index = disk.index
    BY <1>2, <1>13 DEF SaveFiles, Store
  <2> QED BY <1>1, <1>2, <1>3, <1>13, <2>1 DEF SaveFiles
<1>14. ASSUME NEW p \in Proc, SaveIndex(p) PROVE Written'
  <2>1. disk'.index = mem[p].index /\ disk'.files = disk.files
    BY <1>2, <1>14 DEF SaveIndex, Store
  <2> QED BY <1>1, <1>2, <1>3, <1>14, <2>1 DEF SaveIndex
<1>15. ASSUME NEW p \in Proc, SaveMeta(p) PROVE Written'
  <2>1. disk'.index = disk.index /\ disk'.files = disk.files
    BY <1>2, <1>15 DEF SaveMeta, Store
  <2> QED BY <1>1, <1>2, <1>3, <1>15, <2>1 DEF SaveMeta
<1>16. ASSUME NEW p \in Proc, SaveFails(p) PROVE Written'
  BY <1>1, <1>2, <1>16 DEF SaveFails
<1>17. ASSUME NEW p \in Proc, Crash(p) PROVE Written'
  BY <1>1, <1>2, <1>17 DEF Crash
<1>18. ASSUME UNCHANGED vars PROVE Written'
  BY <1>18, <1>1, <1>2, <1>3 DEF vars, world, self, history
<1> QED BY <1>4, <1>5, <1>6, <1>7, <1>8, <1>9, <1>10, <1>11, <1>12, <1>13, <1>14, <1>15, <1>16, <1>17, <1>18, Steps

\* The three files are of one save, but for half a save.
LEMMA GenerationsStep ==
  ASSUME IndexInv, [Next]_vars
  PROVE  Generations'
<1>1. TypeOK /\ SaverHolds /\ Generations
  BY DEF IndexInv
<1>2. /\ pc \in [Proc -> {"down", "idle"} \cup Loading \cup Saving]
      /\ stamp \in Nat /\ gen \in [index : Nat, meta : Nat] /\ broken \in BOOLEAN
  BY <1>1 DEF TypeOK
<1>3. \A p, q \in Proc : pc[p] \in Saving /\ pc[q] \in Saving => p = q
  BY <1>1 DEF SaverHolds
<1> USE DEF Generations, Halfway, Loading, Saving, world, self, history
<1>4. ASSUME NEW f \in File, NEW v \in Versions \cup {0}, Edit(f, v) PROVE Generations'
  BY <1>1, <1>2, <1>3, <1>4 DEF Edit
<1>5. ASSUME NEW p \in Proc, Start(p) \/ Reload(p) PROVE Generations'
  BY <1>1, <1>2, <1>3, <1>5 DEF Start, Reload, BeginLoad
<1>6. ASSUME NEW p \in Proc, StartBuild(p) PROVE Generations'
  BY <1>1, <1>2, <1>3, <1>6 DEF StartBuild
<1>7. ASSUME NEW p \in Proc, ReloadRebase(p) PROVE Generations'
  BY <1>1, <1>2, <1>3, <1>7 DEF ReloadRebase
<1>8. ASSUME NEW p \in Proc, LoadFiles(p) PROVE Generations'
  BY <1>1, <1>2, <1>3, <1>8 DEF LoadFiles
<1>9. ASSUME NEW p \in Proc, LoadIndex(p) PROVE Generations'
  BY <1>1, <1>2, <1>3, <1>9 DEF LoadIndex
<1>10. ASSUME NEW p \in Proc, LoadMeta(p) PROVE Generations'
  BY <1>1, <1>2, <1>3, <1>10 DEF LoadMeta
<1>11. ASSUME NEW p \in Proc, NEW f \in File, IndexFile(p, f) \/ RemoveFile(p, f)
      PROVE  Generations'
  BY <1>1, <1>2, <1>3, <1>11 DEF IndexFile, RemoveFile, Handle
<1>12. ASSUME NEW p \in Proc, SaveBegin(p) PROVE Generations'
  BY <1>1, <1>2, <1>3, <1>12 DEF SaveBegin
<1>13. ASSUME NEW p \in Proc, SaveFiles(p) PROVE Generations'
  BY <1>1, <1>2, <1>3, <1>13 DEF SaveFiles
<1>14. ASSUME NEW p \in Proc, SaveIndex(p) PROVE Generations'
  BY <1>1, <1>2, <1>3, <1>14 DEF SaveIndex
<1>15. ASSUME NEW p \in Proc, SaveMeta(p) PROVE Generations'
  BY <1>1, <1>2, <1>3, <1>15 DEF SaveMeta
<1>16. ASSUME NEW p \in Proc, SaveFails(p) PROVE Generations'
  BY <1>1, <1>2, <1>3, <1>16 DEF SaveFails
<1>17. ASSUME NEW p \in Proc, Crash(p) PROVE Generations'
  BY <1>1, <1>2, <1>3, <1>17 DEF Crash
<1>18. ASSUME UNCHANGED vars PROVE Generations'
  BY <1>18, <1>1, <1>2, <1>3 DEF vars, world, self, history
<1> QED BY <1>4, <1>5, <1>6, <1>7, <1>8, <1>9, <1>10, <1>11, <1>12, <1>13, <1>14, <1>15, <1>16, <1>17, <1>18, Steps

\* What is whole is sound: updates, rebases and compactions keep a copy linked, a
\* load assembles files of one save, and a finished save leaves a copy on disk.
LEMMA WholeStep ==
  ASSUME IndexInv, [Next]_vars
  PROVE  WholeSound'
<1>1. /\ TypeOK /\ SaverHolds /\ Written /\ Generations
      /\ WholeSound /\ Assembled
  BY DEF IndexInv
<1>2. /\ pc \in [Proc -> {"down", "idle"} \cup Loading \cup Saving]
      /\ mem \in [Proc -> Store] /\ disk \in Store /\ broken \in BOOLEAN
  BY <1>1 DEF TypeOK
<1>3. \A p, q \in Proc : pc[p] \in Saving /\ pc[q] \in Saving => p = q
  BY <1>1 DEF SaverHolds
<1>4. lock = None => \A p \in Proc : pc[p] \notin Saving
  BY <1>1, NoneAssumption DEF SaverHolds
<1>5. disk' \in Store /\ mem' \in [Proc -> Store]
  BY TypeStep DEF TypeOK
<1> USE DEF WholeSound, Halfway, Loading, Saving, world, self, history
<1>6. ASSUME NEW f \in File, NEW v \in Versions \cup {0}, Edit(f, v) PROVE WholeSound'
  BY <1>1, <1>2, <1>6 DEF Edit
<1>7. ASSUME NEW p \in Proc, Start(p) \/ Reload(p) PROVE WholeSound'
  BY <1>1, <1>2, <1>7 DEF Start, Reload, BeginLoad
<1>8. ASSUME NEW p \in Proc, StartBuild(p) PROVE WholeSound'
  BY <1>1, <1>2, <1>8 DEF StartBuild
<1>9. ASSUME NEW p \in Proc, ReloadRebase(p) PROVE WholeSound'
  <2>1. mem' = [mem EXCEPT ![p] = mem'[p]]
    BY <1>1, <1>9, ReloadRebaseIs
  <2>2. ~broken => Sound(mem[p]) /\ Sound(disk)
    BY <1>1, <1>4, <1>9 DEF ReloadRebase
  <2>3. ~broken => Sound(mem'[p])
    BY <1>1, <1>2, <1>5, <1>9, <2>2, SoundIs, ReloadRebaseIs
  <2> QED BY <1>1, <1>2, <1>9, <2>1, <2>3 DEF ReloadRebase
<1>10. ASSUME NEW p \in Proc, LoadFiles(p) PROVE WholeSound'
  BY <1>1, <1>2, <1>10 DEF LoadFiles
<1>11. ASSUME NEW p \in Proc, LoadIndex(p) PROVE WholeSound'
  BY <1>1, <1>2, <1>11 DEF LoadIndex
<1>12. ASSUME NEW p \in Proc, LoadMeta(p) PROVE WholeSound'
  <2>1. mem' = [mem EXCEPT ![p] = [mem[p] EXCEPT !.meta = disk.meta]]
    BY <1>2, <1>12 DEF LoadMeta
  <2>2. ~broken' => ~broken /\ Sound(mem'[p])
    <3> SUFFICES ASSUME ~broken' PROVE ~broken /\ Sound(mem'[p])
      OBVIOUS
    <3>1. ~broken /\ pc[p] = "meta" /\ readGen[p] = [files |-> gen.meta, index |-> gen.meta]
      BY <1>12 DEF LoadMeta
    <3>2. Sound([mem[p] EXCEPT !.meta = disk.meta])
      BY <1>1, <3>1 DEF Assembled
    <3> QED BY <1>2, <2>1, <3>1, <3>2
  <2> QED BY <1>1, <1>2, <1>12, <2>1, <2>2 DEF LoadMeta
<1>13. ASSUME NEW p \in Proc, NEW f \in File, IndexFile(p, f) \/ RemoveFile(p, f)
      PROVE  WholeSound'
  <2>1. mem' = [mem EXCEPT ![p] = mem'[p]]
    BY <1>1, <1>13, UpdateIs
  <2>2. ~broken => Sound(mem[p])
    BY <1>1, <1>4, <1>13 DEF IndexFile, RemoveFile, Handle
  <2>3. ~broken => Sound(mem'[p])
    BY <1>1, <1>2, <1>5, <1>13, <2>2, SoundIs, UpdateIs
  <2> QED BY <1>1, <1>2, <1>13, <2>1, <2>3 DEF IndexFile, RemoveFile, Handle
<1>14. ASSUME NEW p \in Proc, SaveBegin(p) PROVE WholeSound'
  <2>1. mem' = [mem EXCEPT ![p] = mem'[p]]
    BY <1>1, <1>14, SaveBeginIs
  <2>2. ~broken => Sound(mem[p]) /\ Sound(disk)
    BY <1>1, <1>4, <1>14 DEF SaveBegin
  <2>3. ~broken => Sound(mem'[p])
    BY <1>1, <1>2, <1>5, <1>14, <2>2, SoundIs, SaveBeginIs
  <2> QED BY <1>1, <1>2, <1>14, <2>1, <2>3 DEF SaveBegin
<1>15. ASSUME NEW p \in Proc, SaveFiles(p) PROVE WholeSound'
  <2>1. pc'[p] = "saveIndex" /\ UNCHANGED <<mem, broken>>
    BY <1>2, <1>15 DEF SaveFiles
  <2> QED BY <1>1, <1>2, <1>15, <2>1 DEF SaveFiles
<1>16. ASSUME NEW p \in Proc, SaveIndex(p) PROVE WholeSound'
  <2>1. pc'[p] = "saveMeta" /\ UNCHANGED <<mem, broken>>
    BY <1>2, <1>16 DEF SaveIndex
  <2> QED BY <1>1, <1>2, <1>16, <2>1 DEF SaveIndex
<1>17. ASSUME NEW p \in Proc, SaveMeta(p) PROVE WholeSound'
  <2>1. disk.files = mem[p].files /\ disk.index = mem[p].index
    BY <1>1, <1>17 DEF SaveMeta, Written
  <2>2. disk' = mem[p]
    <3>1. disk' = [disk EXCEPT !.meta = mem[p].meta] /\ mem[p] \in Store
      BY <1>2, <1>17 DEF SaveMeta
    <3> QED BY <1>2, <2>1, <3>1, PartPut
  <2>3. ~broken => Sound(mem[p])
    BY <1>1, <1>17 DEF SaveMeta
  <2> QED BY <1>1, <1>2, <1>17, <2>2, <2>3 DEF SaveMeta
<1>18. ASSUME NEW p \in Proc, SaveFails(p) PROVE WholeSound'
  BY <1>1, <1>2, <1>18 DEF SaveFails
<1>19. ASSUME NEW p \in Proc, Crash(p) PROVE WholeSound'
  <2>1. Sound(EmptyStore)
    BY EmptyIs, SoundIs
  <2> QED BY <1>1, <1>2, <1>19, <2>1 DEF Crash
<1>20. ASSUME UNCHANGED vars PROVE WholeSound'
  BY <1>20, <1>1, <1>2, <1>3, <1>4, <1>5 DEF vars, world, self, history
<1> QED BY <1>6, <1>7, <1>8, <1>9, <1>10, <1>11, <1>12, <1>13, <1>14, <1>15, <1>16, <1>17, <1>18, <1>19, <1>20, Steps

\* What a load has read is what the save that it counts wrote.
LEMMA ReadingStep ==
  ASSUME IndexInv, [Next]_vars
  PROVE  Reading'
<1>1. TypeOK /\ SaverHolds /\ Generations /\ Reading
  BY DEF IndexInv
<1>2. /\ pc \in [Proc -> {"down", "idle"} \cup Loading \cup Saving]
      /\ mem \in [Proc -> Store] /\ disk \in Store
      /\ stamp \in Nat /\ gen \in [index : Nat, meta : Nat]
      /\ readGen \in [Proc -> [files : Nat, index : Nat]]
  BY <1>1 DEF TypeOK
<1>3. \A p, q \in Proc : pc[p] \in Saving /\ pc[q] \in Saving => p = q
  BY <1>1 DEF SaverHolds
<1> USE DEF Reading, Loading, Saving, world, self, history
<1>4. ASSUME NEW f \in File, NEW v \in Versions \cup {0}, Edit(f, v) PROVE Reading'
  BY <1>1, <1>2, <1>4 DEF Edit
<1>5. ASSUME NEW p \in Proc, Start(p) \/ Reload(p) PROVE Reading'
  BY <1>1, <1>2, <1>5 DEF Start, Reload, BeginLoad
<1>6. ASSUME NEW p \in Proc, StartBuild(p) PROVE Reading'
  BY <1>1, <1>2, <1>6 DEF StartBuild
<1>7. ASSUME NEW p \in Proc, ReloadRebase(p) PROVE Reading'
  <2>1. \A q \in Proc : q # p => mem'[q] = mem[q]
    BY <1>1, <1>2, <1>7, ReloadRebaseIs
  <2> QED BY <1>1, <1>2, <1>7, <2>1 DEF ReloadRebase
<1>8. ASSUME NEW p \in Proc, LoadFiles(p) PROVE Reading'
  <2>1. /\ mem'[p].files = disk.files /\ \A q \in Proc : q # p => mem'[q] = mem[q]
        /\ readGen'[p].files = stamp /\ \A q \in Proc : q # p => readGen'[q] = readGen[q]
    BY <1>2, <1>8 DEF LoadFiles, Store
  <2> QED BY <1>1, <1>2, <1>8, <2>1 DEF LoadFiles
<1>9. ASSUME NEW p \in Proc, LoadIndex(p) PROVE Reading'
  <2>1. /\ mem'[p].files = mem[p].files /\ mem'[p].index = disk.index
        /\ \A q \in Proc : q # p => mem'[q] = mem[q]
        /\ readGen'[p].files = readGen[p].files /\ readGen'[p].index = gen.index
        /\ \A q \in Proc : q # p => readGen'[q] = readGen[q]
    BY <1>2, <1>9 DEF LoadIndex, Store
  <2> QED BY <1>1, <1>2, <1>9, <2>1 DEF LoadIndex
<1>10. ASSUME NEW p \in Proc, LoadMeta(p) PROVE Reading'
  BY <1>1, <1>2, <1>10 DEF LoadMeta
<1>11. ASSUME NEW p \in Proc, NEW f \in File, IndexFile(p, f) \/ RemoveFile(p, f)
      PROVE  Reading'
  <2>1. \A q \in Proc : q # p => mem'[q] = mem[q]
    BY <1>1, <1>2, <1>11, UpdateIs
  <2> QED BY <1>1, <1>2, <1>11, <2>1 DEF IndexFile, RemoveFile, Handle
<1>12. ASSUME NEW p \in Proc, SaveBegin(p) PROVE Reading'
  <2>1. \A q \in Proc : q # p => mem'[q] = mem[q]
    BY <1>1, <1>2, <1>12, SaveBeginIs
  <2> QED BY <1>1, <1>2, <1>12, <2>1 DEF SaveBegin
<1>13. ASSUME NEW p \in Proc, SaveFiles(p) PROVE Reading'
  <2>1. disk'.index = disk.index /\ stamp' = stamp + 1
    BY <1>2, <1>13 DEF SaveFiles, Store
  <2> QED BY <1>1, <1>2, <1>13, <2>1 DEF SaveFiles
<1>14. ASSUME NEW p \in Proc, SaveIndex(p) PROVE Reading'
  <2>1. disk'.files = disk.files /\ gen'.index = stamp /\ gen.index < stamp
    BY <1>1, <1>2, <1>14 DEF SaveIndex, Store, Generations
  <2> QED BY <1>1, <1>2, <1>14, <2>1 DEF SaveIndex
<1>15. ASSUME NEW p \in Proc, SaveMeta(p) PROVE Reading'
  <2>1. disk'.files = disk.files /\ disk'.index = disk.index /\ gen'.index = gen.index
    BY <1>2, <1>15 DEF SaveMeta, Store
  <2> QED BY <1>1, <1>2, <1>15, <2>1 DEF SaveMeta
<1>16. ASSUME NEW p \in Proc, SaveFails(p) PROVE Reading'
  BY <1>1, <1>2, <1>16 DEF SaveFails
<1>17. ASSUME NEW p \in Proc, Crash(p) PROVE Reading'
  BY <1>1, <1>2, <1>17 DEF Crash
<1>18. ASSUME UNCHANGED vars PROVE Reading'
  BY <1>18, <1>1, <1>2, <1>3 DEF vars, world, self, history
<1> QED BY <1>4, <1>5, <1>6, <1>7, <1>8, <1>9, <1>10, <1>11, <1>12, <1>13, <1>14, <1>15, <1>16, <1>17, <1>18, Steps

\* The parts of one save that a load has read and will read make a sound copy.
LEMMA AssembledStep ==
  ASSUME IndexInv, [Next]_vars
  PROVE  Assembled'
<1>1. /\ TypeOK /\ SaverHolds /\ Written /\ Generations
      /\ WholeSound /\ Reading /\ Assembled
  BY DEF IndexInv
<1>2. /\ pc \in [Proc -> {"down", "idle"} \cup Loading \cup Saving]
      /\ mem \in [Proc -> Store] /\ disk \in Store
      /\ stamp \in Nat /\ gen \in [index : Nat, meta : Nat] /\ broken \in BOOLEAN
      /\ readGen \in [Proc -> [files : Nat, index : Nat]]
  BY <1>1 DEF TypeOK
<1>3. \A p, q \in Proc : pc[p] \in Saving /\ pc[q] \in Saving => p = q
  BY <1>1 DEF SaverHolds
<1> USE DEF Assembled, Halfway, Loading, Saving, world, self, history
<1>4. ASSUME NEW f \in File, NEW v \in Versions \cup {0}, Edit(f, v) PROVE Assembled'
  BY <1>1, <1>2, <1>4 DEF Edit
<1>5. ASSUME NEW p \in Proc, Start(p) \/ Reload(p) PROVE Assembled'
  BY <1>1, <1>2, <1>5 DEF Start, Reload, BeginLoad
<1>6. ASSUME NEW p \in Proc, StartBuild(p) PROVE Assembled'
  BY <1>1, <1>2, <1>6 DEF StartBuild
<1>7. ASSUME NEW p \in Proc, ReloadRebase(p) PROVE Assembled'
  <2>1. \A q \in Proc : q # p => mem'[q] = mem[q]
    BY <1>1, <1>2, <1>7, ReloadRebaseIs
  <2> QED BY <1>1, <1>2, <1>7, <2>1 DEF ReloadRebase
<1>8. ASSUME NEW p \in Proc, LoadFiles(p) PROVE Assembled'
  <2>1. /\ mem'[p].files = disk.files /\ \A q \in Proc : q # p => mem'[q] = mem[q]
        /\ readGen'[p].files = stamp /\ \A q \in Proc : q # p => readGen'[q] = readGen[q]
    BY <1>2, <1>8 DEF LoadFiles, Store
  <2>2. ASSUME ~broken, stamp = gen.meta
        PROVE  Sound([disk EXCEPT !.files = mem'[p].files])
    <3>1. \A q \in Proc : pc[q] \notin Halfway
      BY <1>1, <1>2, <2>2 DEF Generations
    <3>2. Sound(disk)
      BY <1>1, <2>2, <3>1 DEF WholeSound
    <3>3. [disk EXCEPT !.files = disk.files] = disk
      BY <1>2, PartPut
    <3> QED BY <2>1, <3>2, <3>3
  <2>3. /\ pc' = [pc EXCEPT ![p] = "index"]
        /\ UNCHANGED <<disk, stamp, gen, broken>>
    BY <1>8 DEF LoadFiles
  <2>4. pc'[p] = "index" /\ \A q \in Proc : q # p => pc'[q] = pc[q]
    BY <1>2, <2>3
  <2> SUFFICES ASSUME ~broken, NEW q \in Proc
               PROVE  /\ pc'[q] = "index" /\ readGen'[q].files = gen.meta /\ gen.index = gen.meta =>
                           Sound([disk EXCEPT !.files = mem'[q].files])
                      /\ pc'[q] = "meta" /\ readGen'[q] = [files |-> gen.meta, index |-> gen.meta] =>
                           Sound([mem'[q] EXCEPT !.meta = disk.meta])
    BY <2>3
  <2>5. CASE q = p
    BY <2>1, <2>2, <2>4, <2>5
  <2>6. CASE q # p
    BY <1>1, <2>1, <2>4, <2>6
  <2> QED BY <2>5, <2>6
<1>9. ASSUME NEW p \in Proc, LoadIndex(p) PROVE Assembled'
  <2>1. /\ mem'[p] = [mem[p] EXCEPT !.index = disk.index]
        /\ \A q \in Proc : q # p => mem'[q] = mem[q]
        /\ readGen'[p] = [readGen[p] EXCEPT !.index = gen.index]
        /\ \A q \in Proc : q # p => readGen'[q] = readGen[q]
    BY <1>2, <1>9 DEF LoadIndex
  <2>2. [mem'[p] EXCEPT !.meta = disk.meta] = [disk EXCEPT !.files = mem[p].files]
    <3>1. mem[p] \in Store
      BY <1>2
    <3> DEFINE x == mem[p]
    <3>2. mem'[p] = [x EXCEPT !.index = disk.index] /\ x \in Store /\ disk \in Store
      BY <1>2, <2>1, <3>1
    <3> HIDE DEF x
    <3>3. [[x EXCEPT !.index = disk.index] EXCEPT !.meta = disk.meta] = [disk EXCEPT !.files = x.files]
      BY <3>2, PartPut
    <3> QED BY <3>2, <3>3 DEF x
  <2>3. ASSUME ~broken, readGen'[p] = [files |-> gen.meta, index |-> gen.meta]
        PROVE  Sound([mem'[p] EXCEPT !.meta = disk.meta])
    <3>1. readGen[p].files = gen.meta /\ gen.index = gen.meta
      BY <1>2, <2>1, <2>3
    <3>2. Sound([disk EXCEPT !.files = mem[p].files])
      BY <1>1, <1>9, <2>3, <3>1 DEF LoadIndex
    <3> QED BY <2>2, <3>2
  <2> QED BY <1>1, <1>2, <1>9, <2>1, <2>3 DEF LoadIndex
<1>10. ASSUME NEW p \in Proc, LoadMeta(p) PROVE Assembled'
  BY <1>1, <1>2, <1>10 DEF LoadMeta
<1>11. ASSUME NEW p \in Proc, NEW f \in File, IndexFile(p, f) \/ RemoveFile(p, f)
      PROVE  Assembled'
  <2>1. \A q \in Proc : q # p => mem'[q] = mem[q]
    BY <1>1, <1>2, <1>11, UpdateIs
  <2> QED BY <1>1, <1>2, <1>11, <2>1 DEF IndexFile, RemoveFile, Handle
<1>12. ASSUME NEW p \in Proc, SaveBegin(p) PROVE Assembled'
  <2>1. \A q \in Proc : q # p => mem'[q] = mem[q]
    BY <1>1, <1>2, <1>12, SaveBeginIs
  <2> QED BY <1>1, <1>2, <1>12, <2>1 DEF SaveBegin
<1>13. ASSUME NEW p \in Proc, SaveFiles(p) PROVE Assembled'
  <2>1. disk'.meta = disk.meta /\ disk' = [disk EXCEPT !.files = mem[p].files]
    BY <1>2, <1>13 DEF SaveFiles, Store
  <2>2. \A q \in Proc : [disk' EXCEPT !.files = mem[q].files] = [disk EXCEPT !.files = mem[q].files]
    BY <1>2, <2>1, StoreEquality
  <2> QED BY <1>1, <1>2, <1>13, <2>1, <2>2 DEF SaveFiles
<1>14. ASSUME NEW p \in Proc, SaveIndex(p) PROVE Assembled'
  <2>1. disk'.meta = disk.meta /\ gen'.index = stamp /\ gen'.meta = gen.meta
    BY <1>2, <1>14 DEF SaveIndex, Store
  <2>2. ~broken => gen'.index # gen'.meta
    BY <1>1, <1>2, <1>14, <2>1 DEF SaveIndex, Generations
  <2> QED BY <1>1, <1>2, <1>14, <2>1, <2>2 DEF SaveIndex
<1>15. ASSUME NEW p \in Proc, SaveMeta(p) PROVE Assembled'
  <2>1. disk.files = mem[p].files /\ disk.index = mem[p].index /\ gen.index = stamp
    BY <1>1, <1>15 DEF SaveMeta, Written, Generations
  <2>2. disk' = mem[p] /\ disk' = [disk EXCEPT !.meta = mem[p].meta]
    <3>1. disk' = [disk EXCEPT !.meta = mem[p].meta] /\ mem[p] \in Store
      BY <1>2, <1>15 DEF SaveMeta
    <3> QED BY <1>2, <2>1, <3>1, PartPut
  <2>3. ~broken => Sound(disk')
    BY <1>1, <1>15, <2>2 DEF SaveMeta, WholeSound
  <2>4. gen'.meta = stamp /\ gen'.index = stamp
    BY <1>2, <1>15, <2>1 DEF SaveMeta
  <2>5. ASSUME NEW q \in Proc, pc[q] = "index", readGen[q].files = stamp
        PROVE  [disk' EXCEPT !.files = mem[q].files] = disk'
    <3>1. mem[q].files = disk.files
      BY <1>1, <2>5 DEF Reading
    <3> QED BY <1>2, <2>1, <2>2, <3>1, StoreEquality
  <2>6. ASSUME NEW q \in Proc, pc[q] = "meta",
               readGen[q] = [files |-> stamp, index |-> stamp]
        PROVE  [mem[q] EXCEPT !.meta = disk'.meta] = disk'
    <3>1. mem[q].files = disk.files /\ mem[q].index = disk.index
      BY <1>1, <2>1, <2>6 DEF Reading
    <3> DEFINE x == mem[q]
               y == mem[p]
    <3>2. x \in Store /\ y \in Store /\ x.files = y.files /\ x.index = y.index
      BY <1>2, <2>1, <3>1
    <3> HIDE DEF x, y
    <3>3. [x EXCEPT !.meta = y.meta] = y
      BY <3>2, PartPut
    <3> QED BY <2>2, <3>3 DEF x, y
  <2> QED BY <1>1, <1>2, <1>15, <2>3, <2>4, <2>5, <2>6 DEF SaveMeta
<1>16. ASSUME NEW p \in Proc, SaveFails(p) PROVE Assembled'
  BY <1>1, <1>2, <1>16 DEF SaveFails
<1>17. ASSUME NEW p \in Proc, Crash(p) PROVE Assembled'
  BY <1>1, <1>2, <1>17 DEF Crash
<1>18. ASSUME UNCHANGED vars PROVE Assembled'
  BY <1>18, <1>1, <1>2, <1>3 DEF vars, world, self, history
<1> QED BY <1>4, <1>5, <1>6, <1>7, <1>8, <1>9, <1>10, <1>11, <1>12, <1>13, <1>14, <1>15, <1>16, <1>17, <1>18, Steps

\* An instance with the stamp of the disk has its records, but for dirty files.
LEMMA StampedStep ==
  ASSUME IndexInv, [Next]_vars
  PROVE  Stamped'
<1>1. TypeOK /\ SaverHolds /\ Written /\ Stamped
  BY DEF IndexInv
<1>2. /\ pc \in [Proc -> {"down", "idle"} \cup Loading \cup Saving]
      /\ mem \in [Proc -> Store] /\ disk \in Store /\ stamp \in Nat
      /\ dirty \in [Proc -> Seq(File)] /\ synced \in [Proc -> Nat \cup {Never}]
      /\ taken \in [Proc -> Nat] /\ Never \notin Nat /\ Never \in Int
  BY <1>1 DEF TypeOK, Never
<1>3. \A p, q \in Proc : pc[p] \in Saving /\ pc[q] \in Saving => p = q
  BY <1>1 DEF SaverHolds
<1>4. \A f \in File : ~Contains(<<>>, f)
  BY DEF Contains
<1> USE DEF Stamped, Halfway, Loading, Saving, world, self, history
<1>5. ASSUME NEW f \in File, NEW v \in Versions \cup {0}, Edit(f, v) PROVE Stamped'
  BY <1>1, <1>2, <1>5 DEF Edit
<1>6. ASSUME NEW p \in Proc, Start(p) \/ Reload(p) PROVE Stamped'
  <2>1. /\ pc[p] \in {"down", "idle"} /\ dirty[p] = <<>>
        /\ pc' = [pc EXCEPT ![p] = "files"] /\ taken' = [taken EXCEPT ![p] = stamp]
        /\ UNCHANGED <<disk, stamp, mem, dirty, synced>>
    BY <1>1, <1>2, <1>6 DEF Start, Reload, BeginLoad
  <2> QED BY <1>1, <1>2, <2>1
<1>7. ASSUME NEW p \in Proc, StartBuild(p) PROVE Stamped'
  BY <1>1, <1>2, <1>7 DEF StartBuild
<1>8. ASSUME NEW p \in Proc, ReloadRebase(p) PROVE Stamped'
  <2>1. /\ \A q \in Proc : q # p => mem'[q] = mem[q]
        /\ \A f \in File : ~Contains(dirty[p], f) => mem'[p].files[f].ver = disk.files[f].ver
    BY <1>1, <1>2, <1>8, ReloadRebaseIs DEF Recorded
  <2> QED BY <1>1, <1>2, <1>8, <2>1 DEF ReloadRebase
<1>9. ASSUME NEW p \in Proc, LoadFiles(p) PROVE Stamped'
  <2>1. mem'[p].files = disk.files /\ \A q \in Proc : q # p => mem'[q] = mem[q]
    BY <1>2, <1>9 DEF LoadFiles, Store
  <2> QED BY <1>1, <1>2, <1>9, <2>1 DEF LoadFiles
<1>10. ASSUME NEW p \in Proc, LoadIndex(p) PROVE Stamped'
  <2>1. mem'[p].files = mem[p].files /\ \A q \in Proc : q # p => mem'[q] = mem[q]
    BY <1>2, <1>10 DEF LoadIndex, Store
  <2> QED BY <1>1, <1>2, <1>10, <2>1 DEF LoadIndex
<1>11. ASSUME NEW p \in Proc, LoadMeta(p) PROVE Stamped'
  <2>1. mem'[p].files = mem[p].files /\ \A q \in Proc : q # p => mem'[q] = mem[q]
    BY <1>2, <1>11 DEF LoadMeta, Store
  <2> QED BY <1>1, <1>2, <1>11, <2>1 DEF LoadMeta
<1>12. ASSUME NEW p \in Proc, NEW f \in File, IndexFile(p, f) \/ RemoveFile(p, f)
      PROVE  Stamped'
  <2>1. /\ \A q \in Proc : q # p => mem'[q] = mem[q] /\ dirty'[q] = dirty[q]
        /\ \A g \in File : ~Contains(dirty'[p], g) =>
             ~Contains(dirty[p], g) /\ mem'[p].files[g].ver = mem[p].files[g].ver
    BY <1>1, <1>2, <1>12, UpdateIs DEF Recorded
  <2>2. pc[p] = "idle" /\ UNCHANGED <<disk, stamp, pc, synced, taken>>
    BY <1>12 DEF IndexFile, RemoveFile, Handle
  <2> QED BY <1>1, <1>2, <2>1, <2>2
<1>13. ASSUME NEW p \in Proc, SaveBegin(p) PROVE Stamped'
  <2>1. /\ \A q \in Proc : q # p => mem'[q] = mem[q]
        /\ \A g \in File : mem'[p].files[g].ver =
             IF IsStale(p) /\ ~Contains(dirty[p], g) THEN disk.files[g].ver
             ELSE mem[p].files[g].ver
    BY <1>1, <1>2, <1>13, SaveBeginIs DEF Recorded
  <2>2. /\ pc[p] = "idle" /\ pc' = [pc EXCEPT ![p] = "saveFiles"]
        /\ synced' = [synced EXCEPT ![p] = IF IsStale(p) THEN stamp ELSE @]
        /\ UNCHANGED <<disk, stamp, dirty, taken>>
    BY <1>13 DEF SaveBegin
  <2>3. \A q \in Proc : q # p => synced'[q] = synced[q] /\ pc'[q] = pc[q]
    BY <1>2, <2>2
  <2>4. pc'[p] = "saveFiles" /\ synced'[p] \in {Never, stamp}
    BY <1>2, <2>2 DEF IsStale
  <2>5. ASSUME synced'[p] = stamp, NEW g \in File, ~Contains(dirty[p], g)
        PROVE  mem'[p].files[g].ver = disk.files[g].ver
    <3>1. CASE IsStale(p)
      BY <2>1, <2>5, <3>1
    <3>2. CASE ~IsStale(p)
      <4>1. synced[p] = stamp
        BY <1>2, <2>2, <2>5, <3>2
      <4> QED BY <1>1, <2>1, <2>2, <2>5, <3>2, <4>1
    <3> QED BY <3>1, <3>2
  <2> QED BY <1>1, <1>2, <2>1, <2>2, <2>3, <2>4, <2>5
<1>14. ASSUME NEW p \in Proc, SaveFiles(p) PROVE Stamped'
  <2>1. stamp' = stamp + 1 /\ synced[p] < stamp' /\ pc'[p] = "saveIndex"
    <3>1. pc[p] = "saveFiles" /\ stamp' = stamp + 1 /\ pc' = [pc EXCEPT ![p] = "saveIndex"]
      BY <1>14 DEF SaveFiles
    <3>2. synced[p] \in {Never, stamp} /\ synced[p] <= stamp
      BY <1>1, <3>1
    <3> QED BY <1>2, <3>1, <3>2
  <2> QED BY <1>1, <1>2, <1>3, <1>14, <2>1 DEF SaveFiles
<1>15. ASSUME NEW p \in Proc, SaveIndex(p) PROVE Stamped'
  <2>1. disk'.files = disk.files
    BY <1>2, <1>15 DEF SaveIndex, Store
  <2> QED BY <1>1, <1>2, <1>15, <2>1 DEF SaveIndex
<1>16. ASSUME NEW p \in Proc, SaveMeta(p) PROVE Stamped'
  <2>1. disk'.files = disk.files /\ disk.files = mem[p].files
    BY <1>1, <1>2, <1>16 DEF SaveMeta, Store, Written
  <2> QED BY <1>1, <1>2, <1>16, <2>1 DEF SaveMeta
<1>17. ASSUME NEW p \in Proc, SaveFails(p) PROVE Stamped'
  BY <1>1, <1>2, <1>17 DEF SaveFails
<1>18. ASSUME NEW p \in Proc, Crash(p) PROVE Stamped'
  BY <1>1, <1>2, <1>18 DEF Crash
<1>19. ASSUME UNCHANGED vars PROVE Stamped'
  BY <1>19, <1>1, <1>2, <1>3, <1>4 DEF vars, world, self, history
<1> QED BY <1>5, <1>6, <1>7, <1>8, <1>9, <1>10, <1>11, <1>12, <1>13, <1>14, <1>15, <1>16, <1>17, <1>18, <1>19, Steps

\* The invariant holds at the beginning: index-repo left sound files.
LEMMA IndexInit ==
  ASSUME Init
  PROVE  IndexInv
<1>1. disk \in Store /\ Sound(disk)
  <2>1. Len(Seeds) \in Nat
    BY SeedsAssumption
  <2>2. Filled(Seeds) \in Store /\ Linked(Filled(Seeds))
    BY <2>1, SeedsAssumption, FilledIs
  <2> QED BY <2>2, SoundIs DEF Init
<1>2. EmptyStore \in Store /\ Sound(EmptyStore)
  BY EmptyIs, SoundIs
<1>3. stamp \in Nat /\ gen = [index |-> stamp, meta |-> stamp] /\ Never \notin Nat /\ Never \in Int
  BY DEF Init, Never
<1>4. TypeOK
  <2>1. src \in [File -> Versions \cup {0}] /\ edits \in 0 .. MaxEdits
    BY VersionsAssumption, BoundAssumption DEF Init
  <2>2. /\ mem \in [Proc -> Store] /\ dirty \in [Proc -> Seq(File)]
        /\ synced \in [Proc -> Nat \cup {Never}] /\ taken \in [Proc -> Nat]
        /\ events \in [Proc -> SUBSET File]
        /\ readGen \in [Proc -> [files : Nat, index : Nat]]
    BY <1>2 DEF Init
  <2>3. gen \in [index : Nat, meta : Nat] /\ broken \in BOOLEAN
    <3>1. gen \in [index : Nat, meta : Nat]
      BY <1>3
    <3>2. broken \in BOOLEAN
      BY DEF Init
    <3> QED BY <3>1, <3>2
  <2>4. lock \in Proc \cup {None} /\ pc \in [Proc -> {"down", "idle"} \cup Loading \cup Saving]
    BY DEF Init
  <2> QED BY <1>1, <1>3, <2>1, <2>2, <2>3, <2>4 DEF TypeOK
<1>5. SaverHolds /\ Written /\ Generations /\ Reading /\ Assembled
  BY <1>3, NoneAssumption
  DEF Init, SaverHolds, Written, Generations, Reading, Assembled, Halfway, Saving
<1>6. WholeSound
  BY <1>1, <1>2 DEF Init, WholeSound
<1>7. Stamped
  BY <1>3 DEF Init, Stamped, Loading, Halfway, Never
<1>8. DiskConsistent /\ MemConsistent /\ AllEmbedded
  BY <1>1, <1>2 DEF Init, Sound, DiskConsistent, MemConsistent, AllEmbedded
<1> QED BY <1>4, <1>5, <1>6, <1>7, <1>8 DEF IndexInv

\* The invariant is inductive.
LEMMA IndexStep ==
  ASSUME IndexInv, [Next]_vars
  PROVE  IndexInv'
<1>1. SaverHolds' /\ WholeSound'
  BY SaverStep, WholeStep
<1>2. (DiskConsistent /\ MemConsistent /\ AllEmbedded)'
  <2>1. (lock = None => \A p \in Proc : pc[p] \notin Halfway)'
    BY <1>1, NoneAssumption DEF SaverHolds, Halfway, Saving
  <2> QED BY <1>1, <2>1 DEF WholeSound, DiskConsistent, MemConsistent, AllEmbedded, Sound, Saving
<1> QED BY <1>1, <1>2, TypeStep, WrittenStep, GenerationsStep, ReadingStep, AssembledStep,
           StampedStep DEF IndexInv

\* Records, descriptions and vectors of the files and of every copy in memory stay
\* together, through updates, removals, compactions, rebases, reloads, failures and
\* kills (save(), compact_faiss(), _rebase_onto_disk_locked()).
THEOREM IndexSound == Spec => []IndexInv
<1>1. Init => IndexInv
  BY IndexInit
<1>2. IndexInv /\ [Next]_vars => IndexInv'
  BY IndexStep
<1> QED BY <1>1, <1>2, PTL DEF Spec

\* An instance whose stamp is that of ast_index.json has the records on disk, but
\* for its own unsaved changes (_is_stale_vs_disk(), load()).
THEOREM StampTells == Spec => []RecordsFresh
<1>1. IndexInv => RecordsFresh
  BY DEF IndexInv, Stamped, RecordsFresh
<1> QED BY <1>1, IndexSound, PTL

\* A save by an instance that has loaded leaves alone the records of the files it
\* did not change: save() rebases when the stamp has moved.
THEOREM SavesKeepOthers == Spec => OthersKept
<1> DEFINE Keeps == \A p \in Proc : \A f \in File :
                      SaveFiles(p) /\ synced[p] # Never /\ ~Contains(dirty[p], f)
                        => disk'.files[f].ver = disk.files[f].ver
<1>1. IndexInv /\ [Next]_vars => [Keeps]_vars
  <2> SUFFICES ASSUME IndexInv, NEW p \in Proc, NEW f \in File,
                      SaveFiles(p), synced[p] # Never, ~Contains(dirty[p], f)
               PROVE  disk'.files[f].ver = disk.files[f].ver
    OBVIOUS
  <2>1. pc[p] = "saveFiles" /\ disk \in Store /\ disk' = [disk EXCEPT !.files = mem[p].files]
    BY DEF SaveFiles, IndexInv, TypeOK
  <2>2. disk'.files = mem[p].files
    BY <2>1 DEF Store
  <2>3. synced[p] = stamp
    BY <2>1 DEF IndexInv, Stamped
  <2>4. mem[p].files[f].ver = disk.files[f].ver
    BY <2>1, <2>3 DEF IndexInv, Stamped
  <2> QED BY <2>2, <2>4
<1> QED BY <1>1, IndexSound, PTL DEF Spec, OthersKept
=============================================================================
