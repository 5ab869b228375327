-------------------------- MODULE VectorStore_proofs --------------------------
(***************************************************************************)
(* Proofs about VectorStore, for any processes and memories, while nobody  *)
(* prunes and no process that deprecates has an add refused: vectors and   *)
(* rows correspond, what was stored is found, and deprecated memories are  *)
(* those that were chosen, for good.                                       *)
(***************************************************************************)
EXTENDS VectorStore, Selection_proofs

\* The cron job does not run, and whoever deprecates has no add refused.
Undisturbed == Pruners = {} /\ Editors \cap Failing = {}

\* The inductive invariant.
IInv == RowsInv /\ OnlyChosenDead

-----------------------------------------------------------------------------
(* Sequences of rows.                                                      *)

\* What the concatenation of two sequences consists of.
LEMMA EntriesJoined ==
  ASSUME NEW a \in Seq(Entry), NEW b \in Seq(Entry)
  PROVE  /\ a \o b \in Seq(Entry) /\ Len(a \o b) = Len(a) + Len(b)
         /\ DOMAIN (a \o b) = 1 .. Len(a) + Len(b)
         /\ \A i \in 1 .. Len(a) : (a \o b)[i] = a[i]
         /\ \A i \in 1 .. Len(b) : (a \o b)[Len(a) + i] = b[i]
OBVIOUS

LEMMA RowsJoined ==
  ASSUME NEW a \in Seq(Row), NEW b \in Seq(Row)
  PROVE  /\ a \o b \in Seq(Row) /\ Len(a \o b) = Len(a) + Len(b)
         /\ DOMAIN (a \o b) = 1 .. Len(a) + Len(b)
         /\ \A i \in 1 .. Len(a) : (a \o b)[i] = a[i]
         /\ \A i \in 1 .. Len(b) : (a \o b)[Len(a) + i] = b[i]
OBVIOUS

\* The rows of fresh entries.
LEMMA RowsOfIs ==
  ASSUME NEW s \in Seq(Entry)
  PROVE  /\ RowsOf(s) \in Seq(Row) /\ Len(RowsOf(s)) = Len(s)
         /\ DOMAIN RowsOf(s) = DOMAIN s
         /\ \A i \in DOMAIN s : RowsOf(s)[i].entry = s[i] /\ ~RowsOf(s)[i].dead
<1>1. Len(s) \in Nat /\ DOMAIN s = 1 .. Len(s) /\ \A i \in 1 .. Len(s) : s[i] \in Entry
  OBVIOUS
<1>2. RowsOf(s) = [i \in 1 .. Len(s) |-> [entry |-> s[i], dead |-> FALSE]]
  BY <1>1 DEF RowsOf
<1>3. \A i \in 1 .. Len(s) : [entry |-> s[i], dead |-> FALSE] \in Row
  BY <1>1 DEF Row
<1>4. RowsOf(s) \in Seq(Row)
  BY <1>1, <1>2, <1>3
<1> QED BY <1>1, <1>2, <1>4

LEMMA RowsOfHas ==
  ASSUME NEW s \in Seq(Entry)
  PROVE  /\ RowsOf(s) \in Seq(Row) /\ Len(RowsOf(s)) = Len(s)
         /\ \A i \in DOMAIN s : RowsOf(s)[i] = [entry |-> s[i], dead |-> FALSE]
BY RowsOfIs DEF RowsOf

\* The entries of rows.
LEMMA EntriesOfIs ==
  ASSUME NEW m \in Seq(Row)
  PROVE  /\ EntriesOf(m) \in Seq(Entry) /\ Len(EntriesOf(m)) = Len(m)
         /\ DOMAIN EntriesOf(m) = DOMAIN m
         /\ \A i \in DOMAIN m : EntriesOf(m)[i] = m[i].entry
<1>1. Len(m) \in Nat /\ DOMAIN m = 1 .. Len(m) /\ \A i \in 1 .. Len(m) : m[i] \in Row
  OBVIOUS
<1>2. EntriesOf(m) = [i \in 1 .. Len(m) |-> m[i].entry]
  BY <1>1 DEF EntriesOf
<1>3. \A i \in 1 .. Len(m) : m[i].entry \in Entry
  BY <1>1 DEF Row
<1>4. EntriesOf(m) \in Seq(Entry)
  BY <1>1, <1>2, <1>3
<1> QED BY <1>1, <1>2, <1>4

\* The rows of a concatenation, and the entries of rows with fresh ones behind.
LEMMA RowsOfConcat ==
  ASSUME NEW s \in Seq(Entry), NEW t \in Seq(Entry)
  PROVE  RowsOf(s \o t) = RowsOf(s) \o RowsOf(t)
<1>1. /\ s \o t \in Seq(Entry) /\ Len(s \o t) = Len(s) + Len(t)
      /\ Len(s) \in Nat /\ Len(t) \in Nat
      /\ DOMAIN s = 1 .. Len(s) /\ DOMAIN t = 1 .. Len(t)
      /\ DOMAIN (s \o t) = 1 .. Len(s) + Len(t)
      /\ \A i \in 1 .. Len(s) : (s \o t)[i] = s[i]
      /\ \A i \in 1 .. Len(t) : (s \o t)[Len(s) + i] = t[i]
  BY EntriesJoined
<1>2. PICK a \in Seq(Row) :
        /\ a = RowsOf(s) /\ Len(a) = Len(s)
        /\ \A i \in 1 .. Len(s) : a[i] = [entry |-> s[i], dead |-> FALSE]
  BY <1>1, RowsOfHas
<1>3. PICK b \in Seq(Row) :
        /\ b = RowsOf(t) /\ Len(b) = Len(t)
        /\ \A i \in 1 .. Len(t) : b[i] = [entry |-> t[i], dead |-> FALSE]
  BY <1>1, RowsOfHas
<1>4. PICK u \in Seq(Entry) : u = s \o t
  BY <1>1
<1>5. PICK l \in Seq(Row) : l = RowsOf(u)
  BY RowsOfHas
<1>6. /\ Len(l) = Len(s) + Len(t)
      /\ \A i \in 1 .. Len(s) + Len(t) : l[i] = [entry |-> u[i], dead |-> FALSE]
  <2>1. /\ Len(RowsOf(u)) = Len(u)
        /\ \A i \in DOMAIN u : RowsOf(u)[i] = [entry |-> u[i], dead |-> FALSE]
    BY RowsOfHas
  <2> QED BY <1>1, <1>4, <1>5, <2>1
<1>7. PICK r \in Seq(Row) :
        /\ r = a \o b /\ Len(r) = Len(a) + Len(b)
        /\ \A i \in 1 .. Len(a) : r[i] = a[i]
        /\ \A i \in 1 .. Len(b) : r[Len(a) + i] = b[i]
  <2>1. /\ a \o b \in Seq(Row) /\ Len(a \o b) = Len(a) + Len(b)
        /\ \A i \in 1 .. Len(a) : (a \o b)[i] = a[i]
        /\ \A i \in 1 .. Len(b) : (a \o b)[Len(a) + i] = b[i]
    BY RowsJoined, Zenon
  <2> QED BY <2>1, Zenon
<1>8. /\ Len(r) = Len(s) + Len(t)
      /\ \A i \in 1 .. Len(s) : r[i] = a[i]
      /\ \A i \in 1 .. Len(t) : r[Len(s) + i] = b[i]
  BY <1>2, <1>3, <1>7
<1>9. ASSUME NEW i \in 1 .. Len(l) PROVE l[i] = r[i]
  <2>1. CASE i \in 1 .. Len(s)
    <3>1. u[i] = s[i] /\ i \in 1 .. Len(s) + Len(t)
      BY <1>1, <1>4, <1>6, <2>1
    <3>2. l[i] = [entry |-> s[i], dead |-> FALSE]
      BY <1>6, <3>1
    <3>3. r[i] = a[i] /\ a[i] = [entry |-> s[i], dead |-> FALSE]
      BY <1>2, <1>8, <2>1
    <3> QED BY <3>2, <3>3
  <2>2. CASE i \notin 1 .. Len(s)
    <3>1. i - Len(s) \in 1 .. Len(t) /\ i = Len(s) + (i - Len(s))
      BY <1>1, <1>6, <2>2
    <3>2. PICK k \in 1 .. Len(t) : i = Len(s) + k
      BY <3>1
    <3>3. u[i] = t[k] /\ i \in 1 .. Len(s) + Len(t)
      BY <1>1, <1>4, <1>6, <3>2
    <3>4. l[i] = [entry |-> t[k], dead |-> FALSE]
      BY <1>6, <3>3
    <3>5. r[i] = b[k] /\ b[k] = [entry |-> t[k], dead |-> FALSE]
      BY <1>3, <1>8, <3>2
    <3> QED BY <3>4, <3>5
  <2> QED BY <2>1, <2>2
<1>10. l = r
  BY <1>6, <1>8, <1>9, SeqEqual
<1> QED BY <1>2, <1>3, <1>4, <1>5, <1>7, <1>10

LEMMA EntriesOfConcat ==
  ASSUME NEW m \in Seq(Row), NEW s \in Seq(Entry)
  PROVE  EntriesOf(m \o RowsOf(s)) = EntriesOf(m) \o s
<1>1. /\ Len(s) \in Nat /\ Len(m) \in Nat /\ DOMAIN m = 1 .. Len(m)
      /\ DOMAIN s = 1 .. Len(s)
  OBVIOUS
<1>2. PICK a \in Seq(Row) :
        /\ a = RowsOf(s) /\ Len(a) = Len(s)
        /\ \A i \in 1 .. Len(s) : a[i].entry = s[i]
  BY <1>1, RowsOfIs
<1>3. PICK r \in Seq(Row) :
        /\ r = m \o a /\ Len(r) = Len(m) + Len(a) /\ DOMAIN r = 1 .. Len(m) + Len(a)
        /\ \A i \in 1 .. Len(m) : r[i] = m[i]
        /\ \A i \in 1 .. Len(a) : r[Len(m) + i] = a[i]
  BY RowsJoined
<1>4. PICK b \in Seq(Entry) :
        /\ b = EntriesOf(m) /\ Len(b) = Len(m)
        /\ \A i \in 1 .. Len(m) : b[i] = m[i].entry
  BY <1>1, EntriesOfIs
<1>5. PICK x \in Seq(Entry) :
        x = EntriesOf(r) /\ Len(x) = Len(r) /\ \A i \in DOMAIN r : x[i] = r[i].entry
  BY EntriesOfIs
<1>6. PICK y \in Seq(Entry) :
        /\ y = b \o s /\ Len(y) = Len(b) + Len(s)
        /\ \A i \in 1 .. Len(b) : y[i] = b[i]
        /\ \A i \in 1 .. Len(s) : y[Len(b) + i] = s[i]
  <2>1. /\ b \o s \in Seq(Entry) /\ Len(b \o s) = Len(b) + Len(s)
        /\ \A i \in 1 .. Len(b) : (b \o s)[i] = b[i]
        /\ \A i \in 1 .. Len(s) : (b \o s)[Len(b) + i] = s[i]
    BY EntriesJoined, Zenon
  <2> QED BY <2>1, Zenon
<1>7. Len(x) = Len(m) + Len(s) /\ Len(y) = Len(m) + Len(s)
  BY <1>1, <1>2, <1>3, <1>4, <1>5, <1>6
<1>8. ASSUME NEW i \in 1 .. Len(x) PROVE x[i] = y[i]
  <2>0. i \in DOMAIN r /\ x[i] = r[i].entry
    BY <1>1, <1>2, <1>3, <1>5, <1>7
  <2>1. CASE i \in 1 .. Len(m)
    <3>1. r[i] = m[i] /\ y[i] = b[i] /\ b[i] = m[i].entry
      BY <1>3, <1>4, <1>6, <2>1
    <3> QED BY <2>0, <3>1
  <2>2. CASE i \notin 1 .. Len(m)
    <3>1. i - Len(m) \in 1 .. Len(s) /\ i = Len(m) + (i - Len(m))
      BY <1>1, <1>7, <2>2
    <3>2. PICK k \in 1 .. Len(s) : i = Len(m) + k
      BY <3>1
    <3>3. r[i] = a[k] /\ y[i] = s[k]
      BY <1>2, <1>3, <1>4, <1>6, <3>2
    <3>4. a[k].entry = s[k]
      BY <1>2, <3>2
    <3> QED BY <2>0, <3>3, <3>4
  <2> QED BY <2>1, <2>2
<1>9. x = y
  BY <1>7, <1>8, SeqEqual
<1> QED BY <1>2, <1>3, <1>4, <1>5, <1>6, <1>9

\* A row that is replaced, and one that is flagged.
LEMMA ReplacedIs ==
  ASSUME NEW m \in Seq(Row), NEW i \in DOMAIN m, NEW y \in Row,
         NEW n, n = [m EXCEPT ![i] = y]
  PROVE  /\ n \in Seq(Row) /\ Len(n) = Len(m) /\ DOMAIN n = DOMAIN m /\ n[i] = y
         /\ \A j \in DOMAIN m : j # i => n[j] = m[j]
OBVIOUS

Flagged(m, i) == [m EXCEPT ![i].dead = TRUE]

LEMMA FlaggedIs ==
  ASSUME NEW m \in Seq(Row), NEW i \in DOMAIN m, NEW n
  PROVE  n = Flagged(m, i) =>
         /\ n \in Seq(Row) /\ Len(n) = Len(m) /\ DOMAIN n = DOMAIN m /\ n[i].dead
         /\ \A j \in DOMAIN m : n[j].entry = m[j].entry /\ (j # i => n[j] = m[j])
<1>1. PICK x \in Row : x = m[i]
  OBVIOUS
<1>2. [x EXCEPT !.dead = TRUE] \in Row
  BY Zenon DEF Row
<1>3. [x EXCEPT !.dead = TRUE].entry = x.entry /\ [x EXCEPT !.dead = TRUE].dead
  BY DEF Row
<1>4. PICK y \in Row : y = [x EXCEPT !.dead = TRUE] /\ y.entry = x.entry /\ y.dead
  BY <1>2, <1>3
<1>5. n = Flagged(m, i) => n = [m EXCEPT ![i] = y]
  BY <1>1, <1>4 DEF Flagged
<1>6. ASSUME n = [m EXCEPT ![i] = y]
      PROVE  /\ n \in Seq(Row) /\ Len(n) = Len(m) /\ DOMAIN n = DOMAIN m /\ n[i] = y
             /\ \A j \in DOMAIN m : j # i => n[j] = m[j]
  BY <1>6, ReplacedIs
<1>7. ASSUME n = [m EXCEPT ![i] = y]
      PROVE  n[i].dead /\ \A j \in DOMAIN m : n[j].entry = m[j].entry
  BY <1>1, <1>4, <1>6, <1>7
<1> QED BY <1>5, <1>6, <1>7

LEMMA EntriesFlagged ==
  ASSUME NEW m \in Seq(Row), NEW n \in Seq(Row), DOMAIN n = DOMAIN m,
         \A j \in DOMAIN m : n[j].entry = m[j].entry
  PROVE  EntriesOf(n) = EntriesOf(m)
BY DEF EntriesOf

\* The memory of an instance with adds behind: its type, none, and two batches.
LEMMA ExtendedIs ==
  ASSUME NEW x \in Memory, NEW s \in Seq(Entry)
  PROVE  /\ Extended(x, s) \in Memory
         /\ Extended(x, s).index = x.index \o s
         /\ Extended(x, s).meta = x.meta \o RowsOf(s)
         /\ Extended(x, <<>>) = x
<1>1. x.index \in Seq(Entry) /\ x.meta \in Seq(Row) /\ x = [index |-> x.index, meta |-> x.meta]
  BY DEF Memory
<1>2. RowsOf(s) \in Seq(Row) /\ x.index \o s \in Seq(Entry) /\ x.meta \o RowsOf(s) \in Seq(Row)
  BY <1>1, RowsOfIs, EntriesJoined, RowsJoined
<1>3. x.index \o <<>> = x.index /\ x.meta \o <<>> = x.meta
  BY <1>1, ConcatEmptySeq
<1>4. RowsOf(<<>>) = <<>>
  <2>1. <<>> \in Seq(Entry) /\ Len(<<>>) = 0
    BY EmptySeq
  <2>2. RowsOf(<<>>) \in Seq(Row) /\ Len(RowsOf(<<>>)) = 0
    BY <2>1, RowsOfIs
  <2> QED BY <2>2, EmptySeq
<1>5. Extended(x, <<>>) = x
  BY <1>1, <1>3, <1>4 DEF Extended
<1> QED BY <1>2, <1>5 DEF Extended, Memory

LEMMA ExtendedTwice ==
  ASSUME NEW x \in Memory, NEW s \in Seq(Entry), NEW t \in Seq(Entry)
  PROVE  Extended(Extended(x, s), t) = Extended(x, s \o t)
<1>1. x.index \in Seq(Entry) /\ x.meta \in Seq(Row)
  BY DEF Memory
<1>2. \A u \in Seq(Entry) : RowsOf(u) \in Seq(Row)
  BY RowsOfIs
<1>3. (x.index \o s) \o t = x.index \o (s \o t)
  <2>1. \A a, b, c \in Seq(Entry) : (a \o b) \o c = a \o (b \o c)
    <3> TAKE a \in Seq(Entry), b \in Seq(Entry), c \in Seq(Entry)
    <3> QED BY ConcatAssociative
  <2> QED BY <1>1, <2>1
<1>4. (x.meta \o RowsOf(s)) \o RowsOf(t) = x.meta \o RowsOf(s \o t)
  <2>1. \A a, b, c \in Seq(Row) : (a \o b) \o c = a \o (b \o c)
    <3> TAKE a \in Seq(Row), b \in Seq(Row), c \in Seq(Row)
    <3> QED BY ConcatAssociative
  <2>2. (x.meta \o RowsOf(s)) \o RowsOf(t) = x.meta \o (RowsOf(s) \o RowsOf(t))
    BY <1>1, <1>2, <2>1
  <2> QED BY <2>2, RowsOfConcat
<1> QED BY <1>3, <1>4 DEF Extended

-----------------------------------------------------------------------------
(* Stamps and steps.                                                       *)

\* A write makes a stamp that nobody has taken.
LEMMA Ticks ==
  ASSUME stamp \in Stamp, NEW n,
         n = [stamp EXCEPT !.index = Tick] \/ n = [stamp EXCEPT !.meta = Tick]
  PROVE  /\ n \in Stamp /\ Newest(n) = Newest(stamp) + 1 /\ Newest(stamp) \in Nat
         /\ n.index <= Newest(n) /\ n.meta <= Newest(n)
         /\ \A s \in Stamp :
              s.index <= Newest(stamp) /\ s.meta <= Newest(stamp) => s # n
<1>1. stamp.index \in Nat /\ stamp.meta \in Nat
  BY DEF Stamp
<1>2. /\ Newest(stamp) \in Nat /\ stamp.index <= Newest(stamp)
      /\ stamp.meta <= Newest(stamp) /\ Tick = Newest(stamp) + 1
  BY <1>1 DEF Newest, Tick
<1>3. \/ n = [index |-> Newest(stamp) + 1, meta |-> stamp.meta]
      \/ n = [index |-> stamp.index, meta |-> Newest(stamp) + 1]
  BY <1>2 DEF Stamp
<1>4. n \in Stamp /\ (n.index = Newest(stamp) + 1 \/ n.meta = Newest(stamp) + 1)
  BY <1>1, <1>2, <1>3 DEF Stamp
<1>5. Newest(n) = Newest(stamp) + 1 /\ n.index <= Newest(n) /\ n.meta <= Newest(n)
  BY <1>1, <1>2, <1>3 DEF Newest
<1> QED BY <1>1, <1>2, <1>4, <1>5 DEF Stamp

\* The parts of the types that the steps use.
LEMMA Types ==
  ASSUME TypeOK, NEW p \in Proc
  PROVE  /\ index \in Seq(Entry) /\ meta \in Seq(Row) /\ Disk \in Memory
         /\ mem[p] \in Memory /\ mem[p].index \in Seq(Entry) /\ mem[p].meta \in Seq(Row)
         /\ pending[p] \in Seq(Entry)
BY DEF TypeOK, Memory, Disk

\* An add leaves the instance with what is on disk and its own adds behind.
LEMMA AddDoes ==
  ASSUME IInv, NEW p \in Proc, NEW e \in Entry, Add(p, e)
  PROVE  /\ pending'[p] = pending[p] \o <<e>> /\ pending'[p] \in Seq(Entry)
         /\ mem'[p] = Extended(Disk, pending'[p]) /\ mem'[p] \in Memory
<1>1. TypeOK /\ pc[p] = "idle"
  BY DEF IInv, RowsInv, Add
<1>2. /\ Disk \in Memory /\ mem[p] \in Memory /\ pending[p] \in Seq(Entry)
      /\ <<e>> \in Seq(Entry) /\ pending[p] \o <<e>> \in Seq(Entry)
  BY <1>1, Types, EntriesJoined
<1>3. pending'[p] = pending[p] \o <<e>>
  <2>1. pending'[p] = Append(pending[p], e)
    BY <1>1 DEF Add, TypeOK
  <2> QED BY <1>2, <2>1, AppendIsConcat
<1>4. mem'[p] = Synced(p, <<e>>)
  BY <1>1 DEF Add, TypeOK
<1>5. CASE stamp = synced[p]
  <2>1. mem[p] = Extended(Disk, pending[p])
    BY <1>1, <1>5 DEF IInv, RowsInv, InSync
  <2>2. mem'[p] = Extended(Extended(Disk, pending[p]), <<e>>)
    BY <1>4, <1>5, <2>1 DEF Synced
  <2>3. mem'[p] = Extended(Disk, pending[p] \o <<e>>)
    BY <1>2, <2>2, ExtendedTwice
  <2> QED BY <1>2, <1>3, <2>3, ExtendedIs
<1>6. CASE stamp # synced[p]
  BY <1>2, <1>3, <1>4, <1>6, ExtendedIs DEF Synced, Disk
<1> QED BY <1>5, <1>6

LEMMA AddFailsDoes ==
  ASSUME IInv, NEW p \in Proc, NEW e \in Entry, AddFails(p, e)
  PROVE  /\ pending'[p] = pending[p] \o <<e>> /\ pending'[p] \in Seq(Entry)
         /\ mem'[p] \in Memory
         /\ synced[p] = stamp => mem'[p] = Extended(Disk, pending'[p])
<1>1. TypeOK /\ pc[p] = "idle"
  BY DEF IInv, RowsInv, AddFails
<1>2. /\ Disk \in Memory /\ mem[p] \in Memory /\ pending[p] \in Seq(Entry)
      /\ <<e>> \in Seq(Entry) /\ pending[p] \o <<e>> \in Seq(Entry)
  BY <1>1, Types, EntriesJoined
<1>3. pending'[p] = pending[p] \o <<e>>
  <2>1. pending'[p] = Append(pending[p], e)
    BY <1>1 DEF AddFails, TypeOK
  <2> QED BY <1>2, <2>1, AppendIsConcat
<1>4. mem'[p] = Extended(mem[p], <<e>>)
  BY <1>1 DEF AddFails, TypeOK
<1>5. ASSUME synced[p] = stamp PROVE mem'[p] = Extended(Disk, pending'[p])
  <2>1. mem[p] = Extended(Disk, pending[p])
    BY <1>1, <1>5 DEF IInv, RowsInv, InSync
  <2>2. Extended(Extended(Disk, pending[p]), <<e>>) = Extended(Disk, pending[p] \o <<e>>)
    BY <1>2, ExtendedTwice
  <2> QED BY <1>3, <1>4, <2>1, <2>2
<1>6. mem'[p] \in Memory
  BY <1>2, <1>4, ExtendedIs
<1> QED BY <1>2, <1>3, <1>5, <1>6

\* A deprecation flags the row that the caller saw, and nothing else.
LEMMA EditDoes ==
  ASSUME Undisturbed, IInv, NEW p \in Proc, NEW i \in DOMAIN mem[p].meta, EditRow(p, i)
  PROVE  /\ i \in DOMAIN meta /\ pending[p] = <<>> /\ p \in Editors
         /\ meta' = Flagged(meta, i)
         /\ mem'[p] \in Memory /\ mem'[p].index = index /\ mem'[p].meta = meta'
         /\ \A q \in Proc : q # p => mem'[q] = mem[q]
         /\ chosen' = chosen \cup {meta[i].entry}
         /\ stamp' = [stamp EXCEPT !.meta = Tick]
<1>1. TypeOK /\ pc[p] = "idle" /\ p \in Editors
  BY DEF IInv, RowsInv, EditRow
<1>2. pending[p] = <<>> /\ i \in DOMAIN meta /\ mem[p].meta[i].entry = meta[i].entry
  BY <1>1 DEF IInv, RowsInv, RowsStay
<1>3. Disk \in Memory /\ mem[p] \in Memory /\ <<>> \in Seq(Entry)
  BY <1>1, Types
<1>4. Synced(p, <<>>) = Disk
  <2>1. CASE stamp = synced[p]
    <3>1. mem[p] = Extended(Disk, <<>>)
      BY <1>1, <1>2, <2>1 DEF IInv, RowsInv, InSync
    <3> QED BY <1>3, <2>1, <3>1, ExtendedIs DEF Synced
  <2>2. CASE stamp # synced[p]
    <3>1. <<>> \o <<>> = <<>>
      BY ConcatEmptySeq, <1>3
    <3>2. Synced(p, <<>>) = Extended(Disk, <<>>)
      BY <1>2, <2>2, <3>1 DEF Synced, Disk
    <3>3. Extended(Disk, <<>>) = Disk
      BY <1>3, ExtendedIs
    <3> QED BY <3>2, <3>3
  <2> QED BY <2>1, <2>2
<1>5. PICK d : d = Disk /\ d.index = index /\ d.meta = meta /\ d \in Memory
  BY <1>3 DEF Disk
<1>6. /\ mem' = [mem EXCEPT ![p] = [d EXCEPT !.meta[i].dead = TRUE]]
      /\ meta' = mem'[p].meta
      /\ stamp' = [stamp EXCEPT !.meta = Tick]
      /\ chosen' = chosen \cup {meta[i].entry}
  BY <1>2, <1>4, <1>5 DEF EditRow
<1>7. mem'[p] = [d EXCEPT !.meta[i].dead = TRUE] /\ \A q \in Proc : q # p => mem'[q] = mem[q]
  BY <1>1, <1>6 DEF TypeOK
<1>8. mem'[p].meta = Flagged(meta, i) /\ mem'[p].index = index
  BY <1>5, <1>7 DEF Memory, Flagged
<1>9. mem'[p] \in Memory
  <2>1. meta' \in Seq(Row)
    BY <1>1, <1>2, <1>6, <1>8, Types, FlaggedIs
  <2>2. mem'[p] = [index |-> index, meta |-> meta']
    BY <1>5, <1>6, <1>7, <1>8 DEF Memory
  <2> QED BY <1>1, <2>1, <2>2, Types DEF Memory
<1> QED BY <1>1, <1>2, <1>6, <1>7, <1>8, <1>9

LEMMA EditKeeps ==
  ASSUME Undisturbed, IInv, NEW p \in Proc, NEW i \in DOMAIN mem[p].meta, EditRow(p, i)
  PROVE  /\ meta' \in Seq(Row) /\ Len(meta') = Len(meta) /\ DOMAIN meta' = DOMAIN meta
         /\ meta'[i].dead /\ EntriesOf(meta') = EntriesOf(meta)
         /\ \A j \in DOMAIN meta :
              meta'[j].entry = meta[j].entry /\ (j # i => meta'[j] = meta[j])
<1>1. i \in DOMAIN meta /\ meta' = Flagged(meta, i)
  BY EditDoes
<1>2. meta \in Seq(Row)
  BY Types DEF IInv, RowsInv
<1>3. /\ meta' \in Seq(Row) /\ Len(meta') = Len(meta) /\ DOMAIN meta' = DOMAIN meta
      /\ meta'[i].dead
      /\ \A j \in DOMAIN meta :
           meta'[j].entry = meta[j].entry /\ (j # i => meta'[j] = meta[j])
  BY <1>1, <1>2, FlaggedIs
<1> QED BY <1>2, <1>3, EntriesFlagged

\* A save appends the rows of the unsaved adds, which are fresh.
LEMMA SaveDoes ==
  ASSUME IInv, NEW p \in Proc, SaveMeta(p)
  PROVE  /\ meta' = mem[p].meta /\ meta' = meta \o RowsOf(pending[p])
         /\ mem[p].index = index /\ mem[p] \in Memory
         /\ Len(meta') = Len(meta) + Len(pending[p]) /\ Len(meta') <= Len(index)
         /\ DOMAIN meta = 1 .. Len(meta) /\ DOMAIN pending[p] = 1 .. Len(pending[p])
         /\ Len(meta) \in Nat /\ Len(pending[p]) \in Nat
         /\ DOMAIN meta' = 1 .. Len(meta) + Len(pending[p])
         /\ \A i \in DOMAIN meta : meta'[i] = meta[i]
         /\ \A i \in DOMAIN pending[p] :
              /\ meta'[Len(meta) + i].entry = pending[p][i]
              /\ ~meta'[Len(meta) + i].dead
         /\ ~torn => index = EntriesOf(meta')
<1>1. TypeOK /\ pc[p] = "meta"
  BY DEF IInv, RowsInv, SaveMeta
<1>2. /\ meta \in Seq(Row) /\ pending[p] \in Seq(Entry) /\ mem[p] \in Memory
      /\ index \in Seq(Entry)
  BY <1>1, Types
<1>3. /\ mem[p].index = index /\ mem[p].meta = meta \o RowsOf(pending[p])
      /\ Len(mem[p].meta) <= Len(index)
      /\ ~torn => index = EntriesOf(meta) \o pending[p]
  BY <1>1 DEF IInv, RowsInv, Saving
<1>4. PICK r \in Seq(Row) :
        /\ r = RowsOf(pending[p]) /\ Len(r) = Len(pending[p])
        /\ \A i \in DOMAIN pending[p] : r[i].entry = pending[p][i] /\ ~r[i].dead
  BY <1>2, RowsOfIs
<1>5. meta' = mem[p].meta
  BY DEF SaveMeta
<1>6. /\ Len(meta \o r) = Len(meta) + Len(r) /\ DOMAIN (meta \o r) = 1 .. Len(meta) + Len(r)
      /\ \A i \in 1 .. Len(meta) : (meta \o r)[i] = meta[i]
      /\ \A i \in 1 .. Len(r) : (meta \o r)[Len(meta) + i] = r[i]
  BY <1>2, RowsJoined
<1>7. /\ DOMAIN meta = 1 .. Len(meta) /\ Len(meta) \in Nat
      /\ DOMAIN pending[p] = 1 .. Len(pending[p]) /\ Len(pending[p]) \in Nat
  BY <1>2
<1>8. meta' = meta \o r
  BY <1>3, <1>4, <1>5
<1>9. EntriesOf(meta') = EntriesOf(meta) \o pending[p]
  BY <1>2, <1>3, <1>5, EntriesOfConcat
<1>10. ~torn => index = EntriesOf(meta')
  BY <1>3, <1>9
<1>11. \A i \in DOMAIN pending[p] :
         meta'[Len(meta) + i].entry = pending[p][i] /\ ~meta'[Len(meta) + i].dead
  BY <1>4, <1>6, <1>7, <1>8
<1>12. /\ DOMAIN meta' = 1 .. Len(meta) + Len(pending[p])
       /\ Len(meta') = Len(meta) + Len(pending[p])
       /\ \A i \in DOMAIN meta : meta'[i] = meta[i]
  BY <1>4, <1>6, <1>7, <1>8
<1> QED BY <1>2, <1>3, <1>5, <1>7, <1>10, <1>11, <1>12

\* Nobody has taken the stamp of a write.
LEMMA NewStamp ==
  ASSUME IInv,
         stamp' = [stamp EXCEPT !.index = Tick] \/ stamp' = [stamp EXCEPT !.meta = Tick]
  PROVE  \A q \in Proc : synced[q] # stamp' /\ taken[q] # stamp'
<1>1. TypeOK /\ Stamped
  BY DEF IInv, RowsInv
<1>2. stamp \in Stamp /\ \A q \in Proc : synced[q] \in Stamp /\ taken[q] \in Stamp
  BY <1>1 DEF TypeOK
<1>3. \A s \in Stamp : s.index <= Newest(stamp) /\ s.meta <= Newest(stamp) => s # stamp'
  BY <1>2, Ticks
<1>4. \A q \in Proc :
        /\ synced[q].index <= Newest(stamp) /\ synced[q].meta <= Newest(stamp)
        /\ taken[q].index <= Newest(stamp) /\ taken[q].meta <= Newest(stamp)
  BY <1>1 DEF Stamped
<1> QED BY <1>2, <1>3, <1>4

\* The lock keeps everybody else out of a save.
LEMMA OneSaves ==
  ASSUME IInv
  PROVE  /\ \A p, q \in Proc : pc[p] \in {"index", "meta"} /\ q # p =>
              pc[q] \notin {"index", "meta"}
         /\ lock = None => \A q \in Proc : pc[q] \notin {"index", "meta"}
BY NoneAssumption DEF IInv, RowsInv, Saving

\* Between its two writes a save has the rows of its adds behind, each with a vector.
LEMMA IndexDoes ==
  ASSUME IInv, NEW p \in Proc, SaveIndex(p)
  PROVE  /\ index' = mem[p].index /\ mem[p].index = index \o pending[p]
         /\ mem[p].meta = meta \o RowsOf(pending[p])
         /\ Len(meta) <= Len(mem[p].meta) /\ Len(mem[p].meta) <= Len(index')
         /\ Len(meta) <= Len(index')
         /\ ~torn => index' = EntriesOf(meta) \o pending[p]
<1>1. TypeOK /\ pc[p] = "index" /\ index' = mem[p].index
  BY DEF IInv, RowsInv, SaveIndex
<1>2. /\ Disk \in Memory /\ pending[p] \in Seq(Entry) /\ index \in Seq(Entry)
      /\ meta \in Seq(Row)
  BY <1>1, Types
<1>3. mem[p] = Extended(Disk, pending[p])
  BY <1>1 DEF IInv, RowsInv, Saving
<1>4. mem[p].index = index \o pending[p] /\ mem[p].meta = meta \o RowsOf(pending[p])
  BY <1>3 DEF Disk, Extended
<1>5. PICK r \in Seq(Row) : r = RowsOf(pending[p]) /\ Len(r) = Len(pending[p])
  BY <1>2, RowsOfIs
<1>6. Len(index \o pending[p]) = Len(index) + Len(pending[p])
  <2>1. \A x, y \in Seq(Entry) : Len(x \o y) = Len(x) + Len(y)
    BY EntriesJoined
  <2> QED BY <1>2, <2>1
<1>7. Len(meta \o r) = Len(meta) + Len(pending[p])
  <2>1. \A x, y \in Seq(Row) : Len(x \o y) = Len(x) + Len(y)
    BY RowsJoined
  <2> QED BY <1>2, <1>5, <2>1
<1>8. Len(meta) <= Len(index) /\ Len(meta) \in Nat /\ Len(index) \in Nat /\ Len(pending[p]) \in Nat
  BY <1>2 DEF IInv, RowsInv, Rest
<1>9. ~torn => index = EntriesOf(meta)
  <2>1. \A q \in Proc : pc[q] # "meta"
    BY <1>1, OneSaves
  <2> QED BY <2>1 DEF IInv, RowsInv, Rest
<1>10. /\ Len(mem[p].index) = Len(index) + Len(pending[p])
       /\ Len(mem[p].meta) = Len(meta) + Len(pending[p])
  BY <1>4, <1>5, <1>6, <1>7
<1>11. /\ Len(meta) <= Len(mem[p].meta) /\ Len(mem[p].meta) <= Len(mem[p].index)
       /\ Len(meta) <= Len(mem[p].index)
  BY <1>8, <1>10
<1> QED BY <1>1, <1>4, <1>9, <1>11

\* A fresh memory among the unsaved adds is in no other place.
LEMMA FreshPlace ==
  ASSUME TypeOK, OnePlace, NEW p \in Proc, NEW e \in Entry, e \notin issued,
         meta' = meta, issued' = issued \cup {e},
         pending' = [pending EXCEPT ![p] = Append(@, e)]
  PROVE  OnePlace'
<1>1. /\ pending'[p] = Append(pending[p], e) /\ pending[p] \in Seq(Entry)
      /\ \A q \in Proc : q # p => pending'[q] = pending[q]
  BY DEF TypeOK
<1>2. /\ Len(pending[p]) \in Nat /\ DOMAIN pending[p] = 1 .. Len(pending[p])
      /\ DOMAIN pending'[p] = 1 .. Len(pending[p]) + 1
      /\ pending'[p][Len(pending[p]) + 1] = e
      /\ \A i \in 1 .. Len(pending[p]) : pending'[p][i] = pending[p][i]
  BY <1>1
<1>3. \A i \in DOMAIN pending'[p] : i \in DOMAIN pending[p] \/ i = Len(pending[p]) + 1
  BY <1>2
<1>4. ASSUME NEW q \in Proc, NEW i \in DOMAIN pending'[q]
      PROVE  \/ i \in DOMAIN pending[q] /\ pending'[q][i] = pending[q][i]
             \/ q = p /\ i = Len(pending[p]) + 1 /\ pending'[q][i] = e
  BY <1>1, <1>2, <1>3
<1>5. /\ \A q \in Proc : \A i \in DOMAIN pending[q] : pending[q][i] # e
      /\ \A i \in DOMAIN meta : meta[i].entry # e
  BY DEF OnePlace
<1> QED BY <1>4, <1>5 DEF OnePlace

\* Who edits rows in place moves no memory, and no row that somebody saw.
LEMMA SamePlace ==
  ASSUME OnePlace, DOMAIN meta' = DOMAIN meta, UNCHANGED <<pending, issued>>,
         \A j \in DOMAIN meta : meta'[j].entry = meta[j].entry
  PROVE  OnePlace'
<1>1. pending' = pending /\ issued' = issued
  OBVIOUS
<1> QED BY <1>1 DEF OnePlace

LEMMA SameRows ==
  ASSUME RowsStay, DOMAIN meta' = DOMAIN meta, UNCHANGED <<pending, pc>>,
         \A j \in DOMAIN meta : meta'[j].entry = meta[j].entry,
         NEW p \in Proc, pending[p] = <<>>, mem'[p].meta = meta',
         \A q \in Proc : q # p => mem'[q] = mem[q]
  PROVE  RowsStay'
<1>1. pending' = pending /\ pc' = pc
  OBVIOUS
<1> SUFFICES ASSUME NEW q \in Editors, pc[q] \notin {"index", "meta"}
             PROVE  /\ pending[q] = <<>>
                    /\ \A i \in DOMAIN mem'[q].meta :
                         i \in DOMAIN meta' /\ mem'[q].meta[i].entry = meta'[i].entry
  BY <1>1 DEF RowsStay
<1>2. CASE q = p
  BY <1>2
<1>3. CASE q # p
  <2>1. mem'[q] = mem[q]
    BY <1>3, RolesAssumption
  <2> QED BY <2>1 DEF RowsStay
<1> QED BY <1>2, <1>3

\* Every step keeps the types.
LEMMA TypeStep == Undisturbed /\ IInv /\ [Next]_vars => TypeOK'
<1> SUFFICES ASSUME Undisturbed /\ IInv, [Next]_vars PROVE TypeOK'
  OBVIOUS
<1> USE DEF IInv, RowsInv, TypeOK, PC, NoStamp, Nothing, disk, self, history
<1>0. CASE UNCHANGED vars
  BY <1>0 DEF vars, disk, self, history
<1>1. ASSUME NEW p \in Proc, Open(p) PROVE TypeOK'
  BY <1>1 DEF Open, BeginRead
<1>2. ASSUME NEW p \in Proc, Reload(p) PROVE TypeOK'
  BY <1>2 DEF Reload, BeginRead
<1>3. ASSUME NEW p \in Proc, ReadIndex(p) PROVE TypeOK'
  <2>1. mem' \in [Proc -> Memory]
    BY <1>3 DEF ReadIndex, Memory
  <2> QED BY <1>3, <2>1 DEF ReadIndex
<1>4. ASSUME NEW p \in Proc, ReadMeta(p) PROVE TypeOK'
  <2>1. mem' \in [Proc -> Memory]
    BY <1>4 DEF ReadMeta, Memory
  <2>2. Newest(taken[p]) \in Nat
    BY DEF Newest, Stamp
  <2> QED BY <1>4, <2>1, <2>2 DEF ReadMeta, Stamp
<1>5. ASSUME NEW p \in Proc, NEW e \in Entry, Add(p, e) PROVE TypeOK'
  <2>1. pending' \in [Proc -> Seq(Entry)] /\ mem' \in [Proc -> Memory]
    <3>1. pending'[p] \in Seq(Entry) /\ mem'[p] \in Memory
      BY <1>5, AddDoes
    <3> QED BY <1>5, <3>1 DEF Add
  <2>2. Newest(stamp) \in Nat
    BY DEF Newest, Stamp
  <2> QED BY <1>5, <2>1, <2>2 DEF Add
<1>6. ASSUME NEW p \in Proc, NEW e \in Entry, AddFails(p, e) PROVE TypeOK'
  <2>1. pending' \in [Proc -> Seq(Entry)] /\ mem' \in [Proc -> Memory]
    <3>1. pending'[p] \in Seq(Entry) /\ mem'[p] \in Memory
      BY <1>6, AddFailsDoes
    <3> QED BY <1>6, <3>1 DEF AddFails
  <2> QED BY <1>6, <2>1 DEF AddFails
<1>7. ASSUME NEW p \in Proc, SaveIndex(p) PROVE TypeOK'
  <2>1. stamp' \in Stamp
    BY <1>7, Ticks DEF SaveIndex
  <2>2. index' \in Seq(Entry)
    BY <1>7, Types DEF SaveIndex
  <2> QED BY <1>7, <2>1, <2>2 DEF SaveIndex
<1>8. ASSUME NEW p \in Proc, SaveMeta(p) PROVE TypeOK'
  <2>1. stamp' \in Stamp
    BY <1>8, Ticks DEF SaveMeta
  <2>2. meta' \in Seq(Row)
    BY <1>8, Types DEF SaveMeta
  <2>3. stored' \subseteq Entry
    <3>1. pending[p] \in Seq(Entry)
      OBVIOUS
    <3>2. Range(pending[p]) \subseteq Entry
      BY <3>1 DEF Range
    <3> QED BY <1>8, <3>2 DEF SaveMeta
  <2>4. /\ synced' \in [Proc -> Stamp] /\ pending' \in [Proc -> Seq(Entry)]
        /\ pc' \in [Proc -> PC] /\ lock' \in Proc \cup {None}
    BY <1>8, <2>1 DEF SaveMeta
  <2> QED BY <1>8, <2>1, <2>2, <2>3, <2>4 DEF SaveMeta
<1>9. ASSUME NEW p \in Proc, SaveLoaded(p) PROVE TypeOK'
  <2>1. Newest(stamp) \in Nat
    BY DEF Newest, Stamp
  <2> QED BY <1>9, <2>1 DEF SaveLoaded
<1>10. ASSUME NEW p \in Proc, NEW i \in DOMAIN mem[p].meta, EditRow(p, i) PROVE TypeOK'
  <2>1. /\ i \in DOMAIN meta /\ meta' = Flagged(meta, i)
        /\ mem'[p] \in Memory /\ stamp' = [stamp EXCEPT !.meta = Tick]
        /\ chosen' = chosen \cup {meta[i].entry}
    BY <1>10, EditDoes
  <2>2. meta' \in Seq(Row)
    BY <2>1, FlaggedIs
  <2>3. stamp' \in Stamp
    BY <2>1, Ticks
  <2>4. chosen' \subseteq Entry
    <3>1. meta[i] \in Row
      BY <2>1
    <3> QED BY <2>1, <3>1 DEF Row
  <2>5. mem' \in [Proc -> Memory]
    BY <1>10, <2>1 DEF EditRow
  <2>6. Newest(stamp) \in Nat
    BY DEF Newest, Stamp
  <2>7. synced' \in [Proc -> Stamp] /\ loaded' \in [Proc -> Nat]
    BY <1>10, <2>3, <2>6 DEF EditRow
  <2> QED BY <1>10, <2>2, <2>3, <2>4, <2>5, <2>7 DEF EditRow
<1>11. ASSUME NEW p \in Proc, Prune(p) PROVE TypeOK'
  BY <1>11 DEF Undisturbed, Prune, PruneRead, PruneIndex, PruneMeta
<1>12. ASSUME NEW p \in Proc, Crash(p) PROVE TypeOK'
  <2>1. NoStamp \in Stamp /\ Nothing \in Memory
    BY DEF Stamp, Memory
  <2> QED BY <1>12, <2>1 DEF Crash
<1> QED
  BY <1>0, <1>1, <1>2, <1>3, <1>4, <1>5, <1>6, <1>7, <1>8, <1>9, <1>10, <1>11,
     <1>12 DEF Next, Load, Save

\* A stamp that was taken is older than the next write.
LEMMA StampedStep == Undisturbed /\ IInv /\ [Next]_vars => Stamped'
<1> SUFFICES ASSUME Undisturbed /\ IInv, [Next]_vars PROVE Stamped'
  OBVIOUS
<1>a. /\ TypeOK /\ Stamped
      /\ stamp \in Stamp /\ synced \in [Proc -> Stamp] /\ taken \in [Proc -> Stamp]
  BY DEF IInv, RowsInv, TypeOK
<1> USE <1>a DEF Stamped, disk, self, history
<1>0. CASE UNCHANGED vars
  BY <1>0 DEF vars, disk, self, history
<1>1. ASSUME NEW p \in Proc, Open(p) PROVE Stamped'
  <2>1. stamp.index <= Newest(stamp) /\ stamp.meta <= Newest(stamp)
    BY DEF Newest, Stamp
  <2>2. /\ stamp' = stamp /\ taken'[p] = stamp /\ synced' = synced
        /\ \A q \in Proc : q # p => taken'[q] = taken[q]
    BY <1>1 DEF Open, BeginRead
  <2> QED BY <2>1, <2>2
<1>2. ASSUME NEW p \in Proc, Reload(p) PROVE Stamped'
  <2>1. stamp.index <= Newest(stamp) /\ stamp.meta <= Newest(stamp)
    BY DEF Newest, Stamp
  <2>2. /\ stamp' = stamp /\ taken'[p] = stamp /\ synced' = synced
        /\ \A q \in Proc : q # p => taken'[q] = taken[q]
    BY <1>2 DEF Reload, BeginRead
  <2> QED BY <2>1, <2>2
<1>3. ASSUME NEW p \in Proc, ReadIndex(p) PROVE Stamped'
  BY <1>3 DEF ReadIndex
<1>4. ASSUME NEW p \in Proc, ReadMeta(p) PROVE Stamped'
  <2>1. /\ stamp.index \in Nat /\ stamp.meta \in Nat
        /\ NoStamp.index <= Newest(stamp) /\ NoStamp.meta <= Newest(stamp)
    BY DEF Newest, Stamp, NoStamp
  <2>2. /\ stamp' = stamp /\ synced'[p] = taken[p] /\ taken'[p] = NoStamp
        /\ \A q \in Proc : q # p => synced'[q] = synced[q] /\ taken'[q] = taken[q]
    BY <1>4 DEF ReadMeta
  <2> QED BY <2>1, <2>2
<1>5. ASSUME NEW p \in Proc, NEW e \in Entry, Add(p, e) PROVE Stamped'
  <2>1. stamp.index <= Newest(stamp) /\ stamp.meta <= Newest(stamp)
    BY DEF Newest, Stamp
  <2>2. /\ stamp' = stamp /\ synced'[p] = stamp /\ taken' = taken
        /\ \A q \in Proc : q # p => synced'[q] = synced[q]
    BY <1>5 DEF Add
  <2> QED BY <2>1, <2>2
<1>6. ASSUME NEW p \in Proc, NEW e \in Entry, AddFails(p, e) PROVE Stamped'
  BY <1>6 DEF AddFails
<1>7. ASSUME NEW p \in Proc, SaveIndex(p) PROVE Stamped'
  <2>1. Newest(stamp') = Newest(stamp) + 1 /\ Newest(stamp) \in Nat
    BY <1>7, Ticks DEF SaveIndex
  <2>2. synced' = synced /\ taken' = taken
    BY <1>7 DEF SaveIndex
  <2>3. \A q \in Proc :
          /\ synced[q].index \in Nat /\ synced[q].index <= Newest(stamp)
          /\ synced[q].meta \in Nat /\ synced[q].meta <= Newest(stamp)
          /\ taken[q].index \in Nat /\ taken[q].index <= Newest(stamp)
          /\ taken[q].meta \in Nat /\ taken[q].meta <= Newest(stamp)
    BY DEF Stamp
  <2> QED BY <2>1, <2>2, <2>3
<1>8. ASSUME NEW p \in Proc, SaveMeta(p) PROVE Stamped'
  <2>1. /\ Newest(stamp') = Newest(stamp) + 1 /\ Newest(stamp) \in Nat
        /\ stamp'.index <= Newest(stamp') /\ stamp'.meta <= Newest(stamp')
    BY <1>8, Ticks DEF SaveMeta
  <2>2. /\ synced'[p] = stamp' /\ taken' = taken
        /\ \A q \in Proc : q # p => synced'[q] = synced[q]
    BY <1>8 DEF SaveMeta
  <2>3. \A q \in Proc :
          /\ synced[q].index \in Nat /\ synced[q].index <= Newest(stamp)
          /\ synced[q].meta \in Nat /\ synced[q].meta <= Newest(stamp)
          /\ taken[q].index \in Nat /\ taken[q].index <= Newest(stamp)
          /\ taken[q].meta \in Nat /\ taken[q].meta <= Newest(stamp)
    BY DEF Stamp
  <2>4. ASSUME NEW q \in Proc, q # p PROVE
          \A s \in {synced'[q], taken'[q]} :
            s.index <= Newest(stamp') /\ s.meta <= Newest(stamp')
    BY <2>1, <2>2, <2>3, <2>4
  <2>5. \A s \in {synced'[p], taken'[p]} :
          s.index <= Newest(stamp') /\ s.meta <= Newest(stamp')
    <3>1. taken'[p].index <= Newest(stamp') /\ taken'[p].meta <= Newest(stamp')
      BY <2>1, <2>2, <2>3
    <3> QED BY <2>1, <2>2, <3>1
  <2> QED BY <2>4, <2>5
<1>9. ASSUME NEW p \in Proc, SaveLoaded(p) PROVE Stamped'
  BY <1>9 DEF SaveLoaded
<1>10. ASSUME NEW p \in Proc, NEW i \in DOMAIN mem[p].meta, EditRow(p, i) PROVE Stamped'
  <2>1. /\ Newest(stamp') = Newest(stamp) + 1 /\ Newest(stamp) \in Nat
        /\ stamp'.index <= Newest(stamp') /\ stamp'.meta <= Newest(stamp')
    BY <1>10, EditDoes, Ticks
  <2>2. /\ synced'[p] = stamp' /\ taken' = taken
        /\ \A q \in Proc : q # p => synced'[q] = synced[q]
    BY <1>10 DEF EditRow
  <2>3. \A q \in Proc :
          /\ synced[q].index \in Nat /\ synced[q].index <= Newest(stamp)
          /\ synced[q].meta \in Nat /\ synced[q].meta <= Newest(stamp)
          /\ taken[q].index \in Nat /\ taken[q].index <= Newest(stamp)
          /\ taken[q].meta \in Nat /\ taken[q].meta <= Newest(stamp)
    BY DEF Stamp
  <2>4. ASSUME NEW q \in Proc, q # p PROVE
          \A s \in {synced'[q], taken'[q]} :
            s.index <= Newest(stamp') /\ s.meta <= Newest(stamp')
    BY <2>1, <2>2, <2>3, <2>4
  <2>5. \A s \in {synced'[p], taken'[p]} :
          s.index <= Newest(stamp') /\ s.meta <= Newest(stamp')
    <3>1. taken'[p].index <= Newest(stamp') /\ taken'[p].meta <= Newest(stamp')
      BY <2>1, <2>2, <2>3
    <3> QED BY <2>1, <2>2, <3>1
  <2> QED BY <2>4, <2>5
<1>11. ASSUME NEW p \in Proc, Prune(p) PROVE Stamped'
  <2>1. p \notin Pruners
    BY DEF Undisturbed
  <2>2. pc[p] \in {"pruneIndex", "pruneMeta"} => p \in Pruners
    BY DEF TypeOK
  <2> QED BY <1>11, <2>1, <2>2 DEF Prune, PruneRead, PruneIndex, PruneMeta
<1>12. ASSUME NEW p \in Proc, Crash(p) PROVE Stamped'
  <2>1. /\ stamp.index \in Nat /\ stamp.meta \in Nat
        /\ NoStamp.index <= Newest(stamp) /\ NoStamp.meta <= Newest(stamp)
    BY DEF Newest, Stamp, NoStamp
  <2> QED BY <1>12, <2>1 DEF Crash
<1> QED
  BY <1>0, <1>1, <1>2, <1>3, <1>4, <1>5, <1>6, <1>7, <1>8, <1>9, <1>10, <1>11,
     <1>12 DEF Next, Load, Save

\* Who finds its stamp unchanged holds what the files hold.
LEMMA InSyncStep == Undisturbed /\ IInv /\ [Next]_vars => InSync'
<1> SUFFICES ASSUME Undisturbed /\ IInv, [Next]_vars PROVE InSync'
  OBVIOUS
<1> USE DEF IInv, RowsInv, TypeOK, PC, InSync, Disk, disk, self, history
<1>0. CASE UNCHANGED vars
  BY <1>0 DEF vars, disk, self, history
<1>1. ASSUME NEW p \in Proc, Open(p) PROVE InSync'
  BY <1>1 DEF Open, BeginRead
<1>2. ASSUME NEW p \in Proc, Reload(p) PROVE InSync'
  BY <1>2 DEF Reload, BeginRead
<1>3. ASSUME NEW p \in Proc, ReadIndex(p) PROVE InSync'
  <2>1. mem'[p].index = index /\ \A q \in Proc : q # p => mem'[q] = mem[q]
    BY <1>3 DEF ReadIndex, Memory
  <2> QED BY <1>3, <2>1 DEF ReadIndex
<1>4. ASSUME NEW p \in Proc, ReadMeta(p) PROVE InSync'
  <2>1. /\ mem'[p].index = mem[p].index /\ mem'[p].meta = meta /\ mem'[p] \in Memory
        /\ \A q \in Proc : q # p => mem'[q] = mem[q]
    BY <1>4 DEF ReadMeta, Memory
  <2>2. mem'[p] = [index |-> mem[p].index, meta |-> meta]
    BY <2>1 DEF Memory
  <2>3. pending[p] = <<>>
    BY <1>4 DEF ReadMeta, Saving
  <2>4. Extended(mem'[p], <<>>) = mem'[p]
    BY <2>1, ExtendedIs, EmptySeq
  <2>5. ASSUME synced'[p] = stamp PROVE mem'[p] = Extended([index |-> index, meta |-> meta], <<>>)
    <3>1. mem[p].index = index
      BY <1>4, <2>5 DEF ReadMeta
    <3> QED BY <2>2, <2>4, <3>1
  <2> QED BY <1>4, <2>1, <2>3, <2>5 DEF ReadMeta
<1>5. ASSUME NEW p \in Proc, NEW e \in Entry, Add(p, e) PROVE InSync'
  BY <1>5 DEF Add
<1>6. ASSUME NEW p \in Proc, NEW e \in Entry, AddFails(p, e) PROVE InSync'
  <2>1. synced[p] = stamp => mem'[p] = Extended(Disk, pending'[p])
    BY <1>6, AddFailsDoes
  <2> QED BY <1>6, <2>1 DEF AddFails
<1>7. ASSUME NEW p \in Proc, SaveIndex(p) PROVE InSync'
  <2>1. \A q \in Proc : synced[q] # stamp' /\ taken[q] # stamp'
    BY <1>7, NewStamp DEF SaveIndex
  <2> QED BY <1>7, <2>1 DEF SaveIndex
<1>8. ASSUME NEW p \in Proc, SaveMeta(p) PROVE InSync'
  <2>1. \A q \in Proc : synced[q] # stamp' /\ taken[q] # stamp'
    BY <1>8, NewStamp DEF SaveMeta
  <2>2. meta' = mem[p].meta /\ index = mem[p].index /\ mem[p] \in Memory
    BY <1>8, SaveDoes
  <2>3. Extended(mem[p], <<>>) = mem[p] /\ mem[p] = [index |-> index, meta |-> meta']
    BY <2>2, ExtendedIs, EmptySeq DEF Memory
  <2> QED BY <1>8, <2>1, <2>3 DEF SaveMeta
<1>9. ASSUME NEW p \in Proc, SaveLoaded(p) PROVE InSync'
  BY <1>9 DEF SaveLoaded
<1>10. ASSUME NEW p \in Proc, NEW i \in DOMAIN mem[p].meta, EditRow(p, i) PROVE InSync'
  <2>1. /\ mem'[p] \in Memory /\ mem'[p].index = index /\ mem'[p].meta = meta'
        /\ \A q \in Proc : q # p => mem'[q] = mem[q]
        /\ stamp' = [stamp EXCEPT !.meta = Tick] /\ pending[p] = <<>>
    BY <1>10, EditDoes
  <2>2. \A q \in Proc : synced[q] # stamp' /\ taken[q] # stamp'
    BY <2>1, NewStamp
  <2>3. Extended(mem'[p], <<>>) = mem'[p] /\ mem'[p] = [index |-> index, meta |-> meta']
    BY <2>1, ExtendedIs, EmptySeq DEF Memory
  <2> QED BY <1>10, <2>1, <2>2, <2>3 DEF EditRow
<1>11. ASSUME NEW p \in Proc, Prune(p) PROVE InSync'
  BY <1>11 DEF Undisturbed, Prune, PruneRead, PruneIndex, PruneMeta
<1>12. ASSUME NEW p \in Proc, Crash(p) PROVE InSync'
  BY <1>12 DEF Crash
<1> QED
  BY <1>0, <1>1, <1>2, <1>3, <1>4, <1>5, <1>6, <1>7, <1>8, <1>9, <1>10, <1>11,
     <1>12 DEF Next, Load, Save

\* The holder of the lock writes the files with its adds behind.
LEMMA SavingStep == Undisturbed /\ IInv /\ [Next]_vars => Saving'
<1> SUFFICES ASSUME Undisturbed /\ IInv, [Next]_vars PROVE Saving'
  OBVIOUS
<1> USE DEF IInv, RowsInv, TypeOK, PC, Saving, Disk, disk, self, history
<1>0. CASE UNCHANGED vars
  BY <1>0 DEF vars, disk, self, history
<1>1. ASSUME NEW p \in Proc, Open(p) PROVE Saving'
  BY <1>1 DEF Open, BeginRead
<1>2. ASSUME NEW p \in Proc, Reload(p) PROVE Saving'
  BY <1>2 DEF Reload, BeginRead
<1>3. ASSUME NEW p \in Proc, ReadIndex(p) PROVE Saving'
  BY <1>3 DEF ReadIndex
<1>4. ASSUME NEW p \in Proc, ReadMeta(p) PROVE Saving'
  BY <1>4 DEF ReadMeta
<1>5. ASSUME NEW p \in Proc, NEW e \in Entry, Add(p, e) PROVE Saving'
  <2>1. /\ mem'[p] = Extended(Disk, pending'[p])
        /\ \A q \in Proc : q # p => mem'[q] = mem[q] /\ pending'[q] = pending[q]
    BY <1>5, AddDoes DEF Add
  <2>2. \A q \in Proc : pc[q] \notin {"index", "meta"}
    BY <1>5, OneSaves DEF Add
  <2> QED BY <1>5, <2>1, <2>2, NoneAssumption DEF Add
<1>6. ASSUME NEW p \in Proc, NEW e \in Entry, AddFails(p, e) PROVE Saving'
  BY <1>6 DEF AddFails
<1>7. ASSUME NEW p \in Proc, SaveIndex(p) PROVE Saving'
  <2>1. \A q \in Proc : q # p => pc[q] \notin {"index", "meta"}
    BY <1>7, OneSaves DEF SaveIndex
  <2>2. /\ mem[p].meta = meta \o RowsOf(pending[p]) /\ Len(mem[p].meta) <= Len(index')
        /\ ~torn => index' = EntriesOf(meta) \o pending[p]
    BY <1>7, IndexDoes
  <2> QED BY <1>7, <2>1, <2>2 DEF SaveIndex
<1>8. ASSUME NEW p \in Proc, SaveMeta(p) PROVE Saving'
  <2>1. \A q \in Proc : q # p => pc[q] \notin {"index", "meta"}
    BY <1>8, OneSaves DEF SaveMeta
  <2> QED BY <1>8, <2>1, NoneAssumption DEF SaveMeta
<1>9. ASSUME NEW p \in Proc, SaveLoaded(p) PROVE Saving'
  BY <1>9 DEF SaveLoaded
<1>10. ASSUME NEW p \in Proc, NEW i \in DOMAIN mem[p].meta, EditRow(p, i) PROVE Saving'
  <2>1. \A q \in Proc : pc[q] \notin {"index", "meta"}
    BY <1>10, OneSaves DEF EditRow
  <2> QED BY <1>10, <2>1 DEF EditRow
<1>11. ASSUME NEW p \in Proc, Prune(p) PROVE Saving'
  BY <1>11 DEF Undisturbed, Prune, PruneRead, PruneIndex, PruneMeta
<1>12. ASSUME NEW p \in Proc, Crash(p) PROVE Saving'
  <2>1. pc[p] \in {"index", "meta"} => \A q \in Proc : q # p => pc[q] \notin {"index", "meta"}
    BY OneSaves
  <2> QED BY <1>12, <2>1, NoneAssumption DEF Crash
<1> QED
  BY <1>0, <1>1, <1>2, <1>3, <1>4, <1>5, <1>6, <1>7, <1>8, <1>9, <1>10, <1>11,
     <1>12 DEF Next, Load, Save

\* Vectors and rows correspond between two saves, and stored memories have rows.
LEMMA RestStep == Undisturbed /\ IInv /\ [Next]_vars => Rest'
<1> SUFFICES ASSUME Undisturbed /\ IInv, [Next]_vars PROVE Rest'
  OBVIOUS
<1> USE DEF IInv, RowsInv, TypeOK, PC, Rest, disk, self, history
<1>0. CASE UNCHANGED vars
  BY <1>0 DEF vars, disk, self, history
<1>1. ASSUME NEW p \in Proc, Open(p) PROVE Rest'
  BY <1>1 DEF Open, BeginRead
<1>2. ASSUME NEW p \in Proc, Reload(p) PROVE Rest'
  BY <1>2 DEF Reload, BeginRead
<1>3. ASSUME NEW p \in Proc, ReadIndex(p) PROVE Rest'
  BY <1>3 DEF ReadIndex
<1>4. ASSUME NEW p \in Proc, ReadMeta(p) PROVE Rest'
  BY <1>4 DEF ReadMeta
<1>5. ASSUME NEW p \in Proc, NEW e \in Entry, Add(p, e) PROVE Rest'
  BY <1>5 DEF Add
<1>6. ASSUME NEW p \in Proc, NEW e \in Entry, AddFails(p, e) PROVE Rest'
  BY <1>6 DEF AddFails
<1>7. ASSUME NEW p \in Proc, SaveIndex(p) PROVE Rest'
  <2>1. Len(meta) <= Len(index')
    BY <1>7, IndexDoes
  <2> QED BY <1>7, <2>1 DEF SaveIndex
<1>8. ASSUME NEW p \in Proc, SaveMeta(p) PROVE Rest'
  <2>1. /\ Len(meta') <= Len(index) /\ (~torn => index = EntriesOf(meta'))
        /\ UNCHANGED <<index, torn>> /\ stored' = stored \cup Range(pending[p])
    BY <1>8, SaveDoes DEF SaveMeta
  <2>2. ASSUME NEW e \in stored' PROVE \E i \in DOMAIN meta' : meta'[i].entry = e
    <3>0. /\ DOMAIN meta = 1 .. Len(meta) /\ DOMAIN pending[p] = 1 .. Len(pending[p])
          /\ Len(meta) \in Nat /\ Len(pending[p]) \in Nat
          /\ DOMAIN meta' = 1 .. Len(meta) + Len(pending[p])
          /\ \A i \in DOMAIN meta : meta'[i] = meta[i]
          /\ \A i \in DOMAIN pending[p] : meta'[Len(meta) + i].entry = pending[p][i]
      BY <1>8, SaveDoes
    <3>1. CASE e \in stored
      <4>1. PICK i \in DOMAIN meta : meta[i].entry = e
        BY <3>1
      <4>2. i \in DOMAIN meta' /\ meta'[i].entry = e
        BY <3>0, <4>1
      <4> QED BY <4>2
    <3>2. CASE e \in Range(pending[p])
      <4>1. PICK i \in DOMAIN pending[p] : pending[p][i] = e
        BY <3>2 DEF Range
      <4>2. Len(meta) + i \in DOMAIN meta' /\ meta'[Len(meta) + i].entry = e
        BY <3>0, <4>1
      <4> QED BY <4>2
    <3> QED BY <2>1, <3>1, <3>2
  <2> QED BY <2>1, <2>2
<1>9. ASSUME NEW p \in Proc, SaveLoaded(p) PROVE Rest'
  BY <1>9 DEF SaveLoaded
<1>10. ASSUME NEW p \in Proc, NEW i \in DOMAIN mem[p].meta, EditRow(p, i) PROVE Rest'
  <2>1. /\ Len(meta') = Len(meta) /\ DOMAIN meta' = DOMAIN meta
        /\ EntriesOf(meta') = EntriesOf(meta)
        /\ \A j \in DOMAIN meta : meta'[j].entry = meta[j].entry
    BY <1>10, EditKeeps
  <2>2. UNCHANGED <<index, stored, torn, pc>>
    BY <1>10 DEF EditRow
  <2> QED BY <2>1, <2>2
<1>11. ASSUME NEW p \in Proc, Prune(p) PROVE Rest'
  BY <1>11 DEF Undisturbed, Prune, PruneRead, PruneIndex, PruneMeta
<1>12. ASSUME NEW p \in Proc, Crash(p) PROVE Rest'
  BY <1>12 DEF Crash
<1> QED
  BY <1>0, <1>1, <1>2, <1>3, <1>4, <1>5, <1>6, <1>7, <1>8, <1>9, <1>10, <1>11,
     <1>12 DEF Next, Load, Save

\* A memory stays in one place.
LEMMA OnePlaceStep == Undisturbed /\ IInv /\ [Next]_vars => OnePlace'
<1> SUFFICES ASSUME Undisturbed /\ IInv, [Next]_vars PROVE OnePlace'
  OBVIOUS
<1> USE DEF IInv, RowsInv, TypeOK, OnePlace, disk, self, history
<1>0. CASE UNCHANGED vars
  BY <1>0 DEF vars, disk, self, history
<1>1. ASSUME NEW p \in Proc, Open(p) PROVE OnePlace'
  BY <1>1 DEF Open, BeginRead
<1>2. ASSUME NEW p \in Proc, Reload(p) PROVE OnePlace'
  BY <1>2 DEF Reload, BeginRead
<1>3. ASSUME NEW p \in Proc, ReadIndex(p) PROVE OnePlace'
  BY <1>3 DEF ReadIndex
<1>4. ASSUME NEW p \in Proc, ReadMeta(p) PROVE OnePlace'
  BY <1>4 DEF ReadMeta
<1>5. ASSUME NEW p \in Proc, NEW e \in Entry, Add(p, e) PROVE OnePlace'
  BY <1>5, FreshPlace DEF Add
<1>6. ASSUME NEW p \in Proc, NEW e \in Entry, AddFails(p, e) PROVE OnePlace'
  BY <1>6, FreshPlace DEF AddFails
<1>7. ASSUME NEW p \in Proc, SaveIndex(p) PROVE OnePlace'
  BY <1>7 DEF SaveIndex
<1>8. ASSUME NEW p \in Proc, SaveMeta(p) PROVE OnePlace'
  <2>0. /\ \A k, l \in DOMAIN meta : meta[k].entry = meta[l].entry => k = l
        /\ \A k \in DOMAIN pending[p] : \A l \in DOMAIN meta : meta[l].entry # pending[p][k]
        /\ \A k, l \in DOMAIN pending[p] : pending[p][k] = pending[p][l] => k = l
    OBVIOUS
  <2>1. /\ DOMAIN meta = 1 .. Len(meta) /\ DOMAIN pending[p] = 1 .. Len(pending[p])
        /\ Len(meta) \in Nat /\ Len(pending[p]) \in Nat
        /\ DOMAIN meta' = 1 .. Len(meta) + Len(pending[p])
        /\ \A i \in DOMAIN meta : meta'[i] = meta[i]
        /\ \A i \in DOMAIN pending[p] :
             meta'[Len(meta) + i].entry = pending[p][i] /\ ~meta'[Len(meta) + i].dead
    BY <1>8, SaveDoes
  <2>2. ASSUME NEW j \in DOMAIN meta'
        PROVE  \/ j \in DOMAIN meta /\ meta'[j] = meta[j]
               \/ \E k \in DOMAIN pending[p] :
                    j = Len(meta) + k /\ meta'[j].entry = pending[p][k] /\ ~meta'[j].dead
    <3>1. CASE j \in 1 .. Len(meta)
      BY <2>1, <3>1
    <3>2. CASE j \notin 1 .. Len(meta)
      <4>1. j - Len(meta) \in DOMAIN pending[p] /\ j = Len(meta) + (j - Len(meta))
        BY <2>1, <3>2
      <4> QED BY <2>1, <4>1
    <3> QED BY <3>1, <3>2
  <2>3. /\ pending'[p] = <<>> /\ issued' = issued
        /\ \A q \in Proc : q # p => pending'[q] = pending[q]
    BY <1>8 DEF SaveMeta
  <2>4. \A q \in Proc : \A i \in DOMAIN pending'[q] : q # p /\ pending'[q] = pending[q]
    BY <2>3, EmptySeq
  <2>5. ASSUME NEW i \in DOMAIN meta', NEW j \in DOMAIN meta', meta'[i].entry = meta'[j].entry
        PROVE  i = j
    <3>1. CASE i \in DOMAIN meta
      <4>1. j \in DOMAIN meta /\ meta'[i] = meta[i] /\ meta'[j] = meta[j]
        BY <2>0, <2>1, <2>2, <2>5, <3>1
      <4> QED BY <2>0, <2>5, <3>1, <4>1
    <3>2. CASE i \notin DOMAIN meta
      <4>1. PICK k \in DOMAIN pending[p] : i = Len(meta) + k /\ meta'[i].entry = pending[p][k]
        BY <2>2, <3>2
      <4>2. j \notin DOMAIN meta
        BY <2>0, <2>1, <2>5, <4>1
      <4>3. PICK l \in DOMAIN pending[p] : j = Len(meta) + l /\ meta'[j].entry = pending[p][l]
        BY <2>2, <4>2
      <4> QED BY <2>0, <2>5, <4>1, <4>3
    <3> QED BY <3>1, <3>2
  <2>6. \A i \in DOMAIN meta' : meta'[i].entry \in issued
    BY <2>2
  <2>7. ASSUME NEW q \in Proc, NEW i \in DOMAIN pending'[q], NEW j \in DOMAIN meta'
        PROVE  meta'[j].entry # pending'[q][i]
    <3>1. i \in DOMAIN pending[q] /\ pending'[q][i] = pending[q][i] /\ q # p
      BY <2>4
    <3>2. \A k \in DOMAIN pending[p] : pending[p][k] # pending[q][i]
      BY <3>1
    <3>3. \A k \in DOMAIN meta : meta[k].entry # pending[q][i]
      BY <3>1
    <3>4. CASE j \in DOMAIN meta /\ meta'[j] = meta[j]
      BY <3>1, <3>3, <3>4
    <3>5. CASE \E k \in DOMAIN pending[p] : meta'[j].entry = pending[p][k]
      BY <3>1, <3>2, <3>5
    <3> QED BY <2>2, <3>4, <3>5
  <2> QED BY <2>3, <2>4, <2>5, <2>6, <2>7
<1>9. ASSUME NEW p \in Proc, SaveLoaded(p) PROVE OnePlace'
  BY <1>9 DEF SaveLoaded
<1>10. ASSUME NEW p \in Proc, NEW i \in DOMAIN mem[p].meta, EditRow(p, i) PROVE OnePlace'
  <2>1. /\ DOMAIN meta' = DOMAIN meta
        /\ \A j \in DOMAIN meta : meta'[j].entry = meta[j].entry
    BY <1>10, EditKeeps
  <2>2. UNCHANGED <<pending, issued>>
    BY <1>10 DEF EditRow
  <2> QED BY <2>1, <2>2, SamePlace
<1>11. ASSUME NEW p \in Proc, Prune(p) PROVE OnePlace'
  BY <1>11 DEF Undisturbed, Prune, PruneRead, PruneIndex, PruneMeta
<1>12. ASSUME NEW p \in Proc, Crash(p) PROVE OnePlace'
  <2>1. /\ pending'[p] = <<>> /\ UNCHANGED <<meta, issued>>
        /\ \A q \in Proc : q # p => pending'[q] = pending[q]
    BY <1>12 DEF Crash
  <2>2. \A q \in Proc : \A i \in DOMAIN pending'[q] : pending'[q] = pending[q]
    BY <2>1, EmptySeq
  <2> QED BY <2>1, <2>2
<1> QED
  BY <1>0, <1>1, <1>2, <1>3, <1>4, <1>5, <1>6, <1>7, <1>8, <1>9, <1>10, <1>11,
     <1>12 DEF Next, Load, Save

\* Rows stay where whoever deprecates has seen them.
LEMMA RowsStayStep == Undisturbed /\ IInv /\ [Next]_vars => RowsStay'
<1> SUFFICES ASSUME Undisturbed /\ IInv, [Next]_vars PROVE RowsStay'
  OBVIOUS
<1> USE DEF IInv, RowsInv, TypeOK, PC, RowsStay, disk, self, history
<1>0. CASE UNCHANGED vars
  BY <1>0, RolesAssumption DEF vars, disk, self, history
<1>1. ASSUME NEW p \in Proc, Open(p) PROVE RowsStay'
  BY <1>1, RolesAssumption DEF Open, BeginRead
<1>2. ASSUME NEW p \in Proc, Reload(p) PROVE RowsStay'
  BY <1>2, RolesAssumption DEF Reload, BeginRead
<1>3. ASSUME NEW p \in Proc, ReadIndex(p) PROVE RowsStay'
  <2>1. mem'[p].meta = mem[p].meta /\ \A q \in Proc : q # p => mem'[q] = mem[q]
    BY <1>3 DEF ReadIndex, Memory
  <2> QED BY <1>3, <2>1, RolesAssumption DEF ReadIndex
<1>4. ASSUME NEW p \in Proc, ReadMeta(p) PROVE RowsStay'
  <2>1. mem'[p].meta = meta /\ \A q \in Proc : q # p => mem'[q] = mem[q]
    BY <1>4 DEF ReadMeta, Memory
  <2> QED BY <1>4, <2>1, RolesAssumption DEF ReadMeta
<1>5. ASSUME NEW p \in Proc, NEW e \in Entry, Add(p, e) PROVE RowsStay'
  BY <1>5, RolesAssumption DEF Add
<1>6. ASSUME NEW p \in Proc, NEW e \in Entry, AddFails(p, e) PROVE RowsStay'
  <2>1. p \notin Editors /\ \A q \in Proc : q # p => mem'[q] = mem[q] /\ pending'[q] = pending[q]
    BY <1>6 DEF AddFails, Undisturbed
  <2> QED BY <1>6, <2>1, RolesAssumption DEF AddFails
<1>7. ASSUME NEW p \in Proc, SaveIndex(p) PROVE RowsStay'
  BY <1>7, RolesAssumption DEF SaveIndex
<1>8. ASSUME NEW p \in Proc, SaveMeta(p) PROVE RowsStay'
  <2>1. /\ meta' = mem[p].meta /\ DOMAIN meta = 1 .. Len(meta)
        /\ Len(meta) \in Nat /\ Len(pending[p]) \in Nat
        /\ DOMAIN meta' = 1 .. Len(meta) + Len(pending[p])
        /\ \A i \in DOMAIN meta : meta'[i] = meta[i]
    BY <1>8, SaveDoes
  <2>2. \A i \in DOMAIN meta : i \in DOMAIN meta'
    BY <2>1
  <2> QED BY <1>8, <2>1, <2>2, RolesAssumption DEF SaveMeta
<1>9. ASSUME NEW p \in Proc, SaveLoaded(p) PROVE RowsStay'
  BY <1>9, RolesAssumption DEF SaveLoaded
<1>10. ASSUME NEW p \in Proc, NEW i \in DOMAIN mem[p].meta, EditRow(p, i) PROVE RowsStay'
  <2>1. /\ DOMAIN meta' = DOMAIN meta /\ mem'[p].meta = meta' /\ pending[p] = <<>>
        /\ \A j \in DOMAIN meta : meta'[j].entry = meta[j].entry
        /\ \A q \in Proc : q # p => mem'[q] = mem[q]
    BY <1>10, EditDoes, EditKeeps
  <2>2. UNCHANGED <<pending, pc>>
    BY <1>10 DEF EditRow
  <2> QED BY <2>1, <2>2, SameRows
<1>11. ASSUME NEW p \in Proc, Prune(p) PROVE RowsStay'
  BY <1>11 DEF Undisturbed, Prune, PruneRead, PruneIndex, PruneMeta
<1>12. ASSUME NEW p \in Proc, Crash(p) PROVE RowsStay'
  <2>1. mem'[p].meta = <<>> /\ pending'[p] = <<>>
    BY <1>12 DEF Crash, Nothing
  <2> QED BY <1>12, <2>1, EmptySeq, RolesAssumption DEF Crash
<1> QED
  BY <1>0, <1>1, <1>2, <1>3, <1>4, <1>5, <1>6, <1>7, <1>8, <1>9, <1>10, <1>11,
     <1>12 DEF Next, Load, Save

\* A row is flagged because its memory was chosen.
LEMMA ChosenStep == Undisturbed /\ IInv /\ [Next]_vars => OnlyChosenDead'
<1> SUFFICES ASSUME Undisturbed /\ IInv, [Next]_vars PROVE OnlyChosenDead'
  OBVIOUS
<1> USE DEF IInv, RowsInv, OnlyChosenDead, disk, self, history
<1>0. CASE UNCHANGED vars
  BY <1>0 DEF vars, disk, self, history
<1>1. ASSUME NEW p \in Proc, Open(p) PROVE OnlyChosenDead'
  BY <1>1 DEF Open, BeginRead
<1>2. ASSUME NEW p \in Proc, Reload(p) PROVE OnlyChosenDead'
  BY <1>2 DEF Reload, BeginRead
<1>3. ASSUME NEW p \in Proc, ReadIndex(p) PROVE OnlyChosenDead'
  BY <1>3 DEF ReadIndex
<1>4. ASSUME NEW p \in Proc, ReadMeta(p) PROVE OnlyChosenDead'
  BY <1>4 DEF ReadMeta
<1>5. ASSUME NEW p \in Proc, NEW e \in Entry, Add(p, e) PROVE OnlyChosenDead'
  BY <1>5 DEF Add
<1>6. ASSUME NEW p \in Proc, NEW e \in Entry, AddFails(p, e) PROVE OnlyChosenDead'
  BY <1>6 DEF AddFails
<1>7. ASSUME NEW p \in Proc, SaveIndex(p) PROVE OnlyChosenDead'
  BY <1>7 DEF SaveIndex
<1>8. ASSUME NEW p \in Proc, SaveMeta(p) PROVE OnlyChosenDead'
  <2>1. /\ DOMAIN meta = 1 .. Len(meta) /\ DOMAIN pending[p] = 1 .. Len(pending[p])
        /\ Len(meta) \in Nat /\ Len(pending[p]) \in Nat
        /\ DOMAIN meta' = 1 .. Len(meta) + Len(pending[p])
        /\ \A i \in DOMAIN meta : meta'[i] = meta[i]
        /\ \A i \in DOMAIN pending[p] :
             meta'[Len(meta) + i].entry = pending[p][i] /\ ~meta'[Len(meta) + i].dead
    BY <1>8, SaveDoes
  <2>2. ASSUME NEW j \in DOMAIN meta'
        PROVE  \/ j \in DOMAIN meta /\ meta'[j] = meta[j]
               \/ \E k \in DOMAIN pending[p] :
                    j = Len(meta) + k /\ meta'[j].entry = pending[p][k] /\ ~meta'[j].dead
    <3>1. CASE j \in 1 .. Len(meta)
      BY <2>1, <3>1
    <3>2. CASE j \notin 1 .. Len(meta)
      <4>1. j - Len(meta) \in DOMAIN pending[p] /\ j = Len(meta) + (j - Len(meta))
        BY <2>1, <3>2
      <4> QED BY <2>1, <4>1
    <3> QED BY <3>1, <3>2
  <2>3. chosen' = chosen
    BY <1>8 DEF SaveMeta
  <2> QED BY <2>2, <2>3
<1>9. ASSUME NEW p \in Proc, SaveLoaded(p) PROVE OnlyChosenDead'
  BY <1>9 DEF SaveLoaded
<1>10. ASSUME NEW p \in Proc, NEW i \in DOMAIN mem[p].meta, EditRow(p, i) PROVE OnlyChosenDead'
  <2>1. /\ DOMAIN meta' = DOMAIN meta
        /\ \A j \in DOMAIN meta : meta'[j].entry = meta[j].entry /\ (j # i => meta'[j] = meta[j])
    BY <1>10, EditKeeps
  <2>2. chosen' = chosen \cup {meta[i].entry}
    BY <1>10, EditDoes
  <2>3. ASSUME NEW j \in DOMAIN meta', meta'[j].dead PROVE meta'[j].entry \in chosen'
    <3>1. CASE j = i
      BY <2>1, <2>2, <3>1
    <3>2. CASE j # i
      <4>1. meta'[j] = meta[j] /\ j \in DOMAIN meta
        BY <2>1, <3>2
      <4>2. meta[j].entry \in chosen
        BY <2>3, <4>1
      <4> QED BY <2>2, <4>1, <4>2
    <3> QED BY <3>1, <3>2
  <2> QED BY <2>3
<1>11. ASSUME NEW p \in Proc, Prune(p) PROVE OnlyChosenDead'
  BY <1>11 DEF Undisturbed, Prune, PruneRead, PruneIndex, PruneMeta, TypeOK
<1>12. ASSUME NEW p \in Proc, Crash(p) PROVE OnlyChosenDead'
  BY <1>12 DEF Crash
<1> QED
  BY <1>0, <1>1, <1>2, <1>3, <1>4, <1>5, <1>6, <1>7, <1>8, <1>9, <1>10, <1>11,
     <1>12 DEF Next, Load, Save

-----------------------------------------------------------------------------
(* The invariant.                                                          *)

\* The pair of files at rest, from what holds at any time.
LEMMA AtRestFollows == TypeOK /\ Saving /\ Rest => Aligned /\ NoOrphanRow
<1> SUFFICES ASSUME TypeOK, Saving, Rest PROVE Aligned /\ NoOrphanRow
  OBVIOUS
<1>1. lock = None => \A p \in Proc : pc[p] # "meta"
  BY NoneAssumption DEF Saving
<1> QED BY <1>1 DEF Rest, Aligned, NoOrphanRow, Whole, AtRest

LEMMA InitInv == Undisturbed /\ Init => IInv
<1> SUFFICES ASSUME Undisturbed, Init PROVE IInv
  OBVIOUS
<1>1. /\ index = Seeds /\ meta = RowsOf(Seeds) /\ Seeds \in Seq(Entry)
      /\ \A i, j \in DOMAIN Seeds : Seeds[i] = Seeds[j] => i = j
  BY SeedsAssumption DEF Init
<1>2. /\ meta \in Seq(Row) /\ Len(meta) = Len(Seeds) /\ DOMAIN meta = DOMAIN Seeds
      /\ \A i \in DOMAIN meta : meta[i].entry = Seeds[i] /\ ~meta[i].dead
  BY <1>1, RowsOfIs
<1>3. /\ issued = Range(Seeds) /\ stored = Range(Seeds)
      /\ Range(Seeds) = {Seeds[i] : i \in DOMAIN Seeds} /\ Range(Seeds) \subseteq Entry
  BY <1>1 DEF Init, Range
<1>4. TypeOK
  BY <1>1, <1>2, <1>3, EmptySeq
    DEF Init, TypeOK, PC, NoStamp, Nothing, Stamp, Memory, Undisturbed
<1>5. Stamped
  BY DEF Init, Stamped, NoStamp, Newest
<1>6. InSync /\ Saving
  BY NoneAssumption DEF Init, InSync, Saving
<1>7. Rest
  <2>1. EntriesOf(meta) = index
    <3>1. PICK x \in Seq(Entry) :
            /\ x = EntriesOf(meta) /\ Len(x) = Len(meta)
            /\ \A i \in DOMAIN meta : x[i] = meta[i].entry
      BY <1>2, EntriesOfIs
    <3>2. Len(x) = Len(Seeds) /\ DOMAIN Seeds = 1 .. Len(Seeds)
      BY <1>1, <1>2, <3>1
    <3>3. \A i \in 1 .. Len(x) : x[i] = Seeds[i]
      BY <1>2, <3>1, <3>2
    <3>4. x = Seeds
      BY <1>1, <3>2, <3>3, SeqEqual
    <3> QED BY <1>1, <3>1, <3>4
  <2>2. Len(meta) <= Len(index)
    BY <1>1, <1>2
  <2>3. \A e \in stored : \E i \in DOMAIN meta : meta[i].entry = e
    BY <1>2, <1>3
  <2> QED BY <2>1, <2>2, <2>3 DEF Rest
<1>8. OnePlace
  <2>1. \A p \in Proc : DOMAIN pending[p] = {}
    BY DEF Init
  <2> QED BY <1>1, <1>2, <1>3, <2>1 DEF OnePlace
<1>9. RowsStay
  <2>1. \A p \in Editors : pending[p] = <<>> /\ mem[p].meta = <<>>
    BY RolesAssumption DEF Init, Nothing
  <2> QED BY <2>1 DEF RowsStay
<1>10. OnlyChosenDead
  BY <1>2 DEF OnlyChosenDead
<1> QED BY <1>4, <1>5, <1>6, <1>7, <1>8, <1>9, <1>10, AtRestFollows DEF IInv, RowsInv

LEMMA StepInv == Undisturbed /\ IInv /\ [Next]_vars => IInv'
<1> SUFFICES ASSUME Undisturbed, IInv, [Next]_vars PROVE IInv'
  OBVIOUS
<1>1. TypeOK' /\ Stamped' /\ InSync' /\ Saving'
  BY TypeStep, StampedStep, InSyncStep, SavingStep
<1>2. Rest' /\ OnePlace' /\ RowsStay' /\ OnlyChosenDead'
  BY RestStep, OnePlaceStep, RowsStayStep, ChosenStep
<1>3. Aligned' /\ NoOrphanRow'
  BY <1>1, <1>2, AtRestFollows, PTL
<1> QED BY <1>1, <1>2, <1>3 DEF IInv, RowsInv

LEMMA Invariant == Undisturbed => (Spec => []IInv)
<1> SUFFICES ASSUME Undisturbed PROVE Spec => []IInv
  OBVIOUS
<1>1. Init => IInv
  BY InitInv
<1>2. IInv /\ [Next]_vars => IInv'
  BY StepInv
<1> QED BY <1>1, <1>2, PTL DEF Spec

-----------------------------------------------------------------------------
(* The theorems.                                                           *)

\* Whatever adds, deprecations, reloads, refused saves and kills interleave, the
\* two files correspond row by row at rest, and a kill between them leaves at most
\* a vector too many (save(), _sync_locked(), deprecate_row()).
THEOREM RowsSafe == Undisturbed => (Spec => []RowsInv)
<1>1. IInv => RowsInv
  BY DEF IInv
<1> QED BY <1>1, Invariant, PTL

\* What a save has returned is found in its own row, and in no other
\* (add(), _sync_locked()).
THEOREM StoredSafe == Undisturbed => (Spec => []StoredFound)
<1>1. IInv => StoredFound
  <2> SUFFICES ASSUME IInv, Whole, NEW e \in stored
               PROVE  \E i \in DOMAIN index \cap DOMAIN meta :
                        index[i] = e /\ \A j \in DOMAIN meta : meta[j].entry = e <=> j = i
    BY DEF StoredFound
  <2>1. PICK i \in DOMAIN meta : meta[i].entry = e
    BY DEF IInv, RowsInv, Rest
  <2>2. meta \in Seq(Row) /\ index = EntriesOf(meta)
    BY Types DEF IInv, RowsInv, TypeOK, Aligned
  <2>3. DOMAIN index = DOMAIN meta /\ index[i] = e
    BY <2>1, <2>2, EntriesOfIs
  <2>4. \A j \in DOMAIN meta : meta[j].entry = e => j = i
    BY <2>1 DEF IInv, RowsInv, OnePlace
  <2> QED BY <2>1, <2>3, <2>4
<1> QED BY <1>1, Invariant, PTL

\* Nobody's memory is deprecated in place of another's, however the rows moved since
\* the caller learnt the row number (deprecate_row(), SemanticMemory.deprecate()).
THEOREM DeadSafe == Undisturbed => (Spec => []OnlyChosenDead)
<1>1. IInv => OnlyChosenDead
  BY DEF IInv
<1> QED BY <1>1, Invariant, PTL

\* A memory is deprecated before the step, and not after it.
Revived ==
  \E j \in DOMAIN meta' : ~meta'[j].dead /\ \E l \in DOMAIN meta :
    meta[l].entry = meta'[j].entry /\ meta[l].dead

\* The step of StaysDead.
LEMMA DeadStep == Undisturbed /\ IInv /\ [Next]_vars => ~Revived
<1> SUFFICES ASSUME Undisturbed /\ IInv, [Next]_vars PROVE ~Revived
  OBVIOUS
<1> USE DEF IInv, RowsInv, OnePlace, disk, self, history
<1>0. CASE UNCHANGED vars
  BY <1>0 DEF vars, Revived, disk, self, history
<1>1. ASSUME NEW p \in Proc, Open(p) PROVE ~Revived
  BY <1>1 DEF Open, BeginRead, Revived
<1>2. ASSUME NEW p \in Proc, Reload(p) PROVE ~Revived
  BY <1>2 DEF Reload, BeginRead, Revived
<1>3. ASSUME NEW p \in Proc, ReadIndex(p) PROVE ~Revived
  BY <1>3 DEF ReadIndex, Revived
<1>4. ASSUME NEW p \in Proc, ReadMeta(p) PROVE ~Revived
  BY <1>4 DEF ReadMeta, Revived
<1>5. ASSUME NEW p \in Proc, NEW e \in Entry, Add(p, e) PROVE ~Revived
  BY <1>5 DEF Add, Revived
<1>6. ASSUME NEW p \in Proc, NEW e \in Entry, AddFails(p, e) PROVE ~Revived
  BY <1>6 DEF AddFails, Revived
<1>7. ASSUME NEW p \in Proc, SaveIndex(p) PROVE ~Revived
  BY <1>7 DEF SaveIndex, Revived
<1>8. ASSUME NEW p \in Proc, SaveMeta(p) PROVE ~Revived
  <2>1. /\ DOMAIN meta = 1 .. Len(meta) /\ DOMAIN pending[p] = 1 .. Len(pending[p])
        /\ Len(meta) \in Nat /\ Len(pending[p]) \in Nat
        /\ DOMAIN meta' = 1 .. Len(meta) + Len(pending[p])
        /\ \A i \in DOMAIN meta : meta'[i] = meta[i]
        /\ \A i \in DOMAIN pending[p] :
             meta'[Len(meta) + i].entry = pending[p][i] /\ ~meta'[Len(meta) + i].dead
    BY <1>8, SaveDoes
  <2>2. ASSUME NEW j \in DOMAIN meta'
        PROVE  \/ j \in DOMAIN meta /\ meta'[j] = meta[j]
               \/ \E k \in DOMAIN pending[p] :
                    j = Len(meta) + k /\ meta'[j].entry = pending[p][k] /\ ~meta'[j].dead
    <3>1. CASE j \in 1 .. Len(meta)
      BY <2>1, <3>1
    <3>2. CASE j \notin 1 .. Len(meta)
      <4>1. j - Len(meta) \in DOMAIN pending[p] /\ j = Len(meta) + (j - Len(meta))
        BY <2>1, <3>2
      <4> QED BY <2>1, <4>1
    <3> QED BY <3>1, <3>2
  <2>3. \A j \in DOMAIN meta' : ~meta'[j].dead => \A l \in DOMAIN meta :
          meta[l].entry = meta'[j].entry => ~meta[l].dead
    <3> SUFFICES ASSUME NEW j \in DOMAIN meta', ~meta'[j].dead, NEW l \in DOMAIN meta,
                        meta[l].entry = meta'[j].entry
                 PROVE  ~meta[l].dead
      OBVIOUS
    <3>1. CASE j \in DOMAIN meta /\ meta'[j] = meta[j]
      <4>1. l = j
        BY <3>1
      <4> QED BY <3>1, <4>1
    <3>2. CASE \E k \in DOMAIN pending[p] : meta'[j].entry = pending[p][k]
      BY <3>2
    <3> QED BY <2>2, <3>1, <3>2
  <2> QED BY <2>3 DEF Revived
<1>9. ASSUME NEW p \in Proc, SaveLoaded(p) PROVE ~Revived
  BY <1>9 DEF SaveLoaded, Revived
<1>10. ASSUME NEW p \in Proc, NEW i \in DOMAIN mem[p].meta, EditRow(p, i) PROVE ~Revived
  <2>1. /\ DOMAIN meta' = DOMAIN meta /\ meta'[i].dead
        /\ \A j \in DOMAIN meta : meta'[j].entry = meta[j].entry /\ (j # i => meta'[j] = meta[j])
    BY <1>10, EditKeeps
  <2>2. ASSUME NEW j \in DOMAIN meta', ~meta'[j].dead, NEW l \in DOMAIN meta,
               meta[l].entry = meta'[j].entry
        PROVE  ~meta[l].dead
    <3>1. j \in DOMAIN meta /\ j # i /\ meta[l].entry = meta[j].entry
      BY <2>1, <2>2
    <3>2. l = j /\ meta'[j] = meta[j]
      BY <2>1, <3>1
    <3> QED BY <2>2, <3>2
  <2> QED BY <2>2 DEF Revived
<1>11. ASSUME NEW p \in Proc, Prune(p) PROVE ~Revived
  BY <1>11 DEF Undisturbed, Prune, PruneRead, PruneIndex, PruneMeta, TypeOK
<1>12. ASSUME NEW p \in Proc, Crash(p) PROVE ~Revived
  BY <1>12 DEF Crash, Revived
<1> QED
  BY <1>0, <1>1, <1>2, <1>3, <1>4, <1>5, <1>6, <1>7, <1>8, <1>9, <1>10, <1>11,
     <1>12 DEF Next, Load, Save

\* No save of another process, and no merge, brings a deprecated memory back
\* (deprecate_row(), _sync_locked()).
THEOREM StaysDeadSafe == Undisturbed => (Spec => StaysDead)
<1> SUFFICES ASSUME Undisturbed PROVE Spec => StaysDead
  OBVIOUS
<1>1. IInv /\ [Next]_vars =>
        [\A e \in Entry :
           (\E i \in DOMAIN meta : meta[i] = [entry |-> e, dead |-> TRUE])
             => ~ \E i \in DOMAIN meta' : meta'[i] = [entry |-> e, dead |-> FALSE]]_vars
  <2> SUFFICES ASSUME IInv, [Next]_vars, NEW e \in Entry,
                      NEW i \in DOMAIN meta, meta[i] = [entry |-> e, dead |-> TRUE],
                      NEW j \in DOMAIN meta', meta'[j] = [entry |-> e, dead |-> FALSE]
               PROVE  FALSE
    OBVIOUS
  <2>1. ~Revived
    BY DeadStep
  <2>2. meta[i].dead /\ meta[i].entry = e
    <3>1. [entry |-> e, dead |-> TRUE].dead /\ [entry |-> e, dead |-> TRUE].entry = e
      OBVIOUS
    <3> QED BY <3>1, Zenon
  <2>3. ~meta'[j].dead /\ meta'[j].entry = e
    <3>1. ~[entry |-> e, dead |-> FALSE].dead /\ [entry |-> e, dead |-> FALSE].entry = e
      OBVIOUS
    <3> QED BY <3>1, Zenon
  <2> QED BY <2>1, <2>2, <2>3 DEF Revived
<1>2. Spec => []IInv
  BY Invariant
<1> QED BY <1>1, <1>2, PTL DEF Spec, StaysDead

-----------------------------------------------------------------------------
(* While nobody adds: prune() beside any number of others, itself included. *)

\* Every memory is stored at the beginning, so that none can be added.
NobodyAdds == Range(Seeds) = Entry

\* The inductive invariant of that case.
SettledInv == TypeOK /\ Stamped /\ issued = Entry /\ Settled /\ Current /\ Spared

\* What prune() keeps are rows, and none of a memory that is not expendable is missing.
LEMMA KeptIs ==
  ASSUME NEW m \in Seq(Row)
  PROVE  /\ Kept(m) \in Seq(Row) /\ EntriesOf(Kept(m)) \in Seq(Entry)
         /\ \A e \in Entry \ Expendable : (\E i \in DOMAIN m : m[i].entry = e) =>
              /\ e \in Range(EntriesOf(Kept(m)))
              /\ \E i \in DOMAIN Kept(m) : Kept(m)[i].entry = e
<1> DEFINE K == {i \in DOMAIN m : m[i].entry \notin Expendable}
<1>1. Kept(m) = Selected(m, K)
  BY DEF Kept
<1>2. K \in SUBSET DOMAIN m
  OBVIOUS
<1>3. /\ Selected(m, K) \in Seq(Row)
      /\ \A e : (\E k \in DOMAIN Selected(m, K) : Selected(m, K)[k] = e) <=> \E k \in K : m[k] = e
  <2> HIDE DEF K
  <2> QED BY <1>2, SelectedIs
<1>4. PICK r \in Seq(Row) : r = Kept(m)
  BY <1>1, <1>3
<1>5. /\ EntriesOf(r) \in Seq(Entry) /\ DOMAIN EntriesOf(r) = DOMAIN r
      /\ \A i \in DOMAIN r : EntriesOf(r)[i] = r[i].entry
  BY EntriesOfIs
<1>6. ASSUME NEW e \in Entry \ Expendable, NEW i \in DOMAIN m, m[i].entry = e
      PROVE  e \in Range(EntriesOf(r)) /\ \E j \in DOMAIN r : r[j].entry = e
  <2>1. i \in K
    BY <1>6
  <2>2. PICK k \in DOMAIN r : r[k] = m[i]
    <3> HIDE DEF K
    <3> QED BY <1>1, <1>3, <1>4, <2>1
  <2>3. k \in DOMAIN EntriesOf(r) /\ EntriesOf(r)[k] = e
    BY <1>5, <1>6, <2>2
  <2>4. e \in Range(EntriesOf(r))
    BY <2>3 DEF Range
  <2> QED BY <1>6, <2>2, <2>4
<1> QED BY <1>4, <1>5, <1>6

\* The steps there are while nobody adds.
LEMMA SettledSteps ==
  ASSUME SettledInv, [Next]_vars
  PROVE  \/ UNCHANGED vars
         \/ \E p \in Proc :
              \/ Open(p) \/ Reload(p) \/ ReadIndex(p) \/ ReadMeta(p)
              \/ \E i \in DOMAIN mem[p].meta : EditRow(p, i)
              \/ PruneRead(p) \/ PruneIndex(p) \/ PruneMeta(p) \/ Crash(p)
<1>1. ASSUME NEW p \in Proc PROVE ~Save(p) /\ \A e \in Entry : ~Add(p, e) /\ ~AddFails(p, e)
  BY DEF SettledInv, Settled, Save, SaveIndex, SaveMeta, SaveLoaded, Add, AddFails
<1> QED BY <1>1 DEF Next, Load, Prune

\* A write makes a stamp that is newer than any that was taken or loaded.
LEMMA SettledTick ==
  ASSUME SettledInv, NEW n,
         n = [stamp EXCEPT !.index = Tick] \/ n = [stamp EXCEPT !.meta = Tick]
  PROVE  /\ n \in Stamp /\ Newest(n) = Newest(stamp) + 1 /\ Newest(stamp) \in Nat
         /\ \A q \in Proc :
              /\ synced[q] # n
              /\ ~(Newest(n) <= Newest(taken[q])) /\ ~(Newest(n) <= loaded[q])
              /\ loaded[q] <= Newest(n)
<1>1. TypeOK /\ Stamped /\ Current
  BY DEF SettledInv
<1>2. /\ stamp \in Stamp
      /\ \A q \in Proc : synced[q] \in Stamp /\ taken[q] \in Stamp /\ loaded[q] \in Nat
  BY <1>1 DEF TypeOK
<1>3. /\ n \in Stamp /\ Newest(n) = Newest(stamp) + 1 /\ Newest(stamp) \in Nat
      /\ \A s \in Stamp : s.index <= Newest(stamp) /\ s.meta <= Newest(stamp) => s # n
  BY <1>2, Ticks
<1>4. ASSUME NEW q \in Proc
      PROVE  /\ synced[q] # n /\ loaded[q] <= Newest(stamp)
             /\ Newest(taken[q]) <= Newest(stamp) /\ Newest(taken[q]) \in Nat
  <2>1. taken[q].index <= Newest(stamp) /\ taken[q].meta <= Newest(stamp)
    BY <1>1 DEF Stamped
  <2>2. synced[q].index <= Newest(stamp) /\ synced[q].meta <= Newest(stamp)
    BY <1>1 DEF Stamped
  <2>3. synced[q] # n
    BY <1>2, <1>3, <2>2
  <2>4. Newest(taken[q]) <= Newest(stamp) /\ Newest(taken[q]) \in Nat
    BY <1>2, <2>1 DEF Newest, Stamp
  <2> QED BY <1>1, <2>3, <2>4 DEF Current
<1> QED BY <1>2, <1>3, <1>4

\* A deprecation flags a row of the files, or finds that its row is gone.
LEMMA SettledEdit ==
  ASSUME SettledInv, NEW p \in Proc, NEW i \in DOMAIN mem[p].meta, EditRow(p, i)
  PROVE  /\ pc[p] = "idle" /\ index' = index /\ pc' = pc
         /\ mem'[p] = [index |-> index, meta |-> meta'] /\ mem'[p] \in Memory
         /\ \A q \in Proc : q # p => mem'[q] = mem[q]
         /\ meta' \in Seq(Row) /\ DOMAIN meta' = DOMAIN meta
         /\ \A j \in DOMAIN meta : meta'[j].entry = meta[j].entry
         /\ \/ stamp' = [stamp EXCEPT !.meta = Tick]
            \/ stamp' = stamp /\ meta' = meta
<1>1. TypeOK /\ pc[p] = "idle" /\ pending[p] = <<>>
  BY DEF SettledInv, Settled, EditRow
<1>2. /\ Disk \in Memory /\ mem[p] \in Memory /\ <<>> \in Seq(Entry)
      /\ meta \in Seq(Row) /\ index \in Seq(Entry)
  BY <1>1, Types
<1>3. Synced(p, <<>>) = Disk
  <2>1. CASE stamp = synced[p]
    <3>1. mem[p] = Disk
      BY <1>1, <2>1 DEF SettledInv, Current
    <3> QED BY <1>2, <2>1, <3>1, ExtendedIs DEF Synced
  <2>2. CASE stamp # synced[p]
    <3>1. <<>> \o <<>> = <<>>
      BY ConcatEmptySeq, <1>2
    <3>2. Synced(p, <<>>) = Extended(Disk, <<>>)
      BY <1>1, <2>2, <3>1 DEF Synced, Disk
    <3> QED BY <1>2, <3>2, ExtendedIs
  <2> QED BY <2>1, <2>2
<1>4. PICK d : d = Disk /\ d.index = index /\ d.meta = meta /\ d \in Memory
  BY <1>2 DEF Disk
<1>5. index' = index /\ pc' = pc
  BY DEF EditRow
<1>6. CASE i \in DOMAIN meta
  <2>1. /\ mem' = [mem EXCEPT ![p] = [d EXCEPT !.meta[i].dead = TRUE]]
        /\ meta' = mem'[p].meta
        /\ stamp' = [stamp EXCEPT !.meta = Tick]
    BY <1>3, <1>4, <1>6 DEF EditRow
  <2>2. mem'[p] = [d EXCEPT !.meta[i].dead = TRUE] /\ \A q \in Proc : q # p => mem'[q] = mem[q]
    BY <1>1, <2>1 DEF TypeOK
  <2>3. mem'[p].meta = Flagged(meta, i) /\ mem'[p].index = index
    BY <1>4, <2>2 DEF Memory, Flagged
  <2>4. /\ meta' \in Seq(Row) /\ DOMAIN meta' = DOMAIN meta
        /\ \A j \in DOMAIN meta : meta'[j].entry = meta[j].entry
    <3>1. meta' = Flagged(meta, i)
      BY <2>1, <2>3
    <3> QED BY <1>2, <1>6, <3>1, FlaggedIs
  <2>5. mem'[p] = [index |-> index, meta |-> meta']
    BY <1>4, <2>1, <2>2, <2>3 DEF Memory
  <2>6. mem'[p] \in Memory
    BY <1>2, <2>4, <2>5 DEF Memory
  <2> QED BY <1>1, <1>5, <2>1, <2>2, <2>4, <2>5, <2>6
<1>7. CASE i \notin DOMAIN meta
  <2>1. mem' = [mem EXCEPT ![p] = d] /\ meta' = meta /\ stamp' = stamp
    BY <1>3, <1>4, <1>7 DEF EditRow
  <2>2. mem'[p] = d /\ \A q \in Proc : q # p => mem'[q] = mem[q]
    BY <1>1, <2>1 DEF TypeOK
  <2> QED BY <1>1, <1>2, <1>4, <1>5, <2>1, <2>2 DEF Disk
<1> QED BY <1>6, <1>7

LEMMA SettledTypes == SettledInv /\ [Next]_vars => TypeOK'
<1> SUFFICES ASSUME SettledInv, [Next]_vars PROVE TypeOK'
  OBVIOUS
<1> USE DEF TypeOK, PC, NoStamp, Nothing, disk, self, history
<1>t. TypeOK
  BY DEF SettledInv
<1>0. CASE UNCHANGED vars
  BY <1>t, <1>0 DEF vars, disk, self, history
<1>1. ASSUME NEW p \in Proc, Open(p) \/ Reload(p) PROVE TypeOK'
  BY <1>t, <1>1 DEF Open, Reload, BeginRead
<1>2. ASSUME NEW p \in Proc, ReadIndex(p) PROVE TypeOK'
  <2>1. mem' \in [Proc -> Memory]
    BY <1>t, <1>2 DEF ReadIndex, Memory
  <2> QED BY <1>t, <1>2, <2>1 DEF ReadIndex
<1>3. ASSUME NEW p \in Proc, ReadMeta(p) PROVE TypeOK'
  <2>1. mem' \in [Proc -> Memory]
    BY <1>t, <1>3 DEF ReadMeta, Memory
  <2>2. Newest(taken[p]) \in Nat
    BY <1>t DEF Newest, Stamp
  <2> QED BY <1>t, <1>3, <2>1, <2>2 DEF ReadMeta, Stamp
<1>4. ASSUME NEW p \in Proc, NEW i \in DOMAIN mem[p].meta, EditRow(p, i) PROVE TypeOK'
  <2>1. /\ meta' \in Seq(Row) /\ mem'[p] \in Memory
        /\ stamp' = [stamp EXCEPT !.meta = Tick] \/ stamp' = stamp
    BY <1>4, SettledEdit
  <2>2. stamp' \in Stamp /\ Newest(stamp) \in Nat
    BY <1>t, <2>1, Ticks DEF Newest, Stamp
  <2>3. chosen' \subseteq Entry
    <3>1. mem[p].meta \in Seq(Row)
      BY <1>t, Types
    <3>2. mem[p].meta[i] \in Row
      BY <3>1
    <3> QED BY <1>t, <1>4, <3>2 DEF EditRow, Row
  <2>4. mem' \in [Proc -> Memory]
    <3>1. \E x : mem' = [mem EXCEPT ![p] = x]
      BY <1>4 DEF EditRow
    <3> QED BY <1>t, <2>1, <3>1
  <2>5. synced' \in [Proc -> Stamp] /\ loaded' \in [Proc -> Nat]
    BY <1>t, <1>4, <2>2 DEF EditRow
  <2> QED BY <1>t, <1>4, <2>1, <2>2, <2>3, <2>4, <2>5 DEF EditRow
<1>5. ASSUME NEW p \in Proc, PruneRead(p) PROVE TypeOK'
  <2>1. [index |-> EntriesOf(Kept(meta)), meta |-> Kept(meta)] \in Memory
    BY <1>t, KeptIs DEF Memory
  <2> QED BY <1>t, <1>5, <2>1 DEF PruneRead
<1>6. ASSUME NEW p \in Proc, PruneIndex(p) PROVE TypeOK'
  <2>1. stamp' \in Stamp /\ index' \in Seq(Entry)
    BY <1>t, <1>6, Ticks, Types DEF PruneIndex
  <2> QED BY <1>t, <1>6, <2>1 DEF PruneIndex
<1>7. ASSUME NEW p \in Proc, PruneMeta(p) PROVE TypeOK'
  <2>1. stamp' \in Stamp /\ meta' \in Seq(Row)
    BY <1>t, <1>7, Ticks, Types DEF PruneMeta
  <2>2. Nothing \in Memory
    BY DEF Memory
  <2> QED BY <1>t, <1>7, <2>1, <2>2 DEF PruneMeta
<1>8. ASSUME NEW p \in Proc, Crash(p) PROVE TypeOK'
  <2>1. NoStamp \in Stamp /\ Nothing \in Memory
    BY DEF Stamp, Memory
  <2> QED BY <1>t, <1>8, <2>1 DEF Crash
<1> QED BY <1>0, <1>1, <1>2, <1>3, <1>4, <1>5, <1>6, <1>7, <1>8, SettledSteps

LEMMA SettledStays ==
  SettledInv /\ [Next]_vars => Stamped' /\ (issued = Entry)' /\ Settled'
<1> SUFFICES ASSUME SettledInv, [Next]_vars PROVE Stamped' /\ issued' = Entry /\ Settled'
  OBVIOUS
<1>t. TypeOK /\ Stamped /\ Settled /\ issued = Entry
  BY DEF SettledInv
<1>s. /\ stamp \in Stamp /\ stamp.index <= Newest(stamp) /\ stamp.meta <= Newest(stamp)
      /\ Newest(stamp) \in Nat
      /\ \A q \in Proc :
           /\ synced[q].index \in Nat /\ synced[q].meta \in Nat
           /\ taken[q].index \in Nat /\ taken[q].meta \in Nat
           /\ synced[q].index <= Newest(stamp) /\ synced[q].meta <= Newest(stamp)
           /\ taken[q].index <= Newest(stamp) /\ taken[q].meta <= Newest(stamp)
  BY <1>t DEF TypeOK, Newest, Stamp, Stamped
\* A stamp that was taken before is older than a write.
<1>w. ASSUME stamp' = [stamp EXCEPT !.index = Tick] \/ stamp' = [stamp EXCEPT !.meta = Tick]
      PROVE  /\ Newest(stamp') = Newest(stamp) + 1
             /\ stamp'.index <= Newest(stamp') /\ stamp'.meta <= Newest(stamp')
  BY <1>s, <1>w, Ticks
<1> USE DEF TypeOK, NoStamp, disk, self, history
<1>0. CASE UNCHANGED vars
  BY <1>t, <1>0 DEF vars, disk, self, history, Stamped, Settled
<1>1. ASSUME NEW p \in Proc, Open(p) \/ Reload(p) PROVE Stamped' /\ issued' = Entry /\ Settled'
  <2>1. /\ taken' = [taken EXCEPT ![p] = stamp] /\ stamp' = stamp /\ synced' = synced
        /\ issued' = issued /\ lock' = lock /\ pending' = pending
        /\ pc' = [pc EXCEPT ![p] = "open"]
    BY <1>1 DEF Open, Reload, BeginRead
  <2>2. Stamped'
    BY <1>t, <1>s, <2>1 DEF Stamped
  <2> QED BY <1>t, <2>1, <2>2 DEF Settled
<1>2. ASSUME NEW p \in Proc, ReadIndex(p) PROVE Stamped' /\ issued' = Entry /\ Settled'
  BY <1>t, <1>2 DEF ReadIndex, Stamped, Settled
<1>3. ASSUME NEW p \in Proc, ReadMeta(p) PROVE Stamped' /\ issued' = Entry /\ Settled'
  <2>1. Stamped'
    BY <1>t, <1>s, <1>3 DEF ReadMeta, Stamped
  <2> QED BY <1>t, <1>3, <2>1 DEF ReadMeta, Settled
<1>4. ASSUME NEW p \in Proc, NEW i \in DOMAIN mem[p].meta, EditRow(p, i)
      PROVE  Stamped' /\ issued' = Entry /\ Settled'
  <2>1. stamp' = stamp \/ stamp' = [stamp EXCEPT !.meta = Tick]
    BY <1>4, SettledEdit
  <2>2. /\ synced' = [synced EXCEPT ![p] = stamp'] /\ taken' = taken
        /\ issued' = issued /\ lock' = lock /\ pc' = pc /\ pending' = pending
    BY <1>4 DEF EditRow
  <2>3. Stamped'
    BY <1>t, <1>s, <1>w, <2>1, <2>2 DEF Stamped
  <2> QED BY <1>t, <2>2, <2>3 DEF Settled
<1>5. ASSUME NEW p \in Proc, PruneRead(p) PROVE Stamped' /\ issued' = Entry /\ Settled'
  BY <1>t, <1>5 DEF PruneRead, Stamped, Settled
<1>6. ASSUME NEW p \in Proc, PruneIndex(p) \/ PruneMeta(p)
      PROVE  Stamped' /\ issued' = Entry /\ Settled'
  <2>1. /\ stamp' = [stamp EXCEPT !.index = Tick] \/ stamp' = [stamp EXCEPT !.meta = Tick]
        /\ synced' = synced /\ taken' = taken /\ issued' = issued /\ lock' = lock
        /\ pending' = pending
        /\ \A q \in Proc : pc'[q] = pc[q] \/ pc'[q] \in {"pruneMeta", "down"}
    BY <1>t, <1>6 DEF PruneIndex, PruneMeta
  <2>2. Stamped'
    BY <1>s, <1>w, <2>1 DEF Stamped
  <2> QED BY <1>t, <2>1, <2>2 DEF Settled
<1>7. ASSUME NEW p \in Proc, Crash(p) PROVE Stamped' /\ issued' = Entry /\ Settled'
  <2>1. Stamped'
    BY <1>t, <1>s, <1>7 DEF Crash, Stamped
  <2>2. Settled'
    BY <1>t, <1>7 DEF Crash, Settled
  <2> QED BY <1>t, <1>7, <2>1, <2>2 DEF Crash
<1> QED BY <1>0, <1>1, <1>2, <1>3, <1>4, <1>5, <1>6, <1>7, SettledSteps

\* Whoever has no newer file to load has what the files hold.
LEMMA SettledCurrent == SettledInv /\ [Next]_vars => Current'
<1> SUFFICES ASSUME SettledInv, [Next]_vars PROVE Current'
  OBVIOUS
<1>t. TypeOK /\ Stamped /\ Current
  BY DEF SettledInv
<1>s. /\ stamp \in Stamp /\ Newest(stamp) \in Nat
      /\ \A q \in Proc :
           /\ loaded[q] \in Nat /\ loaded[q] <= Newest(stamp)
           /\ Newest(taken[q]) <= Newest(stamp)
           /\ mem[q] = [index |-> mem[q].index, meta |-> mem[q].meta]
  <2>1. /\ stamp \in Stamp
        /\ \A q \in Proc : taken[q] \in Stamp /\ mem[q] \in Memory /\ loaded[q] \in Nat
    BY <1>t DEF TypeOK
  <2>2. \A q \in Proc : taken[q].index <= Newest(stamp) /\ taken[q].meta <= Newest(stamp)
    BY <1>t DEF Stamped
  <2>3. Newest(stamp) \in Nat /\ \A q \in Proc : Newest(taken[q]) <= Newest(stamp)
    BY <2>1, <2>2 DEF Newest, Stamp
  <2>4. \A q \in Proc : mem[q] = [index |-> mem[q].index, meta |-> mem[q].meta]
    BY <2>1 DEF Memory
  <2> QED BY <1>t, <2>1, <2>3, <2>4 DEF Current
<1> USE DEF TypeOK, NoStamp, disk, self, history
<1>0. CASE UNCHANGED vars
  BY <1>t, <1>0 DEF vars, Current, Disk
<1>1. ASSUME NEW p \in Proc, Open(p) \/ Reload(p) PROVE Current'
  <2>1. /\ pc' = [pc EXCEPT ![p] = "open"] /\ taken' = [taken EXCEPT ![p] = stamp]
        /\ UNCHANGED <<index, meta, stamp, mem, synced, loaded>>
    BY <1>1 DEF Open, Reload, BeginRead
  <2> QED BY <1>t, <2>1 DEF Current, Disk
<1>2. ASSUME NEW p \in Proc, ReadIndex(p) PROVE Current'
  <2>1. /\ pc' = [pc EXCEPT ![p] = "read"] /\ mem'[p].index = index
        /\ \A q \in Proc : q # p => mem'[q] = mem[q]
        /\ UNCHANGED <<index, meta, stamp, synced, loaded, taken>>
    BY <1>t, <1>2 DEF ReadIndex, Memory
  <2> QED BY <1>t, <2>1 DEF Current, Disk
<1>3. ASSUME NEW p \in Proc, ReadMeta(p) PROVE Current'
  <2>1. /\ pc[p] = "read" /\ mem' = [mem EXCEPT ![p] = [mem[p] EXCEPT !.meta = meta]]
        /\ synced' = [synced EXCEPT ![p] = taken[p]]
        /\ loaded' = [loaded EXCEPT ![p] = Newest(taken[p])]
        /\ pc' = [pc EXCEPT ![p] = "idle"]
        /\ \A q \in Proc : q # p => taken'[q] = taken[q]
        /\ UNCHANGED <<index, meta, stamp>>
    BY <1>t, <1>3 DEF ReadMeta
  <2>2. mem'[p] = [index |-> mem[p].index, meta |-> meta]
    BY <1>t, <1>s, <2>1
  <2>3. Newest(stamp) <= Newest(taken[p]) => mem[p].index = index
    BY <1>t, <2>1 DEF Current
  <2>4. taken[p] = stamp => Newest(stamp) <= Newest(taken[p])
    BY <1>s
  <2>5. ASSUME Newest(stamp) <= loaded'[p] \/ synced'[p] = stamp PROVE mem'[p] = Disk
    BY <1>t, <2>1, <2>2, <2>3, <2>4, <2>5 DEF Disk
  <2>6. loaded'[p] <= Newest(stamp) /\ pc'[p] = "idle"
    BY <1>t, <1>s, <2>1
  <2>7. ASSUME NEW q \in Proc, q # p
        PROVE  /\ pc'[q] = pc[q] /\ mem'[q] = mem[q] /\ synced'[q] = synced[q]
               /\ loaded'[q] = loaded[q] /\ taken'[q] = taken[q]
    BY <1>t, <2>1, <2>7
  <2>8. stamp' = stamp /\ index' = index /\ meta' = meta
    BY <2>1
  <2> QED BY <1>t, <2>5, <2>6, <2>7, <2>8 DEF Current, Disk
\* A write makes all that was loaded before out of date.
<1>w. ASSUME stamp' = [stamp EXCEPT !.index = Tick] \/ stamp' = [stamp EXCEPT !.meta = Tick],
             NEW p \in Proc,
             pc'[p] \notin {"read", "idle"} \/ (pc'[p] = "idle" /\ mem'[p] = Disk'),
             loaded'[p] \in Nat, loaded'[p] <= Newest(stamp),
             \A q \in Proc : q # p => /\ pc'[q] = pc[q] /\ taken'[q] = taken[q]
                                      /\ synced'[q] = synced[q] /\ loaded'[q] = loaded[q]
      PROVE  Current'
  <2>1. /\ Newest(stamp') = Newest(stamp) + 1
        /\ \A q \in Proc :
             /\ synced[q] # stamp'
             /\ ~(Newest(stamp') <= Newest(taken[q])) /\ ~(Newest(stamp') <= loaded[q])
             /\ loaded[q] <= Newest(stamp')
    BY <1>w, SettledTick
  <2>2. loaded'[p] <= Newest(stamp')
    BY <1>s, <1>w, <2>1
  <2>3. ASSUME NEW q \in Proc
        PROVE  /\ pc'[q] = "read" /\ Newest(stamp') <= Newest(taken'[q]) => mem'[q].index = index'
               /\ pc'[q] = "idle" /\ (Newest(stamp') <= loaded'[q] \/ synced'[q] = stamp')
                    => mem'[q] = Disk'
               /\ loaded'[q] <= Newest(stamp')
    <3>1. CASE q = p
      BY <1>w, <2>2, <3>1
    <3>2. CASE q # p
      BY <1>w, <2>1, <3>2
    <3> QED BY <3>1, <3>2
  <2> QED BY <2>3 DEF Current
<1>4. ASSUME NEW p \in Proc, NEW i \in DOMAIN mem[p].meta, EditRow(p, i) PROVE Current'
  <2>1. /\ pc[p] = "idle" /\ pc' = pc /\ index' = index /\ mem'[p] = Disk'
        /\ \A q \in Proc : q # p => mem'[q] = mem[q]
        /\ \/ stamp' = [stamp EXCEPT !.meta = Tick]
           \/ stamp' = stamp /\ meta' = meta
    BY <1>4, SettledEdit DEF Disk
  <2>2. /\ loaded'[p] \in {loaded[p], Newest(stamp)} /\ taken' = taken
        /\ \A q \in Proc : q # p => synced'[q] = synced[q] /\ loaded'[q] = loaded[q]
    BY <1>t, <1>4 DEF EditRow
  <2>3. loaded'[p] \in Nat /\ loaded'[p] <= Newest(stamp)
    <3>1. loaded'[p] = loaded[p] \/ loaded'[p] = Newest(stamp)
      BY <2>2
    <3>2. loaded[p] \in Nat /\ loaded[p] <= Newest(stamp) /\ Newest(stamp) \in Nat
      BY <1>s
    <3> QED BY <3>1, <3>2
  <2>4. CASE stamp' = [stamp EXCEPT !.meta = Tick]
    BY <1>w, <2>1, <2>2, <2>3, <2>4
  <2>5. CASE stamp' = stamp /\ meta' = meta
    <3>1. ASSUME NEW q \in Proc
          PROVE  /\ pc'[q] = "read" /\ Newest(stamp') <= Newest(taken'[q]) => mem'[q].index = index'
                 /\ pc'[q] = "idle" /\ (Newest(stamp') <= loaded'[q] \/ synced'[q] = stamp')
                      => mem'[q] = Disk'
                 /\ loaded'[q] <= Newest(stamp')
      <4>1. CASE q = p
        BY <2>1, <2>3, <2>5, <4>1
      <4>2. CASE q # p
        BY <1>t, <2>1, <2>2, <2>5, <4>2 DEF Current, Disk
      <4> QED BY <4>1, <4>2
    <3> QED BY <3>1 DEF Current
  <2> QED BY <2>1, <2>4, <2>5
<1>5. ASSUME NEW p \in Proc, PruneRead(p) PROVE Current'
  <2>1. /\ pc' = [pc EXCEPT ![p] = "pruneIndex"] /\ \A q \in Proc : q # p => mem'[q] = mem[q]
        /\ UNCHANGED <<index, meta, stamp, synced, loaded, taken>>
    BY <1>t, <1>5 DEF PruneRead
  <2> QED BY <1>t, <2>1 DEF Current, Disk
<1>6. ASSUME NEW p \in Proc, PruneIndex(p) \/ PruneMeta(p) PROVE Current'
  <2>1. /\ stamp' = [stamp EXCEPT !.index = Tick] \/ stamp' = [stamp EXCEPT !.meta = Tick]
        /\ UNCHANGED <<synced, loaded, taken>> /\ pc'[p] \in {"pruneMeta", "down"}
        /\ \A q \in Proc : q # p => pc'[q] = pc[q]
    BY <1>t, <1>6 DEF PruneIndex, PruneMeta
  <2>2. loaded'[p] \in Nat /\ loaded'[p] <= Newest(stamp)
    BY <1>s, <2>1
  <2> QED BY <1>w, <2>1, <2>2
<1>7. ASSUME NEW p \in Proc, Crash(p) PROVE Current'
  <2>1. /\ pc' = [pc EXCEPT ![p] = "down"] /\ loaded'[p] = 0
        /\ \A q \in Proc : q # p => /\ mem'[q] = mem[q] /\ synced'[q] = synced[q]
                                    /\ loaded'[q] = loaded[q] /\ taken'[q] = taken[q]
        /\ UNCHANGED <<index, meta, stamp>>
    BY <1>t, <1>7 DEF Crash
  <2>2. 0 <= Newest(stamp)
    BY <1>s
  <2> QED BY <1>t, <2>1, <2>2 DEF Current, Disk
<1> QED BY <1>0, <1>1, <1>2, <1>3, <1>4, <1>5, <1>6, <1>7, SettledSteps

\* Nothing that is not expendable leaves the files, or what a prune() will write.
LEMMA SettledSpared == SettledInv /\ [Next]_vars => Spared'
<1> SUFFICES ASSUME SettledInv, [Next]_vars PROVE Spared'
  OBVIOUS
<1>t. /\ TypeOK /\ index \in Seq(Entry) /\ meta \in Seq(Row)
      /\ pc \in [Proc -> PC] /\ mem \in [Proc -> Memory]
  BY DEF SettledInv, TypeOK
<1>s. /\ Complete(Disk)
      /\ \A q \in Proc : pc[q] \in {"pruneIndex", "pruneMeta"} => Complete(mem[q])
  BY DEF SettledInv, Spared
\* Steps that leave the files alone, and whatever a prune() has read.
<1>k. ASSUME UNCHANGED <<index, meta>>, NEW p \in Proc,
             pc'[p] \in {"pruneIndex", "pruneMeta"} => Complete(mem'[p]),
             \A q \in Proc : q # p => pc'[q] = pc[q] /\ mem'[q] = mem[q]
      PROVE  Spared'
  <2>1. Disk' = Disk
    BY <1>k DEF Disk
  <2>2. ASSUME NEW q \in Proc, pc'[q] \in {"pruneIndex", "pruneMeta"} PROVE Complete(mem'[q])
    BY <1>k, <1>s, <2>2
  <2>3. Complete(Disk')
    BY <1>s, <2>1
  <2> QED BY <2>2, <2>3 DEF Spared, Complete
<1> USE DEF disk, self, history
<1>0. CASE UNCHANGED vars
  BY <1>s, <1>0 DEF vars, Spared, Disk, Complete
<1>1. ASSUME NEW p \in Proc, Open(p) \/ Reload(p) \/ ReadIndex(p) \/ ReadMeta(p) PROVE Spared'
  <2>1. /\ UNCHANGED <<index, meta>> /\ pc'[p] \in {"open", "read", "idle"}
        /\ \A q \in Proc : q # p => pc'[q] = pc[q] /\ mem'[q] = mem[q]
    BY <1>t, <1>1 DEF Open, Reload, BeginRead, ReadIndex, ReadMeta
  <2> QED BY <1>k, <2>1
<1>2. ASSUME NEW p \in Proc, NEW i \in DOMAIN mem[p].meta, EditRow(p, i) PROVE Spared'
  <2>1. /\ pc[p] = "idle" /\ index' = index /\ pc' = pc
        /\ \A q \in Proc : q # p => mem'[q] = mem[q]
        /\ DOMAIN meta' = DOMAIN meta
        /\ \A j \in DOMAIN meta : meta'[j].entry = meta[j].entry
    BY <1>2, SettledEdit
  <2>2. Complete(Disk')
    BY <1>s, <2>1 DEF Complete, Disk
  <2>3. ASSUME NEW q \in Proc, pc'[q] \in {"pruneIndex", "pruneMeta"} PROVE Complete(mem'[q])
    <3>1. q # p /\ pc[q] \in {"pruneIndex", "pruneMeta"} /\ mem'[q] = mem[q]
      BY <2>1, <2>3
    <3> QED BY <1>s, <3>1
  <2> QED BY <2>2, <2>3 DEF Spared, Complete
<1>3. ASSUME NEW p \in Proc, PruneRead(p) PROVE Spared'
  <2> DEFINE x == [index |-> EntriesOf(Kept(meta)), meta |-> Kept(meta)]
  <2>1. Complete(x)
    <3>1. \A e \in Entry \ Expendable : \E i \in DOMAIN meta : meta[i].entry = e
      BY <1>s DEF Complete, Disk
    <3>2. \A e \in Entry \ Expendable :
            e \in Range(EntriesOf(Kept(meta))) /\ \E i \in DOMAIN Kept(meta) : Kept(meta)[i].entry = e
      BY <1>t, <3>1, KeptIs
    <3>3. x.index = EntriesOf(Kept(meta)) /\ x.meta = Kept(meta)
      OBVIOUS
    <3> QED BY <3>2, <3>3 DEF Complete
  <2>2. /\ mem'[p] = x /\ UNCHANGED <<index, meta>>
        /\ \A q \in Proc : q # p => pc'[q] = pc[q] /\ mem'[q] = mem[q]
    BY <1>t, <1>3 DEF PruneRead
  <2> HIDE DEF x
  <2> QED BY <1>k, <2>1, <2>2
\* What a prune() writes is complete.
<1>4. ASSUME NEW p \in Proc, PruneIndex(p) \/ PruneMeta(p) PROVE Spared'
  <2>1. /\ pc[p] \in {"pruneIndex", "pruneMeta"}
        /\ index' \in {index, mem[p].index} /\ meta' \in {meta, mem[p].meta}
        /\ \A q \in Proc : q # p => pc'[q] = pc[q] /\ mem'[q] = mem[q]
        /\ pc'[p] = "down" \/ mem'[p] = mem[p]
    BY <1>t, <1>4 DEF PruneIndex, PruneMeta
  <2>2. Complete(mem[p])
    BY <1>s, <2>1
  <2>3. Complete(Disk')
    BY <1>s, <2>1, <2>2 DEF Complete, Disk
  <2>4. ASSUME NEW q \in Proc, pc'[q] \in {"pruneIndex", "pruneMeta"} PROVE Complete(mem'[q])
    <3>1. CASE q = p
      <4>1. mem'[q] = mem[p]
        BY <2>1, <2>4, <3>1
      <4> QED BY <2>2, <4>1
    <3>2. CASE q # p
      <4>1. mem'[q] = mem[q] /\ pc'[q] = pc[q]
        BY <2>1, <3>2
      <4> QED BY <1>s, <2>4, <4>1
    <3> QED BY <3>1, <3>2
  <2> QED BY <2>3, <2>4 DEF Spared, Complete
<1>5. ASSUME NEW p \in Proc, Crash(p) PROVE Spared'
  <2>1. /\ UNCHANGED <<index, meta>> /\ pc'[p] = "down"
        /\ \A q \in Proc : q # p => pc'[q] = pc[q] /\ mem'[q] = mem[q]
    BY <1>t, <1>5 DEF Crash
  <2> QED BY <1>k, <2>1
<1> QED BY <1>0, <1>1, <1>2, <1>3, <1>4, <1>5, SettledSteps

LEMMA SettledInit == NobodyAdds /\ Init => SettledInv
<1> SUFFICES ASSUME NobodyAdds, Init PROVE SettledInv
  OBVIOUS
<1>1. /\ index = Seeds /\ meta = RowsOf(Seeds) /\ Seeds \in Seq(Entry)
      /\ issued = Entry /\ stored = Entry
  BY SeedsAssumption DEF Init, NobodyAdds
<1>2. /\ meta \in Seq(Row) /\ DOMAIN meta = DOMAIN Seeds
      /\ \A i \in DOMAIN meta : meta[i].entry = Seeds[i]
  BY <1>1, RowsOfIs
<1>3. TypeOK
  BY <1>1, <1>2, EmptySeq DEF Init, TypeOK, PC, NoStamp, Nothing, Stamp, Memory
<1>4. Stamped /\ Settled /\ Current
  BY DEF Init, Stamped, Settled, Current, NoStamp, Newest
<1>5. Complete(Disk)
  <2> SUFFICES ASSUME NEW e \in Entry \ Expendable
               PROVE  e \in Range(index) /\ \E i \in DOMAIN meta : meta[i].entry = e
    BY DEF Complete, Disk
  <2>1. e \in Range(Seeds)
    BY DEF NobodyAdds
  <2>2. PICK i \in DOMAIN Seeds : Seeds[i] = e
    BY <2>1 DEF Range
  <2> QED BY <1>1, <1>2, <2>1, <2>2
<1>6. Spared
  BY <1>5 DEF Init, Spared
<1> QED BY <1>1, <1>3, <1>4, <1>6 DEF SettledInv

LEMMA SettledAlways == NobodyAdds => (Spec => []SettledInv)
<1> SUFFICES ASSUME NobodyAdds PROVE Spec => []SettledInv
  OBVIOUS
<1>1. Init => SettledInv
  BY SettledInit
<1>2. SettledInv /\ [Next]_vars => SettledInv'
  BY SettledTypes, SettledStays, SettledCurrent, SettledSpared DEF SettledInv
<1> QED BY <1>1, <1>2, PTL DEF Spec

\* Whatever is pruned, deprecated, loaded and killed in between, an instance that
\* finds no newer file has the current rows (_maybe_reload()).
THEOREM SearchesSafe == NobodyAdds => (Spec => []SearchFresh)
<1>1. SettledInv => SearchFresh
  BY DEF SettledInv, Current, SearchFresh, Disk
<1> QED BY <1>1, SettledAlways, PTL

\* However many prune() run at once, and wherever they are killed, no memory above
\* the threshold loses its vector or its row (prune()).
THEOREM PruneSafe == NobodyAdds => (Spec => []OnlyExpendableGone)
<1>1. SettledInv => OnlyExpendableGone
  <2> SUFFICES ASSUME SettledInv, NEW e \in stored \ Expendable
               PROVE  (\E i \in DOMAIN index : index[i] = e) /\ \E i \in DOMAIN meta : meta[i].entry = e
    BY DEF OnlyExpendableGone
  <2>1. e \in Entry \ Expendable
    BY DEF SettledInv, TypeOK
  <2>2. e \in Range(index) /\ \E i \in DOMAIN meta : meta[i].entry = e
    BY <2>1 DEF SettledInv, Spared, Complete, Disk
  <2> QED BY <2>2 DEF Range
<1> QED BY <1>1, SettledAlways, PTL
=============================================================================
