-------------------------- MODULE GraphStore_proofs -------------------------
(***************************************************************************)
(* Proofs about the graph store.  For any set of instances, writers,       *)
(* indexers and ops: type correctness, the exclusion the lease and the     *)
(* lock give, and the strict order of segment numbers in the journal.      *)
(* For one writer and any set of readers: what the files and the instances *)
(* hold, and that the store implements DurableGraph.  Then, for any number *)
(* of files, servers, runs and failures, as long as no server expands      *)
(* while a Tier-1 run is under way, about Tier2Queue, whose runs the same  *)
(* lease keeps apart: what Tier 1 defers is not lost.                      *)
(***************************************************************************)
EXTENDS GraphStore, Tier2Queue, FiniteSetTheorems, SequenceTheorems, TLAPS

\* iter_segments/_replay_journal build a graph out of a graph.
LEMMA ReplayType ==
  ASSUME NEW g \in Graphs, NEW segs \in Seq(Segment), NEW n \in Nat, NEW base \in Nat
  PROVE  Replay(g, segs, n, base) \in Graphs
<1>1. ASSUME NEW o \in Op
      PROVE  Cardinality({i \in DOMAIN segs :
                 i > n /\ segs[i].seq > base /\ o \in segs[i].ops}) \in Nat
  <2> DEFINE I == {i \in DOMAIN segs : i > n /\ segs[i].seq > base /\ o \in segs[i].ops}
  <2>1. IsFiniteSet(1 .. Len(segs))
    BY FS_Interval
  <2>2. I \subseteq 1 .. Len(segs)
    OBVIOUS
  <2>3. IsFiniteSet(I)
    BY <2>1, <2>2, FS_Subset
  <2>. QED
    BY <2>3, FS_CardinalityType
<1>. QED
  BY <1>1 DEF Replay, Graphs

\* Applying ops to a graph gives a graph.
LEMMA ApplyType ==
  ASSUME NEW g \in Graphs, NEW S
  PROVE  Apply(g, S) \in Graphs
BY DEF Apply, Graphs

\* Along an ordered journal TailSeq is a number that nothing in it exceeds: what
\* boundary_end() promises to the writer that continues the numbering.
LEMMA TailSeqMax ==
  ASSUME NEW segs \in Seq(Segment), NEW n \in Nat, NEW base \in Nat, Ordered(segs)
  PROVE  /\ TailSeq(segs, n, base) \in Nat
         /\ TailSeq(segs, n, base) >= base
         /\ \A i \in DOMAIN segs : i > n => TailSeq(segs, n, base) >= segs[i].seq
         /\ \/ TailSeq(segs, n, base) = base
            \/ \E i \in DOMAIN segs : i > n /\ TailSeq(segs, n, base) = segs[i].seq
<1> DEFINE S == {base} \cup {segs[i].seq : i \in {k \in DOMAIN segs : k > n}}
           P(m) == m >= base /\ \A i \in DOMAIN segs : i > n => m >= segs[i].seq
<1>1. \A i \in DOMAIN segs : segs[i].seq \in Nat
  <2>1. \A i \in DOMAIN segs : segs[i] \in Segment
    OBVIOUS
  <2>. QED
    BY <2>1 DEF Segment
<1>2. S \subseteq Nat
  BY <1>1
<1>3. \E m \in S : P(m)
  <2>1. CASE Len(segs) <= n
    <3>1. P(base)
      BY <2>1
    <3>. QED
      BY <3>1
  <2>2. CASE Len(segs) > n
    <3> DEFINE l == Len(segs)
    <3>1. l \in DOMAIN segs /\ l > n
      BY <2>2
    <3>2. segs[l].seq \in S
      BY <3>1
    <3>3. \A i \in DOMAIN segs : segs[i].seq <= segs[l].seq
      BY <3>1, <1>1 DEF Ordered
    <3>4. CASE base >= segs[l].seq
      <4>1. P(base)
        BY <3>3, <3>4, <1>1, <3>1
      <4>. QED
        BY <4>1
    <3>5. CASE ~(base >= segs[l].seq)
      <4>1. P(segs[l].seq)
        BY <3>3, <3>5, <1>1, <3>1
      <4>. QED
        BY <4>1, <3>2
    <3>. QED
      BY <3>4, <3>5
  <2>3. Len(segs) \in Nat
    OBVIOUS
  <2>. QED
    BY <2>1, <2>2, <2>3
<1>4. TailSeq(segs, n, base) \in S /\ P(TailSeq(segs, n, base))
  BY <1>3 DEF TailSeq
<1>. QED
  BY <1>2, <1>4

\* The same from the beginning of the file.
LEMMA WholeTail ==
  ASSUME NEW segs \in Seq(Segment), NEW base \in Nat, Ordered(segs)
  PROVE  /\ TailSeq(segs, 0, base) \in Nat
         /\ TailSeq(segs, 0, base) >= base
         /\ \A i \in DOMAIN segs : TailSeq(segs, 0, base) >= segs[i].seq
<1>1. 0 \in Nat
  OBVIOUS
<1>2. /\ TailSeq(segs, 0, base) \in Nat
      /\ TailSeq(segs, 0, base) >= base
      /\ \A i \in DOMAIN segs : i > 0 => TailSeq(segs, 0, base) >= segs[i].seq
  BY <1>1, TailSeqMax, Zenon
<1>3. \A i \in DOMAIN segs : i > 0
  OBVIOUS
<1>. QED
  BY <1>2, <1>3

\* The records the actions build have the types they are kept in.
LEMMA RecordTypes ==
  ASSUME NEW j \in Journals, NEW v \in Nat
  PROVE  /\ EndOf(j) \in Offset
         /\ NoOffset \in Offset
         /\ StampOf(v, j) \in Stamp
         /\ NoStamp \in Stamp
         /\ Trimmed(j) \in Journals
         /\ NoJournal(v) \in Journals
         /\ Torn(j) \in Journals
         /\ Trimmed(j).segs = j.segs /\ Trimmed(j).present = j.present
         /\ Torn(j).segs = j.segs /\ Torn(j).present
         /\ NoJournal(v).segs = <<>>
<1>1. j.segs \in Seq(Segment) /\ j.gen \in Nat /\ j.present \in BOOLEAN /\ j.torn \in BOOLEAN
  BY DEF Journals
<1>2. Len(j.segs) \in Nat
  BY <1>1
<1>3. \A g \in Nat : NoJournal(g) \in Journals /\ Len(NoJournal(g).segs) = 0 /\ NoJournal(g).gen = g
  BY DEF NoJournal, Journals
<1>4. EndOf(j) \in Offset /\ NoOffset \in Offset
  BY <1>1, <1>2 DEF EndOf, NoOffset, Offset
<1>5. StampOf(v, j) \in Stamp
  BY <1>1, <1>2 DEF StampOf, Stamp, JnlStamp
<1>6. NoStamp \in Stamp
  BY DEF NoStamp, NoJournal, StampOf, Stamp, JnlStamp
<1>7. /\ Trimmed(j) \in Journals /\ Torn(j) \in Journals
      /\ Trimmed(j).segs = j.segs /\ Trimmed(j).present = j.present
      /\ Torn(j).segs = j.segs /\ Torn(j).present
  BY DEF Trimmed, Torn, Journals
<1>8. NoJournal(v).segs = <<>>
  BY DEF NoJournal
<1>. QED
  BY <1>3, <1>4, <1>5, <1>6, <1>7, <1>8

\* flush_journal(): the new segment has a number above every other one and the
\* appended journal is still ordered.
LEMMA FlushedOrdered ==
  ASSUME JournalInv, NEW p \in Proc, active[p]
  PROVE  /\ FlushSeq(p) \in Nat
         /\ FlushSeq(p) > seq[p]
         /\ Flushed(p) \in Journals
         /\ Flushed(p).present
         /\ Ordered(Flushed(p).segs)
         /\ \A i \in DOMAIN Flushed(p).segs : Flushed(p).segs[i].seq <= FlushSeq(p)
<1> DEFINE new == [seq |-> FlushSeq(p), ops |-> pending[p]]
<1>1. /\ jnl \in Journals /\ jnl.segs \in Seq(Segment)
      /\ seq[p] \in Nat /\ pending[p] \in SUBSET Op
      /\ Ordered(jnl.segs)
  BY DEF JournalInv, TypeOK, Journals, JournalOrdered
<1>2. \A i \in DOMAIN jnl.segs : jnl.segs[i] \in Segment
  BY <1>1
<1>3. \A i \in DOMAIN jnl.segs : jnl.segs[i].seq \in Nat
  BY <1>2 DEF Segment
<1>4. /\ FlushSeq(p) \in Nat
      /\ FlushSeq(p) > seq[p]
      /\ \A i \in DOMAIN jnl.segs : jnl.segs[i].seq < FlushSeq(p)
  <2>1. CASE Size(jnl) # off[p].at
    <3>1. /\ TailSeq(jnl.segs, 0, seq[p]) \in Nat
          /\ TailSeq(jnl.segs, 0, seq[p]) >= seq[p]
          /\ \A i \in DOMAIN jnl.segs : TailSeq(jnl.segs, 0, seq[p]) >= jnl.segs[i].seq
      BY <1>1, WholeTail
    <3>2. FlushSeq(p) = 1 + TailSeq(jnl.segs, 0, seq[p])
      BY <2>1 DEF FlushSeq
    <3>. QED
      BY <3>1, <3>2, <1>1, <1>3
  <2>2. CASE Size(jnl) = off[p].at
    <3>1. \A i \in DOMAIN jnl.segs : jnl.segs[i].seq <= seq[p]
      BY <2>2 DEF JournalInv, MemoryCoversFile
    <3>2. FlushSeq(p) = 1 + seq[p]
      BY <2>2 DEF FlushSeq
    <3>. QED
      BY <3>1, <3>2, <1>1, <1>3
  <2>. QED
    BY <2>1, <2>2
<1>5. new \in Segment
  BY <1>1, <1>4 DEF Segment
<1>6. Flushed(p).segs = Append(jnl.segs, new)
  BY <1>1 DEF Flushed, Journals
<1>7. Append(jnl.segs, new) \in Seq(Segment)
  BY <1>1, <1>5
<1>8. Flushed(p) \in Journals /\ Flushed(p).present
  BY <1>1, <1>6, <1>7 DEF Flushed, Journals
<1>9. /\ DOMAIN Append(jnl.segs, new) = 1 .. Len(jnl.segs) + 1
      /\ \A i \in DOMAIN jnl.segs : Append(jnl.segs, new)[i] = jnl.segs[i]
      /\ Append(jnl.segs, new)[Len(jnl.segs) + 1] = new
      /\ DOMAIN jnl.segs = 1 .. Len(jnl.segs) /\ Len(jnl.segs) \in Nat
  BY <1>1, <1>5, AppendProperties, LenProperties
<1>10. new.seq = FlushSeq(p)
  OBVIOUS
<1>11. Ordered(Append(jnl.segs, new))
  <2> DEFINE both == Append(jnl.segs, new)
             n == Len(jnl.segs)
  <2>1. SUFFICES ASSUME NEW i \in DOMAIN both, NEW k \in DOMAIN both, i < k
                 PROVE  both[i].seq < both[k].seq
    BY DEF Ordered
  <2>2. i \in DOMAIN jnl.segs /\ both[i] = jnl.segs[i]
    BY <1>9, <2>1
  <2>3. CASE k \in DOMAIN jnl.segs
    <3>1. both[k] = jnl.segs[k]
      BY <1>9, <2>3
    <3>. QED
      BY <1>1, <2>1, <2>2, <2>3, <3>1 DEF Ordered
  <2>4. CASE k = n + 1
    <3>1. both[k] = new
      BY <1>9, <2>4
    <3>. QED
      BY <1>4, <1>10, <2>2, <3>1
  <2>. QED
    BY <1>9, <2>3, <2>4
<1>12. \A i \in DOMAIN Append(jnl.segs, new) : Append(jnl.segs, new)[i].seq <= FlushSeq(p)
  BY <1>3, <1>4, <1>9, <1>10
<1>. QED
  BY <1>4, <1>6, <1>8, <1>11, <1>12

-----------------------------------------------------------------------------
(* The steps of the journal invariant.  Each lemma takes the actions of one *)
(* of the groups of Next.                                                   *)

\* Parts of the invariant in the form the step proofs use.
LEMMA JournalFacts ==
  ASSUME JournalInv
  PROVE  /\ jnl \in Journals /\ jnl.segs \in Seq(Segment) /\ jnl.present \in BOOLEAN
         /\ pkl \in Pickle /\ pkl.graph \in Graphs /\ pkl.marker \in Nat /\ pkl.ver \in Nat
         /\ FullStamp \in Stamp
         /\ EmptyGraph \in Graphs
         /\ Ordered(jnl.segs)
         /\ \A q \in Proc : off[q].at \in Nat
<1>1. /\ jnl \in Journals /\ jnl.segs \in Seq(Segment) /\ jnl.present \in BOOLEAN
      /\ Ordered(jnl.segs)
  BY DEF JournalInv, TypeOK, Journals, JournalOrdered
<1>2. pkl \in Pickle /\ pkl.graph \in Graphs /\ pkl.marker \in Nat /\ pkl.ver \in Nat
  BY DEF JournalInv, TypeOK, Pickle
<1>3. FullStamp \in Stamp
  BY <1>1, <1>2, RecordTypes DEF FullStamp
<1>4. EmptyGraph \in Graphs
  BY DEF EmptyGraph, Graphs
<1>5. \A q \in Proc : off[q].at \in Nat
  <2>1. off \in [Proc -> Offset]
    BY DEF JournalInv, TypeOK
  <2>2. \A q \in Proc : off[q] \in Offset
    BY <2>1
  <2>. QED
    BY <2>2 DEF Offset
<1>. QED
  BY <1>1, <1>2, <1>3, <1>4, <1>5

\* What a load replays is a graph, and numbering goes on from a number.
LEMMA ReplayedTypes ==
  ASSUME JournalInv, NEW g \in Graphs, NEW n \in Nat, NEW base \in Nat, NEW S
  PROVE  /\ Replay(g, jnl.segs, n, base) \in Graphs
         /\ Apply(Replay(g, jnl.segs, n, base), S) \in Graphs
         /\ TailSeq(jnl.segs, n, base) \in Nat
         /\ EndOf(jnl) \in Offset
<1>1. jnl \in Journals /\ jnl.segs \in Seq(Segment) /\ Ordered(jnl.segs)
  BY JournalFacts
<1>2. Replay(g, jnl.segs, n, base) \in Graphs
  BY <1>1, ReplayType
<1>3. TailSeq(jnl.segs, n, base) \in Nat
  BY <1>1, TailSeqMax, Zenon
<1>4. EndOf(jnl) \in Offset
  BY <1>1, RecordTypes, 0 \in Nat
<1>. QED
  BY <1>2, <1>3, <1>4, ApplyType

\* Loading touches only an instance that is not journaling.
LEMMA LoadStep ==
  ASSUME JournalInv, NEW p \in Proc, Load(p)
  PROVE  JournalInv'
<1> USE JournalFacts, RecordTypes DEF Load
<1>1. TypeOK
  BY DEF JournalInv
<1>2. CASE Start(p)
  <2>1. TypeOK'
    BY <1>1, <1>2 DEF TypeOK, Start, BeginLoad, diskVars, lockVars, opVars, history, PC
  <2>. QED
    BY <1>2, <2>1 DEF JournalInv, TypeOK, HolderOnly, JournalOrdered, MemoryCoversFile, Start,
       BeginLoad, diskVars, lockVars, opVars, history, Size
<1>3. CASE LoadBase(p)
  <2>1. TypeOK'
    BY <1>1, <1>3 DEF TypeOK, LoadBase, diskVars, lockVars, opVars, history, PC
  <2>2. /\ pc[p] # "idle" /\ pc'[p] \notin {"promote", "compact", "resync"}
        /\ pc[p] \notin {"promote", "compact", "resync"}
        /\ UNCHANGED <<jnl, lock, lease, active>>
        /\ \A q \in Proc : q # p => pc'[q] = pc[q] /\ seq'[q] = seq[q] /\ off'[q] = off[q]
    BY <1>1, <1>3 DEF TypeOK, LoadBase, diskVars, lockVars
  <2>3. HolderOnly' /\ JournalOrdered'
    BY <1>1, <2>2 DEF JournalInv, TypeOK, HolderOnly, JournalOrdered
  <2>4. ~active[p] /\ MemoryCoversFile'
    BY <2>2 DEF JournalInv, MemoryCoversFile, Size
  <2>. QED
    BY <2>1, <2>2, <2>3, <2>4 DEF JournalInv
<1>4. CASE LoadJournal(p)
  <2>1. /\ graph'[p] \in Graphs
        /\ TailSeq(jnl.segs, 0, seq[p]) \in Nat
        /\ EndOf(jnl) \in Offset
        /\ taken[p] \in Stamp
    BY <1>1, <1>4, ReplayedTypes, 0 \in Nat DEF TypeOK, LoadJournal
  <2>2. TypeOK'
    BY <1>1, <1>4, <2>1 DEF TypeOK, LoadJournal, EndLoad, diskVars, lockVars, opVars, history, PC
  <2>3. /\ pc[p] = "replay" /\ pc' = [pc EXCEPT ![p] = "idle"]
        /\ UNCHANGED <<jnl, lock, lease, active>>
        /\ \A q \in Proc : q # p => seq'[q] = seq[q] /\ off'[q] = off[q]
    BY <1>1, <1>4 DEF TypeOK, LoadJournal, EndLoad, diskVars, lockVars
  <2>4. HolderOnly' /\ JournalOrdered'
    BY <1>1, <2>3 DEF JournalInv, TypeOK, HolderOnly, JournalOrdered
  <2>5. ~active[p] /\ MemoryCoversFile'
    BY <2>3 DEF JournalInv, MemoryCoversFile, Size
  <2>. QED
    BY <1>1, <2>2, <2>3, <2>4, <2>5 DEF JournalInv, TypeOK
<1>. QED
  BY <1>2, <1>3, <1>4

\* reload_if_changed() likewise, in each of its forms.
LEMMA RefreshStep ==
  ASSUME JournalInv, NEW p \in Proc, Refresh(p)
  PROVE  JournalInv'
<1> USE JournalFacts, RecordTypes DEF Refresh
<1>1. TypeOK
  BY DEF JournalInv
<1>2. CASE ReloadTail(p)
  <2>1. TypeOK'
    BY <1>1, <1>2 DEF TypeOK, ReloadTail, diskVars, lockVars, opVars, history, PC
  <2>. QED
    BY <1>2, <2>1 DEF JournalInv, TypeOK, HolderOnly, JournalOrdered, MemoryCoversFile, ReloadTail,
       diskVars, lockVars, opVars, history, Size
<1>3. CASE ReloadAll(p)
  <2>1. TypeOK'
    BY <1>1, <1>3 DEF TypeOK, ReloadAll, BeginLoad, diskVars, lockVars, opVars, history, PC
  <2>. QED
    BY <1>3, <2>1 DEF JournalInv, TypeOK, HolderOnly, JournalOrdered, MemoryCoversFile, ReloadAll,
       BeginLoad, diskVars, lockVars, opVars, history, Size
<1>4. CASE KeepOwn(p)
  <2>1. TypeOK'
    BY <1>1, <1>4 DEF TypeOK, KeepOwn, diskVars, lockVars, opVars, history, PC
  <2>. QED
    BY <1>4, <2>1 DEF JournalInv, TypeOK, HolderOnly, JournalOrdered, MemoryCoversFile, KeepOwn,
       diskVars, lockVars, opVars, history, Size
<1>5. CASE ReplayTail(p)
  <2>1. graph[p] \in Graphs /\ seq[p] \in Nat /\ taken[p] \in Stamp /\ off[p] \in Offset
    BY <1>1 DEF TypeOK
  <2>2. /\ Replay(graph[p], jnl.segs, off[p].at, seq[p]) \in Graphs
        /\ TailSeq(jnl.segs, off[p].at, seq[p]) \in Nat
        /\ EndOf(jnl) \in Offset
    BY <2>1, ReplayedTypes
  <2>3. TypeOK'
    BY <1>1, <1>5, <2>1, <2>2
       DEF TypeOK, ReplayTail, EndLoad, diskVars, lockVars, opVars, history, PC
  <2>4. /\ pc[p] = "tail" /\ pc' = [pc EXCEPT ![p] = "idle"]
        /\ UNCHANGED <<jnl, lock, lease, active>>
        /\ \A q \in Proc : q # p => seq'[q] = seq[q] /\ off'[q] = off[q]
    BY <1>1, <1>5 DEF TypeOK, ReplayTail, EndLoad, diskVars, lockVars
  <2>5. HolderOnly' /\ JournalOrdered'
    BY <1>1, <2>4 DEF JournalInv, TypeOK, HolderOnly, JournalOrdered
  <2>6. ~active[p] /\ MemoryCoversFile'
    BY <2>4 DEF JournalInv, MemoryCoversFile, Size
  <2>. QED
    BY <1>1, <2>3, <2>4, <2>5, <2>6 DEF JournalInv, TypeOK
<1>6. CASE ReplayGarbage(p)
  <2>1. taken[p] \in Stamp
    BY <1>1 DEF TypeOK
  <2>2. TypeOK'
    <3>1. /\ UNCHANGED <<diskVars, lockVars, graph, opVars, seq, off, active, history>>
          /\ pc' = [pc EXCEPT ![p] = "idle"] /\ taken' = [taken EXCEPT ![p] = NoStamp]
          /\ stamp' \in {stamp, [stamp EXCEPT ![p] = taken[p]]}
          /\ locked' \in {locked, [locked EXCEPT ![p] = TRUE]}
      BY <1>6 DEF ReplayGarbage, EndLoad
    <3>2. stamp' \in [Proc -> Stamp] /\ taken' \in [Proc -> Stamp] /\ locked' \in [Proc -> BOOLEAN]
      BY <1>1, <2>1, <3>1 DEF TypeOK
    <3>3. pc' \in [Proc -> PC]
      BY <1>1, <3>1 DEF TypeOK, PC
    <3>. QED
      BY <1>1, <3>1, <3>2, <3>3 DEF TypeOK, diskVars, lockVars, opVars, history
  <2>. QED
    <3>1. /\ pc[p] = "tail" /\ pc' = [pc EXCEPT ![p] = "idle"]
          /\ UNCHANGED <<jnl, lock, lease, seq, off, active>>
      BY <1>6 DEF ReplayGarbage, EndLoad, diskVars, lockVars
    <3>. QED
      BY <2>2, <3>1 DEF JournalInv, TypeOK, HolderOnly, JournalOrdered, MemoryCoversFile, Size
<1>. QED
  BY <1>2, <1>3, <1>4, <1>5, <1>6

\* A mutation changes neither the files nor what the instance knows of them.
LEMMA DoStep ==
  ASSUME JournalInv, NEW p \in Proc, NEW o \in Op, Do(p, o)
  PROVE  JournalInv'
<1>1. TypeOK
  BY DEF JournalInv
<1>2. Apply(graph[p], {o}) \in Graphs
  BY <1>1, ApplyType DEF TypeOK
<1>3. pending' \in [Proc -> SUBSET Op] /\ overflow' \in [Proc -> BOOLEAN]
  <2>1. pending \in [Proc -> SUBSET Op] /\ overflow \in [Proc -> BOOLEAN]
    BY <1>1 DEF TypeOK
  <2>2. \/ pending' = [pending EXCEPT ![p] = @ \cup {o}] /\ overflow' = overflow
        \/ overflow' = [overflow EXCEPT ![p] = TRUE] /\ pending' = pending
    BY DEF Do
  <2>. QED
    BY <2>1, <2>2
<1>4. TypeOK'
  BY <1>1, <1>2, <1>3 DEF TypeOK, Do, diskVars, lockVars, syncVars
<1>. QED
  BY <1>4 DEF JournalInv, Do, HolderOnly, JournalOrdered, MemoryCoversFile, diskVars, lockVars,
     syncVars, Size

\* The lease lets one instance journal, and that one numbers above the file.
LEMMA JournalingStep ==
  ASSUME JournalInv, NEW p \in Proc, Journal(p)
  PROVE  JournalInv'
<1> USE JournalFacts, RecordTypes DEF Journal
<1>1. TypeOK
  BY DEF JournalInv
<1>2. p # None
  BY NoneAssumption
<1>3. \A q \in Proc : active[q] /\ (active[p] \/ lease = None) => q = p
  BY NoneAssumption DEF JournalInv, HolderOnly
<1>4. CASE BeginJournal(p)
  <2>1. /\ TailSeq(jnl.segs, 0, seq[p]) \in Nat
        /\ \A i \in DOMAIN jnl.segs : TailSeq(jnl.segs, 0, seq[p]) >= jnl.segs[i].seq
    BY <1>1, WholeTail DEF TypeOK
  <2>2. \A i \in DOMAIN jnl.segs : jnl.segs[i].seq \in Nat
    <3>1. \A i \in DOMAIN jnl.segs : jnl.segs[i] \in Segment
      OBVIOUS
    <3>. QED
      BY <3>1 DEF Segment
  <2>3. jnl' \in Journals /\ jnl'.segs = jnl.segs /\ jnl'.present = jnl.present
    BY <1>4 DEF BeginJournal
  <2>4. StampOf(pkl.ver, Trimmed(jnl)) \in Stamp /\ EndOf(jnl) \in Offset
    OBVIOUS
  <2>5. TypeOK'
    <3>1. CASE jnl.present
      <4>1. seq' \in [Proc -> Nat]
        BY <1>1, <1>4, <2>1, <3>1 DEF TypeOK, BeginJournal
      <4>2. off' \in [Proc -> Offset]
        BY <1>1, <1>4, <2>4, <3>1 DEF TypeOK, BeginJournal
      <4>3. stamp' \in [Proc -> Stamp]
        <5>1. \E t \in Stamp : stamp' = [stamp EXCEPT ![p] = t]
          <6>1. stamp[p] \in Stamp
            BY <1>1 DEF TypeOK
          <6>. QED
            BY <1>4, <2>4, <3>1, <6>1 DEF BeginJournal
        <5>. QED
          BY <1>1, <5>1 DEF TypeOK
      <4>4. lease' = p /\ active' \in [Proc -> BOOLEAN]
        BY <1>1, <1>4 DEF TypeOK, BeginJournal
      <4>5. UNCHANGED <<pkl, lock, pc, graph, pending, overflow, taken, locked, issued, acked, retried>>
        BY <1>4 DEF BeginJournal, opVars, history
      <4>. QED
        BY <1>1, <2>3, <4>1, <4>2, <4>3, <4>4, <4>5 DEF TypeOK
    <3>2. CASE ~jnl.present
      BY <1>1, <1>4, <2>3, <3>2 DEF TypeOK, BeginJournal, opVars, history
    <3>. QED
      BY <3>1, <3>2
  <2>6. HolderOnly'
    BY <1>1, <1>3, <1>4 DEF JournalInv, TypeOK, HolderOnly, BeginJournal
  <2>7. JournalOrdered'
    BY <2>3 DEF JournalOrdered, Ordered
  <2>8. MemoryCoversFile'
    <3>1. CASE jnl.present
      BY <1>1, <1>3, <1>4, <2>1, <2>2, <2>3, <3>1 DEF TypeOK, MemoryCoversFile, BeginJournal
    <3>2. CASE ~jnl.present
      <4>1. jnl'.segs = <<>>
        BY <2>3, <3>2 DEF JournalInv
      <4>. QED
        BY <4>1 DEF MemoryCoversFile
    <3>. QED
      BY <3>1, <3>2
  <2>. QED
    BY <1>4, <2>3, <2>5, <2>6, <2>7, <2>8 DEF JournalInv, TypeOK, BeginJournal
<1>5. CASE FlushJournal(p)
  <2>1. active[p]
    BY <1>5 DEF FlushJournal
  <2>2. /\ FlushSeq(p) \in Nat
        /\ Flushed(p) \in Journals
        /\ Flushed(p).present
        /\ Ordered(Flushed(p).segs)
        /\ \A i \in DOMAIN Flushed(p).segs : Flushed(p).segs[i].seq <= FlushSeq(p)
    BY <2>1, FlushedOrdered
  <2>3. StampOf(pkl.ver, Flushed(p)) \in Stamp /\ EndOf(Flushed(p)) \in Offset
    BY <2>2
  <2>4. TypeOK'
    BY <1>1, <1>5, <2>2, <2>3 DEF TypeOK, FlushJournal, lockVars, PC
  <2>5. HolderOnly'
    BY <1>5 DEF JournalInv, HolderOnly, FlushJournal, lockVars
  <2>6. JournalOrdered'
    BY <1>5, <2>2 DEF JournalOrdered, Ordered, FlushJournal
  <2>7. MemoryCoversFile'
    BY <1>1, <1>3, <1>5, <2>1, <2>2 DEF TypeOK, MemoryCoversFile, FlushJournal
  <2>. QED
    BY <1>5, <2>2, <2>4, <2>5, <2>6, <2>7 DEF JournalInv, FlushJournal
<1>6. CASE FlushFails(p)
  <2>1. active[p]
    BY <1>6 DEF FlushFails
  <2>2. /\ Flushed(p) \in Journals
        /\ Flushed(p).present
        /\ Ordered(Flushed(p).segs)
    BY <2>1, FlushedOrdered
  <2>3. jnl' \in {jnl, Torn(jnl), Flushed(p)}
    BY <1>6 DEF FlushFails, FailedAppend
  <2>4. /\ jnl' \in Journals
        /\ Ordered(jnl'.segs)
        /\ ~jnl'.present => jnl'.segs = <<>>
    BY <2>2, <2>3 DEF JournalInv
  <2>5. TypeOK'
    BY <1>1, <1>6, <2>4 DEF TypeOK, FlushFails, opVars, syncVars
  <2>6. \A q \in Proc : ~active'[q]
    BY <1>1, <1>3, <1>6, <2>1 DEF TypeOK, FlushFails
  <2>7. HolderOnly'
    BY <1>6, <2>6 DEF JournalInv, HolderOnly, FlushFails
  <2>. QED
    BY <2>4, <2>5, <2>6, <2>7 DEF JournalInv, JournalOrdered, Ordered, MemoryCoversFile
<1>7. CASE EndJournal(p)
  <2>1. TypeOK'
    BY <1>1, <1>7 DEF TypeOK, EndJournal, diskVars, opVars, syncVars, history
  <2>2. \A q \in Proc : ~active'[q]
    BY <1>1, <1>3, <1>7 DEF TypeOK, EndJournal
  <2>. QED
    BY <1>7, <2>1, <2>2 DEF JournalInv, HolderOnly, JournalOrdered, MemoryCoversFile, EndJournal,
       diskVars
<1>. QED
  BY <1>4, <1>5, <1>6, <1>7

\* save() leaves numbering from memory sound: a rebase reads the whole file,
\* a compaction leaves no file.
LEMMA SaveStep ==
  ASSUME JournalInv, NEW p \in Proc, Save(p)
  PROVE  JournalInv'
<1> USE JournalFacts, RecordTypes DEF Save
<1>1. TypeOK
  BY DEF JournalInv
<1>2. \A q \in Proc : pc[q] \in {"promote", "compact"} /\ lock \in {None, p} => q = p
  BY NoneAssumption DEF JournalInv, HolderOnly
<1>3. CASE SaveBegin(p)
  <2>1. /\ TailSeq(jnl.segs, 0, pkl.marker) \in Nat
        /\ \A i \in DOMAIN jnl.segs : TailSeq(jnl.segs, 0, pkl.marker) >= jnl.segs[i].seq
    BY WholeTail
  <2>2. \A i \in DOMAIN jnl.segs : jnl.segs[i].seq \in Nat
    <3>1. \A i \in DOMAIN jnl.segs : jnl.segs[i] \in Segment
      OBVIOUS
    <3>. QED
      BY <3>1 DEF Segment
  <2>3. /\ Apply(Replay(pkl.graph, jnl.segs, 0, pkl.marker), pending[p]) \in Graphs
        /\ EndOf(jnl) \in Offset
    BY ReplayedTypes, 0 \in Nat
  <2>4. TypeOK'
    <3>1. graph' \in [Proc -> Graphs] /\ seq' \in [Proc -> Nat] /\ off' \in [Proc -> Offset]
      <4>1. graph \in [Proc -> Graphs] /\ seq \in [Proc -> Nat] /\ off \in [Proc -> Offset]
        BY <1>1 DEF TypeOK
      <4>2. CASE UNCHANGED <<graph, seq, off>>
        BY <4>1, <4>2
      <4>3. CASE ~UNCHANGED <<graph, seq, off>>
        <5>1. graph' = [graph EXCEPT ![p] = Apply(Replay(pkl.graph, jnl.segs, 0, pkl.marker), pending[p])]
          BY <1>3, <4>3 DEF SaveBegin
        <5>2. /\ seq' = [seq EXCEPT ![p] = TailSeq(jnl.segs, 0, pkl.marker)]
              /\ off' = [off EXCEPT ![p] = EndOf(jnl)]
          BY <1>3, <4>3 DEF SaveBegin
        <5>. QED
          BY <2>1, <2>3, <4>1, <5>1, <5>2
      <4>. QED
        BY <4>2, <4>3
    <3>2. pc' \in [Proc -> PC] /\ lock' \in Proc \cup {None} /\ stamp' \in [Proc -> Stamp]
      BY <1>1, <1>3 DEF TypeOK, SaveBegin, PC
    <3>3. UNCHANGED <<diskVars, lease, opVars, taken, active, locked, history>>
      BY <1>3 DEF SaveBegin
    <3>. QED
      BY <1>1, <3>1, <3>2, <3>3 DEF TypeOK, diskVars, opVars, history
  <2>5. HolderOnly'
    BY <1>1, <1>2, <1>3 DEF JournalInv, TypeOK, HolderOnly, SaveBegin
  <2>6. MemoryCoversFile'
    <3>1. SUFFICES ASSUME NEW q \in Proc, active[q], Size(jnl) = off'[q].at,
                          NEW i \in DOMAIN jnl.segs
                   PROVE  jnl.segs[i].seq <= seq'[q]
      BY <1>3 DEF MemoryCoversFile, SaveBegin, diskVars, Size
    <3>2. CASE seq' = seq /\ off' = off
      BY <3>1, <3>2 DEF JournalInv, MemoryCoversFile
    <3>3. CASE q # p
      BY <1>1, <1>3, <3>1, <3>3 DEF JournalInv, TypeOK, MemoryCoversFile, SaveBegin
    <3>4. CASE q = p /\ seq' = [seq EXCEPT ![p] = TailSeq(jnl.segs, 0, pkl.marker)]
      BY <1>1, <2>1, <2>2, <3>4 DEF TypeOK
    <3>. QED
      BY <1>3, <3>2, <3>3, <3>4 DEF SaveBegin
  <2>. QED
    BY <1>1, <1>3, <2>4, <2>5, <2>6 DEF JournalInv, TypeOK, JournalOrdered, SaveBegin, diskVars
<1>4. CASE SavePromote(p)
  <2>1. pkl' \in Pickle
    BY <1>1, <1>4 DEF TypeOK, SavePromote, Pickle
  <2>2. TypeOK'
    BY <1>1, <1>4, <2>1 DEF TypeOK, SavePromote, lockVars, opVars, syncVars, history, PC
  <2>. QED
    BY <1>4, <2>2 DEF JournalInv, TypeOK, HolderOnly, JournalOrdered, MemoryCoversFile,
       SavePromote, lockVars, syncVars, Size
<1>5. CASE SaveFails(p)
  <2>1. TypeOK'
    BY <1>1, <1>5 DEF TypeOK, SaveFails, diskVars, opVars, syncVars, history, PC
  <2>2. HolderOnly'
    BY <1>1, <1>2, <1>5 DEF JournalInv, TypeOK, HolderOnly, SaveFails
  <2>. QED
    BY <1>5, <2>1, <2>2 DEF JournalInv, TypeOK, JournalOrdered, MemoryCoversFile, SaveFails,
       diskVars, syncVars, Size
<1>6. CASE SaveCompact(p)
  <2>1. jnl' = jnl \/ jnl' = NoJournal(pkl.ver)
    BY <1>6 DEF SaveCompact
  <2>2. jnl' \in Journals /\ Ordered(jnl'.segs) /\ (~jnl'.present => jnl'.segs = <<>>)
    <3>1. CASE jnl' = jnl
      BY <3>1 DEF JournalInv
    <3>2. CASE jnl' = NoJournal(pkl.ver)
      <4>1. jnl'.segs = <<>> /\ jnl' \in Journals
        BY <3>2
      <4>. QED
        BY <4>1 DEF Ordered
    <3>. QED
      BY <2>1, <3>1, <3>2
  <2>3. TypeOK'
    <3>1. off' \in [Proc -> Offset]
      BY <1>1, <1>6 DEF TypeOK, SaveCompact
    <3>2. pc' \in [Proc -> PC] /\ lock' \in Proc \cup {None}
      BY <1>1, <1>6 DEF TypeOK, SaveCompact, PC
    <3>3. UNCHANGED <<pkl, lease, graph, opVars, seq, stamp, taken, active, locked, history>>
      BY <1>6 DEF SaveCompact
    <3>. QED
      BY <1>1, <2>2, <3>1, <3>2, <3>3 DEF TypeOK, opVars, history
  <2>4. HolderOnly'
    BY <1>1, <1>2, <1>6 DEF JournalInv, TypeOK, HolderOnly, SaveCompact
  <2>5. MemoryCoversFile'
    <3>1. CASE jnl' = jnl /\ off' = off
      BY <1>6, <3>1 DEF JournalInv, MemoryCoversFile, SaveCompact, Size
    <3>2. CASE jnl' = NoJournal(pkl.ver)
      <4>1. jnl'.segs = <<>>
        BY <3>2
      <4>. QED
        BY <4>1 DEF MemoryCoversFile
    <3>. QED
      BY <1>6, <3>1, <3>2 DEF SaveCompact
  <2>. QED
    BY <1>6, <2>2, <2>3, <2>4, <2>5 DEF JournalInv, TypeOK, JournalOrdered, Ordered, SaveCompact
<1>7. CASE SaveResync(p)
  <2>1. TypeOK'
    BY <1>1, <1>7 DEF TypeOK, SaveResync, diskVars, lockVars, PC
  <2>. QED
    BY <1>7, <2>1 DEF JournalInv, TypeOK, HolderOnly, JournalOrdered, MemoryCoversFile,
       SaveResync, diskVars, lockVars, Size
<1>. QED
  BY <1>3, <1>4, <1>5, <1>6, <1>7

\* A dead instance holds nothing and leaves at most a torn tail.
LEMMA FaultStep ==
  ASSUME JournalInv, NEW p \in Proc, Fault(p)
  PROVE  JournalInv'
<1> USE JournalFacts, RecordTypes DEF Fault
<1>1. TypeOK
  BY DEF JournalInv
<1>2. Forget(p)
  BY DEF Crash, CrashInAppend
<1>3. /\ jnl' \in Journals
      /\ jnl'.segs = jnl.segs
      /\ ~jnl'.present => jnl'.segs = <<>>
  BY DEF Crash, CrashInAppend, JournalInv
<1>4. TypeOK'
  BY <1>1, <1>2, <1>3, 0 \in Nat DEF TypeOK, Forget, history, PC
<1>5. HolderOnly'
  BY <1>1, <1>2 DEF JournalInv, TypeOK, HolderOnly, Forget
<1>6. JournalOrdered'
  BY <1>3 DEF JournalOrdered, Ordered
<1>7. MemoryCoversFile'
  <2>1. CASE jnl' = jnl
    BY <1>1, <1>2, <2>1 DEF JournalInv, TypeOK, MemoryCoversFile, Forget, Size
  <2>2. CASE CrashInAppend(p)
    <3>1. active[p]
      BY <2>2 DEF CrashInAppend
    <3>2. \A q \in Proc : active[q] => q = p
      BY <3>1 DEF JournalInv, HolderOnly
    <3>3. \A q \in Proc : ~active'[q]
      BY <1>1, <1>2, <3>2 DEF TypeOK, Forget
    <3>. QED
      BY <3>3 DEF MemoryCoversFile
  <2>. QED
    BY <2>1, <2>2 DEF Crash
<1>. QED
  BY <1>1, <1>2, <1>3, <1>4, <1>5, <1>6, <1>7 DEF JournalInv, TypeOK, Forget

\* The journal invariant is inductive.
LEMMA JournalInit == Init => JournalInv
<1> SUFFICES ASSUME Init PROVE JournalInv
  OBVIOUS
<1>1. EmptyGraph \in Graphs
  BY DEF EmptyGraph, Graphs
<1>2. jnl \in Journals /\ jnl.segs = <<>> /\ pkl \in Pickle
  BY <1>1 DEF Init, NoJournal, Journals, Pickle
<1>3. NoStamp \in Stamp /\ NoOffset \in Offset
  BY <1>2, RecordTypes, 0 \in Nat
<1>4. TypeOK
  BY <1>1, <1>2, <1>3 DEF Init, TypeOK, PC
<1>. QED
  BY <1>2, <1>4 DEF Init, JournalInv, HolderOnly, JournalOrdered, Ordered, MemoryCoversFile

LEMMA JournalStep == JournalInv /\ [Next]_vars => JournalInv'
<1> SUFFICES ASSUME JournalInv, [Next]_vars PROVE JournalInv'
  OBVIOUS
<1>1. CASE Next
  BY <1>1, LoadStep, RefreshStep, DoStep, JournalingStep, SaveStep, FaultStep DEF Next
<1>2. CASE UNCHANGED vars
  BY <1>2 DEF JournalInv, TypeOK, HolderOnly, JournalOrdered, MemoryCoversFile, Size, vars,
     diskVars, lockVars, opVars, syncVars, history
<1>. QED
  BY <1>1, <1>2

\* Whatever the instances do, crash at or fail in, the journal invariant holds.
THEOREM JournalInvariant == Spec => []JournalInv
BY JournalInit, JournalStep, PTL DEF Spec

\* Every variable keeps its type.
THEOREM TypeCorrect == Spec => []TypeOK
<1>1. JournalInv => TypeOK
  BY DEF JournalInv
<1>. QED
  BY <1>1, JournalInvariant, PTL

\* WriterLease and store_lock: only the lease holder journals, only the lock
\* holder is inside the critical section of save().
THEOREM Exclusion == Spec => []HolderOnly
<1>1. JournalInv => HolderOnly
  BY DEF JournalInv
<1>. QED
  BY <1>1, JournalInvariant, PTL

\* flush_journal and begin_journal: segment numbers rise strictly along the
\* journal, for any number of writers and any history of crashes.
THEOREM SegmentOrder == Spec => []JournalOrdered
<1>1. JournalInv => JournalOrdered
  BY DEF JournalInv
<1>. QED
  BY <1>1, JournalInvariant, PTL

-----------------------------------------------------------------------------
(***************************************************************************)
(* The contents.  While one instance writes, the graph a load finds is     *)
(* what graph.pkl and the segments of the journal hold, each op once.      *)
(***************************************************************************)
OneWriter == \A p, q \in Writers : p = q

\* The segments that a replay after the first n, above base, applies o from.
Newer(segs, n, base, o) ==
  {i \in DOMAIN segs : i > n /\ segs[i].seq > base /\ o \in segs[i].ops}

\* _replay_journal applies an op as often as it meets it past the offset and
\* above the marker.
LEMMA ReplayAt ==
  ASSUME NEW g \in Graphs, NEW segs \in Seq(Segment), NEW n \in Nat, NEW base \in Nat,
         NEW o \in Op
  PROVE  /\ g[o] \in Nat /\ Replay(g, segs, n, base)[o] \in Nat
         /\ Replay(g, segs, n, base)[o] >= g[o]
         /\ Newer(segs, n, base, o) = {} => Replay(g, segs, n, base)[o] = g[o]
         /\ Newer(segs, n, base, o) # {} => Replay(g, segs, n, base)[o] > g[o]
         /\ (\A i, j \in Newer(segs, n, base, o) : i = j)
              => Replay(g, segs, n, base)[o] <= g[o] + 1
<1> DEFINE I == Newer(segs, n, base, o)
<1>1. I \subseteq 1 .. Len(segs)
  BY DEF Newer
<1>2. IsFiniteSet(I)
  <2>1. IsFiniteSet(1 .. Len(segs))
    BY FS_Interval
  <2>. QED
    BY <1>1, <2>1, FS_Subset
<1>3. g[o] \in Nat
  BY DEF Graphs
<1>4. Replay(g, segs, n, base)[o] = g[o] + Cardinality(I)
  BY DEF Replay, Newer
<1>5. Cardinality(I) \in Nat /\ (Cardinality(I) = 0 <=> I = {})
  BY <1>2, FS_CardinalityType, FS_EmptySet
<1>6. (\A i, j \in I : i = j) => Cardinality(I) <= 1
  <2> HAVE \A i, j \in I : i = j
  <2>1. CASE I = {}
    BY <1>5, <2>1
  <2>2. ASSUME NEW i \in I PROVE Cardinality(I) <= 1
    <3>1. I = {i}
      OBVIOUS
    <3>2. Cardinality({i}) = 1
      BY FS_Singleton
    <3>. QED
      BY <3>1, <3>2
  <2>. QED
    BY <2>1, <2>2
<1> HIDE DEF I
<1>7. /\ I = {} => Replay(g, segs, n, base)[o] = g[o]
      /\ I # {} => Replay(g, segs, n, base)[o] > g[o]
      /\ Replay(g, segs, n, base)[o] \in Nat
      /\ Replay(g, segs, n, base)[o] >= g[o]
      /\ (\A i, j \in I : i = j) => Replay(g, segs, n, base)[o] <= g[o] + 1
  BY <1>3, <1>4, <1>5, <1>6
<1>. QED
  BY <1>3, <1>7 DEF I

\* So it adds to what the graph holds what those segments hold.
LEMMA ReplaySupport ==
  ASSUME NEW g \in Graphs, NEW segs \in Seq(Segment), NEW n \in Nat, NEW base \in Nat
  PROVE  \A o \in Op : o \in Support(Replay(g, segs, n, base)) <=>
           o \in Support(g) \/ \E i \in DOMAIN segs :
              i > n /\ segs[i].seq > base /\ o \in segs[i].ops
<1> SUFFICES ASSUME NEW o \in Op
             PROVE  o \in Support(Replay(g, segs, n, base)) <=>
                      o \in Support(g) \/ Newer(segs, n, base, o) # {}
  BY DEF Newer
<1>1. /\ g[o] \in Nat /\ Replay(g, segs, n, base)[o] \in Nat
      /\ Newer(segs, n, base, o) = {} => Replay(g, segs, n, base)[o] = g[o]
      /\ Newer(segs, n, base, o) # {} => Replay(g, segs, n, base)[o] > g[o]
  BY ReplayAt
<1>. QED
  BY <1>1 DEF Support

\* _apply adds the ops it is given, each once.
LEMMA ApplyAt ==
  ASSUME NEW g \in Graphs, NEW S \in SUBSET Op
  PROVE  /\ \A o \in Op : Apply(g, S)[o] = IF o \in S THEN g[o] + 1 ELSE g[o]
         /\ Support(Apply(g, S)) = Support(g) \cup S
<1>1. \A o \in Op : g[o] \in Nat
  BY DEF Graphs
<1>2. \A o \in Op : Apply(g, S)[o] = IF o \in S THEN g[o] + 1 ELSE g[o]
  BY <1>1 DEF Apply
<1>. QED
  BY <1>1, <1>2 DEF Support

-----------------------------------------------------------------------------
\* The ops that the segments of the journal carry.
InJournal == {o \in Op : \E i \in DOMAIN jnl.segs : o \in jnl.segs[i].ops}

\* A load finds what graph.pkl and the segments hold.
Stored == OnDisk = Support(pkl.graph) \cup InJournal

\* The segments of the journal have numbers and carry ops.
LEMMA SegmentFacts ==
  ASSUME JournalInv
  PROVE  \A i \in DOMAIN jnl.segs : jnl.segs[i].seq \in Nat /\ jnl.segs[i].ops \in SUBSET Op
<1>1. \A i \in DOMAIN jnl.segs : jnl.segs[i] \in Segment
  BY JournalFacts
<1>. QED
  BY <1>1 DEF Segment

\* What a load finds: nothing that is skipped is lost (GRAPH_CONCURRENCY.md, rule 2).
LEMMA StoredIs == JournalInv /\ SkippedIsFolded => Stored
<1> SUFFICES ASSUME JournalInv, SkippedIsFolded
             PROVE  Stored
  OBVIOUS
<1>1. pkl.graph \in Graphs /\ jnl.segs \in Seq(Segment) /\ pkl.marker \in Nat /\ 0 \in Nat
  BY JournalFacts
<1>2. \A o \in Op : o \in OnDisk <=>
         o \in Support(pkl.graph) \/ \E i \in DOMAIN jnl.segs :
            i > 0 /\ jnl.segs[i].seq > pkl.marker /\ o \in jnl.segs[i].ops
  BY <1>1, ReplaySupport DEF OnDisk, DiskGraph
<1>3. \A i \in DOMAIN jnl.segs : i > 0 /\ jnl.segs[i].seq \in Nat
  BY <1>1, SegmentFacts
<1>4. ASSUME NEW o \in Op, NEW i \in DOMAIN jnl.segs, o \in jnl.segs[i].ops
      PROVE  o \in OnDisk
  <2>1. CASE jnl.segs[i].seq > pkl.marker
    BY <1>2, <1>3, <1>4, <2>1
  <2>2. CASE jnl.segs[i].seq <= pkl.marker
    BY <1>2, <1>4, <2>2 DEF SkippedIsFolded
  <2>. QED
    BY <1>1, <1>3, <2>1, <2>2
<1>5. OnDisk \subseteq Op /\ Support(pkl.graph) \subseteq Op
  BY DEF OnDisk, Support
<1>. QED
  BY <1>2, <1>4, <1>5 DEF InJournal, Stored

-----------------------------------------------------------------------------
\* The inductive invariant of the contents, with what it needs of the journal.
CInv == JournalInv /\ ContentsInv /\ AckedOnDisk

\* One step of one instance, as in Next.
Step(p) ==
  \/ Load(p)
  \/ Refresh(p)
  \/ \E o \in Op : Do(p, o)
  \/ Journal(p)
  \/ Save(p)
  \/ Fault(p)

\* What a step can do to the files: nothing but cut or leave a torn tail, append
\* the pending ops, replace graph.pkl, drop the journal.
Kept == pkl' = pkl /\ jnl'.segs = jnl.segs /\ jnl'.gen = jnl.gen
Wrote(p) ==
  /\ p \in Writers /\ pc[p] = "idle" /\ active[p]
  /\ pkl' = pkl /\ jnl' = Flushed(p)
Promoted(p) ==
  /\ p \in Writers /\ pc[p] = "promote"
  /\ pkl' = [graph |-> graph[p], marker |-> seq[p], ver |-> pkl.ver + 1] /\ jnl' = jnl
Dropped(p) ==
  /\ p \in Writers /\ pc[p] = "compact"
  /\ pkl' = pkl /\ jnl' = NoJournal(pkl.ver)

\* Which instance does which, and where it is in its call.
LEMMA Effects ==
  ASSUME CInv, NEW p \in Proc, Step(p)
  PROVE  Kept \/ Wrote(p) \/ Promoted(p) \/ Dropped(p)
<1>1. p \notin Writers => pc[p] \notin {"promote", "compact", "resync"} /\ ~active[p]
  BY DEF CInv, ContentsInv, ReaderBehind
<1>2. /\ Trimmed(jnl).segs = jnl.segs /\ Trimmed(jnl).gen = jnl.gen
      /\ Torn(jnl).segs = jnl.segs /\ Torn(jnl).gen = jnl.gen
  <2>1. jnl \in Journals
    BY JournalFacts DEF CInv
  <2>. QED
    BY <2>1 DEF Trimmed, Torn, Journals
<1>3. CASE Load(p)
  BY <1>3 DEF Load, Start, BeginLoad, LoadBase, LoadJournal, EndLoad, Kept, diskVars
<1>4. CASE Refresh(p)
  BY <1>4 DEF Refresh, ReloadTail, ReloadAll, BeginLoad, KeepOwn, ReplayTail, ReplayGarbage, EndLoad,
     Kept, diskVars
<1>5. CASE \E o \in Op : Do(p, o)
  BY <1>5 DEF Do, Kept, diskVars
<1>6. CASE Journal(p)
  <2>1. CASE BeginJournal(p)
    BY <1>2, <2>1 DEF BeginJournal, Kept
  <2>2. CASE FlushJournal(p)
    BY <1>1, <2>2 DEF FlushJournal, Wrote
  <2>3. CASE FlushFails(p)
    <3>1. jnl' \in {jnl, Torn(jnl), Flushed(p)} /\ pkl' = pkl /\ active[p] /\ pc[p] = "idle"
      BY <2>3 DEF FlushFails, FailedAppend
    <3>. QED
      BY <1>1, <1>2, <3>1 DEF Kept, Wrote
  <2>4. CASE EndJournal(p)
    BY <2>4 DEF EndJournal, diskVars, Kept
  <2>. QED
    BY <1>6, <2>1, <2>2, <2>3, <2>4 DEF Journal
<1>7. CASE Save(p)
  <2>1. CASE SaveBegin(p) \/ SaveFails(p) \/ SaveResync(p)
    BY <2>1 DEF SaveBegin, SaveFails, SaveResync, Kept, diskVars
  <2>2. CASE SavePromote(p)
    BY <1>1, <2>2 DEF SavePromote, Promoted
  <2>3. CASE SaveCompact(p)
    <3>1. pkl' = pkl /\ jnl' \in {jnl, NoJournal(pkl.ver)} /\ pc[p] = "compact"
      BY <2>3 DEF SaveCompact
    <3>. QED
      BY <1>1, <3>1 DEF Kept, Dropped
  <2>. QED
    BY <1>7, <2>1, <2>2, <2>3 DEF Save
<1>8. CASE Fault(p)
  BY <1>2, <1>8 DEF Fault, Crash, CrashInAppend, Forget, Kept
<1>. QED
  BY <1>3, <1>4, <1>5, <1>6, <1>7, <1>8 DEF Step

\* What each does to what a load finds.
LEMMA KeptContents ==
  ASSUME CInv, JournalInv', Kept
  PROVE  SkippedIsFolded' /\ OnDisk' = OnDisk /\ InJournal' = InJournal
<1>1. SkippedIsFolded'
  BY DEF CInv, ContentsInv, SkippedIsFolded, Kept, Support
<1>. QED
  BY <1>1 DEF Kept, OnDisk, DiskGraph, Support, Replay, InJournal

\* The invariant, for a writer.
LEMMA WriterFacts ==
  ASSUME CInv, NEW p \in Writers
  PROVE  WriterHolds(p) /\ p \in Proc /\ OnDisk = Support(pkl.graph) \cup InJournal
         /\ seq[p] \in Nat /\ pending[p] \in SUBSET Op /\ graph[p] \in Graphs
         /\ pc[p] \in PC /\ overflow[p] \in BOOLEAN /\ active[p] \in BOOLEAN
<1>1. p \in Proc
  BY ProcAssumption
<1>. QED
  BY <1>1, StoredIs DEF CInv, ContentsInv, JournalInv, TypeOK, Stored

\* flush_journal: the new segment is last, above the marker, and its ops are found.
LEMMA WroteContents ==
  ASSUME CInv, JournalInv', NEW p \in Proc, Wrote(p)
  PROVE  /\ SkippedIsFolded'
         /\ OnDisk' = OnDisk \cup pending[p]
         /\ DOMAIN jnl'.segs = 1 .. Len(jnl.segs) + 1 /\ Len(jnl.segs) \in Nat
         /\ DOMAIN jnl.segs = 1 .. Len(jnl.segs)
         /\ \A i \in DOMAIN jnl.segs : jnl'.segs[i] = jnl.segs[i]
         /\ jnl'.segs[Len(jnl.segs) + 1] = [seq |-> FlushSeq(p), ops |-> pending[p]]
         /\ FlushSeq(p) \in Nat /\ FlushSeq(p) > seq[p] /\ FlushSeq(p) > pkl.marker
         /\ jnl'.gen = jnl.gen /\ pkl' = pkl
         /\ \A i \in DOMAIN jnl'.segs : jnl'.segs[i].seq <= FlushSeq(p)
<1> DEFINE new == [seq |-> FlushSeq(p), ops |-> pending[p]]
<1>1. /\ WriterHolds(p) /\ p \in Proc /\ OnDisk = Support(pkl.graph) \cup InJournal
      /\ seq[p] \in Nat /\ pending[p] \in SUBSET Op
      /\ active[p] /\ pc[p] = "idle" /\ jnl' = Flushed(p) /\ pkl' = pkl
  BY WriterFacts DEF Wrote
<1>2. /\ FlushSeq(p) \in Nat /\ FlushSeq(p) > seq[p]
      /\ \A i \in DOMAIN jnl'.segs : jnl'.segs[i].seq <= FlushSeq(p)
  BY <1>1, FlushedOrdered DEF CInv
<1>3. /\ jnl \in Journals /\ jnl.segs \in Seq(Segment) /\ pkl.marker \in Nat
  BY JournalFacts DEF CInv
<1>4. jnl'.segs = Append(jnl.segs, new) /\ jnl'.gen = jnl.gen
  BY <1>1, <1>3 DEF Flushed, Journals
<1>5. /\ DOMAIN jnl'.segs = 1 .. Len(jnl.segs) + 1 /\ Len(jnl.segs) \in Nat
      /\ DOMAIN jnl.segs = 1 .. Len(jnl.segs)
      /\ \A i \in DOMAIN jnl.segs : jnl'.segs[i] = jnl.segs[i]
      /\ jnl'.segs[Len(jnl.segs) + 1] = new
  <2>1. new \in Segment
    BY <1>1, <1>2 DEF Segment
  <2>. QED
    BY <1>3, <1>4, <2>1, AppendProperties, LenProperties
<1>6. pkl.marker <= seq[p]
  BY <1>1 DEF WriterHolds
<1>7. FlushSeq(p) > pkl.marker
  BY <1>1, <1>2, <1>3, <1>6
<1>8. SkippedIsFolded'
  <2>1. SUFFICES ASSUME NEW i \in DOMAIN jnl'.segs, jnl'.segs[i].seq <= pkl.marker
                 PROVE  jnl'.segs[i].ops \subseteq Support(pkl.graph)
    BY <1>1 DEF SkippedIsFolded, Support
  <2>2. CASE i \in DOMAIN jnl.segs
    BY <1>5, <2>1, <2>2 DEF CInv, ContentsInv, SkippedIsFolded
  <2>3. CASE i = Len(jnl.segs) + 1
    BY <1>2, <1>3, <1>5, <1>7, <2>1, <2>3
  <2>. QED
    BY <1>5, <2>2, <2>3
<1>9. OnDisk' = Support(pkl'.graph) \cup InJournal'
  <2>1. Stored'
    BY <1>8, StoredIs, PTL
  <2>. QED
    BY <2>1 DEF Stored
<1>10. InJournal' = InJournal \cup pending[p]
  <2>1. InJournal' \subseteq InJournal \cup pending[p]
    <3>1. SUFFICES ASSUME NEW o \in Op, NEW i \in DOMAIN jnl'.segs, o \in jnl'.segs[i].ops
                   PROVE  o \in InJournal \cup pending[p]
      BY DEF InJournal
    <3>2. CASE i \in DOMAIN jnl.segs
      BY <1>5, <3>1, <3>2 DEF InJournal
    <3>3. CASE i = Len(jnl.segs) + 1
      BY <1>5, <3>1, <3>3
    <3>. QED
      BY <1>5, <3>2, <3>3
  <2>2. InJournal \subseteq InJournal'
    <3>1. SUFFICES ASSUME NEW o \in Op, NEW i \in DOMAIN jnl.segs, o \in jnl.segs[i].ops
                   PROVE  o \in InJournal'
      BY DEF InJournal
    <3>2. i \in DOMAIN jnl'.segs /\ o \in jnl'.segs[i].ops
      BY <1>5, <3>1
    <3>. QED
      BY <3>2 DEF InJournal
  <2>3. pending[p] \subseteq InJournal'
    <3>1. SUFFICES ASSUME NEW o \in pending[p] PROVE o \in InJournal'
      OBVIOUS
    <3>2. Len(jnl.segs) + 1 \in DOMAIN jnl'.segs /\ jnl'.segs[Len(jnl.segs) + 1].ops = pending[p]
      BY <1>5
    <3>3. o \in Op
      BY <1>1
    <3>. QED
      BY <3>2, <3>3 DEF InJournal
  <2>. QED
    BY <2>1, <2>2, <2>3
<1>11. Support(pkl'.graph) = Support(pkl.graph)
  BY <1>1
<1>. QED
  BY <1>1, <1>2, <1>4, <1>5, <1>7, <1>8, <1>9, <1>10, <1>11

\* os.replace: graph.pkl now holds what the segments hold, which stay behind it.
LEMMA PromotedContents ==
  ASSUME CInv, JournalInv', NEW p \in Proc, Promoted(p)
  PROVE  /\ SkippedIsFolded'
         /\ OnDisk' = Support(graph[p]) /\ OnDisk \subseteq OnDisk' /\ pending[p] \subseteq OnDisk'
         /\ pkl'.graph = graph[p] /\ pkl'.marker = seq[p] /\ pkl'.ver = pkl.ver + 1 /\ jnl' = jnl
<1>1. /\ WriterHolds(p) /\ OnDisk = Support(pkl.graph) \cup InJournal
      /\ pc[p] = "promote" /\ jnl' = jnl
  BY WriterFacts DEF Promoted
<1>2. pkl'.graph = graph[p] /\ pkl'.marker = seq[p] /\ pkl'.ver = pkl.ver + 1
  BY DEF Promoted
<1>3. OnDisk \cup pending[p] \subseteq Support(graph[p])
  BY <1>1 DEF WriterHolds, Loaded
<1>4. \A i \in DOMAIN jnl.segs : jnl.segs[i].ops \subseteq InJournal
  BY SegmentFacts DEF InJournal, CInv
<1>5. Support(pkl'.graph) = Support(graph[p])
  BY <1>2
<1>6. SkippedIsFolded'
  BY <1>1, <1>3, <1>4, <1>5 DEF SkippedIsFolded, Support
<1>7. OnDisk' = Support(pkl'.graph) \cup InJournal'
  <2>1. Stored'
    BY <1>6, StoredIs, PTL
  <2>. QED
    BY <2>1 DEF Stored
<1>8. InJournal' = InJournal
  BY <1>1 DEF InJournal
<1>. QED
  BY <1>1, <1>2, <1>3, <1>5, <1>6, <1>7, <1>8

\* _compact_journal_locked: graph.pkl already has all that the journal had.
LEMMA DroppedContents ==
  ASSUME CInv, JournalInv', NEW p \in Proc, Dropped(p)
  PROVE  SkippedIsFolded' /\ OnDisk' = OnDisk /\ jnl'.segs = <<>> /\ jnl'.gen = pkl.ver /\ pkl' = pkl
<1>1. /\ WriterHolds(p) /\ OnDisk = Support(pkl.graph) \cup InJournal
      /\ pc[p] = "compact" /\ jnl' = NoJournal(pkl.ver) /\ pkl' = pkl
  BY WriterFacts DEF Dropped
<1>2. jnl'.segs = <<>> /\ jnl'.gen = pkl.ver
  BY <1>1 DEF NoJournal
<1>3. OnDisk \subseteq Support(pkl.graph)
  BY <1>1 DEF WriterHolds, Loaded
<1>4. SkippedIsFolded'
  BY <1>2 DEF SkippedIsFolded
<1>5. OnDisk' = Support(pkl'.graph) \cup InJournal'
  <2>1. Stored'
    BY <1>4, StoredIs, PTL
  <2>. QED
    BY <2>1 DEF Stored
<1>6. InJournal' = {}
  BY <1>2 DEF InJournal
<1>7. Support(pkl'.graph) = Support(pkl.graph)
  BY <1>1
<1>. QED
  BY <1>1, <1>2, <1>3, <1>4, <1>5, <1>6, <1>7

-----------------------------------------------------------------------------
\* The memory of an instance is its own.
Mine(q) ==
  <<pc[q], graph[q], pending[q], overflow[q], seq[q], off[q], stamp[q], taken[q], active[q], locked[q]>>

\* No step touches that of another.
LEMMA Frame ==
  ASSUME JournalInv, NEW p \in Proc, Step(p), NEW q \in Proc, q # p
  PROVE  Mine(q)' = Mine(q)
<1>1. /\ pc \in [Proc -> PC] /\ graph \in [Proc -> Graphs] /\ pending \in [Proc -> SUBSET Op]
      /\ overflow \in [Proc -> BOOLEAN] /\ seq \in [Proc -> Nat] /\ off \in [Proc -> Offset]
      /\ stamp \in [Proc -> Stamp] /\ taken \in [Proc -> Stamp] /\ active \in [Proc -> BOOLEAN]
      /\ locked \in [Proc -> BOOLEAN]
  BY DEF JournalInv, TypeOK
<1> USE <1>1 DEF Mine, opVars, syncVars
<1>2. CASE Load(p)
  BY <1>2 DEF Load, Start, BeginLoad, LoadBase, LoadJournal, EndLoad
<1>3. CASE Refresh(p)
  <2>1. CASE ReloadTail(p)
    BY <2>1 DEF ReloadTail
  <2>2. CASE ReloadAll(p)
    BY <2>2 DEF ReloadAll, BeginLoad
  <2>3. CASE KeepOwn(p)
    BY <2>3 DEF KeepOwn
  <2>4. CASE ReplayTail(p)
    BY <2>4 DEF ReplayTail, EndLoad
  <2>5. CASE ReplayGarbage(p)
    BY <2>5 DEF ReplayGarbage, EndLoad
  <2>. QED
    BY <1>3, <2>1, <2>2, <2>3, <2>4, <2>5 DEF Refresh
<1>4. CASE \E o \in Op : Do(p, o)
  BY <1>4 DEF Do
<1>5. CASE Journal(p)
  <2>1. CASE BeginJournal(p)
    BY <2>1 DEF BeginJournal
  <2>2. CASE FlushJournal(p)
    BY <2>2 DEF FlushJournal
  <2>3. CASE FlushFails(p)
    BY <2>3 DEF FlushFails
  <2>4. CASE EndJournal(p)
    BY <2>4 DEF EndJournal
  <2>. QED
    BY <1>5, <2>1, <2>2, <2>3, <2>4 DEF Journal
<1>6. CASE Save(p)
  <2>1. CASE SaveBegin(p)
    BY <2>1 DEF SaveBegin
  <2>2. CASE SavePromote(p)
    BY <2>2 DEF SavePromote
  <2>3. CASE SaveFails(p)
    BY <2>3 DEF SaveFails
  <2>4. CASE SaveCompact(p)
    BY <2>4 DEF SaveCompact
  <2>5. CASE SaveResync(p)
    BY <2>5 DEF SaveResync
  <2>. QED
    BY <1>6, <2>1, <2>2, <2>3, <2>4, <2>5 DEF Save
<1>7. CASE Fault(p)
  BY <1>7 DEF Fault, Crash, CrashInAppend, Forget
<1>. QED
  BY <1>2, <1>3, <1>4, <1>5, <1>6, <1>7 DEF Step

-----------------------------------------------------------------------------
\* What the segments add to a graph, of an instance that has all or part of them.
LEMMA Replayed ==
  ASSUME CInv, NEW g \in Graphs, NEW n \in Nat, NEW base \in Nat
  PROVE  /\ Replay(g, jnl.segs, n, base) \in Graphs
         /\ Support(g) \subseteq Support(Replay(g, jnl.segs, n, base))
         /\ Support(Replay(g, jnl.segs, n, base)) \subseteq Support(g) \cup OnDisk
         /\ TailSeq(jnl.segs, n, base) \in Nat /\ TailSeq(jnl.segs, n, base) >= base
<1>1. jnl.segs \in Seq(Segment) /\ Ordered(jnl.segs)
  BY JournalFacts DEF CInv
<1>2. Support(Replay(g, jnl.segs, n, base)) \subseteq Op /\ Support(g) \subseteq Op
  BY DEF Support
<1>3. Stored
  BY StoredIs DEF CInv, ContentsInv
<1>. QED
  BY <1>1, <1>2, <1>3, ReplayType, ReplaySupport, TailSeqMax DEF Stored, InJournal

\* A load builds what is on disk and adds the instance's own ops.
LEMMA Rebased ==
  ASSUME CInv, NEW S \in SUBSET Op
  PROVE  /\ Replay(pkl.graph, jnl.segs, 0, pkl.marker) \in Graphs
         /\ Apply(Replay(pkl.graph, jnl.segs, 0, pkl.marker), S) \in Graphs
         /\ Support(Apply(Replay(pkl.graph, jnl.segs, 0, pkl.marker), S)) = OnDisk \cup S
         /\ TailSeq(jnl.segs, 0, pkl.marker) \in Nat
         /\ TailSeq(jnl.segs, 0, pkl.marker) >= pkl.marker
<1>1. pkl.graph \in Graphs /\ pkl.marker \in Nat /\ 0 \in Nat
  BY JournalFacts DEF CInv
<1>2. Replay(pkl.graph, jnl.segs, 0, pkl.marker) \in Graphs
  BY <1>1, Replayed
<1>. QED
  BY <1>1, <1>2, Replayed, ApplyAt, ApplyType DEF OnDisk, DiskGraph

\* The maps of the state, typed.
LEMMA Maps ==
  ASSUME JournalInv
  PROVE  /\ pc \in [Proc -> PC] /\ graph \in [Proc -> Graphs] /\ pending \in [Proc -> SUBSET Op]
         /\ overflow \in [Proc -> BOOLEAN] /\ seq \in [Proc -> Nat] /\ active \in [Proc -> BOOLEAN]
BY DEF JournalInv, TypeOK

\* The writer keeps holding what is on disk and its own ops.
LEMMA WriterStep ==
  ASSUME CInv, JournalInv', NEW p \in Proc, p \in Writers, Step(p)
  PROVE  WriterHolds(p)'
<1>1. /\ WriterHolds(p) /\ Stored
      /\ seq[p] \in Nat /\ pending[p] \in SUBSET Op /\ graph[p] \in Graphs /\ pc[p] \in PC
  BY WriterFacts DEF Stored
<1>2. /\ pc \in [Proc -> PC] /\ graph \in [Proc -> Graphs] /\ pending \in [Proc -> SUBSET Op]
      /\ overflow \in [Proc -> BOOLEAN] /\ seq \in [Proc -> Nat]
  BY Maps DEF CInv
<1>3. Kept => OnDisk' = OnDisk
  BY KeptContents
<1>4. pkl.graph \in Graphs /\ pkl.marker \in Nat
  BY JournalFacts DEF CInv
<1> DEFINE all(S) == Apply(Replay(pkl.graph, jnl.segs, 0, pkl.marker), S)
<1>5. /\ all(pending[p]) \in Graphs
      /\ Support(all(pending[p])) = OnDisk \cup pending[p]
      /\ TailSeq(jnl.segs, 0, pkl.marker) \in Nat
      /\ TailSeq(jnl.segs, 0, pkl.marker) >= pkl.marker
  BY <1>1, Rebased
<1> USE <1>1, <1>2, <1>3, <1>4 DEF diskVars, opVars, syncVars
<1> HIDE DEF all
<1>6. CASE Load(p)
  <2>1. CASE Start(p)
    BY <2>1 DEF Start, BeginLoad, WriterHolds, Loaded
  <2>2. CASE LoadBase(p)
    BY <2>2 DEF LoadBase, WriterHolds, Loaded
  <2>3. CASE LoadJournal(p)
    <3>1. /\ pc[p] = "replay" /\ graph[p] = pkl.graph /\ seq[p] = pkl.marker
          /\ ~overflow[p]
      BY <2>3 DEF LoadJournal, WriterHolds, Loaded
    <3>2. /\ graph'[p] = all(pending[p]) /\ seq'[p] = TailSeq(jnl.segs, 0, pkl.marker)
          /\ Kept /\ pc'[p] = "idle" /\ pending' = pending /\ overflow' = overflow /\ pkl' = pkl
      BY <2>3, <3>1 DEF LoadJournal, EndLoad, Kept, all
    <3>. QED
      BY <1>5, <3>1, <3>2 DEF WriterHolds, Loaded, Support
  <2>. QED
    BY <1>6, <2>1, <2>2, <2>3 DEF Load
<1>7. CASE Refresh(p)
  <2>1. CASE ReloadTail(p)
    BY <2>1 DEF ReloadTail, Kept, WriterHolds, Loaded, Support
  <2>2. CASE ReloadAll(p)
    BY <2>2 DEF ReloadAll, BeginLoad, WriterHolds, Loaded
  <2>3. CASE KeepOwn(p)
    BY <2>3 DEF KeepOwn, Kept, WriterHolds, Loaded, Support
  <2>4. CASE ReplayTail(p)
    <3> DEFINE g == Replay(graph[p], jnl.segs, off[p].at, seq[p])
               m == TailSeq(jnl.segs, off[p].at, seq[p])
    <3>1. off[p].at \in Nat
      BY JournalFacts DEF CInv
    <3>2. /\ g \in Graphs /\ Support(graph[p]) \subseteq Support(g)
          /\ Support(g) \subseteq Support(graph[p]) \cup OnDisk
          /\ m \in Nat /\ m >= seq[p]
      BY <3>1, Replayed
    <3>3. /\ pc[p] = "tail" /\ pc'[p] = "idle" /\ graph'[p] = g /\ seq'[p] = m
          /\ Kept /\ pending' = pending /\ overflow' = overflow /\ pkl' = pkl
      BY <2>4 DEF ReplayTail, EndLoad, Kept
    <3> HIDE DEF g, m
    <3>4. /\ pkl.marker <= seq[p] /\ OnDisk \cup pending[p] \subseteq Support(graph[p])
          /\ overflow[p] \/ Support(graph[p]) \subseteq OnDisk \cup pending[p]
      BY <3>3 DEF WriterHolds, Loaded
    <3>5. Support(graph'[p]) = Support(graph[p])
      BY <3>2, <3>3, <3>4 DEF Support
    <3>. QED
      BY <3>2, <3>3, <3>4, <3>5 DEF WriterHolds, Loaded, Support
  <2>5. CASE ReplayGarbage(p)
    <3>1. /\ pc[p] = "tail" /\ pc'[p] = "idle" /\ graph' = graph /\ seq' = seq
          /\ Kept /\ pending' = pending /\ overflow' = overflow /\ pkl' = pkl
      BY <2>5 DEF ReplayGarbage, EndLoad, Kept
    <3>. QED
      BY <3>1 DEF WriterHolds, Loaded, Support
  <2>. QED
    BY <1>7, <2>1, <2>2, <2>3, <2>4, <2>5 DEF Refresh
<1>8. ASSUME NEW o \in Op, Do(p, o) PROVE WriterHolds(p)'
  <2>1. /\ pc[p] = "idle" /\ pc' = pc /\ seq' = seq /\ Kept /\ pkl' = pkl
        /\ graph'[p] = Apply(graph[p], {o})
        /\ \/ pending'[p] = pending[p] \cup {o} /\ overflow'[p] = overflow[p]
           \/ overflow'[p] = TRUE /\ pending'[p] = pending[p]
    BY <1>8 DEF Do, Kept
  <2>2. Support(Apply(graph[p], {o})) = Support(graph[p]) \cup {o}
    BY ApplyAt
  <2>3. Support(graph'[p]) = Support(graph[p]) \cup {o}
    BY <2>1, <2>2
  <2>4. /\ pkl.marker <= seq[p] /\ OnDisk \cup pending[p] \subseteq Support(graph[p])
        /\ overflow[p] \/ Support(graph[p]) \subseteq OnDisk \cup pending[p]
    BY <2>1 DEF WriterHolds, Loaded
  <2>. QED
    BY <2>1, <2>3, <2>4 DEF WriterHolds, Loaded, Support
<1>9. CASE Journal(p)
  <2>1. CASE BeginJournal(p)
    <3>1. /\ pc[p] = "idle" /\ pc' = pc /\ graph' = graph /\ pkl' = pkl
          /\ pending' = pending /\ overflow' = overflow
          /\ seq'[p] \in {seq[p], TailSeq(jnl.segs, 0, seq[p])}
      BY <2>1 DEF BeginJournal
    <3>2. TailSeq(jnl.segs, 0, seq[p]) \in Nat /\ TailSeq(jnl.segs, 0, seq[p]) >= seq[p]
      BY <1>4, 0 \in Nat, Replayed
    <3>3. Kept
      BY <2>1, JournalFacts DEF BeginJournal, Kept, Trimmed, CInv, Journals
    <3>. QED
      BY <3>1, <3>2, <3>3 DEF WriterHolds, Loaded, Support
  <2>2. CASE FlushJournal(p)
    <3>1. Wrote(p)
      BY <2>2 DEF FlushJournal, Wrote
    <3>2. /\ OnDisk' = OnDisk \cup pending[p] /\ FlushSeq(p) \in Nat /\ FlushSeq(p) > pkl.marker
      BY <3>1, WroteContents
    <3>3. /\ pc[p] = "idle" /\ pc' = pc /\ graph' = graph /\ pkl' = pkl
          /\ pending'[p] = {} /\ overflow' = overflow /\ seq'[p] = FlushSeq(p)
      BY <2>2 DEF FlushJournal
    <3>. QED
      BY <3>2, <3>3 DEF WriterHolds, Loaded, Support
  <2>3. CASE FlushFails(p)
    <3>1. /\ pc[p] = "idle" /\ pc' = pc /\ graph' = graph /\ pkl' = pkl /\ active[p]
          /\ pending' = pending /\ overflow' = overflow /\ seq' = seq
          /\ jnl' \in {jnl, Torn(jnl), Flushed(p)}
      BY <2>3 DEF FlushFails, FailedAppend
    <3>2. Kept \/ Wrote(p)
      BY <3>1, JournalFacts DEF Kept, Wrote, Torn, CInv, Journals
    <3>3. OnDisk' = OnDisk \/ OnDisk' = OnDisk \cup pending[p]
      BY <3>2, WroteContents
    <3>. QED
      BY <3>1, <3>3 DEF WriterHolds, Loaded, Support
  <2>4. CASE EndJournal(p)
    BY <2>4 DEF EndJournal, Kept, WriterHolds, Loaded, Support
  <2>. QED
    BY <1>9, <2>1, <2>2, <2>3, <2>4 DEF Journal
<1>10. CASE Save(p)
  <2>1. CASE SaveBegin(p)
    <3>1. /\ pc[p] = "idle" /\ pc'[p] = "promote" /\ pkl' = pkl /\ Kept
          /\ pending' = pending /\ overflow' = overflow
          /\ \/ graph'[p] = graph[p] /\ seq'[p] = seq[p]
             \/ graph'[p] = all(pending[p]) /\ seq'[p] = TailSeq(jnl.segs, 0, pkl.marker)
      BY <2>1 DEF SaveBegin, Kept, all
    <3>. QED
      BY <1>5, <3>1 DEF WriterHolds, Loaded, Support
  <2>2. CASE SavePromote(p)
    <3>1. Promoted(p)
      BY <2>2 DEF SavePromote, Promoted
    <3>2. /\ OnDisk' = Support(graph[p]) /\ pending[p] \subseteq OnDisk'
          /\ pkl'.graph = graph[p] /\ pkl'.marker = seq[p]
      BY <3>1, PromotedContents
    <3>3. /\ pc[p] = "promote" /\ pc'[p] = "compact" /\ graph' = graph /\ seq' = seq
          /\ pending' = pending /\ overflow' = overflow
      BY <2>2 DEF SavePromote
    <3>. QED
      BY <3>2, <3>3 DEF WriterHolds, Loaded, Support
  <2>3. CASE SaveFails(p)
    BY <2>3 DEF SaveFails, Kept, WriterHolds, Loaded, Support
  <2>4. CASE SaveCompact(p)
    <3>1. /\ pc[p] = "compact" /\ pc'[p] = "resync" /\ graph' = graph /\ seq' = seq /\ pkl' = pkl
          /\ pending' = pending /\ overflow' = overflow
          /\ jnl' = jnl \/ jnl' = NoJournal(pkl.ver)
      BY <2>4 DEF SaveCompact
    <3>2. Kept \/ Dropped(p)
      BY <3>1 DEF Kept, Dropped
    <3>3. OnDisk' = OnDisk
      BY <3>2, DroppedContents
    <3>. QED
      BY <3>1, <3>3 DEF WriterHolds, Loaded, Support
  <2>5. CASE SaveResync(p)
    <3>1. /\ pc[p] = "resync" /\ pc'[p] = "idle" /\ graph' = graph /\ seq' = seq /\ pkl' = pkl /\ Kept
          /\ pending'[p] = {} /\ ~overflow'[p]
      BY <2>5 DEF SaveResync, Kept
    <3>2. graph[p] = pkl.graph /\ Support(pkl.graph) \subseteq OnDisk
      BY <3>1 DEF WriterHolds, Stored
    <3>. QED
      BY <3>1, <3>2 DEF WriterHolds, Loaded, Support
  <2>. QED
    BY <1>10, <2>1, <2>2, <2>3, <2>4, <2>5 DEF Save
<1>11. CASE Fault(p)
  BY <1>11 DEF Fault, Crash, CrashInAppend, Forget, WriterHolds, Loaded
<1>. QED
  BY <1>6, <1>7, <1>8, <1>9, <1>10, <1>11 DEF Step

\* No step takes anything off the disk, and what it puts there the instance had.
LEMMA DiskGrows ==
  ASSUME CInv, JournalInv', NEW p \in Proc, Step(p)
  PROVE  /\ SkippedIsFolded'
         /\ OnDisk \subseteq OnDisk'
         /\ OnDisk' \subseteq OnDisk \cup pending[p] \cup Support(graph[p])
         /\ p \notin Writers => Kept /\ OnDisk' = OnDisk
<1>1. CASE Kept
  BY <1>1, KeptContents
<1>2. CASE Wrote(p)
  BY <1>2, WroteContents DEF Wrote
<1>3. CASE Promoted(p)
  BY <1>3, PromotedContents DEF Promoted
<1>4. CASE Dropped(p)
  BY <1>4, DroppedContents DEF Dropped
<1>. QED
  BY <1>1, <1>2, <1>3, <1>4, Effects

\* A reader builds its graph out of what is on disk.
LEMMA ReaderStep ==
  ASSUME CInv, JournalInv', NEW p \in Proc, p \notin Writers, Step(p)
  PROVE  ReaderBehind(p)'
<1>1. /\ pc[p] \notin {"promote", "compact", "resync"}
      /\ pending[p] = {} /\ ~overflow[p] /\ ~active[p]
      /\ Support(graph[p]) \subseteq OnDisk
  BY DEF CInv, ContentsInv, ReaderBehind
<1>2. /\ pc \in [Proc -> PC] /\ graph \in [Proc -> Graphs] /\ pending \in [Proc -> SUBSET Op]
      /\ overflow \in [Proc -> BOOLEAN] /\ seq \in [Proc -> Nat] /\ active \in [Proc -> BOOLEAN]
  BY Maps DEF CInv
<1>3. OnDisk' = OnDisk
  BY DiskGrows
<1>4. pkl.graph \in Graphs /\ pkl.marker \in Nat /\ 0 \in Nat /\ off[p].at \in Nat
  BY JournalFacts DEF CInv
<1>5. Stored
  BY StoredIs DEF CInv, ContentsInv
<1>6. Support(EmptyGraph) = {}
  BY DEF Support, EmptyGraph
<1> USE <1>1, <1>2, <1>3, <1>4 DEF diskVars, opVars, syncVars
<1>7. CASE Load(p)
  <2>1. CASE Start(p)
    <3>1. /\ pc'[p] = "load" /\ graph'[p] = EmptyGraph /\ pending' = pending
          /\ overflow' = overflow /\ active' = active
      BY <2>1 DEF Start, BeginLoad
    <3>. QED
      BY <1>6, <3>1 DEF ReaderBehind, Support
  <2>2. CASE LoadBase(p)
    <3>1. /\ pc'[p] = "replay" /\ graph'[p] = pkl.graph /\ pending' = pending
          /\ overflow' = overflow /\ active' = active
      BY <2>2 DEF LoadBase
    <3>. QED
      BY <1>5, <3>1 DEF ReaderBehind, Support, Stored
  <2>3. CASE LoadJournal(p)
    <3> DEFINE g == Replay(graph[p], jnl.segs, 0, seq[p])
    <3>1. g \in Graphs /\ Support(g) \subseteq Support(graph[p]) \cup OnDisk
      BY Replayed
    <3>2. /\ pc'[p] = "idle" /\ graph'[p] = Apply(g, pending[p]) /\ pending' = pending
          /\ overflow' = overflow /\ active' = active
      BY <2>3 DEF LoadJournal, EndLoad
    <3> HIDE DEF g
    <3>3. Support(Apply(g, {})) = Support(g) \cup {}
      BY <3>1, ApplyAt
    <3>. QED
      BY <3>1, <3>2, <3>3 DEF ReaderBehind, Support
  <2>. QED
    BY <1>7, <2>1, <2>2, <2>3 DEF Load
<1>8. CASE Refresh(p)
  <2>1. CASE ReloadTail(p)
    BY <2>1 DEF ReloadTail, ReaderBehind, Support
  <2>2. CASE ReloadAll(p)
    <3>1. /\ pc'[p] = "load" /\ graph'[p] = EmptyGraph /\ pending' = pending
          /\ overflow' = overflow /\ active' = active
      BY <2>2 DEF ReloadAll, BeginLoad
    <3>. QED
      BY <1>6, <3>1 DEF ReaderBehind, Support
  <2>3. CASE KeepOwn(p)
    BY <2>3 DEF KeepOwn, ReaderBehind, Support
  <2>4. CASE ReplayTail(p)
    <3> DEFINE g == Replay(graph[p], jnl.segs, off[p].at, seq[p])
    <3>1. Support(g) \subseteq Support(graph[p]) \cup OnDisk
      BY Replayed
    <3>2. /\ pc'[p] = "idle" /\ graph'[p] = g /\ pending' = pending
          /\ overflow' = overflow /\ active' = active
      BY <2>4 DEF ReplayTail, EndLoad
    <3> HIDE DEF g
    <3>. QED
      BY <3>1, <3>2 DEF ReaderBehind, Support
  <2>5. CASE ReplayGarbage(p)
    <3>1. /\ pc'[p] = "idle" /\ graph' = graph /\ pending' = pending
          /\ overflow' = overflow /\ active' = active
      BY <2>5 DEF ReplayGarbage, EndLoad
    <3>. QED
      BY <3>1 DEF ReaderBehind, Support
  <2>. QED
    BY <1>8, <2>1, <2>2, <2>3, <2>4, <2>5 DEF Refresh
<1>9. CASE Journal(p)
  <2>1. BeginJournal(p)
    BY <1>9 DEF Journal, FlushJournal, FlushFails, EndJournal
  <2>. QED
    BY <2>1, ProcAssumption DEF BeginJournal
<1>10. CASE Fault(p)
  <2>1. /\ pc'[p] = "down" /\ graph'[p] = EmptyGraph /\ pending'[p] = {}
        /\ overflow'[p] = FALSE /\ active'[p] = FALSE
    BY <1>10 DEF Fault, Crash, CrashInAppend, Forget
  <2>. QED
    BY <1>6, <2>1 DEF ReaderBehind, Support
<1>11. ~(\E o \in Op : Do(p, o)) /\ ~Save(p)
  BY DEF Do, Save, SaveBegin, SavePromote, SaveFails, SaveCompact, SaveResync
<1>. QED
  BY <1>7, <1>8, <1>9, <1>10, <1>11 DEF Step

\* Nothing acknowledged leaves the disk (flush_journal, save).
LEMMA AckedStep ==
  ASSUME CInv, JournalInv', NEW p \in Proc, Step(p)
  PROVE  AckedOnDisk'
<1>1. AckedOnDisk /\ OnDisk \subseteq OnDisk'
  BY DiskGrows DEF CInv
<1>2. CASE acked' = acked
  BY <1>1, <1>2 DEF AckedOnDisk
<1>3. CASE FlushJournal(p)
  <2>1. Wrote(p) /\ acked' = acked \cup pending[p]
    BY <1>3, Effects DEF FlushJournal, Wrote, CInv, ContentsInv, ReaderBehind
  <2>2. OnDisk' = OnDisk \cup pending[p]
    BY <2>1, WroteContents
  <2>. QED
    BY <1>1, <2>1, <2>2 DEF AckedOnDisk
<1>4. CASE SaveResync(p)
  <2>1. p \in Writers /\ pc[p] = "resync" /\ acked' = acked \cup pending[p]
    BY <1>4 DEF SaveResync, CInv, ContentsInv, ReaderBehind
  <2>2. /\ graph[p] = pkl.graph /\ pending[p] \subseteq Support(graph[p])
        /\ Support(pkl.graph) \subseteq OnDisk
    BY <2>1, WriterFacts DEF WriterHolds, Loaded
  <2>. QED
    BY <1>1, <2>1, <2>2 DEF AckedOnDisk
<1>5. acked' = acked \/ FlushJournal(p) \/ SaveResync(p)
  <2> USE DEF history
  <2>1. CASE Load(p) \/ Refresh(p)
    BY <2>1 DEF Load, Start, BeginLoad, LoadBase, LoadJournal, EndLoad,
       Refresh, ReloadTail, ReloadAll, KeepOwn, ReplayTail, ReplayGarbage
  <2>2. CASE (\E o \in Op : Do(p, o)) \/ Journal(p)
    BY <2>2 DEF Do, Journal, BeginJournal, FlushFails, EndJournal
  <2>3. CASE Save(p) \/ Fault(p)
    BY <2>3 DEF Save, SaveBegin, SavePromote, SaveFails, SaveCompact,
       Fault, Crash, CrashInAppend, Forget
  <2>. QED
    BY <2>1, <2>2, <2>3 DEF Step
<1>. QED
  BY <1>2, <1>3, <1>4, <1>5

\* Where an instance gets its graph from: itself, the files, its own ops.
LEMMA Sources ==
  ASSUME CInv, NEW p \in Proc, Load(p) \/ Refresh(p) \/ Journal(p) \/ Save(p) \/ Fault(p)
  PROVE  /\ Support(graph'[p]) \subseteq Support(graph[p]) \cup OnDisk \cup pending[p]
         /\ pending'[p] \subseteq pending[p]
         /\ issued' = issued /\ retried' \subseteq retried \cup pending[p]
<1>1. /\ graph \in [Proc -> Graphs] /\ pending \in [Proc -> SUBSET Op] /\ seq \in [Proc -> Nat]
  BY Maps DEF CInv
<1>2. /\ pkl.graph \in Graphs /\ pkl.marker \in Nat /\ 0 \in Nat /\ off[p].at \in Nat
      /\ graph[p] \in Graphs /\ seq[p] \in Nat /\ pending[p] \in SUBSET Op
  BY <1>1, JournalFacts DEF CInv
<1>3. Support(EmptyGraph) = {} /\ Support(pkl.graph) \subseteq OnDisk
  BY StoredIs DEF Support, EmptyGraph, CInv, ContentsInv, Stored
<1> USE <1>1 DEF diskVars, opVars, syncVars, history
<1>4. CASE Load(p)
  <2>1. CASE Start(p) \/ LoadBase(p)
    <3>1. graph'[p] \in {EmptyGraph, pkl.graph} /\ pending' = pending /\ UNCHANGED <<issued, retried>>
      BY <2>1 DEF Start, BeginLoad, LoadBase
    <3>. QED
      BY <1>3, <3>1 DEF Support
  <2>2. CASE LoadJournal(p)
    <3> DEFINE g == Replay(graph[p], jnl.segs, 0, seq[p])
    <3>1. g \in Graphs /\ Support(g) \subseteq Support(graph[p]) \cup OnDisk
      BY <1>2, Replayed
    <3>2. /\ graph'[p] = Apply(g, pending[p]) /\ pending' = pending /\ UNCHANGED <<issued, retried>>
      BY <2>2 DEF LoadJournal, EndLoad
    <3> HIDE DEF g
    <3>3. Support(Apply(g, pending[p])) = Support(g) \cup pending[p]
      BY <1>2, <3>1, ApplyAt
    <3>. QED
      BY <3>1, <3>2, <3>3 DEF Support
  <2>. QED
    BY <1>4, <2>1, <2>2 DEF Load
<1>5. CASE Refresh(p)
  <2>1. CASE ReloadTail(p) \/ KeepOwn(p) \/ ReplayGarbage(p)
    <3>1. graph' = graph /\ pending' = pending /\ UNCHANGED <<issued, retried>>
      BY <2>1 DEF ReloadTail, KeepOwn, ReplayGarbage, EndLoad
    <3>. QED
      BY <3>1 DEF Support
  <2>2. CASE ReloadAll(p)
    <3>1. graph'[p] = EmptyGraph /\ pending' = pending /\ UNCHANGED <<issued, retried>>
      BY <2>2 DEF ReloadAll, BeginLoad
    <3>. QED
      BY <1>3, <3>1 DEF Support
  <2>3. CASE ReplayTail(p)
    <3> DEFINE g == Replay(graph[p], jnl.segs, off[p].at, seq[p])
    <3>1. Support(g) \subseteq Support(graph[p]) \cup OnDisk
      BY <1>2, Replayed
    <3>2. graph'[p] = g /\ pending' = pending /\ UNCHANGED <<issued, retried>>
      BY <2>3 DEF ReplayTail, EndLoad
    <3> HIDE DEF g
    <3>. QED
      BY <3>1, <3>2 DEF Support
  <2>. QED
    BY <1>5, <2>1, <2>2, <2>3 DEF Refresh
<1>6. CASE Journal(p)
  <2>1. /\ graph' = graph /\ pending'[p] \in {pending[p], {}} /\ issued' = issued
        /\ retried' \in {retried, retried \cup pending[p]}
    BY <1>6 DEF Journal, BeginJournal, FlushJournal, FlushFails, EndJournal
  <2>. QED
    BY <2>1 DEF Support
<1>7. CASE Save(p)
  <2>1. CASE SaveBegin(p)
    <3> DEFINE g == Replay(pkl.graph, jnl.segs, 0, pkl.marker)
    <3>1. Support(Apply(g, pending[p])) = OnDisk \cup pending[p]
      BY <1>2, Rebased
    <3>2. graph'[p] \in {graph[p], Apply(g, pending[p])} /\ pending' = pending /\ UNCHANGED <<issued, retried>>
      BY <2>1 DEF SaveBegin
    <3> HIDE DEF g
    <3>. QED
      BY <3>1, <3>2 DEF Support
  <2>2. CASE SavePromote(p) \/ SaveFails(p) \/ SaveCompact(p) \/ SaveResync(p)
    <3>1. graph' = graph /\ pending'[p] \in {pending[p], {}} /\ UNCHANGED <<issued, retried>>
      BY <2>2 DEF SavePromote, SaveFails, SaveCompact, SaveResync
    <3>. QED
      BY <3>1 DEF Support
  <2>. QED
    BY <1>7, <2>1, <2>2 DEF Save
<1>8. CASE Fault(p)
  <2>1. graph'[p] = EmptyGraph /\ pending'[p] = {} /\ UNCHANGED <<issued, retried>>
    BY <1>8 DEF Fault, Crash, CrashInAppend, Forget
  <2>. QED
    BY <1>3, <2>1 DEF Support
<1>. QED
  BY <1>4, <1>5, <1>6, <1>7, <1>8

\* Nothing is in a graph or a file that nobody issued.
LEMMA IssuedStep ==
  ASSUME CInv, JournalInv', NEW p \in Proc, Step(p)
  PROVE  IssuedOnly'
<1>1. /\ \A q \in Proc : pending[q] \cup Support(graph[q]) \subseteq issued
      /\ OnDisk \subseteq issued /\ retried \subseteq issued
  BY DEF CInv, ContentsInv, IssuedOnly
<1>2. OnDisk' \subseteq OnDisk \cup pending[p] \cup Support(graph[p])
  BY DiskGrows
<1>3. \A q \in Proc : q # p => pending'[q] = pending[q] /\ graph'[q] = graph[q]
  BY Frame DEF Mine, CInv
<1>4. /\ issued \subseteq issued' /\ retried' \subseteq retried \cup pending[p]
      /\ pending'[p] \subseteq issued' /\ Support(graph'[p]) \subseteq issued'
  <2>1. CASE Load(p) \/ Refresh(p) \/ Journal(p) \/ Save(p) \/ Fault(p)
    BY <1>1, <2>1, Sources
  <2>2. ASSUME NEW o \in Op, Do(p, o)
        PROVE  /\ issued \subseteq issued' /\ retried' \subseteq retried \cup pending[p]
               /\ pending'[p] \subseteq issued' /\ Support(graph'[p]) \subseteq issued'
    <3>1. /\ graph \in [Proc -> Graphs] /\ pending \in [Proc -> SUBSET Op]
      BY Maps DEF CInv
    <3>2. /\ graph'[p] = Apply(graph[p], {o}) /\ issued' = issued \cup {o} /\ retried' = retried
          /\ pending'[p] \in {pending[p], pending[p] \cup {o}}
      BY <2>2, <3>1 DEF Do
    <3>3. Support(Apply(graph[p], {o})) = Support(graph[p]) \cup {o}
      BY <3>1, ApplyAt
    <3>. QED
      BY <1>1, <3>2, <3>3 DEF Support
  <2>. QED
    BY <2>1, <2>2 DEF Step
<1>5. \A q \in Proc : pending'[q] \cup Support(graph'[q]) \subseteq issued'
  <2>1. ASSUME NEW q \in Proc, q # p PROVE pending'[q] \cup Support(graph'[q]) \subseteq issued'
    <3>1. pending'[q] = pending[q] /\ graph'[q] = graph[q]
      BY <1>3, <2>1
    <3>. QED
      BY <1>1, <1>4, <3>1 DEF Support
  <2>. QED
    BY <1>4, <2>1
<1>6. OnDisk' \cup retried' \subseteq issued'
  BY <1>1, <1>2, <1>4
<1>. QED
  BY <1>5, <1>6 DEF IssuedOnly, Support

-----------------------------------------------------------------------------
\* An op of one segment is replayed once, into a graph that does not have it.
LEMMA OnceReplayed ==
  ASSUME CInv, NEW g \in Graphs, NEW n \in Nat, NEW base \in Nat, NEW o \in Op,
         OnceOnDisk(o), g[o] <= 1,
         \A i \in DOMAIN jnl.segs : o \in jnl.segs[i].ops /\ jnl.segs[i].seq > base => g[o] = 0
  PROVE  /\ Replay(g, jnl.segs, n, base)[o] <= 1
         /\ \A i \in DOMAIN jnl.segs :
              o \in jnl.segs[i].ops /\ jnl.segs[i].seq > TailSeq(jnl.segs, n, base)
                => Replay(g, jnl.segs, n, base)[o] = 0
<1> DEFINE N == Newer(jnl.segs, n, base, o)
           r == Replay(g, jnl.segs, n, base)[o]
           m == TailSeq(jnl.segs, n, base)
<1>1. jnl.segs \in Seq(Segment) /\ Ordered(jnl.segs)
  BY JournalFacts DEF CInv
<1>2. \A i \in DOMAIN jnl.segs : jnl.segs[i].seq \in Nat
  BY SegmentFacts DEF CInv
<1>3. /\ g[o] \in Nat /\ r \in Nat
      /\ N = {} => r = g[o]
      /\ (\A i, j \in N : i = j) => r <= g[o] + 1
  BY <1>1, ReplayAt
<1>4. m \in Nat /\ m >= base /\ \A i \in DOMAIN jnl.segs : i > n => m >= jnl.segs[i].seq
  BY <1>1, TailSeqMax
<1>5. \A i \in N : i \in DOMAIN jnl.segs /\ i > n /\ o \in jnl.segs[i].ops /\ jnl.segs[i].seq > base
  BY DEF Newer
<1>6. \A i, j \in DOMAIN jnl.segs : o \in jnl.segs[i].ops /\ o \in jnl.segs[j].ops => i = j
  BY DEF OnceOnDisk
<1> HIDE DEF N, r, m
<1>7. r <= 1
  <2>1. CASE N = {}
    BY <1>3, <2>1
  <2>2. CASE N # {}
    <3>1. g[o] = 0
      BY <1>5, <2>2
    <3>2. \A i, j \in N : i = j
      BY <1>5, <1>6
    <3>. QED
      BY <1>3, <3>1, <3>2
  <2>. QED
    BY <2>1, <2>2
<1>8. ASSUME NEW i \in DOMAIN jnl.segs, o \in jnl.segs[i].ops, jnl.segs[i].seq > m
      PROVE  r = 0
  <2>1. ~(i > n)
    BY <1>2, <1>4, <1>8
  <2>2. N = {}
    BY <1>5, <1>6, <1>8, <2>1
  <2>3. g[o] = 0
    BY <1>2, <1>4, <1>8
  <2>. QED
    BY <1>3, <2>2, <2>3
<1>. QED
  BY <1>7, <1>8 DEF r, m

\* So a load finds an op once (DiskGraph is what it builds).
LEMMA DiskOnce ==
  ASSUME CInv, NEW o \in Op, OnceOnDisk(o)
  PROVE  DiskGraph[o] \in Nat /\ DiskGraph[o] <= 1 /\ (o \notin OnDisk => DiskGraph[o] = 0)
<1>1. pkl.graph \in Graphs /\ pkl.marker \in Nat /\ 0 \in Nat
  BY JournalFacts DEF CInv
<1>2. /\ pkl.graph[o] <= 1
      /\ \A i \in DOMAIN jnl.segs :
           o \in jnl.segs[i].ops /\ jnl.segs[i].seq > pkl.marker => pkl.graph[o] = 0
  BY DEF OnceOnDisk
<1>3. DiskGraph[o] <= 1
  BY <1>1, <1>2, OnceReplayed DEF DiskGraph
<1>4. DiskGraph \in Graphs
  BY <1>1, Rebased, {} \in SUBSET Op DEF DiskGraph
<1>5. DiskGraph[o] \in Nat
  BY <1>4 DEF Graphs
<1>. QED
  BY <1>3, <1>5 DEF OnDisk, Support

\* On disk it stays once: what an instance writes was not there.
LEMMA OnceDiskStep ==
  ASSUME CInv, JournalInv', NEW p \in Proc, Step(p), NEW o \in Op, o \notin retried
  PROVE  OnceOnDisk(o)'
<1>1. OnceOnDisk(o) /\ OnceIn(p, o)
  BY DEF CInv, ContentsInv
<1>2. CASE Kept
  BY <1>1, <1>2 DEF Kept, OnceOnDisk
<1>3. CASE Wrote(p)
  <2> DEFINE n == Len(jnl.segs)
  <2>1. /\ DOMAIN jnl'.segs = 1 .. n + 1 /\ n \in Nat /\ DOMAIN jnl.segs = 1 .. n
        /\ \A i \in DOMAIN jnl.segs : jnl'.segs[i] = jnl.segs[i]
        /\ jnl'.segs[n + 1] = [seq |-> FlushSeq(p), ops |-> pending[p]]
        /\ pkl' = pkl
    BY <1>3, WroteContents
  <2>2. jnl'.segs[n + 1].ops = pending[p]
    BY <2>1
  <2>3. Stored
    BY StoredIs DEF CInv, ContentsInv
  <2>4. o \in pending[p] => o \notin OnDisk
    BY <1>1, <1>3 DEF Wrote, OnceIn
  <2>5. pkl.graph[o] \in Nat
    BY JournalFacts DEF CInv, Graphs
  <2>6. o \in pending[p] =>
          pkl.graph[o] = 0 /\ \A i \in DOMAIN jnl.segs : o \notin jnl.segs[i].ops
    BY <2>3, <2>4, <2>5 DEF Stored, Support, InJournal
  <2> HIDE DEF n
  <2>7. ASSUME NEW i \in DOMAIN jnl'.segs, o \in jnl'.segs[i].ops
        PROVE  /\ \A j \in DOMAIN jnl'.segs : o \in jnl'.segs[j].ops => i = j
               /\ jnl'.segs[i].seq > pkl'.marker => pkl'.graph[o] = 0
    <3>1. CASE o \in pending[p]
      <4>1. \A j \in DOMAIN jnl'.segs : o \in jnl'.segs[j].ops => j = n + 1
        BY <2>1, <2>6, <3>1
      <4>. QED
        BY <2>1, <2>6, <2>7, <3>1, <4>1
    <3>2. CASE o \notin pending[p]
      <4>1. \A j \in DOMAIN jnl'.segs : o \in jnl'.segs[j].ops =>
              j \in DOMAIN jnl.segs /\ jnl'.segs[j] = jnl.segs[j]
        BY <2>1, <2>2, <3>2
      <4>. QED
        BY <1>1, <2>1, <2>7, <4>1 DEF OnceOnDisk
    <3>. QED
      BY <3>1, <3>2
  <2>8. pkl'.graph[o] <= 1
    BY <1>1, <2>1 DEF OnceOnDisk
  <2>. QED
    BY <2>7, <2>8 DEF OnceOnDisk
<1>4. CASE Promoted(p)
  <2>1. pkl'.graph = graph[p] /\ pkl'.marker = seq[p] /\ jnl' = jnl
    BY <1>4, PromotedContents
  <2>2. /\ graph[p][o] <= 1
        /\ \A i \in DOMAIN jnl.segs : o \in jnl.segs[i].ops => jnl.segs[i].seq <= seq[p]
    BY <1>1, <1>4 DEF Promoted, OnceIn, Loaded
  <2>3. /\ seq[p] \in Nat
        /\ \A i \in DOMAIN jnl.segs : jnl.segs[i].seq \in Nat
    BY Maps, SegmentFacts DEF CInv
  <2>4. \A i, j \in DOMAIN jnl.segs : o \in jnl.segs[i].ops /\ o \in jnl.segs[j].ops => i = j
    BY <1>1 DEF OnceOnDisk
  <2>5. \A i \in DOMAIN jnl.segs : o \in jnl.segs[i].ops => ~(jnl.segs[i].seq > seq[p])
    BY <2>2, <2>3
  <2>. QED
    BY <2>1, <2>2, <2>4, <2>5 DEF OnceOnDisk
<1>5. CASE Dropped(p)
  <2>1. jnl'.segs = <<>> /\ pkl' = pkl
    BY <1>5, DroppedContents
  <2>. QED
    BY <1>1, <2>1 DEF OnceOnDisk
<1>. QED
  BY <1>2, <1>3, <1>4, <1>5, Effects

\* The memory of the others: a reader does not hold what is only now written.
LEMMA OnceOthersStep ==
  ASSUME OneWriter, CInv, JournalInv', NEW p \in Proc, Step(p), NEW o \in Op, o \notin retried,
         NEW q \in Proc, q # p
  PROVE  OnceIn(q, o)'
<1>1. OnceIn(q, o) /\ OnceIn(p, o)
  BY DEF CInv, ContentsInv
<1>2. Mine(q)' = Mine(q)
  BY Frame DEF CInv
<1>3. /\ graph'[q] = graph[q] /\ pc'[q] = pc[q] /\ seq'[q] = seq[q] /\ pending'[q] = pending[q]
  BY <1>2 DEF Mine
<1>4. CASE Kept
  <2>1. OnDisk' = OnDisk
    BY <1>4, KeptContents
  <2>. QED
    BY <1>1, <1>3, <1>4, <2>1 DEF OnceIn, Kept, Loaded
<1>5. CASE Wrote(p) \/ Promoted(p) \/ Dropped(p)
  <2>1. q \notin Writers /\ p \in Writers
    BY <1>5 DEF OneWriter, Wrote, Promoted, Dropped
  <2>2. Support(graph[q]) \subseteq OnDisk /\ graph[q][o] \in Nat
    <3>1. graph[q] \in Graphs
      BY Maps DEF CInv
    <3>. QED
      BY <2>1, <3>1 DEF CInv, ContentsInv, ReaderBehind, Graphs
  <2>3. ASSUME NEW i \in DOMAIN jnl'.segs, o \in jnl'.segs[i].ops, jnl'.segs[i].seq > seq[q]
        PROVE  graph[q][o] = 0
    <3>1. CASE i \in DOMAIN jnl.segs /\ jnl'.segs[i] = jnl.segs[i]
      BY <1>1, <2>1, <2>3, <3>1 DEF OnceIn
    <3>2. CASE o \in pending[p] /\ pc[p] = "idle"
      <4>1. o \notin OnDisk
        BY <1>1, <2>1, <3>2 DEF OnceIn
      <4>. QED
        BY <2>2, <4>1 DEF Support
    <3>3. CASE Wrote(p)
      <4>1. /\ DOMAIN jnl'.segs = 1 .. Len(jnl.segs) + 1 /\ Len(jnl.segs) \in Nat
            /\ DOMAIN jnl.segs = 1 .. Len(jnl.segs)
            /\ \A j \in DOMAIN jnl.segs : jnl'.segs[j] = jnl.segs[j]
            /\ jnl'.segs[Len(jnl.segs) + 1] = [seq |-> FlushSeq(p), ops |-> pending[p]]
        BY <3>3, WroteContents
      <4>2. i \in DOMAIN jnl.segs \/ i = Len(jnl.segs) + 1
        BY <4>1
      <4>3. jnl'.segs[Len(jnl.segs) + 1].ops = pending[p]
        BY <4>1
      <4>4. CASE i \in DOMAIN jnl.segs
        BY <3>1, <4>1, <4>4
      <4>5. CASE i = Len(jnl.segs) + 1
        BY <2>3, <3>2, <3>3, <4>3, <4>5 DEF Wrote
      <4>. QED
        BY <4>2, <4>4, <4>5
    <3>4. CASE Promoted(p)
      BY <2>3, <3>1, <3>4 DEF Promoted
    <3>5. CASE Dropped(p)
      <4>1. jnl'.segs = <<>>
        BY <3>5, DroppedContents
      <4>. QED
        BY <2>3, <4>1
    <3>. QED
      BY <1>5, <3>3, <3>4, <3>5
  <2>4. graph[q][o] <= 1
    BY <1>1 DEF OnceIn
  <2>. QED
    BY <1>3, <2>1, <2>3, <2>4 DEF OnceIn
<1>. QED
  BY <1>4, <1>5, Effects

\* A reader that replays an op for the first time goes past it.
LEMMA OnceReaderStep ==
  ASSUME CInv, JournalInv', NEW p \in Proc, p \notin Writers, Step(p), NEW o \in Op, o \notin retried
  PROVE  OnceIn(p, o)'
<1>1. /\ OnceOnDisk(o) /\ graph[p][o] <= 1
      /\ \A i \in DOMAIN jnl.segs :
           o \in jnl.segs[i].ops /\ jnl.segs[i].seq > seq[p] => graph[p][o] = 0
  BY DEF CInv, ContentsInv, OnceIn
<1>2. /\ pc[p] \notin {"promote", "compact", "resync"} /\ pending[p] = {} /\ ~active[p]
      /\ pending'[p] = {}
  BY ReaderStep DEF CInv, ContentsInv, ReaderBehind
<1>3. /\ graph \in [Proc -> Graphs] /\ pending \in [Proc -> SUBSET Op] /\ seq \in [Proc -> Nat]
  BY Maps DEF CInv
<1>4. /\ pkl.graph \in Graphs /\ pkl.marker \in Nat /\ 0 \in Nat /\ off[p].at \in Nat
      /\ graph[p] \in Graphs /\ seq[p] \in Nat
  BY <1>3, JournalFacts DEF CInv
<1>5. jnl'.segs = jnl.segs
  BY DiskGrows DEF Kept
<1>6. EmptyGraph[o] = 0
  BY DEF EmptyGraph
<1>7. SUFFICES /\ graph'[p][o] <= 1
               /\ \A i \in DOMAIN jnl.segs :
                    o \in jnl.segs[i].ops /\ jnl.segs[i].seq > seq'[p] => graph'[p][o] = 0
  BY <1>2, <1>5 DEF OnceIn
<1> USE <1>3 DEF diskVars, opVars, syncVars
<1>8. CASE graph'[p] = graph[p] /\ seq'[p] = seq[p]
  BY <1>1, <1>8
<1>9. CASE graph'[p] = EmptyGraph
  BY <1>6, <1>9
<1>10. CASE Load(p)
  <2>1. CASE Start(p)
    BY <1>9, <2>1 DEF Start, BeginLoad
  <2>2. CASE LoadBase(p)
    <3>1. graph'[p] = pkl.graph /\ seq'[p] = pkl.marker
      BY <2>2 DEF LoadBase
    <3>. QED
      BY <1>1, <3>1 DEF OnceOnDisk
  <2>3. CASE LoadJournal(p)
    <3> DEFINE g == Replay(graph[p], jnl.segs, 0, seq[p])
    <3>1. graph'[p] = Apply(g, {}) /\ seq'[p] = TailSeq(jnl.segs, 0, seq[p])
      BY <1>2, <2>3 DEF LoadJournal
    <3>2. /\ g[o] <= 1
          /\ \A i \in DOMAIN jnl.segs :
               o \in jnl.segs[i].ops /\ jnl.segs[i].seq > TailSeq(jnl.segs, 0, seq[p]) => g[o] = 0
      <4>1. graph[p] \in Graphs /\ 0 \in Nat /\ seq[p] \in Nat
        BY <1>4
      <4>. QED
        BY <1>1, <4>1, OnceReplayed, Zenon
    <3>3. g \in Graphs
      BY <1>4, Replayed
    <3> HIDE DEF g
    <3>4. Apply(g, {})[o] = g[o]
      BY <3>3, ApplyAt
    <3>. QED
      BY <3>1, <3>2, <3>4
  <2>. QED
    BY <1>10, <2>1, <2>2, <2>3 DEF Load
<1>11. CASE Refresh(p)
  <2>1. CASE ReloadTail(p) \/ KeepOwn(p) \/ ReplayGarbage(p)
    BY <1>8, <2>1 DEF ReloadTail, KeepOwn, ReplayGarbage, EndLoad
  <2>2. CASE ReloadAll(p)
    BY <1>9, <2>2 DEF ReloadAll, BeginLoad
  <2>3. CASE ReplayTail(p)
    <3>1. /\ graph'[p] = Replay(graph[p], jnl.segs, off[p].at, seq[p])
          /\ seq'[p] = TailSeq(jnl.segs, off[p].at, seq[p])
      BY <2>3 DEF ReplayTail
    <3>. QED
      BY <1>1, <1>4, <3>1, OnceReplayed
  <2>. QED
    BY <1>11, <2>1, <2>2, <2>3 DEF Refresh
<1>12. CASE Fault(p)
  BY <1>9, <1>12 DEF Fault, Crash, CrashInAppend, Forget
<1>13. ~(\E x \in Op : Do(p, x)) /\ ~Save(p) /\ ~Journal(p)
  BY <1>2, ProcAssumption DEF Do, Save, SaveBegin, SavePromote, SaveFails, SaveCompact, SaveResync,
     Journal, BeginJournal, FlushJournal, FlushFails, EndJournal
<1>. QED
  BY <1>10, <1>11, <1>12, <1>13 DEF Step

\* An op once excepted stays excepted.
LEMMA RetriedGrows ==
  ASSUME NEW p \in Proc, Step(p)
  PROVE  retried \subseteq retried'
<1> USE DEF history
<1>1. CASE Load(p) \/ Refresh(p)
  BY <1>1 DEF Load, Start, BeginLoad, LoadBase, LoadJournal, EndLoad,
     Refresh, ReloadTail, ReloadAll, KeepOwn, ReplayTail, ReplayGarbage
<1>2. CASE (\E x \in Op : Do(p, x)) \/ Journal(p)
  BY <1>2 DEF Do, Journal, BeginJournal, FlushJournal, FlushFails, EndJournal
<1>3. CASE Save(p) \/ Fault(p)
  BY <1>3 DEF Save, SaveBegin, SavePromote, SaveFails, SaveCompact, SaveResync,
     Fault, Crash, CrashInAppend, Forget
<1>. QED
  BY <1>1, <1>2, <1>3 DEF Step

\* The writer has passed every segment, and its own ops are nowhere yet.
LEMMA OnceWriterStep ==
  ASSUME CInv, JournalInv', NEW p \in Proc, p \in Writers, Step(p), NEW o \in Op, o \notin retried'
  PROVE  OnceIn(p, o)'
<1>1. retried \subseteq retried'
  BY RetriedGrows
<1>2. OnceOnDisk(o) /\ OnceIn(p, o)
  BY <1>1 DEF CInv, ContentsInv
<1>3. /\ graph \in [Proc -> Graphs] /\ pending \in [Proc -> SUBSET Op] /\ seq \in [Proc -> Nat]
      /\ pc \in [Proc -> PC]
  BY Maps DEF CInv
<1>4. /\ pkl.graph \in Graphs /\ pkl.marker \in Nat /\ 0 \in Nat /\ off[p].at \in Nat
      /\ graph[p] \in Graphs /\ seq[p] \in Nat /\ pending[p] \in SUBSET Op
      /\ jnl.segs \in Seq(Segment) /\ Ordered(jnl.segs)
  BY <1>3, JournalFacts DEF CInv
<1>5. WriterHolds(p)
  BY WriterFacts
<1>6. \A i \in DOMAIN jnl.segs : jnl.segs[i].seq \in Nat
  BY SegmentFacts DEF CInv
<1>7. EmptyGraph[o] = 0
  BY DEF EmptyGraph
<1> DEFINE passed(m) == \A i \in DOMAIN jnl.segs : o \in jnl.segs[i].ops => jnl.segs[i].seq <= m
           all == Apply(Replay(pkl.graph, jnl.segs, 0, pkl.marker), pending[p])
           fresh == pc[p] \notin {"compact", "resync"} /\ o \in pending[p] => o \notin OnDisk
\* What each action leaves of the three parts.
<1>8. graph[p][o] <= 1 /\ (Loaded(p) => passed(seq[p])) /\ fresh
  BY <1>2 DEF OnceIn
<1>9. ASSUME Kept, graph'[p][o] <= 1, Loaded(p)' => passed(seq'[p]),
             o \notin pending'[p] \/ (pending'[p] = pending[p] /\ pc[p] \notin {"compact", "resync"})
      PROVE  OnceIn(p, o)'
  <2>1. OnDisk' = OnDisk /\ jnl'.segs = jnl.segs
    BY <1>9, KeptContents DEF Kept
  <2>. QED
    BY <1>8, <1>9, <2>1 DEF OnceIn
<1>10. \A n, base \in Nat : TailSeq(jnl.segs, n, base) \in Nat /\ TailSeq(jnl.segs, n, base) >= base
  BY <1>4, TailSeqMax
<1>11. \A base \in Nat : passed(TailSeq(jnl.segs, 0, base))
  BY <1>4, <1>6, WholeTail
<1>12. fresh /\ pc[p] \notin {"compact", "resync"} => all[o] <= 1
  <2> SUFFICES ASSUME fresh, pc[p] \notin {"compact", "resync"} PROVE all[o] <= 1
    OBVIOUS
  <2>1. DiskGraph[o] \in Nat /\ DiskGraph[o] <= 1 /\ (o \notin OnDisk => DiskGraph[o] = 0)
    BY <1>2, DiskOnce
  <2>2. DiskGraph \in Graphs
    BY <1>4, Rebased DEF DiskGraph
  <2>3. Apply(DiskGraph, pending[p])[o] = IF o \in pending[p] THEN DiskGraph[o] + 1 ELSE DiskGraph[o]
    BY <1>4, <2>2, ApplyAt
  <2>4. all = Apply(DiskGraph, pending[p])
    BY DEF DiskGraph
  <2> HIDE DEF all
  <2>. QED
    BY <2>1, <2>3, <2>4
<1> HIDE DEF all
<1> USE <1>3 DEF diskVars, opVars, syncVars
<1>13. CASE Load(p)
  <2>1. CASE Start(p)
    BY <1>7, <1>9, <2>1 DEF Start, BeginLoad, Kept, Loaded
  <2>2. CASE LoadBase(p)
    <3>1. pkl.graph[o] <= 1
      BY <1>2 DEF OnceOnDisk
    <3>. QED
      BY <1>9, <2>2, <3>1 DEF LoadBase, Kept, Loaded
  <2>3. CASE LoadJournal(p)
    <3>1. pc[p] = "replay" /\ graph[p] = pkl.graph /\ seq[p] = pkl.marker
      BY <1>5, <2>3 DEF LoadJournal, WriterHolds
    <3>2. /\ graph'[p] = all /\ seq'[p] = TailSeq(jnl.segs, 0, pkl.marker)
          /\ Kept /\ pending' = pending
      BY <2>3, <3>1 DEF LoadJournal, EndLoad, Kept, all
    <3>3. all[o] <= 1
      BY <1>8, <1>12, <3>1
    <3>4. passed(TailSeq(jnl.segs, 0, pkl.marker))
      BY <1>4, <1>11
    <3>. QED
      BY <1>9, <3>1, <3>2, <3>3, <3>4
  <2>. QED
    BY <1>13, <2>1, <2>2, <2>3 DEF Load
<1>14. CASE Refresh(p)
  <2>1. CASE ReloadTail(p) \/ KeepOwn(p)
    <3>1. /\ pc[p] = "idle" /\ UNCHANGED <<graph, seq, pending>> /\ Kept
      BY <2>1 DEF ReloadTail, KeepOwn, Kept
    <3>. QED
      BY <1>8, <1>9, <3>1 DEF Loaded
  <2>2. CASE ReloadAll(p)
    BY <1>7, <1>9, <2>2 DEF ReloadAll, BeginLoad, Kept, Loaded
  <2>3. CASE ReplayTail(p)
    <3> DEFINE g == Replay(graph[p], jnl.segs, off[p].at, seq[p])
               m == TailSeq(jnl.segs, off[p].at, seq[p])
    <3>1. pc[p] = "tail" /\ graph'[p] = g /\ seq'[p] = m /\ Kept /\ pending' = pending
      BY <2>3 DEF ReplayTail, EndLoad, Kept
    <3>2. passed(seq[p])
      BY <1>8, <3>1 DEF Loaded
    <3>3. g[o] <= 1
      <4>1. \A i \in DOMAIN jnl.segs : ~(o \in jnl.segs[i].ops /\ jnl.segs[i].seq > seq[p])
        BY <1>4, <1>6, <3>2
      <4>. QED
        BY <1>2, <1>4, <1>8, <4>1, OnceReplayed
    <3>4. m \in Nat /\ m >= seq[p]
      BY <1>4, <1>10
    <3> HIDE DEF g, m
    <3>5. passed(m)
      BY <1>4, <1>6, <3>2, <3>4
    <3>. QED
      BY <1>9, <3>1, <3>3, <3>5
  <2>4. CASE ReplayGarbage(p)
    <3>1. pc[p] = "tail" /\ UNCHANGED <<graph, seq, pending>> /\ Kept
      BY <2>4 DEF ReplayGarbage, EndLoad, Kept
    <3>. QED
      BY <1>8, <1>9, <3>1 DEF Loaded
  <2>. QED
    BY <1>14, <2>1, <2>2, <2>3, <2>4 DEF Refresh
<1>15. ASSUME NEW x \in Op, Do(p, x) PROVE OnceIn(p, o)'
  <2>1. /\ pc[p] = "idle" /\ pc' = pc /\ seq' = seq /\ Kept /\ x \notin issued
        /\ graph'[p] = Apply(graph[p], {x}) /\ pending'[p] \subseteq pending[p] \cup {x}
    BY <1>15 DEF Do, Kept
  <2>2. Apply(graph[p], {x})[o] = IF o \in {x} THEN graph[p][o] + 1 ELSE graph[p][o]
    BY <1>4, ApplyAt
  <2>3. x \notin OnDisk /\ x \notin Support(graph[p])
    BY <2>1 DEF CInv, ContentsInv, IssuedOnly
  <2>4. graph[p][o] \in Nat
    BY <1>4 DEF Graphs
  <2>5. graph'[p][o] <= 1
    BY <1>8, <2>1, <2>2, <2>3, <2>4 DEF Support
  <2>6. OnDisk' = OnDisk /\ jnl'.segs = jnl.segs
    BY <2>1, KeptContents DEF Kept
  <2>. QED
    BY <1>8, <2>1, <2>3, <2>5, <2>6 DEF OnceIn, Loaded
<1>16. ASSUME Wrote(p), graph' = graph, pc' = pc,
              \/ o \notin pending'[p] /\ seq'[p] = FlushSeq(p)
              \/ pending'[p] = pending[p] /\ seq'[p] = seq[p] /\ o \notin pending[p]
       PROVE  OnceIn(p, o)'
  <2>1. /\ DOMAIN jnl'.segs = 1 .. Len(jnl.segs) + 1 /\ Len(jnl.segs) \in Nat
        /\ DOMAIN jnl.segs = 1 .. Len(jnl.segs)
        /\ \A i \in DOMAIN jnl.segs : jnl'.segs[i] = jnl.segs[i]
        /\ jnl'.segs[Len(jnl.segs) + 1] = [seq |-> FlushSeq(p), ops |-> pending[p]]
        /\ \A i \in DOMAIN jnl'.segs : jnl'.segs[i].seq <= FlushSeq(p)
        /\ OnDisk' = OnDisk \cup pending[p]
    BY <1>16, WroteContents
  <2>2. passed(seq[p]) /\ pc[p] = "idle"
    BY <1>8, <1>16 DEF Loaded, Wrote
  <2>3. jnl'.segs[Len(jnl.segs) + 1].ops = pending[p]
    BY <2>1
  <2>4. \A i \in DOMAIN jnl'.segs : o \in jnl'.segs[i].ops => jnl'.segs[i].seq <= seq'[p]
    <3>1. CASE seq'[p] = FlushSeq(p)
      BY <2>1, <3>1
    <3>2. CASE seq'[p] = seq[p] /\ o \notin pending[p]
      <4>1. \A i \in DOMAIN jnl'.segs : o \in jnl'.segs[i].ops =>
              i \in DOMAIN jnl.segs /\ jnl'.segs[i] = jnl.segs[i]
        BY <2>1, <2>3, <3>2
      <4>. QED
        BY <2>2, <3>2, <4>1
    <3>. QED
      BY <1>16, <3>1, <3>2
  <2>5. o \in pending'[p] => o \notin OnDisk'
    BY <1>8, <1>16, <2>1, <2>2
  <2>. QED
    BY <1>8, <1>16, <2>4, <2>5 DEF OnceIn
<1>17. CASE Journal(p)
  <2>1. CASE BeginJournal(p)
    <3>1. /\ pc[p] = "idle" /\ graph' = graph /\ pending' = pending
          /\ seq'[p] \in {seq[p], TailSeq(jnl.segs, 0, seq[p])}
      BY <2>1 DEF BeginJournal
    <3>2. Kept
      BY <2>1, JournalFacts DEF BeginJournal, Kept, Trimmed, CInv, Journals
    <3>3. passed(seq[p]) /\ passed(TailSeq(jnl.segs, 0, seq[p]))
      BY <1>4, <1>8, <1>11, <3>1 DEF Loaded
    <3>. QED
      BY <1>8, <1>9, <3>1, <3>2, <3>3
  <2>2. CASE FlushJournal(p)
    <3>1. Wrote(p) /\ graph' = graph /\ pc' = pc
      BY <2>2 DEF FlushJournal, Wrote
    <3>2. o \notin pending'[p] /\ seq'[p] = FlushSeq(p)
      BY <2>2 DEF FlushJournal
    <3>. QED
      BY <1>16, <3>1, <3>2
  <2>3. CASE FlushFails(p)
    <3>1. /\ pc[p] = "idle" /\ pc' = pc /\ graph' = graph /\ pkl' = pkl /\ active[p]
          /\ pending' = pending /\ seq' = seq
          /\ jnl' \in {jnl, Torn(jnl), Flushed(p)}
          /\ Len(jnl'.segs) > Len(jnl.segs) => retried' = retried \cup pending[p]
      BY <2>3 DEF FlushFails, FailedAppend
    <3>2. CASE jnl' \in {jnl, Torn(jnl)}
      <4>1. Kept
        BY <3>1, <3>2, JournalFacts DEF Kept, Torn, CInv, Journals
      <4>. QED
        BY <1>8, <1>9, <3>1, <4>1 DEF Loaded
    <3>3. CASE jnl' = Flushed(p)
      <4>1. Wrote(p)
        BY <3>1, <3>3 DEF Wrote
      <4>2. DOMAIN jnl'.segs = 1 .. Len(jnl.segs) + 1 /\ Len(jnl.segs) \in Nat
        BY <4>1, WroteContents
      <4>3. jnl'.segs \in Seq(Segment)
        BY JournalFacts DEF JournalInv, TypeOK, Journals
      <4>4. Len(jnl'.segs) > Len(jnl.segs)
        BY <4>2, <4>3, LenProperties
      <4>. QED
        BY <1>16, <3>1, <4>1, <4>4
    <3>. QED
      BY <3>1, <3>2, <3>3
  <2>4. CASE EndJournal(p)
    <3>1. pc[p] = "idle" /\ UNCHANGED <<graph, seq, pending>> /\ Kept
      BY <2>4 DEF EndJournal, Kept
    <3>. QED
      BY <1>8, <1>9, <3>1 DEF Loaded
  <2>. QED
    BY <1>17, <2>1, <2>2, <2>3, <2>4 DEF Journal
<1>18. CASE Save(p)
  <2>1. CASE SaveBegin(p)
    <3>1. /\ pc[p] = "idle" /\ Kept /\ pending' = pending
          /\ \/ graph'[p] = graph[p] /\ seq'[p] = seq[p]
             \/ graph'[p] = all /\ seq'[p] = TailSeq(jnl.segs, 0, pkl.marker)
      BY <2>1 DEF SaveBegin, Kept, all
    <3>2. all[o] <= 1 /\ passed(TailSeq(jnl.segs, 0, pkl.marker)) /\ passed(seq[p])
      BY <1>4, <1>8, <1>11, <1>12, <3>1 DEF Loaded
    <3>. QED
      BY <1>8, <1>9, <3>1, <3>2
  <2>2. CASE SavePromote(p)
    <3>1. /\ pc[p] = "promote" /\ pc'[p] = "compact" /\ jnl' = jnl
          /\ UNCHANGED <<graph, seq, pending>>
      BY <2>2 DEF SavePromote
    <3>. QED
      BY <1>8, <3>1 DEF OnceIn, Loaded
  <2>3. CASE SaveFails(p)
    <3>1. pc[p] = "promote" /\ UNCHANGED <<graph, seq, pending>> /\ Kept
      BY <2>3 DEF SaveFails, Kept
    <3>. QED
      BY <1>8, <1>9, <3>1 DEF Loaded
  <2>4. CASE SaveCompact(p)
    <3>1. /\ pc[p] = "compact" /\ pc'[p] = "resync" /\ UNCHANGED <<graph, seq, pending>>
          /\ jnl' = jnl \/ jnl' = NoJournal(pkl.ver)
      BY <2>4 DEF SaveCompact
    <3>2. jnl'.segs = jnl.segs \/ jnl'.segs = <<>>
      BY <3>1 DEF NoJournal
    <3>. QED
      BY <1>8, <3>1, <3>2 DEF OnceIn, Loaded
  <2>5. CASE SaveResync(p)
    <3>1. pc[p] = "resync" /\ UNCHANGED <<graph, seq>> /\ o \notin pending'[p] /\ Kept
      BY <2>5 DEF SaveResync, Kept
    <3>2. passed(seq'[p]) /\ graph'[p][o] <= 1
      BY <1>8, <3>1 DEF Loaded
    <3>. QED
      BY <1>9, <3>1, <3>2
  <2>. QED
    BY <1>18, <2>1, <2>2, <2>3, <2>4, <2>5 DEF Save
<1>19. CASE Fault(p)
  <2>1. Kept
    BY <1>19, JournalFacts DEF Fault, Crash, CrashInAppend, Forget, Kept, Torn, CInv, Journals
  <2>2. graph'[p] = EmptyGraph /\ o \notin pending'[p] /\ pc'[p] = "down"
    BY <1>19 DEF Fault, Crash, CrashInAppend, Forget
  <2>3. graph'[p][o] <= 1 /\ ~(Loaded(p)')
    BY <1>7, <2>2 DEF Loaded
  <2>. QED
    BY <1>9, <2>1, <2>2, <2>3
<1>. QED
  BY <1>13, <1>14, <1>15, <1>17, <1>18, <1>19 DEF Step

-----------------------------------------------------------------------------
\* Until the first save the journal only grows.
LEMMA Growing ==
  ASSUME CInv, JournalInv', NEW p \in Proc, Step(p), pkl'.ver = 0
  PROVE  /\ pkl' = pkl /\ pkl.ver = 0 /\ jnl'.gen = jnl.gen
         /\ Len(jnl.segs) \in Nat /\ Len(jnl'.segs) \in Nat /\ Len(jnl.segs) <= Len(jnl'.segs)
         /\ DOMAIN jnl.segs = 1 .. Len(jnl.segs) /\ DOMAIN jnl'.segs = 1 .. Len(jnl'.segs)
         /\ \A i \in 1 .. Len(jnl.segs) : jnl'.segs[i] = jnl.segs[i]
         /\ \A i \in 1 .. Len(jnl'.segs) :
              i \in 1 .. Len(jnl.segs) \/ jnl'.segs[i].seq > pkl.marker
<1>1. pkl.ver \in Nat /\ jnl.segs \in Seq(Segment)
  BY JournalFacts DEF CInv
<1>2. jnl'.segs \in Seq(Segment)
  BY JournalFacts DEF JournalInv, TypeOK, Journals
<1>3. /\ Len(jnl.segs) \in Nat /\ Len(jnl'.segs) \in Nat
      /\ DOMAIN jnl.segs = 1 .. Len(jnl.segs) /\ DOMAIN jnl'.segs = 1 .. Len(jnl'.segs)
  BY <1>1, <1>2, LenProperties
<1>4. CASE Kept
  BY <1>3, <1>4 DEF Kept
<1>5. CASE Wrote(p)
  <2>1. /\ DOMAIN jnl'.segs = 1 .. Len(jnl.segs) + 1
        /\ \A i \in DOMAIN jnl.segs : jnl'.segs[i] = jnl.segs[i]
        /\ jnl'.segs[Len(jnl.segs) + 1] = [seq |-> FlushSeq(p), ops |-> pending[p]]
        /\ FlushSeq(p) > pkl.marker /\ jnl'.gen = jnl.gen /\ pkl' = pkl
    BY <1>5, WroteContents
  <2>2. jnl'.segs[Len(jnl.segs) + 1].seq > pkl.marker
    BY <2>1
  <2>3. Len(jnl'.segs) = Len(jnl.segs) + 1
    BY <1>3, <2>1
  <2>4. \A i \in 1 .. Len(jnl'.segs) : i \in 1 .. Len(jnl.segs) \/ i = Len(jnl.segs) + 1
    BY <1>3, <2>3
  <2>. QED
    BY <1>3, <2>1, <2>2, <2>3, <2>4
<1>6. CASE Promoted(p)
  BY <1>1, <1>6, PromotedContents
<1>7. CASE Dropped(p)
  <2>1. pkl.ver = 0 /\ pc[p] = "compact"
    BY <1>7, DroppedContents DEF Dropped
  <2>. QED
    BY <2>1 DEF CInv, ContentsInv, NeverSaved
<1>. QED
  BY <1>4, <1>5, <1>6, <1>7, Effects

\* Nothing is skipped or compacted before the first save.
LEMMA NeverSavedStep ==
  ASSUME CInv, JournalInv', NEW p \in Proc, Step(p), pkl'.ver = 0
  PROVE  NeverSaved'
<1>1. /\ pkl' = pkl /\ pkl.ver = 0 /\ jnl'.gen = jnl.gen
      /\ DOMAIN jnl.segs = 1 .. Len(jnl.segs) /\ DOMAIN jnl'.segs = 1 .. Len(jnl'.segs)
      /\ \A i \in 1 .. Len(jnl.segs) : jnl'.segs[i] = jnl.segs[i]
      /\ \A i \in 1 .. Len(jnl'.segs) :
           i \in 1 .. Len(jnl.segs) \/ jnl'.segs[i].seq > pkl.marker
  BY Growing
<1>2. NeverSaved
  BY <1>1 DEF CInv, ContentsInv
<1>3. \A i \in DOMAIN jnl'.segs : jnl'.segs[i].seq > 0
  BY <1>1, <1>2 DEF NeverSaved
<1>4. pc'[p] # "compact"
  <2>1. pc \in [Proc -> PC] /\ pc[p] # "compact"
    BY <1>2, Maps DEF NeverSaved, CInv
  <2>2. ~SavePromote(p)
    <3>1. pkl.ver \in Nat
      BY JournalFacts DEF CInv
    <3>. QED
      BY <1>1, <3>1 DEF SavePromote
  <2>3. CASE Load(p)
    BY <2>1, <2>3 DEF Load, Start, BeginLoad, LoadBase, LoadJournal, EndLoad
  <2>4. CASE Refresh(p)
    BY <2>1, <2>4 DEF Refresh, ReloadTail, ReloadAll, BeginLoad, KeepOwn, ReplayTail, ReplayGarbage,
       EndLoad
  <2>5. CASE (\E o \in Op : Do(p, o)) \/ Journal(p)
    BY <2>1, <2>5 DEF Do, Journal, BeginJournal, FlushJournal, FlushFails, EndJournal
  <2>6. CASE Save(p) \/ Fault(p)
    BY <2>1, <2>2, <2>6 DEF Save, SaveBegin, SaveFails, SaveCompact, SaveResync, Fault, Crash,
       CrashInAppend, Forget
  <2>. QED
    BY <2>3, <2>4, <2>5, <2>6 DEF Step
<1>5. \A q \in Proc : pc'[q] # "compact"
  <2>1. ASSUME NEW q \in Proc, q # p PROVE pc'[q] # "compact"
    <3>1. pc'[q] = pc[q]
      BY <2>1, Frame DEF Mine, CInv
    <3>. QED
      BY <1>2, <3>1 DEF NeverSaved
  <2>. QED
    BY <1>4, <2>1
<1>. QED
  BY <1>1, <1>2, <1>3, <1>5 DEF NeverSaved

\* The numbers a reader remembers.
LEMMA Remembered ==
  ASSUME JournalInv, NEW p \in Proc
  PROVE  /\ off \in [Proc -> Offset] /\ stamp \in [Proc -> Stamp] /\ taken \in [Proc -> Stamp]
         /\ off[p].at \in Nat /\ stamp[p].jnl.len \in Nat /\ taken[p].jnl.len \in Nat
         /\ seq[p] \in Nat
<1>1. /\ off \in [Proc -> Offset] /\ stamp \in [Proc -> Stamp] /\ taken \in [Proc -> Stamp]
      /\ seq \in [Proc -> Nat]
  BY DEF JournalInv, TypeOK
<1>2. off[p] \in Offset /\ stamp[p] \in Stamp /\ taken[p] \in Stamp /\ seq[p] \in Nat
  BY <1>1
<1>3. stamp[p].jnl \in JnlStamp /\ taken[p].jnl \in JnlStamp
  BY <1>2 DEF Stamp
<1>. QED
  BY <1>1, <1>2, <1>3 DEF Offset, JnlStamp

\* What a reader remembers stays true while others append.
LEMMA FollowsOther ==
  ASSUME CInv, JournalInv', NEW p \in Proc, Step(p), pkl'.ver = 0,
         NEW q \in Proc, q \notin Writers, q # p
  PROVE  Follows(q)'
<1>1. /\ pkl.ver = 0 /\ Len(jnl.segs) \in Nat /\ Len(jnl'.segs) \in Nat
      /\ Len(jnl.segs) <= Len(jnl'.segs)
      /\ \A i \in 1 .. Len(jnl.segs) : jnl'.segs[i] = jnl.segs[i]
  BY Growing
<1>2. Follows(q)
  BY <1>1 DEF CInv, ContentsInv
<1>3. off[q].at \in Nat /\ stamp[q].jnl.len \in Nat /\ taken[q].jnl.len \in Nat
  BY Remembered DEF CInv
<1>4. Mine(q)' = Mine(q)
  BY Frame DEF CInv
<1>5. /\ graph'[q] = graph[q] /\ pc'[q] = pc[q] /\ seq'[q] = seq[q]
      /\ off'[q] = off[q] /\ stamp'[q] = stamp[q] /\ taken'[q] = taken[q]
  BY <1>4 DEF Mine
<1>6. off[q].at <= Len(jnl'.segs) /\ taken[q].jnl.len <= Len(jnl'.segs)
  BY <1>1, <1>2, <1>3 DEF Follows
<1>7. \A i \in 1 .. off[q].at : jnl'.segs[i] = jnl.segs[i]
  BY <1>1, <1>2, <1>3 DEF Follows
<1>. QED
  BY <1>2, <1>5, <1>6, <1>7 DEF Follows, Support

\* A reader that took its stamp before reading has read what the stamp counts.
LEMMA FollowsSelf ==
  ASSUME CInv, JournalInv', NEW p \in Proc, p \notin Writers, Step(p), pkl'.ver = 0
  PROVE  Follows(p)'
<1> DEFINE n == Len(jnl.segs)
<1>1. /\ pkl.ver = 0 /\ n \in Nat /\ DOMAIN jnl.segs = 1 .. n
      /\ jnl.segs \in Seq(Segment) /\ Ordered(jnl.segs)
  BY Growing, JournalFacts DEF CInv
<1>2. jnl'.segs = jnl.segs
  BY DiskGrows DEF Kept
<1>3. /\ jnl.gen = 0 /\ pkl.graph = EmptyGraph /\ pkl.marker = 0
      /\ \A i \in DOMAIN jnl.segs : jnl.segs[i].seq > 0
  BY <1>1 DEF CInv, ContentsInv, NeverSaved
<1>4. /\ off[p].gen = 0 /\ off[p].at <= n /\ taken[p].jnl.len <= n
      /\ pc[p] = "replay" => seq[p] = 0
      /\ pc[p] \in {"idle", "tail"} =>
           /\ stamp[p].jnl.len <= off[p].at
           /\ \A i \in 1 .. off[p].at : jnl.segs[i].ops \subseteq Support(graph[p])
           /\ seq[p] = 0 \/ \E i \in 1 .. off[p].at : jnl.segs[i].seq = seq[p]
  BY <1>1 DEF CInv, ContentsInv, Follows
<1>5. /\ pending[p] = {} /\ ~overflow[p] /\ ~active[p]
      /\ pc[p] \notin {"promote", "compact", "resync"}
  BY DEF CInv, ContentsInv, ReaderBehind
<1>6. /\ pc \in [Proc -> PC] /\ graph \in [Proc -> Graphs] /\ seq \in [Proc -> Nat]
      /\ off \in [Proc -> Offset] /\ stamp \in [Proc -> Stamp] /\ taken \in [Proc -> Stamp]
      /\ off[p].at \in Nat /\ stamp[p].jnl.len \in Nat /\ taken[p].jnl.len \in Nat
      /\ seq[p] \in Nat /\ graph[p] \in Graphs
  BY Maps, Remembered DEF CInv
<1>7. /\ FullStamp.jnl.len = n /\ NoStamp.jnl.len = 0
      /\ EndOf(jnl).at = n /\ EndOf(jnl).gen = 0 /\ NoOffset.at = 0 /\ NoOffset.gen = 0
  BY <1>3 DEF FullStamp, NoStamp, StampOf, EndOf, NoOffset, NoJournal
<1>8. \A i \in DOMAIN jnl.segs : jnl.segs[i].seq \in Nat /\ jnl.segs[i].ops \in SUBSET Op
  BY SegmentFacts DEF CInv
\* What the calls that read the journal from an offset establish.
<1>9. ASSUME NEW end \in Nat, end <= n, seq[p] = 0 \/ \E i \in 1 .. end : jnl.segs[i].seq = seq[p],
             \A i \in 1 .. end : jnl.segs[i].ops \subseteq Support(graph[p])
      PROVE  LET g == Replay(graph[p], jnl.segs, end, seq[p])
                 m == TailSeq(jnl.segs, end, seq[p])
             IN  /\ \A i \in 1 .. n : jnl.segs[i].ops \subseteq Support(g)
                 /\ m = 0 \/ \E i \in 1 .. n : jnl.segs[i].seq = m
  <2> DEFINE g == Replay(graph[p], jnl.segs, end, seq[p])
             m == TailSeq(jnl.segs, end, seq[p])
  <2>1. \A o \in Op : o \in Support(g) <=>
           o \in Support(graph[p]) \/ \E i \in DOMAIN jnl.segs :
              i > end /\ jnl.segs[i].seq > seq[p] /\ o \in jnl.segs[i].ops
    BY <1>1, <1>6, ReplaySupport
  <2>2. m = seq[p] \/ \E i \in DOMAIN jnl.segs : i > end /\ m = jnl.segs[i].seq
    BY <1>1, <1>6, TailSeqMax
  <2> HIDE DEF g, m
  <2>3. ASSUME NEW i \in 1 .. n PROVE jnl.segs[i].ops \subseteq Support(g)
    <3>1. CASE i <= end
      BY <1>1, <1>8, <1>9, <2>1, <3>1
    <3>2. CASE i > end
      <4>1. jnl.segs[i].seq > seq[p]
        <5>1. CASE seq[p] = 0
          BY <1>1, <1>3, <5>1
        <5>2. ASSUME NEW k \in 1 .. end, jnl.segs[k].seq = seq[p] PROVE jnl.segs[i].seq > seq[p]
          <6>1. k \in DOMAIN jnl.segs /\ i \in DOMAIN jnl.segs /\ k < i
            BY <1>1, <1>9, <3>2
          <6>2. jnl.segs[k].seq < jnl.segs[i].seq
            BY <1>1, <6>1 DEF Ordered
          <6>. QED
            BY <1>8, <5>2, <6>1, <6>2
        <5>. QED
          BY <1>9, <5>1, <5>2
      <4>. QED
        BY <1>1, <1>8, <2>1, <3>2, <4>1
    <3>. QED
      BY <1>1, <1>9, <3>1, <3>2
  <2>4. m = 0 \/ \E i \in 1 .. n : jnl.segs[i].seq = m
    BY <1>1, <1>9, <2>2
  <2>. QED
    BY <2>3, <2>4 DEF g, m
<1> HIDE DEF n
\* What has to hold after the step.
<1>10. SUFFICES /\ off'[p].gen = 0 /\ off'[p].at <= n /\ taken'[p].jnl.len <= n
                /\ pc'[p] = "replay" => seq'[p] = 0
                /\ pc'[p] \in {"idle", "tail"} =>
                     /\ stamp'[p].jnl.len <= off'[p].at
                     /\ \A i \in 1 .. off'[p].at : jnl.segs[i].ops \subseteq Support(graph'[p])
                     /\ seq'[p] = 0 \/ \E i \in 1 .. off'[p].at : jnl.segs[i].seq = seq'[p]
  BY <1>2 DEF Follows, Support, n
<1> USE <1>4, <1>6, <1>7 DEF diskVars, opVars, syncVars
<1>11. CASE Load(p)
  <2>1. CASE Start(p)
    BY <1>1, <2>1 DEF Start, BeginLoad
  <2>2. CASE LoadBase(p)
    BY <1>1, <1>3, <2>2 DEF LoadBase
  <2>3. CASE LoadJournal(p)
    <3> DEFINE g == Replay(graph[p], jnl.segs, 0, seq[p])
               m == TailSeq(jnl.segs, 0, seq[p])
    <3>1. /\ pc[p] = "replay" /\ graph'[p] = Apply(g, {}) /\ seq'[p] = m /\ off'[p] = EndOf(jnl)
          /\ stamp'[p] = taken[p] /\ taken'[p] = NoStamp /\ pc'[p] = "idle"
      BY <1>5, <2>3 DEF LoadJournal, EndLoad
    <3>2. /\ \A i \in 1 .. n : jnl.segs[i].ops \subseteq Support(g)
          /\ m = 0 \/ \E i \in 1 .. n : jnl.segs[i].seq = m
      <4>1. 0 \in Nat /\ 0 <= n /\ seq[p] = 0 /\ \A i \in 1 .. 0 : FALSE
        BY <1>1, <3>1
      <4>. QED
        BY <1>9, <4>1
    <3>3. g \in Graphs
      BY <1>1, <1>6, ReplayType
    <3> HIDE DEF g, m
    <3>4. Support(Apply(g, {})) = Support(g) \cup {}
      BY <3>3, ApplyAt
    <3>5. \A i \in 1 .. n : jnl.segs[i].ops \subseteq Support(graph'[p])
      BY <3>1, <3>2, <3>4
    <3>. QED
      BY <1>1, <3>1, <3>2, <3>5
  <2>. QED
    BY <1>11, <2>1, <2>2, <2>3 DEF Load
<1>12. CASE Refresh(p)
  <2>1. CASE ReloadTail(p)
    BY <1>1, <2>1 DEF ReloadTail
  <2>2. CASE ReloadAll(p)
    BY <1>1, <2>2 DEF ReloadAll, BeginLoad
  <2>3. CASE ReplayTail(p)
    <3> DEFINE g == Replay(graph[p], jnl.segs, off[p].at, seq[p])
               m == TailSeq(jnl.segs, off[p].at, seq[p])
    <3>1. /\ pc[p] = "tail" /\ graph'[p] = g /\ seq'[p] = m
          /\ off'[p] = IF n > off[p].at THEN EndOf(jnl) ELSE off[p]
          /\ stamp'[p] = taken[p] /\ taken'[p] = NoStamp /\ pc'[p] = "idle"
      BY <2>3 DEF ReplayTail, EndLoad, n
    <3>2. /\ \A i \in 1 .. n : jnl.segs[i].ops \subseteq Support(g)
          /\ m = 0 \/ \E i \in 1 .. n : jnl.segs[i].seq = m
      BY <1>9, <3>1
    <3> HIDE DEF g, m
    <3>3. off'[p].at = n /\ off'[p].gen = 0
      BY <1>1, <3>1
    <3>. QED
      BY <1>1, <3>1, <3>2, <3>3
  <2>4. ~KeepOwn(p) /\ ~ReplayGarbage(p)
    BY <1>3, <1>5 DEF KeepOwn, ReplayGarbage
  <2>. QED
    BY <1>12, <2>1, <2>2, <2>3, <2>4 DEF Refresh
<1>13. CASE Fault(p)
  <2>1. pc'[p] = "down" /\ off'[p] = NoOffset /\ taken'[p] = NoStamp
    BY <1>13 DEF Fault, Crash, CrashInAppend, Forget
  <2>. QED
    BY <1>1, <2>1
<1>14. ~(\E x \in Op : Do(p, x)) /\ ~Save(p) /\ ~Journal(p)
  BY <1>5, ProcAssumption DEF Do, Save, SaveBegin, SavePromote, SaveFails, SaveCompact, SaveResync,
     Journal, BeginJournal, FlushJournal, FlushFails, EndJournal
<1>. QED
  BY <1>11, <1>12, <1>13, <1>14 DEF Step

-----------------------------------------------------------------------------
\* The invariant of the contents is inductive.
LEMMA ContentsInit == Init => CInv
<1> SUFFICES ASSUME Init PROVE CInv
  OBVIOUS
<1>1. JournalInv
  BY JournalInit
<1>2. /\ pkl.graph = EmptyGraph /\ pkl.marker = 0 /\ jnl.segs = <<>> /\ jnl.gen = 0
      /\ \A p \in Proc : /\ pc[p] = "down" /\ graph[p] = EmptyGraph /\ pending[p] = {}
                         /\ ~overflow[p] /\ ~active[p] /\ seq[p] = 0
                         /\ off[p].gen = 0 /\ off[p].at = 0 /\ taken[p].jnl.len = 0
      /\ issued = {} /\ acked = {} /\ retried = {}
  BY DEF Init, NoJournal, NoOffset, NoStamp, StampOf
<1>3. SkippedIsFolded
  BY <1>2 DEF SkippedIsFolded
<1>4. Support(EmptyGraph) = {} /\ \A o \in Op : EmptyGraph[o] = 0
  BY DEF Support, EmptyGraph
<1>5. OnDisk = {}
  BY <1>1, <1>2, <1>3, <1>4, StoredIs DEF Stored, InJournal
<1>6. \A p \in Proc : WriterHolds(p) /\ ReaderBehind(p) /\ Follows(p)
  BY <1>2, <1>4 DEF WriterHolds, Loaded, ReaderBehind, Follows
<1>7. IssuedOnly /\ AckedOnDisk
  BY <1>2, <1>4, <1>5 DEF IssuedOnly, AckedOnDisk
<1>8. \A o \in Op : OnceOnDisk(o) /\ \A p \in Proc : OnceIn(p, o)
  BY <1>2, <1>4 DEF OnceOnDisk, OnceIn
<1>9. NeverSaved
  BY <1>2 DEF NeverSaved
<1>. QED
  BY <1>1, <1>3, <1>6, <1>7, <1>8, <1>9, ProcAssumption DEF CInv, ContentsInv

\* Every step of every instance preserves it.
LEMMA ContentsStep ==
  ASSUME OneWriter
  PROVE  CInv /\ [Next]_vars => CInv'
<1> SUFFICES ASSUME CInv, [Next]_vars PROVE CInv'
  OBVIOUS
<1>1. JournalInv'
  BY JournalStep DEF CInv
<1>2. ASSUME NEW p \in Proc, Step(p) PROVE CInv'
  <2>1. SkippedIsFolded' /\ OnDisk \subseteq OnDisk' /\ IssuedOnly' /\ AckedOnDisk'
    BY <1>1, <1>2, DiskGrows, IssuedStep, AckedStep
  <2>2. ASSUME NEW q \in Writers PROVE WriterHolds(q)'
    <3>1. CASE q = p
      BY <1>1, <1>2, <2>2, <3>1, WriterStep
    <3>2. CASE q # p
      <4>1. q \in Proc /\ p \notin Writers
        BY <3>2, ProcAssumption DEF OneWriter
      <4>2. Kept /\ OnDisk' = OnDisk
        BY <1>1, <1>2, <4>1, DiskGrows
      <4>3. Mine(q)' = Mine(q)
        BY <1>2, <3>2, <4>1, Frame DEF CInv
      <4>4. WriterHolds(q)
        BY DEF CInv, ContentsInv
      <4>. QED
        BY <4>2, <4>3, <4>4 DEF WriterHolds, Loaded, Mine, Kept, Support
    <3>. QED
      BY <3>1, <3>2
  <2>3. ASSUME NEW q \in Proc \ Writers PROVE ReaderBehind(q)'
    <3>1. CASE q = p
      BY <1>1, <1>2, <3>1, ReaderStep
    <3>2. CASE q # p
      <4>1. Mine(q)' = Mine(q)
        BY <1>2, <3>2, Frame DEF CInv
      <4>2. ReaderBehind(q)
        BY DEF CInv, ContentsInv
      <4>. QED
        BY <2>1, <4>1, <4>2 DEF ReaderBehind, Mine, Support
    <3>. QED
      BY <3>1, <3>2
  <2>4. ASSUME NEW o \in Op \ retried' PROVE OnceOnDisk(o)' /\ \A q \in Proc : OnceIn(q, o)'
    <3>1. o \in Op /\ o \notin retried /\ o \notin retried'
      BY <1>2, RetriedGrows
    <3>2. OnceOnDisk(o)'
      BY <1>1, <1>2, <3>1, OnceDiskStep
    <3>3. OnceIn(p, o)'
      BY <1>1, <1>2, <3>1, OnceReaderStep, OnceWriterStep
    <3>4. \A q \in Proc : q # p => OnceIn(q, o)'
      BY <1>1, <1>2, <3>1, OnceOthersStep
    <3>. QED
      BY <3>2, <3>3, <3>4
  <2>5. pkl'.ver = 0 => NeverSaved' /\ \A q \in Proc \ Writers : Follows(q)'
    <3> SUFFICES ASSUME pkl'.ver = 0 PROVE NeverSaved' /\ \A q \in Proc \ Writers : Follows(q)'
      OBVIOUS
    <3>1. NeverSaved'
      BY <1>1, <1>2, NeverSavedStep
    <3>2. ASSUME NEW q \in Proc \ Writers PROVE Follows(q)'
      BY <1>1, <1>2, FollowsSelf, FollowsOther
    <3>. QED
      BY <3>1, <3>2
  <2>. QED
    BY <1>1, <2>1, <2>2, <2>3, <2>4, <2>5 DEF CInv, ContentsInv
<1>3. CASE UNCHANGED vars
  <2>1. /\ pkl' = pkl /\ jnl' = jnl /\ pc' = pc /\ graph' = graph /\ pending' = pending
        /\ overflow' = overflow /\ seq' = seq /\ off' = off /\ stamp' = stamp /\ taken' = taken
        /\ active' = active /\ issued' = issued /\ acked' = acked /\ retried' = retried
    BY <1>3 DEF vars, diskVars, opVars, syncVars, history
  <2> USE <2>1
  <2>2. OnDisk' = OnDisk
    BY DEF OnDisk, DiskGraph, Support, Replay
  <2>3. SkippedIsFolded' /\ AckedOnDisk' /\ IssuedOnly'
    BY <2>2 DEF CInv, ContentsInv, SkippedIsFolded, AckedOnDisk, IssuedOnly, Support
  <2>4. (\A q \in Writers : WriterHolds(q))' /\ (\A q \in Proc \ Writers : ReaderBehind(q))'
    BY <2>2 DEF CInv, ContentsInv, WriterHolds, Loaded, ReaderBehind, Support
  <2>5. (\A o \in Op \ retried : OnceOnDisk(o) /\ \A q \in Proc : OnceIn(q, o))'
    BY <2>2 DEF CInv, ContentsInv, OnceOnDisk, OnceIn, Loaded
  <2>6. (pkl.ver = 0 => NeverSaved /\ \A q \in Proc \ Writers : Follows(q))'
    BY DEF CInv, ContentsInv, NeverSaved, Follows, Support
  <2>. QED
    BY <1>1, <2>3, <2>4, <2>5, <2>6 DEF CInv, ContentsInv
<1>. QED
  BY <1>2, <1>3 DEF Next, Step

\* So it always holds.
LEMMA Contents == OneWriter => (Spec => []CInv)
<1> SUFFICES ASSUME OneWriter PROVE Spec => []CInv
  OBVIOUS
<1>1. CInv /\ [Next]_vars => CInv'
  BY ContentsStep
<1>. QED
  BY <1>1, ContentsInit, PTL DEF Spec

\* With one writer, and any number of readers that start, crash and reload when
\* they like, the files and the instances hold what they should.
THEOREM ContentsSafe == OneWriter => (Spec => []ContentsInv)
<1>1. CInv => ContentsInv
  BY DEF CInv
<1>. QED
  BY <1>1, Contents, PTL

\* save() between os.replace and the unlink, _rebase(), _replay_journal: no op
\* is applied twice.
THEOREM OnceSafe == OneWriter => (Spec => []AppliedOnce)
<1>1. CInv => AppliedOnce
  <2> SUFFICES ASSUME CInv, NEW o \in Op \ retried
               PROVE  DiskGraph[o] <= 1 /\ \A p \in Proc : pc[p] = "idle" => graph[p][o] <= 1
    BY DEF AppliedOnce
  <2>1. OnceOnDisk(o) /\ \A p \in Proc : OnceIn(p, o)
    BY DEF CInv, ContentsInv
  <2>. QED
    BY <2>1, DiskOnce DEF OnceIn
<1>. QED
  BY <1>1, Contents, PTL

\* flush_journal, save: what was acknowledged stays on disk.
THEOREM AckedSafe == OneWriter => (Spec => []AckedOnDisk)
<1>1. CInv => AckedOnDisk
  BY DEF CInv
<1>. QED
  BY <1>1, Contents, PTL

\* reload_if_changed: a reader shows nothing that a load would not find.
THEOREM NoPhantomSafe == OneWriter => (Spec => []NoPhantom)
<1>1. CInv => NoPhantom
  BY DEF CInv, ContentsInv, ReaderBehind, NoPhantom
<1>. QED
  BY <1>1, Contents, PTL

\* _full_stamp: an instance whose stamp matches the files sees what they hold.
THEOREM FreshSafe == OneWriter => (Spec => []Fresh)
<1>1. CInv => Fresh
  <2> SUFFICES ASSUME CInv PROVE Fresh
    OBVIOUS
  <2>1. ASSUME NEW p \in Writers PROVE SameAsDisk(p)
    <3>1. WriterHolds(p)
      BY DEF CInv, ContentsInv
    <3>. QED
      BY <3>1 DEF SameAsDisk, WriterHolds, Loaded
  <2>2. ASSUME pkl.ver = 0, NEW p \in Proc \ Writers PROVE SameAsDisk(p)
    <3> SUFFICES ASSUME pc[p] = "idle", InSync(p) PROVE Support(graph[p]) = OnDisk \cup pending[p]
      BY DEF SameAsDisk
    <3>1. ReaderBehind(p) /\ NeverSaved /\ Follows(p) /\ Stored
      BY <2>2, StoredIs DEF CInv, ContentsInv
    <3>2. stamp[p].jnl.len = Len(jnl.segs)
      BY DEF InSync, FullStamp, StampOf
    <3>3. /\ off[p].at \in Nat /\ off[p].at <= Len(jnl.segs)
          /\ stamp[p].jnl.len <= off[p].at
          /\ \A i \in 1 .. off[p].at : jnl.segs[i].ops \subseteq Support(graph[p])
      BY <3>1, Remembered DEF Follows, CInv
    <3>4. DOMAIN jnl.segs = 1 .. Len(jnl.segs) /\ Len(jnl.segs) \in Nat
      BY JournalFacts, LenProperties DEF CInv
    <3>5. off[p].at = Len(jnl.segs)
      BY <3>2, <3>3, <3>4
    <3>6. InJournal \subseteq Support(graph[p])
      BY <3>3, <3>4, <3>5 DEF InJournal
    <3>7. Support(pkl.graph) = {}
      BY <3>1 DEF NeverSaved, Support, EmptyGraph
    <3>. QED
      BY <3>1, <3>6, <3>7 DEF Stored, ReaderBehind
  <2>. QED
    BY <2>1, <2>2 DEF Fresh
<1>. QED
  BY <1>1, Contents, PTL

-----------------------------------------------------------------------------
(* The store implements DurableGraph while no instance overflows: an       *)
(* overflowing writer mutates its graph without remembering the op.        *)
NoOverflow == \A p \in Proc : ~overflow[p]

\* Nothing is durable in the beginning.
LEMMA RefinesInit == Init => Durable!Init
<1> SUFFICES ASSUME Init PROVE Durable!Init
  OBVIOUS
<1>1. CInv
  BY ContentsInit
<1>2. OnDisk = {}
  BY <1>1 DEF CInv, ContentsInv, IssuedOnly, Init
<1>. QED
  BY <1>2 DEF Init, Durable!Init

\* Each step adds a batch to the disk, acknowledges one, both, drops one, issues
\* an op, or changes nothing that DurableGraph sees.
LEMMA RefinesStep ==
  ASSUME CInv, JournalInv', NoOverflow, NoOverflow', NEW p \in Proc, Step(p)
  PROVE  Durable!Next \/ UNCHANGED Durable!vars
<1>1. p \notin Writers => pc[p] \notin {"promote", "compact", "resync"} /\ ~active[p]
  BY DEF CInv, ContentsInv, ReaderBehind
<1>2. Kept => OnDisk' = OnDisk
  BY KeptContents
<1>3. jnl \in Journals /\ pending \in [Proc -> SUBSET Op] /\ overflow \in [Proc -> BOOLEAN]
  BY Maps, JournalFacts DEF CInv
<1> USE DEF diskVars, opVars, syncVars, history
\* The steps of DurableGraph.
<1>4. ASSUME OnDisk' = OnDisk, pending' = pending, issued' = issued, acked' = acked
      PROVE  UNCHANGED Durable!vars
  BY <1>4 DEF Durable!vars
<1>5. ASSUME Durable!Persist(p) \/ Durable!Acknowledge(p) \/ Durable!Commit(p) \/ Durable!Abandon(p)
      PROVE  Durable!Next
  BY <1>5 DEF Durable!Next
<1>6. CASE Load(p) \/ Refresh(p)
  <2>1. /\ Kept /\ pending' = pending /\ issued' = issued /\ acked' = acked
    BY <1>6 DEF Load, Start, BeginLoad, LoadBase, LoadJournal, EndLoad, Refresh, ReloadTail, ReloadAll,
       KeepOwn, ReplayTail, ReplayGarbage, Kept
  <2>. QED
    BY <1>2, <1>4, <2>1
<1>7. ASSUME NEW o \in Op, Do(p, o) PROVE Durable!Next
  <2>1. /\ Kept /\ o \notin issued /\ issued' = issued \cup {o} /\ acked' = acked
    BY <1>7 DEF Do, Kept
  <2>2. pending' = [pending EXCEPT ![p] = @ \cup {o}]
    <3>1. overflow' # [overflow EXCEPT ![p] = TRUE]
      BY <1>3 DEF NoOverflow
    <3>. QED
      BY <1>7, <3>1 DEF Do
  <2>3. Durable!Issue(p, o)
    BY <1>2, <2>1, <2>2 DEF Durable!Issue
  <2>. QED
    BY <2>3 DEF Durable!Next
<1>8. CASE Journal(p)
  <2>1. CASE BeginJournal(p) \/ EndJournal(p)
    <3>1. /\ Kept /\ pending' = pending /\ issued' = issued /\ acked' = acked
      BY <1>3, <2>1 DEF BeginJournal, EndJournal, Kept, Trimmed, Journals
    <3>. QED
      BY <1>2, <1>4, <3>1
  <2>2. CASE FlushJournal(p)
    <3>1. Wrote(p)
      BY <1>1, <2>2 DEF FlushJournal, Wrote
    <3>2. OnDisk' = OnDisk \cup pending[p]
      BY <3>1, WroteContents
    <3>3. Durable!Commit(p)
      BY <2>2, <3>2 DEF FlushJournal, Durable!Commit
    <3>. QED
      BY <1>5, <3>3
  <2>3. CASE FlushFails(p)
    <3>1. /\ pc[p] = "idle" /\ pkl' = pkl /\ active[p]
          /\ pending' = pending /\ issued' = issued /\ acked' = acked
          /\ jnl' \in {jnl, Torn(jnl), Flushed(p)}
      BY <2>3 DEF FlushFails, FailedAppend
    <3>2. CASE jnl' \in {jnl, Torn(jnl)}
      <4>1. Kept
        BY <1>3, <3>1, <3>2 DEF Kept, Torn, Journals
      <4>. QED
        BY <1>2, <1>4, <3>1, <4>1
    <3>3. CASE jnl' = Flushed(p)
      <4>1. Wrote(p)
        BY <1>1, <3>1, <3>3 DEF Wrote
      <4>2. OnDisk' = OnDisk \cup pending[p]
        BY <4>1, WroteContents
      <4>3. Durable!Persist(p)
        BY <3>1, <4>2 DEF Durable!Persist
      <4>. QED
        BY <1>5, <4>3
    <3>. QED
      BY <3>1, <3>2, <3>3
  <2>. QED
    BY <1>8, <2>1, <2>2, <2>3 DEF Journal
<1>9. CASE Save(p)
  <2>1. CASE SaveBegin(p) \/ SaveFails(p)
    <3>1. /\ Kept /\ pending' = pending /\ issued' = issued /\ acked' = acked
      BY <2>1 DEF SaveBegin, SaveFails, Kept
    <3>. QED
      BY <1>2, <1>4, <3>1
  <2>2. CASE SavePromote(p)
    <3>1. Promoted(p)
      BY <1>1, <2>2 DEF SavePromote, Promoted
    <3>2. OnDisk' = Support(graph[p])
      BY <3>1, PromotedContents
    <3>3. Support(graph[p]) = OnDisk \cup pending[p]
      BY <3>1, WriterFacts DEF WriterHolds, Loaded, Promoted, NoOverflow
    <3>4. Durable!Persist(p)
      BY <2>2, <3>2, <3>3 DEF SavePromote, Durable!Persist
    <3>. QED
      BY <1>5, <3>4
  <2>3. CASE SaveCompact(p)
    <3>1. /\ pc[p] = "compact" /\ pkl' = pkl /\ (jnl' = jnl \/ jnl' = NoJournal(pkl.ver))
          /\ pending' = pending /\ issued' = issued /\ acked' = acked
      BY <2>3 DEF SaveCompact
    <3>2. Kept \/ Dropped(p)
      BY <1>1, <3>1 DEF Kept, Dropped
    <3>3. OnDisk' = OnDisk
      BY <1>2, <3>2, DroppedContents
    <3>. QED
      BY <1>4, <3>1, <3>3
  <2>4. CASE SaveResync(p)
    <3>1. p \in Writers /\ pc[p] = "resync" /\ Kept
      BY <1>1, <2>4 DEF SaveResync, Kept
    <3>2. /\ graph[p] = pkl.graph /\ pending[p] \subseteq Support(graph[p])
          /\ Support(pkl.graph) \subseteq OnDisk
      BY <3>1, WriterFacts DEF WriterHolds, Loaded
    <3>3. pending[p] \subseteq OnDisk /\ OnDisk' = OnDisk
      BY <1>2, <3>1, <3>2
    <3>4. Durable!Acknowledge(p)
      BY <2>4, <3>3 DEF SaveResync, Durable!Acknowledge
    <3>. QED
      BY <1>5, <3>4
  <2>. QED
    BY <1>9, <2>1, <2>2, <2>3, <2>4 DEF Save
<1>10. CASE Fault(p)
  <2>1. Kept
    BY <1>3, <1>10 DEF Fault, Crash, CrashInAppend, Forget, Kept, Torn, Journals
  <2>2. Durable!Abandon(p)
    BY <1>2, <1>10, <2>1 DEF Fault, Crash, CrashInAppend, Forget, Durable!Abandon
  <2>. QED
    BY <1>5, <2>2
<1>. QED
  BY <1>6, <1>7, <1>8, <1>9, <1>10 DEF Step

\* With one writer that does not overflow the store is a durable graph: batches
\* reach the disk whole, stay there, and are acknowledged only then.
THEOREM Implementation == OneWriter => (Spec /\ []NoOverflow => Implements)
<1> SUFFICES ASSUME OneWriter PROVE Spec /\ []NoOverflow => Implements
  OBVIOUS
<1>1. Spec => []CInv
  BY Contents
<1>2. CInv /\ NoOverflow /\ NoOverflow' /\ [Next]_vars => [Durable!Next]_(Durable!vars)
  <2> SUFFICES ASSUME CInv, NoOverflow, NoOverflow', [Next]_vars
               PROVE  Durable!Next \/ UNCHANGED Durable!vars
    OBVIOUS
  <2>1. JournalInv'
    BY JournalStep DEF CInv
  <2>2. ASSUME NEW p \in Proc, Step(p) PROVE Durable!Next \/ UNCHANGED Durable!vars
    BY <2>1, <2>2, RefinesStep
  <2>3. CASE UNCHANGED vars
    BY <2>3 DEF vars, diskVars, opVars, history, Durable!vars, OnDisk, DiskGraph, Support, Replay
  <2>. QED
    BY <2>2, <2>3 DEF Next, Step
<1>. QED
  BY <1>1, <1>2, RefinesInit, PTL DEF Spec, Implements, Durable!Spec

\* _UNSYNCED_OPS_CAP: nothing overflows when the ops are no more than the cap.
LEMMA NeverOverflows == OneWriter /\ Cardinality(Op) <= Cap => (Spec => []NoOverflow)
<1> SUFFICES ASSUME OneWriter, Cardinality(Op) <= Cap PROVE Spec => []NoOverflow
  OBVIOUS
<1>1. Init => NoOverflow
  BY DEF Init, NoOverflow
<1>2. CInv /\ NoOverflow /\ [Next]_vars => NoOverflow'
  <2> SUFFICES ASSUME CInv, NoOverflow, [Next]_vars PROVE NoOverflow'
    OBVIOUS
  <2>1. overflow \in [Proc -> BOOLEAN] /\ pending \in [Proc -> SUBSET Op]
    BY Maps DEF CInv
  <2>2. ASSUME NEW p \in Proc, NEW o \in Op, Do(p, o) PROVE overflow' = overflow
    <3>1. pending[p] \subseteq Op \ {o}
      BY <2>1, <2>2 DEF Do, CInv, ContentsInv, IssuedOnly
    <3>2. IsFiniteSet(Op \ {o}) /\ Cardinality(Op \ {o}) = Cardinality(Op) - 1
      BY OpAssumption, FS_RemoveElement
    <3>3. Cardinality(pending[p]) <= Cardinality(Op \ {o}) /\ IsFiniteSet(pending[p])
      BY <3>1, <3>2, FS_Subset
    <3>4. Cardinality(pending[p]) \in Nat /\ Cardinality(Op) \in Nat
      BY <3>3, OpAssumption, FS_CardinalityType
    <3>5. Cardinality(pending[p]) < Cap
      BY <3>2, <3>3, <3>4, BoundAssumption
    <3>. QED
      BY <2>2, <3>5 DEF Do
  <2>3. ASSUME NEW p \in Proc, Load(p) \/ Refresh(p) \/ Journal(p) \/ Save(p) \/ Fault(p)
        PROVE  overflow' = overflow \/ overflow' = [overflow EXCEPT ![p] = FALSE]
    <3> USE DEF opVars
    <3>1. CASE Load(p) \/ Refresh(p)
      BY <3>1 DEF Load, Start, BeginLoad, LoadBase, LoadJournal, EndLoad, Refresh, ReloadTail,
         ReloadAll, KeepOwn, ReplayTail, ReplayGarbage
    <3>2. CASE Journal(p) \/ Save(p)
      BY <3>2 DEF Journal, BeginJournal, FlushJournal, FlushFails, EndJournal, Save, SaveBegin,
         SavePromote, SaveFails, SaveCompact, SaveResync
    <3>3. CASE Fault(p)
      BY <3>3 DEF Fault, Crash, CrashInAppend, Forget
    <3>. QED
      BY <2>3, <3>1, <3>2, <3>3
  <2>4. CASE UNCHANGED vars
    BY <2>4 DEF vars, opVars, NoOverflow
  <2>. QED
    BY <2>1, <2>2, <2>3, <2>4 DEF Next, NoOverflow
<1>. QED
  BY <1>1, <1>2, Contents, PTL DEF Spec

\* So it is, without that condition, for any ops that fit the log.
THEOREM ImplementationCapped == OneWriter /\ Cardinality(Op) <= Cap => (Spec => Implements)
<1> SUFFICES ASSUME OneWriter, Cardinality(Op) <= Cap PROVE Spec => Implements
  OBVIOUS
<1>1. Spec => []NoOverflow
  BY NeverOverflows
<1>2. Spec /\ []NoOverflow => Implements
  BY Implementation
<1>. QED
  BY <1>1, <1>2, PTL

-----------------------------------------------------------------------------
(* The queue that Tier 2 works off.                                        *)

\* What the two parts of the hand-over need of each other.
Inv == QueueInv /\ EmbedsInv

-----------------------------------------------------------------------------
\* The files that are left in a loop are finitely many.
LEMMA Countable ==
  ASSUME NEW S \in SUBSET File
  PROVE  /\ IsFiniteSet(S) /\ Cardinality(S) \in Nat
         /\ Cardinality(S) <= Cardinality(File)
         /\ \A f \in S : Cardinality(S \ {f}) = Cardinality(S) - 1
         /\ Cardinality({}) = 0 /\ Cardinality(File) \in Nat
<1>1. IsFiniteSet(S) /\ Cardinality(S) <= Cardinality(File)
  BY FS_Subset, FileAssumption
<1>2. Cardinality(S) \in Nat /\ Cardinality(File) \in Nat
  BY <1>1, FS_CardinalityType, FileAssumption
<1>3. \A f \in S : Cardinality(S \ {f}) = Cardinality(S) - 1
  BY <1>1, FS_RemoveElement
<1> QED BY <1>1, <1>2, <1>3, FS_EmptySet

\* An index that a save wrote, and what it holds.
LEMMA SavedIndex ==
  ASSUME QueueTypeOK, NEW m \in Embedded
  PROVE  /\ Saved(m) \in Index
         /\ Saved(m).files = IF behind THEN disk.files \cup own ELSE mem.files
         /\ Saved(m).tier1 = IF behind THEN disk.tier1 ELSE m.tier1
         /\ m.tier1 \in BOOLEAN /\ (mem.tier1 => m.tier1) /\ (~owed => m = mem)
<1>1. m \in Index /\ m.files = mem.files /\ (mem.tier1 => m.tier1) /\ (~owed => m = mem)
  <2>1. m = mem \/ (owed /\ m = [mem EXCEPT !.tier1 = TRUE])
    BY DEF Embedded
  <2>2. mem \in Index
    BY DEF QueueTypeOK
  <2>3. CASE m = mem
    BY <2>2, <2>3
  <2>4. CASE owed /\ m = [mem EXCEPT !.tier1 = TRUE]
    <3>1. mem.files \in SUBSET File /\ m.tier1 /\ m = [files |-> mem.files, tier1 |-> TRUE]
      BY <2>2, <2>4 DEF Index
    <3> QED BY <2>4, <3>1 DEF Index
  <2> QED BY <2>1, <2>3, <2>4
<1>2. disk \in Index /\ mem \in Index /\ own \subseteq mem.files /\ behind \in BOOLEAN
  BY DEF QueueTypeOK
<1>3. CASE behind
  <2>1. Saved(m) = [disk EXCEPT !.files = @ \cup own]
    BY <1>3 DEF Saved
  <2> QED BY <1>1, <1>2, <1>3, <2>1 DEF Index
<1>4. CASE ~behind
  <2>1. Saved(m) = m
    BY <1>4 DEF Saved
  <2> QED BY <1>1, <1>4, <2>1 DEF Index
<1> QED BY <1>3, <1>4

\* Every step keeps the types, and the progress of a run below its bound.
LEMMA TypeStep == Inv /\ ~Overlap /\ [QueueNext]_queueVars => QueueTypeOK'
<1> SUFFICES ASSUME Inv, ~Overlap, [QueueNext]_queueVars PROVE QueueTypeOK'
  OBVIOUS
<1> USE FileAssumption, RolesAssumption, BatchAssumption, FlagsAssumption, RunsAssumption
      DEF Inv, QueueInv, QueueTypeOK, Queue, Index, NoQueue, queueVars, loop, copy, run,
          button, access, past, counts
<1>1. CASE UNCHANGED queueVars
  BY <1>1
<1>2. CASE Walk
  <2>1. runs' \in 0 .. MaxRuns
    BY <1>2 DEF Walk, Free
  <2>2. queue' \in Queue
    BY <1>2 DEF Walk, Free
  <2> QED BY <1>2, <2>1, <2>2 DEF Walk, Free
<1>3. CASE SaveTier1
  BY <1>3 DEF SaveTier1
<1>4. CASE KillTier1
  BY <1>4 DEF KillTier1, Fail
<1>5. CASE Begin
  <2>1. total' \in 0 .. Cardinality(File)
    <3>1. Cardinality(File) \in Nat
      BY Countable
    <3> QED BY <1>5, <3>1 DEF Begin, Free
  <2>2. mem' \in Index /\ own' = {}
    BY <1>5 DEF Begin, Free
  <2>3. read' \in Queue /\ todo' \subseteq File /\ left' \subseteq File
    BY <1>5 DEF Begin, Free
  <2>4. tier2' \in {"embed", "index"} /\ tier1' = "off"
    BY <1>5 DEF Begin, Free
  <2>5. /\ UNCHANGED <<queue, disk, access, past, counts>>
        /\ behind' \in BOOLEAN /\ polled' \in BOOLEAN /\ stop' \in BOOLEAN /\ owed' \in BOOLEAN
    BY <1>5 DEF Begin, Free
  <2> QED BY <2>1, <2>2, <2>3, <2>4, <2>5
<1>6. CASE EmbedTier1
  BY <1>6 DEF EmbedTier1
<1>7. CASE EmbedTier1Fails
  <2>1. read' \in Queue
    BY <1>7 DEF EmbedTier1Fails, Fail
  <2>2. fails' \in 0 .. MaxFails
    BY <1>7 DEF EmbedTier1Fails, Fail
  <2> QED BY <1>7, <2>1, <2>2 DEF EmbedTier1Fails, Fail
<1>8. CASE Unembed
  BY <1>8 DEF Unembed, Fail
<1>9. CASE Poll
  <2>1. tier2' \in {tier2, "save"} /\ todo' \subseteq todo /\ polled' \in BOOLEAN
    BY <1>9 DEF Poll, Following
  <2>2. tier1 = "off"
    BY <1>9 DEF Poll
  <2> QED BY <1>9, <2>1, <2>2 DEF Poll
<1>10. CASE AllHandled
  BY <1>10 DEF AllHandled, Following
<1>11. ASSUME NEW f \in File, IndexFile(f) PROVE QueueTypeOK'
  <2>1. todo \in SUBSET File /\ f \in todo /\ total \in Nat
        /\ total + Cardinality(todo) <= Cardinality(File)
    BY <1>11 DEF IndexFile, Handled, Flush, Following, RunCovers
  <2>2. Cardinality(todo \ {f}) \in Nat /\ Cardinality(todo) = Cardinality(todo \ {f}) + 1
        /\ Cardinality(File) \in Nat
    <3>1. (todo \ {f}) \in SUBSET File
      BY <2>1
    <3> QED BY <2>1, <3>1, Countable
  <2>3. total' \in 0 .. Cardinality(File)
    BY <1>11, <2>1, <2>2 DEF IndexFile, Handled, Flush, Following
  <2>4. mem' \in Index /\ own' \subseteq mem'.files
    BY <1>11 DEF IndexFile, Handled, Flush, Following
  <2>5. tier2' \in {"index", "save"} /\ (tier1' = "off" \/ tier2' = "off")
    BY <1>11 DEF IndexFile, Handled, Flush, Following
  <2>6. fails' \in 0 .. MaxFails /\ runs' \in 0 .. MaxRuns
    BY <1>11 DEF IndexFile, Handled, Flush, Following
  <2>7. /\ UNCHANGED <<queue, disk, tier1, read, owed, behind, access, dropped, wasted>>
        /\ todo' \subseteq File /\ left' \subseteq File /\ skipped' \subseteq File
        /\ polled' \in BOOLEAN /\ stop' \in BOOLEAN
    BY <1>11 DEF IndexFile, Handled, Flush, Following
  <2> QED BY <2>3, <2>4, <2>5, <2>6, <2>7
<1>12. ASSUME NEW f \in File, IndexFileFails(f) PROVE QueueTypeOK'
  <2>1. todo \in SUBSET File /\ f \in todo /\ total \in Nat
        /\ total + Cardinality(todo) <= Cardinality(File)
    BY <1>12 DEF IndexFileFails, Handled, Flush, Following, Fail, RunCovers
  <2>2. Cardinality(todo \ {f}) \in Nat /\ Cardinality(todo) = Cardinality(todo \ {f}) + 1
        /\ Cardinality(File) \in Nat
    <3>1. (todo \ {f}) \in SUBSET File
      BY <2>1
    <3> QED BY <2>1, <3>1, Countable
  <2>3. total' \in 0 .. Cardinality(File)
    BY <1>12, <2>1, <2>2 DEF IndexFileFails, Handled, Flush, Following, Fail
  <2>4. mem' \in Index /\ own' \subseteq mem'.files
    BY <1>12 DEF IndexFileFails, Handled, Flush, Following, Fail
  <2>5. tier2' \in {"index", "save"} /\ (tier1' = "off" \/ tier2' = "off")
    BY <1>12 DEF IndexFileFails, Handled, Flush, Following, Fail
  <2>6. fails' \in 0 .. MaxFails /\ runs' \in 0 .. MaxRuns
    BY <1>12 DEF IndexFileFails, Handled, Flush, Following, Fail
  <2>7. /\ UNCHANGED <<queue, disk, tier1, read, owed, behind, access, dropped, wasted>>
        /\ todo' \subseteq File /\ left' \subseteq File /\ skipped' \subseteq File
        /\ polled' \in BOOLEAN /\ stop' \in BOOLEAN
    BY <1>12 DEF IndexFileFails, Handled, Flush, Following, Fail
  <2> QED BY <2>3, <2>4, <2>5, <2>6, <2>7
<1>13. ASSUME NEW f \in File, FileGone(f) PROVE QueueTypeOK'
  BY <1>13 DEF FileGone, Fail
<1>14. CASE SaveTier2
  <2>1. PICK m \in Embedded : disk' = Saved(m) /\ mem' = Saved(m) /\ owed' = (owed
        /\ ~m.tier1) /\ wasted' = (wasted \/ (m.tier1 /\ ~Saved(m).tier1))
    BY <1>14 DEF SaveTier2
  <2>2. Saved(m) \in Index /\ m.tier1 \in BOOLEAN /\ Saved(m).tier1 \in BOOLEAN
    BY SavedIndex DEF Index
  <2>3. tier1 = "off" /\ tier2' \in {"trim", "clear"} /\ own' = {} /\ behind' = FALSE
        /\ UNCHANGED <<queue, tier1, loop, button, access, skipped, dropped, counts>>
    BY <1>14 DEF SaveTier2, Following
  <2>4. owed' \in BOOLEAN /\ wasted' \in BOOLEAN
    BY <2>1, <2>2
  <2>5. disk' \in Index /\ mem' \in Index /\ own' \subseteq mem'.files
    BY <2>1, <2>2, <2>3
  <2> QED BY <2>3, <2>4, <2>5
<1>15. CASE Trim
  <2>1. queue' \in Queue
    <3>1. CASE queue' = [there |-> TRUE, files |-> left, embed |-> FALSE]
      BY <3>1
    <3>2. CASE UNCHANGED queue
      BY <3>2
    <3> QED BY <1>15, <3>1, <3>2 DEF Trim
  <2>2. tier2' = "index" /\ tier1' = "off"
    BY <1>15 DEF Trim, Following, Fail
  <2>3. fails' \in 0 .. MaxFails /\ runs' \in 0 .. MaxRuns
    BY <1>15 DEF Trim, Following, Fail
  <2> QED BY <1>15, <2>1, <2>2, <2>3 DEF Trim, Following, Fail
<1>16. CASE Clear
  BY <1>16 DEF Clear
<1>17. CASE KillTier2
  BY <1>17 DEF KillTier2, Fail
<1>18. CASE RequestStop
  BY <1>18 DEF RequestStop
<1>19. ASSUME NEW s \in Server, ReadQueue(s) PROVE QueueTypeOK'
  BY <1>19 DEF ReadQueue
<1>20. ASSUME NEW s \in Server, Expand(s) PROVE QueueTypeOK'
  BY <1>20 DEF Expand
<1>21. ASSUME NEW s \in Server, WriteBack(s) PROVE QueueTypeOK'
  BY <1>21 DEF WriteBack, WrittenBack, Rest, Fail
<1>22. ASSUME NEW s \in Server, SaveServer(s) PROVE QueueTypeOK'
  BY <1>22 DEF SaveServer
<1>23. ASSUME NEW s \in Server, SaveServerFails(s) PROVE QueueTypeOK'
  BY <1>23 DEF SaveServerFails, Fail
<1>24. ASSUME NEW s \in Server, KillServer(s) PROVE QueueTypeOK'
  BY <1>24 DEF KillServer, Fail
<1> QED
  BY <1>1, <1>2, <1>3, <1>4, <1>5, <1>6, <1>7, <1>8, <1>9, <1>10, <1>11, <1>12, <1>13, <1>14,
     <1>15, <1>16, <1>17, <1>18, <1>19, <1>20, <1>21, <1>22, <1>23, <1>24
  DEF QueueNext, Tier1, Tier2, Access

\* A Tier-1 run leaves everything queued, and nothing is queued before one.
LEMMA QueuedStep == Inv /\ ~Overlap /\ [QueueNext]_queueVars => (Started /\ Queued)'
<1> SUFFICES ASSUME Inv, ~Overlap, [QueueNext]_queueVars PROVE (Started /\ Queued)'
  OBVIOUS
<1> USE FileAssumption, RolesAssumption, BatchAssumption, FlagsAssumption, RunsAssumption
      DEF Inv, QueueInv, QueueTypeOK, Queue, Index, NoQueue, Started, Queued, queueVars, loop, copy, run,
            button, access, past, counts
<1>1. CASE UNCHANGED queueVars
  BY <1>1
<1>2. CASE Walk
  BY <1>2 DEF Walk, Free
<1>3. CASE SaveTier1
  BY <1>3 DEF SaveTier1
<1>4. CASE KillTier1
  BY <1>4 DEF KillTier1, Fail
<1>5. CASE Begin
  BY <1>5 DEF Begin, Free
<1>6. CASE EmbedTier1
  BY <1>6 DEF EmbedTier1
<1>7. CASE EmbedTier1Fails
  BY <1>7 DEF EmbedTier1Fails, Fail
<1>8. CASE Unembed
  BY <1>8 DEF Unembed, Fail
<1>9. CASE Poll
  BY <1>9 DEF Poll, Following
<1>10. CASE AllHandled
  BY <1>10 DEF AllHandled, Following
<1>11. ASSUME NEW f \in File, IndexFile(f) PROVE (Started /\ Queued)'
  BY <1>11 DEF IndexFile, Handled, Flush, Following
<1>12. ASSUME NEW f \in File, IndexFileFails(f) PROVE (Started /\ Queued)'
  BY <1>12 DEF IndexFileFails, Handled, Flush, Following, Fail
<1>13. ASSUME NEW f \in File, FileGone(f) PROVE (Started /\ Queued)'
  BY <1>13 DEF FileGone, Fail
<1>14. CASE SaveTier2
  BY <1>14 DEF SaveTier2, Saved, Embedded, Following
<1>15. CASE Trim
  BY <1>15 DEF Trim, Following, Fail
<1>16. CASE Clear
  BY <1>16 DEF Clear
<1>17. CASE KillTier2
  BY <1>17 DEF KillTier2, Fail
<1>18. CASE RequestStop
  BY <1>18 DEF RequestStop
<1>19. ASSUME NEW s \in Server, ReadQueue(s) PROVE (Started /\ Queued)'
  BY <1>19 DEF ReadQueue
<1>20. ASSUME NEW s \in Server, Expand(s) PROVE (Started /\ Queued)'
  BY <1>20 DEF Expand
<1>21. ASSUME NEW s \in Server, WriteBack(s) PROVE (Started /\ Queued)'
  BY <1>21 DEF WriteBack, WrittenBack, Rest, Fail
<1>22. ASSUME NEW s \in Server, SaveServer(s) PROVE (Started /\ Queued)'
  BY <1>22 DEF SaveServer
<1>23. ASSUME NEW s \in Server, SaveServerFails(s) PROVE (Started /\ Queued)'
  BY <1>23 DEF SaveServerFails, Fail
<1>24. ASSUME NEW s \in Server, KillServer(s) PROVE (Started /\ Queued)'
  BY <1>24 DEF KillServer, Fail
<1> QED
  BY <1>1, <1>2, <1>3, <1>4, <1>5, <1>6, <1>7, <1>8, <1>9, <1>10, <1>11, <1>12, <1>13, <1>14,
     <1>15, <1>16, <1>17, <1>18, <1>19, <1>20, <1>21, <1>22, <1>23, <1>24
  DEF QueueNext, Tier1, Tier2, Access

\* The files a run has left behind are in its memory or accounted for.
LEMMA KnownStep == Inv /\ ~Overlap /\ [QueueNext]_queueVars => RunCovers'
<1> SUFFICES ASSUME Inv, ~Overlap, [QueueNext]_queueVars PROVE RunCovers'
  OBVIOUS
<1> USE DEF Inv, QueueInv, QueueTypeOK, Queue, Index, NoQueue, RunCovers, Accounted, queueVars, loop,
      copy, run, button, access, past, counts
<1>1. CASE UNCHANGED queueVars
  BY <1>1
<1>2. CASE Walk
  BY <1>2 DEF Walk, Free
<1>3. CASE SaveTier1
  BY <1>3 DEF SaveTier1
<1>4. CASE KillTier1
  BY <1>4 DEF KillTier1, Fail
<1>5. CASE Begin
  <2>1. Cardinality(queue.files) \in Nat /\ Cardinality(queue.files) <= Cardinality(File)
    BY Countable
  <2>2. runs > 0
    BY <1>5 DEF Begin, Started
  <2> QED BY <1>5, <2>1, <2>2 DEF Begin, Free, NothingLost
<1>6. CASE EmbedTier1
  BY <1>6 DEF EmbedTier1
<1>7. CASE EmbedTier1Fails
  BY <1>7 DEF EmbedTier1Fails, Fail
<1>8. CASE Unembed
  BY <1>8 DEF Unembed, Fail
<1>9. CASE Poll
  <2>1. Cardinality({}) = 0 /\ Cardinality(File) \in Nat
    BY Countable
  <2>2. CASE stop
    <3>1. tier2' = "save" /\ todo' = {}
          /\ UNCHANGED <<disk, left, total, mem, own, behind, skipped, dropped, dirty>>
      BY <1>9, <2>2 DEF Poll, Following
    <3>2. total + Cardinality({}) <= Cardinality(File)
      BY <2>1
    <3> QED BY <1>9, <3>1, <3>2 DEF Poll
  <2>3. CASE ~stop
    BY <1>9, <2>3 DEF Poll, Following
  <2> QED BY <2>2, <2>3
<1>10. CASE AllHandled
  BY <1>10 DEF AllHandled, Following
<1>11. ASSUME NEW f \in File, IndexFile(f) PROVE RunCovers'
  <2>1. Cardinality(todo) \in Nat /\ Cardinality(todo \ {f}) = Cardinality(todo) - 1
        /\ Cardinality(File) \in Nat
    BY <1>11, Countable DEF Handled, IndexFile
  <2> QED BY <1>11, <2>1 DEF IndexFile, Handled, Flush, Following
<1>12. ASSUME NEW f \in File, IndexFileFails(f) PROVE RunCovers'
  <2>1. Cardinality(todo) \in Nat /\ Cardinality(todo \ {f}) = Cardinality(todo) - 1
        /\ Cardinality(File) \in Nat
    BY <1>12, Countable DEF Handled, IndexFileFails
  <2> QED BY <1>12, <2>1 DEF IndexFileFails, Handled, Flush, Following, Fail
<1>13. ASSUME NEW f \in File, FileGone(f) PROVE RunCovers'
  <2>1. Cardinality(todo) \in Nat /\ Cardinality(todo \ {f}) = Cardinality(todo) - 1
        /\ Cardinality(File) \in Nat
    BY <1>13, Countable DEF FileGone
  <2> QED BY <1>13, <2>1 DEF FileGone, Fail
<1>14. CASE SaveTier2
  <2>1. PICK m \in Embedded : disk' = Saved(m) /\ mem' = Saved(m)
    BY <1>14 DEF SaveTier2
  <2>2. Saved(m).files = IF behind THEN disk.files \cup own ELSE mem.files
    BY SavedIndex
  <2>3. tier2 = "save" /\ own' = {} /\ behind' = FALSE
        /\ UNCHANGED <<loop, access, skipped, dropped, queue, runs>>
    BY <1>14 DEF SaveTier2
  <2>4. disk.files \cup own \subseteq disk'.files
    BY <2>1, <2>2, <2>3 DEF RunCovers
  <2>5. \A f \in File : f \in left \/ Accounted(f)'
    BY <2>3, <2>4 DEF RunCovers, Accounted
  <2>6. todo \subseteq left /\ total + Cardinality(todo) <= Cardinality(File)
    BY <2>3 DEF RunCovers
  <2>7. tier2' \in {"trim", "clear"}
    BY <1>14 DEF SaveTier2, Following
  <2> QED BY <2>1, <2>3, <2>5, <2>6, <2>7 DEF RunCovers
<1>15. CASE Trim
  BY <1>15 DEF Trim, Following, Fail
<1>16. CASE Clear
  BY <1>16 DEF Clear
<1>17. CASE KillTier2
  BY <1>17 DEF KillTier2, Fail
<1>18. CASE RequestStop
  BY <1>18 DEF RequestStop
<1>19. ASSUME NEW s \in Server, ReadQueue(s) PROVE RunCovers'
  BY <1>19 DEF ReadQueue
<1>20. ASSUME NEW s \in Server, Expand(s) PROVE RunCovers'
  BY <1>20 DEF Expand
<1>21. ASSUME NEW s \in Server, WriteBack(s) PROVE RunCovers'
  BY <1>21 DEF WriteBack, WrittenBack, Rest, Fail
<1>22. ASSUME NEW s \in Server, SaveServer(s) PROVE RunCovers'
  BY <1>22 DEF SaveServer
<1>23. ASSUME NEW s \in Server, SaveServerFails(s) PROVE RunCovers'
  BY <1>23 DEF SaveServerFails, Fail
<1>24. ASSUME NEW s \in Server, KillServer(s) PROVE RunCovers'
  BY <1>24 DEF KillServer, Fail
<1> QED
  BY <1>1, <1>2, <1>3, <1>4, <1>5, <1>6, <1>7, <1>8, <1>9, <1>10, <1>11, <1>12, <1>13, <1>14,
     <1>15, <1>16, <1>17, <1>18, <1>19, <1>20, <1>21, <1>22, <1>23, <1>24
  DEF QueueNext, Tier1, Tier2, Access

\* The files that a server will not write back are accounted for.
LEMMA ServersStep == Inv /\ ~Overlap /\ [QueueNext]_queueVars => ServersCover'
<1> SUFFICES ASSUME Inv, ~Overlap, [QueueNext]_queueVars PROVE ServersCover'
  OBVIOUS
<1> USE DEF Inv, QueueInv, QueueTypeOK, Queue, Index, NoQueue, ServersCover, Accounted, queueVars, loop,
      copy, run, button, access, past, counts
<1>1. CASE UNCHANGED queueVars
  BY <1>1
<1>2. CASE Walk
  BY <1>2 DEF Walk, Free
<1>3. CASE SaveTier1
  BY <1>3 DEF SaveTier1, Queued
<1>4. CASE KillTier1
  BY <1>4 DEF KillTier1, Fail
<1>5. CASE Begin
  BY <1>5 DEF Begin, Free
<1>6. CASE EmbedTier1
  BY <1>6 DEF EmbedTier1
<1>7. CASE EmbedTier1Fails
  BY <1>7 DEF EmbedTier1Fails, Fail
<1>8. CASE Unembed
  BY <1>8 DEF Unembed, Fail
<1>9. CASE Poll
  BY <1>9 DEF Poll, Following
<1>10. CASE AllHandled
  BY <1>10 DEF AllHandled, Following
<1>11. ASSUME NEW f \in File, IndexFile(f) PROVE ServersCover'
  BY <1>11 DEF IndexFile, Handled, Flush, Following
<1>12. ASSUME NEW f \in File, IndexFileFails(f) PROVE ServersCover'
  BY <1>12 DEF IndexFileFails, Handled, Flush, Following, Fail
<1>13. ASSUME NEW f \in File, FileGone(f) PROVE ServersCover'
  BY <1>13 DEF FileGone, Fail
<1>14. CASE SaveTier2
  <2>1. PICK m \in Embedded : disk' = Saved(m) /\ mem' = Saved(m)
    BY <1>14 DEF SaveTier2
  <2>2. Saved(m).files = IF behind THEN disk.files \cup own ELSE mem.files
    BY SavedIndex
  <2>3. tier2 = "save" /\ own' = {} /\ behind' = FALSE
        /\ UNCHANGED <<loop, access, skipped, dropped, queue, runs>>
    BY <1>14 DEF SaveTier2
  <2>4. disk.files \cup own \subseteq disk'.files
    BY <2>1, <2>2, <2>3 DEF RunCovers
  <2>5. \A f \in File : Accounted(f) => Accounted(f)'
    BY <2>3, <2>4 DEF Accounted
  <2> QED BY <2>3, <2>5
<1>15. CASE Trim
  BY <1>15 DEF Trim, Following, Fail
<1>16. CASE Clear
  BY <1>16 DEF Clear
<1>17. CASE KillTier2
  BY <1>17 DEF KillTier2, Fail
<1>18. CASE RequestStop
  BY <1>18 DEF RequestStop
<1>19. ASSUME NEW s \in Server, ReadQueue(s) PROVE ServersCover'
  <2>1. \A f \in File : f \in queue.files \/ Accounted(f)
    BY <1>19 DEF ReadQueue, NothingLost, Started
  <2> QED BY <1>19, <2>1 DEF ReadQueue
<1>20. ASSUME NEW s \in Server, Expand(s) PROVE ServersCover'
  BY <1>20 DEF Expand
<1>21. ASSUME NEW s \in Server, WriteBack(s) PROVE ServersCover'
  BY <1>21 DEF WriteBack, WrittenBack, Rest, Fail
<1>22. ASSUME NEW s \in Server, SaveServer(s) PROVE ServersCover'
  BY <1>22 DEF SaveServer
<1>23. ASSUME NEW s \in Server, SaveServerFails(s) PROVE ServersCover'
  BY <1>23 DEF SaveServerFails, Fail
<1>24. ASSUME NEW s \in Server, KillServer(s) PROVE ServersCover'
  BY <1>24 DEF KillServer, Fail
<1> QED
  BY <1>1, <1>2, <1>3, <1>4, <1>5, <1>6, <1>7, <1>8, <1>9, <1>10, <1>11, <1>12, <1>13, <1>14,
     <1>15, <1>16, <1>17, <1>18, <1>19, <1>20, <1>21, <1>22, <1>23, <1>24
  DEF QueueNext, Tier1, Tier2, Access

\* No step loses a file.
LEMMA LostStep == Inv /\ ~Overlap /\ [QueueNext]_queueVars => NothingLost'
<1> SUFFICES ASSUME Inv, ~Overlap, [QueueNext]_queueVars PROVE NothingLost'
  OBVIOUS
<1> USE DEF Inv, QueueInv, QueueTypeOK, Queue, Index, NoQueue, NothingLost, Accounted, queueVars, loop,
      copy, run, button, access, past, counts
<1>1. CASE UNCHANGED queueVars
  BY <1>1
<1>2. CASE Walk
  BY <1>2 DEF Walk, Free
<1>3. CASE SaveTier1
  BY <1>3 DEF SaveTier1, Queued
<1>4. CASE KillTier1
  BY <1>4 DEF KillTier1, Fail
<1>5. CASE Begin
  BY <1>5 DEF Begin, Free
<1>6. CASE EmbedTier1
  BY <1>6 DEF EmbedTier1
<1>7. CASE EmbedTier1Fails
  BY <1>7 DEF EmbedTier1Fails, Fail
<1>8. CASE Unembed
  BY <1>8 DEF Unembed, Fail, RunCovers
<1>9. CASE Poll
  BY <1>9 DEF Poll, Following
<1>10. CASE AllHandled
  BY <1>10 DEF AllHandled, Following
<1>11. ASSUME NEW f \in File, IndexFile(f) PROVE NothingLost'
  BY <1>11 DEF IndexFile, Handled, Flush, Following
<1>12. ASSUME NEW f \in File, IndexFileFails(f) PROVE NothingLost'
  BY <1>12 DEF IndexFileFails, Handled, Flush, Following, Fail
<1>13. ASSUME NEW f \in File, FileGone(f) PROVE NothingLost'
  BY <1>13 DEF FileGone, Fail
<1>14. CASE SaveTier2
  <2>1. PICK m \in Embedded : disk' = Saved(m) /\ mem' = Saved(m)
    BY <1>14 DEF SaveTier2
  <2>2. Saved(m).files = IF behind THEN disk.files \cup own ELSE mem.files
    BY SavedIndex
  <2>3. tier2 = "save" /\ own' = {} /\ behind' = FALSE
        /\ UNCHANGED <<loop, access, skipped, dropped, queue, runs>>
    BY <1>14 DEF SaveTier2
  <2>4. disk.files \cup own \subseteq disk'.files
    BY <2>1, <2>2, <2>3 DEF RunCovers
  <2> QED BY <2>3, <2>4
<1>15. CASE Trim
  BY <1>15 DEF Trim, Following, Fail, RunCovers
<1>16. CASE Clear
  BY <1>16 DEF Clear, RunCovers
<1>17. CASE KillTier2
  BY <1>17 DEF KillTier2, Fail
<1>18. CASE RequestStop
  BY <1>18 DEF RequestStop
<1>19. ASSUME NEW s \in Server, ReadQueue(s) PROVE NothingLost'
  BY <1>19 DEF ReadQueue
<1>20. ASSUME NEW s \in Server, Expand(s) PROVE NothingLost'
  BY <1>20 DEF Expand
<1>21. ASSUME NEW s \in Server, WriteBack(s) PROVE NothingLost'
  BY <1>21 DEF WriteBack, WrittenBack, Rest, Fail, ServersCover
<1>22. ASSUME NEW s \in Server, SaveServer(s) PROVE NothingLost'
  BY <1>22 DEF SaveServer
<1>23. ASSUME NEW s \in Server, SaveServerFails(s) PROVE NothingLost'
  BY <1>23 DEF SaveServerFails, Fail
<1>24. ASSUME NEW s \in Server, KillServer(s) PROVE NothingLost'
  BY <1>24 DEF KillServer, Fail
<1> QED
  BY <1>1, <1>2, <1>3, <1>4, <1>5, <1>6, <1>7, <1>8, <1>9, <1>10, <1>11, <1>12, <1>13, <1>14,
     <1>15, <1>16, <1>17, <1>18, <1>19, <1>20, <1>21, <1>22, <1>23, <1>24
  DEF QueueNext, Tier1, Tier2, Access

\* Someone still knows of the vectors of the Tier-1 files.
LEMMA VectorsStep == Inv /\ ~Overlap /\ [QueueNext]_queueVars => EmbedsInv'
<1> SUFFICES ASSUME Inv, ~Overlap, [QueueNext]_queueVars PROVE EmbedsInv'
  OBVIOUS
<1> USE DEF Inv, QueueInv, QueueTypeOK, Queue, Index, NoQueue, EmbedsInv, VectorsKnown,
      EmbedsPending, RunEmbeds, queueVars, loop, copy, run, button, access, past, counts
<1>1. CASE UNCHANGED queueVars
  BY <1>1
<1>2. CASE Walk
  BY <1>2 DEF Walk, Free
<1>3. CASE SaveTier1
  BY <1>3 DEF SaveTier1, Queued, Started
<1>4. CASE KillTier1
  BY <1>4 DEF KillTier1, Fail, Queued, Started
<1>5. CASE Begin
  BY <1>5 DEF Begin, Free, Queued, Started
<1>6. CASE EmbedTier1
  BY <1>6 DEF EmbedTier1
<1>7. CASE EmbedTier1Fails
  BY <1>7 DEF EmbedTier1Fails, Fail
<1>8. CASE Unembed
  BY <1>8 DEF Unembed, Fail
<1>9. CASE Poll
  BY <1>9 DEF Poll, Following
<1>10. CASE AllHandled
  BY <1>10 DEF AllHandled, Following
<1>11. ASSUME NEW f \in File, IndexFile(f) PROVE EmbedsInv'
  BY <1>11 DEF IndexFile, Handled, Flush, Following
<1>12. ASSUME NEW f \in File, IndexFileFails(f) PROVE EmbedsInv'
  BY <1>12 DEF IndexFileFails, Handled, Flush, Following, Fail
<1>13. ASSUME NEW f \in File, FileGone(f) PROVE EmbedsInv'
  BY <1>13 DEF FileGone, Fail
<1>14. CASE SaveTier2
  <2>1. PICK m \in Embedded : disk' = Saved(m) /\ mem' = Saved(m) /\ owed' = (owed
        /\ ~m.tier1) /\ wasted' = (wasted \/ (m.tier1 /\ ~Saved(m).tier1))
    BY <1>14 DEF SaveTier2
  <2>2. (Saved(m).tier1 = IF behind THEN disk.tier1 ELSE m.tier1) /\ m.tier1 \in BOOLEAN
        /\ (mem.tier1 => m.tier1) /\ (~owed => m = mem)
    BY SavedIndex
  <2>3. tier2 = "save" /\ tier2' \in {"trim", "clear"} /\ UNCHANGED <<queue, access, runs>>
    BY <1>14 DEF SaveTier2, Following
  <2>4. disk.tier1 => disk'.tier1
    BY <2>1, <2>2, <2>3 DEF RunCovers
  <2>5. disk'.tier1 \/ wasted' \/ owed'
    BY <2>1, <2>2, <2>3, <2>4
  <2> QED BY <2>3, <2>5
<1>15. CASE Trim
  BY <1>15 DEF Trim, Following, Fail
<1>16. CASE Clear
  BY <1>16 DEF Clear
<1>17. CASE KillTier2
  BY <1>17 DEF KillTier2, Fail
<1>18. CASE RequestStop
  BY <1>18 DEF RequestStop
<1>19. ASSUME NEW s \in Server, ReadQueue(s) PROVE EmbedsInv'
  BY <1>19 DEF ReadQueue, Queued, Started
<1>20. ASSUME NEW s \in Server, Expand(s) PROVE EmbedsInv'
  BY <1>20 DEF Expand
<1>21. ASSUME NEW s \in Server, WriteBack(s) PROVE EmbedsInv'
  BY <1>21 DEF WriteBack, WrittenBack, Rest, Fail
<1>22. ASSUME NEW s \in Server, SaveServer(s) PROVE EmbedsInv'
  BY <1>22 DEF SaveServer
<1>23. ASSUME NEW s \in Server, SaveServerFails(s) PROVE EmbedsInv'
  BY <1>23 DEF SaveServerFails, Fail
<1>24. ASSUME NEW s \in Server, KillServer(s) PROVE EmbedsInv'
  BY <1>24 DEF KillServer, Fail
<1> QED
  BY <1>1, <1>2, <1>3, <1>4, <1>5, <1>6, <1>7, <1>8, <1>9, <1>10, <1>11, <1>12, <1>13, <1>14,
     <1>15, <1>16, <1>17, <1>18, <1>19, <1>20, <1>21, <1>22, <1>23, <1>24
  DEF QueueNext, Tier1, Tier2, Access

-----------------------------------------------------------------------------
\* The conjunction is inductive.
LEMMA InvAlways == ~Overlap => (QueueSpec => []Inv)
<1>1. QueueInit => Inv
  <2> SUFFICES ASSUME QueueInit PROVE Inv
    OBVIOUS
  <2>1. Cardinality(File) \in Nat
    BY FS_CardinalityType, FileAssumption
  <2>2. queue \in Queue /\ read \in Queue /\ disk \in Index /\ mem \in Index
        /\ NoQueue \in Queue
    BY DEF QueueInit, Queue, Index, NoQueue
  <2>3. QueueTypeOK
    <3>1. at \in [Server -> {"idle", "index", "trim", "save"}] /\ seen \in [Server -> Queue]
          /\ found \in [Server -> SUBSET File] /\ dirty \in [Server -> SUBSET File]
      BY <2>2 DEF QueueInit
    <3>2. own = {} /\ todo = {} /\ left = {} /\ skipped = {} /\ dropped = {}
          /\ total \in 0 .. Cardinality(File) /\ runs \in 0 .. MaxRuns
                /\ fails \in 0 .. MaxFails
      BY <2>1, RunsAssumption DEF QueueInit
    <3>3. behind = FALSE /\ stop = FALSE /\ polled = FALSE /\ wasted = FALSE /\ owed = FALSE
          /\ tier1 = "off" /\ tier2 = "off"
      BY DEF QueueInit
    <3> QED BY <2>2, <3>1, <3>2, <3>3 DEF QueueTypeOK
  <2>4. Started /\ Queued /\ RunCovers /\ ServersCover /\ NothingLost
    BY DEF QueueInit, NoQueue, Started, Queued, RunCovers, ServersCover, NothingLost
  <2>5. EmbedsInv
    BY DEF QueueInit, EmbedsInv, VectorsKnown, EmbedsPending
  <2> QED BY <2>3, <2>4, <2>5 DEF Inv, QueueInv
<1>2. Inv /\ ~Overlap /\ [QueueNext]_queueVars => Inv'
  BY TypeStep, QueuedStep, KnownStep, ServersStep, LostStep, VectorsStep DEF Inv, QueueInv
<1>3. CASE ~Overlap
  <2>1. Inv /\ [QueueNext]_queueVars => Inv'
    BY <1>2, <1>3
  <2> QED BY <1>1, <2>1, PTL DEF QueueSpec
<1> QED BY <1>3

\* Whatever a Tier-2 run and the servers do with the queue, and whatever is
\* killed, no file that Tier 1 deferred is lost
\* (_index_tier2(), expand_on_access()).
THEOREM NoFileLost == ~Overlap => (QueueSpec => []QueueInv)
<1>1. Inv => QueueInv
  BY DEF Inv
<1> QED BY <1>1, InvAlways, PTL

\* Nor is the request for the vectors that Tier 1 deferred
\* (embed_pending of the queue).
THEOREM NoRequestLost == ~Overlap => (QueueSpec => []EmbedsInv)
<1>1. Inv => EmbedsInv
  BY DEF Inv
<1> QED BY <1>1, InvAlways, PTL
=============================================================================
