-------------------------- MODULE EpisodicLog_proofs --------------------------
(***************************************************************************)
(* Proofs about EpisodicLog, for any number of processes, events, kills    *)
(* and failures and any size of the live store: no event and no tag is     *)
(* lost, and an id names one event.                                        *)
(***************************************************************************)
EXTENDS EpisodicLog, Selection_proofs

\* The inductive invariant: what the run checks of the log.
IInv == LogInv /\ NothingLost

-----------------------------------------------------------------------------
\* What an entry of the store is made of.
LEMMA EntryOf ==
  ASSUME NEW q \in Seq(Entry), NEW i \in DOMAIN q
  PROVE  /\ q[i] \in Entry /\ q[i].ev \in Event /\ q[i].id \in Nat
         /\ q[i].prev \in Int /\ q[i].stale \in BOOLEAN
<1>1. q[i] \in Entry
  OBVIOUS
<1> QED BY <1>1 DEF Entry

\* What the concatenation of two sequences consists of.
LEMMA ConcatIs ==
  ASSUME NEW S, NEW a \in Seq(S), NEW b \in Seq(S)
  PROVE  /\ DOMAIN (a \o b) = 1 .. Len(a) + Len(b)
         /\ \A i \in 1 .. Len(a) : (a \o b)[i] = a[i]
         /\ \A i \in 1 .. Len(b) : (a \o b)[Len(a) + i] = b[i]
OBVIOUS

\* The greatest id of a sequence of entries whose ids are below n.
LEMMA MaxIdIs ==
  ASSUME NEW q \in Seq(Entry), NEW n \in Nat, \A i \in DOMAIN q : q[i].id < n
  PROVE  /\ MaxId(q) \in Int /\ -1 <= MaxId(q) /\ MaxId(q) < n
         /\ \A i \in DOMAIN q : q[i].id <= MaxId(q)
<1> DEFINE S == {e.id : e \in ToSet(q)} \cup {-1}
<1>1. \A i \in DOMAIN q : q[i].id \in Nat
  BY EntryOf
<1>2. /\ \A i \in DOMAIN q : q[i].id \in S
      /\ \A s \in S : s = -1 \/ \E i \in DOMAIN q : s = q[i].id
      /\ -1 \in S
  BY DEF ToSet
<1> HIDE DEF S
<1>3. S \in SUBSET Int /\ \A s \in S : s <= n
  BY <1>1, <1>2
<1>4. Max(S) \in S /\ \A s \in S : s <= Max(S)
  <2>1. S # {} /\ n \in Int
    BY <1>2
  <2> QED BY <1>3, <2>1, MaxIs
<1>5. MaxId(q) = Max(S)
  BY DEF MaxId, S
<1>6. Max(S) \in Int /\ -1 <= Max(S) /\ \A i \in DOMAIN q : q[i].id <= Max(S)
  BY <1>2, <1>3, <1>4
<1>7. Max(S) < n
  BY <1>2, <1>4
<1> QED BY <1>5, <1>6, <1>7

\* The id of a new event is above those of the entries and of the archive.
LEMMA NextIdIs ==
  ASSUME TypeOK, Numbered, NEW q \in Seq(Entry), \A i \in DOMAIN q : q[i].id < seq
  PROVE  /\ NextEventId(q) \in 0 .. seq
         /\ \A i \in DOMAIN q : q[i].id < NextEventId(q)
         /\ \A i \in DOMAIN archive : archive[i].id < NextEventId(q)
<1>1. archive \in Seq(Entry) /\ seq \in Nat
  BY DEF TypeOK
<1>2. \A i \in DOMAIN archive : archive[i].id < seq
  BY DEF Numbered, Everywhere, ToSet
<1>3. /\ MaxId(q) \in Int /\ -1 <= MaxId(q) /\ MaxId(q) < seq
      /\ \A i \in DOMAIN q : q[i].id <= MaxId(q)
  BY <1>1, MaxIdIs
<1>4. /\ MaxId(archive) \in Int /\ -1 <= MaxId(archive) /\ MaxId(archive) < seq
      /\ \A i \in DOMAIN archive : archive[i].id <= MaxId(archive)
  BY <1>1, <1>2, MaxIdIs
<1> DEFINE S == {MaxId(q), MaxId(archive)}
<1>5. Max(S) \in S /\ \A s \in S : s <= Max(S)
  <2>1. S \in SUBSET Int /\ S # {} /\ \A s \in S : s <= seq
    BY <1>1, <1>3, <1>4
  <2>2. seq \in Int
    BY <1>1
  <2> HIDE DEF S
  <2> QED BY <2>1, <2>2, MaxIs
<1>6. NextEventId(q) = Max(S) + 1
  BY DEF NextEventId
<1>7. /\ Max(S) \in Int /\ -1 <= Max(S) /\ Max(S) < seq
      /\ MaxId(q) <= Max(S) /\ MaxId(archive) <= Max(S)
  BY <1>3, <1>4, <1>5
<1>8. \A i \in DOMAIN q : q[i].id \in Nat
  BY EntryOf
<1>9. \A i \in DOMAIN archive : archive[i].id \in Nat
  BY <1>1, EntryOf
<1> HIDE DEF S
<1> QED BY <1>1, <1>3, <1>4, <1>6, <1>7, <1>8, <1>9

\* How many entries are rotated: some, and no more than there are.
LEMMA ArchiveCountIs ==
  ASSUME NEW n \in Nat, n >= Cap
  PROVE  ArchiveCount(n) \in 1 .. n
BY CapAssumption DEF ArchiveCount

\* The entry that log_event() appends.
NewEntry(p) ==
  [ev |-> seq + 1, id |-> NextEventId(data[p]), prev |-> PrevOf(data[p]), stale |-> FALSE]

-----------------------------------------------------------------------------
\* What a save of log_event() does: it drops nothing but what is in the archive, and
\* adds an entry whose event and id are new.
LEMMA SaveLogDoes ==
  ASSUME IInv, NEW p \in Proc, SaveLog(p)
  PROVE  /\ \E n \in 0 .. Len(live) :
              /\ live' \in Seq(Entry) /\ Len(live') = Len(live) - n + 1
              /\ \A i \in 1 .. Len(live) - n : live'[i] = live[n + i]
              /\ live'[Len(live) - n + 1] = NewEntry(p)
              /\ n < Len(live) => NewEntry(p).prev = live[Len(live)].id
         /\ NewEntry(p) \in Entry /\ NewEntry(p).id <= seq
         /\ Everywhere' = Everywhere \cup {NewEntry(p)}
         /\ ToSet(live') \subseteq ToSet(live) \cup {NewEntry(p)}
         /\ \A x \in Everywhere : x.id < NewEntry(p).id
<1>1. pc[p] = "save" /\ op[p] = "log" /\ seq < MaxEvents
  BY DEF SaveLog, IInv, LogInv, Begun, Writing
<1>2. PICK n \in 0 .. Len(live) : Holds(p, n)
  BY <1>1 DEF IInv, LogInv, ReadUnderLock
<1>3. /\ live \in Seq(Entry) /\ archive \in Seq(Entry) /\ data[p] \in Seq(Entry)
      /\ seq \in Nat /\ MaxEvents \in Nat
  BY BoundAssumption DEF IInv, LogInv, TypeOK
<1>4. /\ Len(data[p]) = Len(live) - n /\ DOMAIN data[p] = 1 .. Len(live) - n
      /\ \A i \in 1 .. Len(live) - n : data[p][i] = live[n + i]
  BY <1>2, <1>3 DEF Holds
<1>5. live' = Append(data[p], NewEntry(p)) /\ archive' = archive
  BY DEF SaveLog, NewEntry
<1>6. \A i \in DOMAIN data[p] : data[p][i] \in ToSet(live)
  <2> SUFFICES ASSUME NEW i \in DOMAIN data[p] PROVE data[p][i] \in ToSet(live)
    OBVIOUS
  <2>1. i \in 1 .. Len(live) - n /\ Len(live) \in Nat
    BY <1>3, <1>4
  <2>2. data[p][i] = live[n + i]
    BY <1>4, <2>1
  <2>3. n + i \in 1 .. Len(live)
    BY <2>1
  <2>4. n + i \in DOMAIN live
    BY <1>3, <2>3
  <2> QED BY <2>2, <2>4 DEF ToSet
<1>7. \A x \in Everywhere : x.ev <= seq /\ x.id < seq
  BY DEF IInv, LogInv, Numbered
<1>8. \A i \in DOMAIN data[p] : data[p][i].id < seq
  BY <1>6, <1>7 DEF Everywhere
<1>9. /\ NextEventId(data[p]) \in 0 .. seq
      /\ \A i \in DOMAIN data[p] : data[p][i].id < NextEventId(data[p])
      /\ \A i \in DOMAIN archive : archive[i].id < NextEventId(data[p])
  BY <1>3, <1>8, NextIdIs DEF IInv, LogInv
<1>10. PrevOf(data[p]) \in Int
  <2>1. CASE data[p] = <<>>
    BY <2>1 DEF PrevOf
  <2>2. CASE data[p] # <<>>
    <3>1. Len(data[p]) \in DOMAIN data[p]
      BY <1>3, <2>2
    <3> QED BY <1>3, <2>2, <3>1, EntryOf DEF PrevOf
  <2> QED BY <2>1, <2>2
<1>11. NewEntry(p) \in Entry /\ NewEntry(p).id <= seq
  BY <1>1, <1>3, <1>9, <1>10 DEF NewEntry, Entry, Event
<1>12. /\ live' \in Seq(Entry) /\ Len(live') = Len(live) - n + 1
       /\ \A i \in 1 .. Len(live) - n : live'[i] = live[n + i]
       /\ live'[Len(live) - n + 1] = NewEntry(p)
  BY <1>3, <1>4, <1>5, <1>11
<1>13. n < Len(live) => NewEntry(p).prev = live[Len(live)].id
  <2> SUFFICES ASSUME n < Len(live) PROVE NewEntry(p).prev = live[Len(live)].id
    OBVIOUS
  <2>1. Len(live) - n \in 1 .. Len(live) - n /\ n + (Len(live) - n) = Len(live)
    BY <1>3
  <2>2. data[p][Len(live) - n] = live[n + (Len(live) - n)] /\ Len(data[p]) = Len(live) - n
    BY <1>4, <2>1
  <2>3. data[p][Len(data[p])] = live[Len(live)]
    BY <2>1, <2>2
  <2>4. data[p] # <<>>
    <3>1. Len(live) \in Nat
      BY <1>3
    <3>2. Len(data[p]) # 0
      BY <2>2, <3>1
    <3> QED BY <3>2
  <2> QED BY <2>3, <2>4 DEF NewEntry, PrevOf
<1>14. /\ ToSet(live') \subseteq ToSet(data[p]) \cup {NewEntry(p)}
       /\ ToSet(data[p]) \subseteq ToSet(live') /\ NewEntry(p) \in ToSet(live')
  <2> DEFINE m == Len(data[p])
  <2>1. /\ DOMAIN live' = 1 .. m + 1 /\ DOMAIN data[p] = 1 .. m /\ m \in Nat
        /\ live'[m + 1] = NewEntry(p) /\ \A i \in 1 .. m : live'[i] = data[p][i]
    BY <1>3, <1>5, <1>11
  <2> HIDE DEF m
  <2>2. DOMAIN live' = DOMAIN data[p] \cup {m + 1}
    BY <2>1
  <2> QED BY <2>1, <2>2 DEF ToSet
<1>15. ToSet(data[p]) \subseteq ToSet(live)
  BY <1>6 DEF ToSet
<1>16. ToSet(live) \subseteq ToSet(data[p]) \cup ToSet(archive)
  <2> SUFFICES ASSUME NEW i \in DOMAIN live
               PROVE  live[i] \in ToSet(data[p]) \cup ToSet(archive)
    BY DEF ToSet
  <2>1. CASE i \in 1 .. n
    BY <1>2, <2>1 DEF Holds
  <2>2. CASE i \notin 1 .. n
    <3>1. i - n \in 1 .. Len(live) - n /\ n + (i - n) = i
      BY <1>3, <2>2
    <3>2. data[p][i - n] = live[i] /\ i - n \in DOMAIN data[p]
      BY <1>4, <3>1
    <3> QED BY <3>2 DEF ToSet
  <2> QED BY <2>1, <2>2
<1>17. Everywhere' = Everywhere \cup {NewEntry(p)}
  BY <1>5, <1>14, <1>15, <1>16 DEF Everywhere
<1>18. \A x \in Everywhere : x.id < NewEntry(p).id
  <2>1. Everywhere \subseteq ToSet(data[p]) \cup ToSet(archive)
    BY <1>16 DEF Everywhere
  <2> QED BY <1>9, <2>1 DEF ToSet, NewEntry
<1> QED BY <1>11, <1>12, <1>13, <1>14, <1>15, <1>17, <1>18

\* What a save of mark_stale() does: every entry stays where it was, with its event,
\* its id and its predecessor, and flagged if it was.
LEMMA SaveStaleDoes ==
  ASSUME IInv, NEW p \in Proc, SaveStale(p)
  PROVE  /\ live' \in Seq(Entry) /\ DOMAIN live' = DOMAIN live /\ archive' = archive
         /\ \A i \in DOMAIN live :
              /\ live'[i].ev = live[i].ev /\ live'[i].id = live[i].id
              /\ live'[i].prev = live[i].prev
              /\ live[i].stale => live'[i].stale
         /\ \A e \in tagged' \ tagged :
              \E i \in DOMAIN live : live'[i].ev = e /\ live'[i].stale
         /\ tagged' \subseteq Event /\ tagged \subseteq tagged'
<1> DEFINE T == Newly(data[p])
<1>1. pc[p] = "save" /\ op[p] = "stale"
  BY DEF SaveStale
<1>2. data[p] = live /\ live \in Seq(Entry) /\ tagged \subseteq Event
  BY <1>1 DEF IInv, LogInv, ReadUnderLock, TypeOK
<1>3. /\ T = Newly(live) /\ archive' = archive
      /\ tagged' = tagged \cup {live[i].ev : i \in T}
      /\ live' = IF T = {} THEN live
                 ELSE [i \in DOMAIN live |-> [live[i] EXCEPT !.stale = @ \/ i \in T]]
  BY <1>2 DEF SaveStale
<1>4. T \subseteq DOMAIN live
  BY <1>3 DEF Newly
<1>5. \A i \in DOMAIN live : live[i] \in Entry
  BY <1>2
<1> HIDE DEF T
<1>6. CASE T = {}
  <2>1. live' = live /\ tagged' = tagged
    BY <1>3, <1>6
  <2> QED BY <1>2, <1>3, <2>1
<1>7. CASE T # {}
  <2>1. DOMAIN live' = DOMAIN live
    BY <1>3, <1>7
  <2>2. \A i \in DOMAIN live : live'[i] = [live[i] EXCEPT !.stale = @ \/ i \in T]
    BY <1>3, <1>7
  <2>3. \A i \in DOMAIN live :
          /\ live'[i] \in Entry
          /\ live'[i].ev = live[i].ev /\ live'[i].id = live[i].id
          /\ live'[i].prev = live[i].prev
          /\ live[i].stale => live'[i].stale
          /\ i \in T => live'[i].stale
    BY <1>5, <2>2 DEF Entry
  <2>4. live' \in Seq(Entry)
    <3> DEFINE f == [i \in DOMAIN live |-> [live[i] EXCEPT !.stale = @ \/ i \in T]]
    <3>1. Len(live) \in Nat /\ DOMAIN live = 1 .. Len(live) /\ live' = f
      BY <1>2, <1>3, <1>7
    <3>2. \A i \in 1 .. Len(live) : live'[i] \in Entry
      BY <1>2, <2>3
    <3>3. f = [i \in 1 .. Len(live) |-> live'[i]]
      BY <3>1
    <3> QED BY <3>1, <3>2, <3>3
  <2>5. \A e \in tagged' \ tagged : \E i \in DOMAIN live : live'[i].ev = e /\ live'[i].stale
    BY <1>3, <1>4, <2>3
  <2>6. tagged' \subseteq Event
    BY <1>2, <1>3, <1>4, EntryOf
  <2> QED BY <1>3, <2>1, <2>3, <2>4, <2>5, <2>6
<1> QED BY <1>6, <1>7

\* Every step keeps the types.
LEMMA TypeStep == IInv /\ [Next]_vars => TypeOK'
<1> SUFFICES ASSUME IInv, [Next]_vars PROVE TypeOK'
  OBVIOUS
<1> USE CapAssumption, BoundAssumption, NoneAssumption DEF IInv, LogInv, TypeOK,
          Writing, NoCorpus, store, local, embeddings, past, faults
<1>0. CASE UNCHANGED vars
  BY <1>0 DEF vars, past, faults
<1>1. ASSUME NEW p \in Proc, LogEvent(p) PROVE TypeOK'
  BY <1>1 DEF LogEvent, Enter, Excluded
<1>2. ASSUME NEW p \in Proc, MarkStale(p) PROVE TypeOK'
  BY <1>2 DEF MarkStale, Enter, Excluded
<1>3. ASSUME NEW p \in Proc, Load(p) PROVE TypeOK'
  BY <1>3 DEF Load, Loaded
<1>4. ASSUME NEW p \in Proc, Quarantine(p) PROVE TypeOK'
  <2>1. MovedAside \subseteq Event
    BY EntryOf DEF MovedAside, ToSet
  <2>2. aside' \subseteq Event
    BY <1>4, <2>1 DEF Quarantine
  <2>3. live' \in Seq(Entry) /\ data' \in [Proc -> Seq(Entry)]
    BY <1>4 DEF Quarantine, Loaded
  <2> QED BY <1>4, <2>2, <2>3 DEF Quarantine, Loaded
<1>5. ASSUME NEW p \in Proc, Refuse(p) PROVE TypeOK'
  BY <1>5 DEF Refuse, Left
<1>6. ASSUME NEW p \in Proc, Rotate(p) PROVE TypeOK'
  <2>1. archive' \in Seq(Entry) /\ data' \in [Proc -> Seq(Entry)]
    <3>1. CASE Len(data[p]) < Cap
      BY <1>6, <3>1 DEF Rotate
    <3>2. CASE ~(Len(data[p]) < Cap)
      <4> DEFINE n == ArchiveCount(Len(data[p]))
      <4>1. data[p] \in Seq(Entry) /\ Len(data[p]) \in Nat /\ Len(data[p]) >= Cap
        BY <3>2
      <4>2. n \in 1 .. Len(data[p])
        BY <4>1, ArchiveCountIs
      <4>3. /\ archive' = archive \o SubSeq(data[p], 1, n)
            /\ data' = [data EXCEPT ![p] = SubSeq(data[p], n + 1, Len(data[p]))]
        BY <1>6, <3>2 DEF Rotate, Archived
      <4> HIDE DEF n
      <4>4. /\ SubSeq(data[p], 1, n) \in Seq(Entry)
            /\ SubSeq(data[p], n + 1, Len(data[p])) \in Seq(Entry)
        <5> PICK d \in Seq(Entry) : d = data[p]
          BY <4>1
        <5>1. Len(d) \in Nat /\ \A i \in 1 .. Len(d) : d[i] \in Entry
          OBVIOUS
        <5>2. SubSeq(d, 1, n) \in Seq(Entry)
          BY <4>2, <5>1, SubSeqProperties
        <5>3. SubSeq(d, n + 1, Len(d)) \in Seq(Entry)
          BY <4>2, <5>1, SubSeqProperties
        <5> QED BY <5>2, <5>3
      <4>5. archive' \in Seq(Entry)
        BY <4>3, <4>4
      <4>6. data' \in [Proc -> Seq(Entry)]
        BY <4>3, <4>4
      <4> QED BY <4>5, <4>6
    <3> QED BY <3>1, <3>2
  <2> QED BY <1>6, <2>1 DEF Rotate
<1>7. ASSUME NEW p \in Proc, RotateFails(p) PROVE TypeOK'
  BY <1>7 DEF RotateFails, Kept
<1>8. ASSUME NEW p \in Proc, SaveLog(p) PROVE TypeOK'
  <2>1. live' \in Seq(Entry) /\ seq < MaxEvents
    BY <1>8, SaveLogDoes DEF SaveLog, Begun
  <2>2. seq' \in 0 .. MaxEvents /\ logged' \in [Event -> Proc \cup {None}]
    BY <1>8, <2>1 DEF SaveLog, Event
  <2>3. corpus' \in [Proc -> [built : BOOLEAN, ids : SUBSET Nat]]
    BY <1>8 DEF SaveLog, Invalidated
  <2>4. /\ pc' \in [Proc -> Writing \cup {"idle", "vecs", "ids"}]
        /\ \A q \in Proc : pc'[q] \in Writing <=> lock' = q
        /\ op' \in [Proc -> {"none", "log", "stale"}] /\ data' \in [Proc -> Seq(Entry)]
        /\ lock' \in Proc \cup {None}
    BY <1>8 DEF SaveLog, Left
  <2> QED BY <1>8, <2>1, <2>2, <2>3, <2>4 DEF SaveLog
<1>9. ASSUME NEW p \in Proc, SaveStale(p) PROVE TypeOK'
  <2>1. live' \in Seq(Entry) /\ tagged' \subseteq Event
    BY <1>9, SaveStaleDoes
  <2>2. corpus' \in [Proc -> [built : BOOLEAN, ids : SUBSET Nat]] /\ damaged' \in BOOLEAN
    BY <1>9 DEF SaveStale, Invalidated
  <2>3. /\ pc' \in [Proc -> Writing \cup {"idle", "vecs", "ids"}]
        /\ \A q \in Proc : pc'[q] \in Writing <=> lock' = q
        /\ op' \in [Proc -> {"none", "log", "stale"}] /\ data' \in [Proc -> Seq(Entry)]
        /\ lock' \in Proc \cup {None}
    BY <1>9 DEF SaveStale, Left
  <2> QED BY <1>9, <2>1, <2>2, <2>3 DEF SaveStale
<1>10. ASSUME NEW p \in Proc, Search(p) PROVE TypeOK'
  <2>1. {e.id : e \in ToSet(live)} \subseteq Nat
    BY EntryOf DEF ToSet
  <2>2. corpus' \in [Proc -> [built : BOOLEAN, ids : SUBSET Nat]]
    BY <1>10, <2>1 DEF Search
  <2> QED BY <1>10, <2>2 DEF Search
<1>11. ASSUME NEW p \in Proc, SearchVectors(p) PROVE TypeOK'
  BY <1>11 DEF SearchVectors
<1>12. ASSUME NEW p \in Proc, SaveVecs(p) PROVE TypeOK'
  BY <1>12 DEF SaveVecs
<1>13. ASSUME NEW p \in Proc, SaveIds(p) PROVE TypeOK'
  BY <1>13 DEF SaveIds
<1>14. ASSUME NEW p \in Proc, Kill(p) PROVE TypeOK'
  BY <1>14 DEF Kill
<1>15. CASE Damage
  BY <1>15 DEF Damage
<1> QED
  BY <1>0, <1>1, <1>2, <1>3, <1>4, <1>5, <1>6, <1>7, <1>8, <1>9, <1>10, <1>11,
     <1>12, <1>13, <1>14, <1>15 DEF Next, Change, Read

\* Who logs still may.
LEMMA BegunStep == IInv /\ [Next]_vars => Begun'
<1> SUFFICES ASSUME IInv, [Next]_vars PROVE Begun'
  OBVIOUS
<1> USE NoneAssumption DEF IInv, LogInv, TypeOK, Begun, Writing, store, local,
          embeddings, past, faults
<1>0. CASE UNCHANGED vars
  BY <1>0 DEF vars, past, faults
<1>1. ASSUME NEW p \in Proc, LogEvent(p) PROVE Begun'
  BY <1>1 DEF LogEvent, Enter, Excluded
<1>2. ASSUME NEW p \in Proc, MarkStale(p) PROVE Begun'
  BY <1>2 DEF MarkStale, Enter, Excluded
<1>3. ASSUME NEW p \in Proc, Load(p) PROVE Begun'
  BY <1>3 DEF Load, Loaded
<1>4. ASSUME NEW p \in Proc, Quarantine(p) PROVE Begun'
  BY <1>4 DEF Quarantine, Loaded, MovedAside
<1>5. ASSUME NEW p \in Proc, Refuse(p) PROVE Begun'
  BY <1>5 DEF Refuse, Left
<1>6. ASSUME NEW p \in Proc, Rotate(p) PROVE Begun'
  BY <1>6 DEF Rotate
<1>7. ASSUME NEW p \in Proc, RotateFails(p) PROVE Begun'
  BY <1>7 DEF RotateFails, Kept
<1>8. ASSUME NEW p \in Proc, SaveLog(p) PROVE Begun'
  BY <1>8 DEF SaveLog, Left, Invalidated
<1>9. ASSUME NEW p \in Proc, SaveStale(p) PROVE Begun'
  BY <1>9 DEF SaveStale, Left, Invalidated
<1>10. ASSUME NEW p \in Proc, Search(p) PROVE Begun'
  BY <1>10 DEF Search
<1>11. ASSUME NEW p \in Proc, SearchVectors(p) PROVE Begun'
  BY <1>11 DEF SearchVectors
<1>12. ASSUME NEW p \in Proc, SaveVecs(p) PROVE Begun'
  BY <1>12 DEF SaveVecs
<1>13. ASSUME NEW p \in Proc, SaveIds(p) PROVE Begun'
  BY <1>13 DEF SaveIds
<1>14. ASSUME NEW p \in Proc, Kill(p) PROVE Begun'
  BY <1>14 DEF Kill
<1>15. CASE Damage
  BY <1>15 DEF Damage
<1> QED
  BY <1>0, <1>1, <1>2, <1>3, <1>4, <1>5, <1>6, <1>7, <1>8, <1>9, <1>10, <1>11,
     <1>12, <1>13, <1>14, <1>15 DEF Next, Change, Read

\* A writer that goes on, with the files as they were, holds what it held.
LEMMA SameRead ==
  ASSUME ReadUnderLock, live' = live, archive' = archive,
         \A p \in Proc : pc'[p] \in {"rotate", "save"} =>
           pc'[p] = pc[p] /\ data'[p] = data[p] /\ op'[p] = op[p]
  PROVE  ReadUnderLock'
<1>1. ASSUME NEW p \in Proc, NEW n, data'[p] = data[p], Holds(p, n) PROVE Holds(p, n)'
  BY <1>1 DEF Holds
<1> SUFFICES ASSUME NEW p \in Proc
             PROVE  /\ pc'[p] = "rotate" => data'[p] = live'
                    /\ pc'[p] = "save" /\ op'[p] = "log" =>
                         \E n \in 0 .. Len(live') : Holds(p, n)'
                    /\ pc'[p] = "save" /\ op'[p] = "stale" => data'[p] = live'
  BY DEF ReadUnderLock
<1> QED BY <1>1 DEF ReadUnderLock

\* What a writer has read does not change under its hands.
LEMMA ReadStep == IInv /\ [Next]_vars => ReadUnderLock'
<1> SUFFICES ASSUME IInv, [Next]_vars PROVE ReadUnderLock'
  OBVIOUS
<1> USE NoneAssumption, CapAssumption DEF IInv, LogInv, TypeOK, Begun, ReadUnderLock,
          Writing, store, local, embeddings, past, faults
<1>0. CASE UNCHANGED vars
  <2>1. /\ live' = live /\ archive' = archive
        /\ UNCHANGED <<pc, data, op>>
    BY <1>0 DEF vars
  <2> HIDE DEF ReadUnderLock
  <2> QED BY <2>1, SameRead
<1>1. ASSUME NEW p \in Proc, LogEvent(p) PROVE ReadUnderLock'
  BY <1>1 DEF LogEvent, Enter, Excluded
<1>2. ASSUME NEW p \in Proc, MarkStale(p) PROVE ReadUnderLock'
  BY <1>2 DEF MarkStale, Enter, Excluded
<1>3. ASSUME NEW p \in Proc, Load(p) PROVE ReadUnderLock'
  BY <1>3 DEF Load, Loaded
<1>4. ASSUME NEW p \in Proc, Quarantine(p) PROVE ReadUnderLock'
  BY <1>4 DEF Quarantine, Loaded, MovedAside
<1>5. ASSUME NEW p \in Proc, Refuse(p) PROVE ReadUnderLock'
  BY <1>5 DEF Refuse, Left
<1>6. ASSUME NEW p \in Proc, Rotate(p) PROVE ReadUnderLock'
  <2>1. /\ data[p] = live /\ pc[p] = "rotate" /\ lock = p /\ live' = live
        /\ pc' = [pc EXCEPT ![p] = "save"] /\ op[p] = "log" /\ op' = op
    BY <1>6 DEF Rotate
  <2>2. \A q \in Proc : q # p => pc'[q] \notin Writing
    BY <2>1
  <2>3. \E n \in 0 .. Len(live) : Holds(p, n)'
    <3>1. CASE Len(live) < Cap
      <4>1. data' = data
        BY <1>6, <2>1, <3>1 DEF Rotate
      <4>2. Holds(p, 0)'
        BY <2>1, <4>1 DEF Holds
      <4> QED BY <4>2
    <3>2. CASE ~(Len(live) < Cap)
      <4>1. ArchiveCount(Len(live)) \in 1 .. Len(live) /\ Len(live) \in Nat
        BY <3>2, ArchiveCountIs
      <4>2. PICK n \in 1 .. Len(live) :
              /\ archive' = archive \o SubSeq(live, 1, n)
              /\ data' = [data EXCEPT ![p] = SubSeq(live, n + 1, Len(live))]
        BY <1>6, <2>1, <3>2, <4>1 DEF Rotate, Archived
      <4>3. ASSUME NEW i \in 1 .. n PROVE live[i] \in ToSet(archive')
        <5>1. /\ Len(SubSeq(live, 1, n)) = n /\ SubSeq(live, 1, n)[i] = live[i]
              /\ SubSeq(live, 1, n) \in Seq(Entry)
          BY <4>1
        <5>2. Len(archive) + i \in DOMAIN archive' /\ archive'[Len(archive) + i] = live[i]
          BY <4>1, <4>2, <5>1
        <5> QED BY <5>2 DEF ToSet
      <4>4. data'[p] = SubSeq(live, n + 1, Len(live))
        BY <4>2
      <4>5. Holds(p, n)'
        BY <2>1, <4>3, <4>4 DEF Holds
      <4>6. n \in 0 .. Len(live)
        BY <4>1
      <4> QED BY <4>5, <4>6
    <3> QED BY <3>1, <3>2
  <2> QED BY <2>1, <2>2, <2>3
<1>7. ASSUME NEW p \in Proc, RotateFails(p) PROVE ReadUnderLock'
  <2>1. /\ data[p] = live /\ pc[p] = "rotate" /\ lock = p /\ live' = live
        /\ pc' = [pc EXCEPT ![p] = "save"] /\ op[p] = "log" /\ op' = op
        /\ data' = data
    BY <1>7 DEF RotateFails, Kept
  <2>2. \A q \in Proc : q # p => pc'[q] \notin Writing
    BY <2>1
  <2>3. Holds(p, 0)'
    BY <2>1 DEF Holds
  <2> QED BY <2>1, <2>2, <2>3
<1>8. ASSUME NEW p \in Proc, SaveLog(p) PROVE ReadUnderLock'
  BY <1>8 DEF SaveLog, Left, Invalidated
<1>9. ASSUME NEW p \in Proc, SaveStale(p) PROVE ReadUnderLock'
  <2>1. \A q \in Proc : pc'[q] \notin Writing
    BY <1>9 DEF SaveStale, Left
  <2> QED BY <2>1
<1>10. ASSUME NEW p \in Proc, Search(p) PROVE ReadUnderLock'
  <2>1. /\ live' = live /\ archive' = archive
        /\ \A q \in Proc : pc'[q] \in {"rotate", "save"} =>
             pc'[q] = pc[q] /\ data'[q] = data[q] /\ op'[q] = op[q]
    BY <1>10 DEF Search
  <2> HIDE DEF ReadUnderLock
  <2> QED BY <2>1, SameRead
<1>11. ASSUME NEW p \in Proc, SearchVectors(p) PROVE ReadUnderLock'
  <2>1. /\ live' = live /\ archive' = archive
        /\ \A q \in Proc : pc'[q] \in {"rotate", "save"} =>
             pc'[q] = pc[q] /\ data'[q] = data[q] /\ op'[q] = op[q]
    BY <1>11 DEF SearchVectors
  <2> HIDE DEF ReadUnderLock
  <2> QED BY <2>1, SameRead
<1>12. ASSUME NEW p \in Proc, SaveVecs(p) PROVE ReadUnderLock'
  <2>1. /\ live' = live /\ archive' = archive
        /\ \A q \in Proc : pc'[q] \in {"rotate", "save"} =>
             pc'[q] = pc[q] /\ data'[q] = data[q] /\ op'[q] = op[q]
    BY <1>12 DEF SaveVecs
  <2> HIDE DEF ReadUnderLock
  <2> QED BY <2>1, SameRead
<1>13. ASSUME NEW p \in Proc, SaveIds(p) PROVE ReadUnderLock'
  <2>1. /\ live' = live /\ archive' = archive
        /\ \A q \in Proc : pc'[q] \in {"rotate", "save"} =>
             pc'[q] = pc[q] /\ data'[q] = data[q] /\ op'[q] = op[q]
    BY <1>13 DEF SaveIds
  <2> HIDE DEF ReadUnderLock
  <2> QED BY <2>1, SameRead
<1>14. ASSUME NEW p \in Proc, Kill(p) PROVE ReadUnderLock'
  <2>1. /\ live' = live /\ archive' = archive
        /\ \A q \in Proc : pc'[q] \in {"rotate", "save"} =>
             pc'[q] = pc[q] /\ data'[q] = data[q] /\ op'[q] = op[q]
    BY <1>14 DEF Kill
  <2> HIDE DEF ReadUnderLock
  <2> QED BY <2>1, SameRead
<1>15. CASE Damage
  <2>1. /\ live' = live /\ archive' = archive
        /\ \A q \in Proc : pc'[q] \in {"rotate", "save"} =>
             pc'[q] = pc[q] /\ data'[q] = data[q] /\ op'[q] = op[q]
    BY <1>15 DEF Damage
  <2> HIDE DEF ReadUnderLock
  <2> QED BY <2>1, SameRead
<1> QED
  BY <1>0, <1>1, <1>2, <1>3, <1>4, <1>5, <1>6, <1>7, <1>8, <1>9, <1>10, <1>11,
     <1>12, <1>13, <1>14, <1>15 DEF Next, Change, Read

-----------------------------------------------------------------------------
\* A step that saves no event and no tag and moves no file aside.
Quiet ==
  /\ live' = live /\ aside' = aside /\ Everywhere' = Everywhere
  /\ logged' = logged /\ tagged' = tagged /\ seq' = seq

\* A file that is moved aside keeps its events.
SetAside ==
  /\ live' = <<>> /\ archive' = archive /\ aside' = aside \cup {e.ev : e \in ToSet(live)}
  /\ logged' = logged /\ tagged' = tagged /\ seq' = seq

\* The steps that matter to the files.
LEMMA FilesStep == IInv /\ [Next]_vars =>
  \/ Quiet \/ SetAside
  \/ \E p \in Proc : SaveLog(p) \/ SaveStale(p)
<1> SUFFICES ASSUME IInv, [Next]_vars PROVE Quiet \/ SetAside \/ \E q \in Proc : SaveLog(q) \/ SaveStale(q)
  OBVIOUS
<1> USE DEF Quiet, Everywhere, store, local, embeddings, past, faults
<1>0. CASE UNCHANGED vars
  BY <1>0 DEF vars, past, faults
<1>1. ASSUME NEW p \in Proc, LogEvent(p) PROVE Quiet \/ SetAside \/ \E q \in Proc : SaveLog(q) \/ SaveStale(q)
  BY <1>1 DEF LogEvent, Enter, Excluded
<1>2. ASSUME NEW p \in Proc, MarkStale(p) PROVE Quiet \/ SetAside \/ \E q \in Proc : SaveLog(q) \/ SaveStale(q)
  BY <1>2 DEF MarkStale, Enter, Excluded
<1>3. ASSUME NEW p \in Proc, Load(p) PROVE Quiet \/ SetAside \/ \E q \in Proc : SaveLog(q) \/ SaveStale(q)
  BY <1>3 DEF Load, Loaded
<1>4. ASSUME NEW p \in Proc, Quarantine(p) PROVE Quiet \/ SetAside \/ \E q \in Proc : SaveLog(q) \/ SaveStale(q)
  BY <1>4 DEF SetAside, Quarantine, Loaded, MovedAside
<1>5. ASSUME NEW p \in Proc, Refuse(p) PROVE Quiet \/ SetAside \/ \E q \in Proc : SaveLog(q) \/ SaveStale(q)
  BY <1>5 DEF Refuse, Left
<1>6. ASSUME NEW p \in Proc, Rotate(p) PROVE Quiet \/ SetAside \/ \E q \in Proc : SaveLog(q) \/ SaveStale(q)
  <2>1. Everywhere' = Everywhere
    <3>1. CASE Len(data[p]) < Cap
      BY <1>6, <3>1 DEF Rotate
    <3>2. CASE ~(Len(data[p]) < Cap)
      <4>1. /\ data[p] = live /\ live \in Seq(Entry) /\ archive \in Seq(Entry)
            /\ live' = live
        BY <1>6 DEF Rotate, IInv, LogInv, ReadUnderLock, TypeOK
      <4>2. ArchiveCount(Len(live)) \in 1 .. Len(live) /\ Len(live) \in Nat
        BY <3>2, <4>1, CapAssumption, ArchiveCountIs
      <4>3. PICK n \in 1 .. Len(live) : archive' = archive \o SubSeq(live, 1, n)
        BY <1>6, <3>2, <4>1, <4>2 DEF Rotate, Archived
      <4>4. /\ SubSeq(live, 1, n) \in Seq(Entry) /\ Len(SubSeq(live, 1, n)) = n
            /\ \A i \in 1 .. n : SubSeq(live, 1, n)[i] = live[i]
        BY <4>1, <4>2
      <4>5. /\ DOMAIN archive' = 1 .. Len(archive) + n /\ Len(archive) \in Nat
            /\ \A i \in 1 .. Len(archive) : archive'[i] = archive[i]
            /\ \A i \in 1 .. n : archive'[Len(archive) + i] = live[i]
        <5>1. PICK s \in Seq(Entry) : s = SubSeq(live, 1, n)
          BY <4>4
        <5>2. Len(s) = n /\ \A i \in 1 .. n : s[i] = live[i]
          BY <4>4, <5>1
        <5>3. archive' = archive \o s /\ archive \in Seq(Entry) /\ Len(archive) \in Nat
          BY <4>1, <4>3, <5>1
        <5>4. /\ DOMAIN (archive \o s) = 1 .. Len(archive) + Len(s)
              /\ \A i \in 1 .. Len(archive) : (archive \o s)[i] = archive[i]
              /\ \A i \in 1 .. Len(s) : (archive \o s)[Len(archive) + i] = s[i]
          BY <5>1, <5>3, ConcatIs
        <5> QED BY <5>2, <5>3, <5>4
      <4>6. ToSet(archive) \subseteq ToSet(archive')
        <5> SUFFICES ASSUME NEW i \in DOMAIN archive PROVE archive[i] \in ToSet(archive')
          BY DEF ToSet
        <5>1. i \in 1 .. Len(archive)
          BY <4>1
        <5>2. archive'[i] = archive[i] /\ i \in DOMAIN archive'
          BY <4>1, <4>5, <5>1
        <5> QED BY <5>2 DEF ToSet
      <4>7. ToSet(archive') \subseteq ToSet(archive) \cup ToSet(live)
        <5> SUFFICES ASSUME NEW i \in DOMAIN archive'
                     PROVE  archive'[i] \in ToSet(archive) \cup ToSet(live)
          BY DEF ToSet
        <5>1. CASE i <= Len(archive)
          BY <4>1, <4>5, <5>1 DEF ToSet
        <5>2. CASE ~(i <= Len(archive))
          <6>1. i - Len(archive) \in 1 .. n /\ Len(archive) + (i - Len(archive)) = i
            BY <4>5, <5>2
          <6>2. archive'[i] = live[i - Len(archive)] /\ i - Len(archive) \in DOMAIN live
            BY <4>1, <4>2, <4>5, <6>1
          <6> QED BY <6>2 DEF ToSet
        <5> QED BY <5>1, <5>2
      <4> QED BY <4>1, <4>6, <4>7
    <3> QED BY <3>1, <3>2
  <2> QED BY <1>6, <2>1 DEF Rotate
<1>7. ASSUME NEW p \in Proc, RotateFails(p) PROVE Quiet \/ SetAside \/ \E q \in Proc : SaveLog(q) \/ SaveStale(q)
  BY <1>7 DEF RotateFails, Kept
<1>8. ASSUME NEW p \in Proc, SaveLog(p) PROVE Quiet \/ SetAside \/ \E q \in Proc : SaveLog(q) \/ SaveStale(q)
  BY <1>8 DEF SaveLog, Left, Invalidated
<1>9. ASSUME NEW p \in Proc, SaveStale(p) PROVE Quiet \/ SetAside \/ \E q \in Proc : SaveLog(q) \/ SaveStale(q)
  BY <1>9 DEF SaveStale, Left, Invalidated
<1>10. ASSUME NEW p \in Proc, Search(p) PROVE Quiet \/ SetAside \/ \E q \in Proc : SaveLog(q) \/ SaveStale(q)
  BY <1>10 DEF Search
<1>11. ASSUME NEW p \in Proc, SearchVectors(p) PROVE Quiet \/ SetAside \/ \E q \in Proc : SaveLog(q) \/ SaveStale(q)
  BY <1>11 DEF SearchVectors
<1>12. ASSUME NEW p \in Proc, SaveVecs(p) PROVE Quiet \/ SetAside \/ \E q \in Proc : SaveLog(q) \/ SaveStale(q)
  BY <1>12 DEF SaveVecs
<1>13. ASSUME NEW p \in Proc, SaveIds(p) PROVE Quiet \/ SetAside \/ \E q \in Proc : SaveLog(q) \/ SaveStale(q)
  BY <1>13 DEF SaveIds
<1>14. ASSUME NEW p \in Proc, Kill(p) PROVE Quiet \/ SetAside \/ \E q \in Proc : SaveLog(q) \/ SaveStale(q)
  BY <1>14 DEF Kill
<1>15. CASE Damage
  BY <1>15 DEF Damage
<1> QED
  BY <1>0, <1>1, <1>2, <1>3, <1>4, <1>5, <1>6, <1>7, <1>8, <1>9, <1>10, <1>11,
     <1>12, <1>13, <1>14, <1>15 DEF Next, Change, Read

\* Events and ids stay within those begun.
LEMMA NumberedStep == IInv /\ [Next]_vars => Numbered'
<1> SUFFICES ASSUME IInv, [Next]_vars PROVE Numbered'
  OBVIOUS
<1>1. CASE Quiet
  BY <1>1 DEF Quiet, IInv, LogInv, Numbered
<1>2. CASE SetAside
  BY <1>2 DEF SetAside, IInv, LogInv, Numbered, Everywhere, ToSet
<1>3. ASSUME NEW p \in Proc, SaveLog(p) PROVE Numbered'
  <2>1. Everywhere' = Everywhere \cup {NewEntry(p)} /\ \A x \in Everywhere : x.id < NewEntry(p).id
    BY <1>3, SaveLogDoes
  <2>2. NewEntry(p).ev = seq + 1 /\ NewEntry(p).id <= seq /\ NewEntry(p) \in Entry
    BY <1>3, SaveLogDoes DEF NewEntry
  <2>3. seq' = seq + 1 /\ seq \in Nat
    BY <1>3 DEF SaveLog, IInv, LogInv, TypeOK
  <2>4. \A x \in Everywhere : x.ev \in Nat /\ x.id \in Nat
    BY EntryOf DEF IInv, LogInv, TypeOK, Everywhere, ToSet, Event
  <2>5. NewEntry(p).id \in Nat
    BY <2>2 DEF Entry
  <2>6. \A x \in Everywhere : x.ev <= seq /\ x.id < seq
    BY DEF IInv, LogInv, Numbered
  <2>7. \A x \in Everywhere' : x.ev <= seq + 1 /\ x.id < seq + 1
    BY <2>1, <2>2, <2>3, <2>4, <2>5, <2>6
  <2> QED BY <2>3, <2>7 DEF Numbered
<1>4. ASSUME NEW p \in Proc, SaveStale(p) PROVE Numbered'
  <2>1. \A x \in Everywhere' : \E y \in Everywhere : x.ev = y.ev /\ x.id = y.id
    <3>1. /\ DOMAIN live' = DOMAIN live /\ archive' = archive
          /\ \A i \in DOMAIN live : live'[i].ev = live[i].ev /\ live'[i].id = live[i].id
      BY <1>4, SaveStaleDoes
    <3> QED BY <3>1 DEF Everywhere, ToSet
  <2>2. seq' = seq
    BY <1>4 DEF SaveStale
  <2> QED BY <2>1, <2>2 DEF IInv, LogInv, Numbered
<1> QED BY <1>1, <1>2, <1>3, <1>4, FilesStep

\* An id names one event.
LEMMA IdsStep == IInv /\ [Next]_vars => IdNamesOne'
<1> SUFFICES ASSUME IInv, [Next]_vars PROVE IdNamesOne'
  OBVIOUS
<1>1. CASE Quiet
  BY <1>1 DEF Quiet, IInv, LogInv, IdNamesOne
<1>2. CASE SetAside
  BY <1>2 DEF SetAside, IInv, LogInv, IdNamesOne, Everywhere, ToSet
<1>3. ASSUME NEW p \in Proc, SaveLog(p) PROVE IdNamesOne'
  <2>1. Everywhere' = Everywhere \cup {NewEntry(p)} /\ \A x \in Everywhere : x.id < NewEntry(p).id
    BY <1>3, SaveLogDoes
  <2>2. NewEntry(p).ev = seq + 1 /\ NewEntry(p).id <= seq /\ NewEntry(p) \in Entry
    BY <1>3, SaveLogDoes DEF NewEntry
  <2>3. \A x \in Everywhere : x.id \in Nat
    BY EntryOf DEF IInv, LogInv, TypeOK, Everywhere, ToSet
  <2>4. \A x \in Everywhere : x.id # NewEntry(p).id
    BY <2>1, <2>2, <2>3 DEF Entry
  <2> QED BY <2>1, <2>4 DEF IInv, LogInv, IdNamesOne
<1>4. ASSUME NEW p \in Proc, SaveStale(p) PROVE IdNamesOne'
  <2>1. \A x \in Everywhere' : \E y \in Everywhere : x.ev = y.ev /\ x.id = y.id
    <3>1. /\ DOMAIN live' = DOMAIN live /\ archive' = archive
          /\ \A i \in DOMAIN live : live'[i].ev = live[i].ev /\ live'[i].id = live[i].id
      BY <1>4, SaveStaleDoes
    <3> QED BY <3>1 DEF Everywhere, ToSet
  <2> QED BY <2>1 DEF IInv, LogInv, IdNamesOne
<1> QED BY <1>1, <1>2, <1>3, <1>4, FilesStep

\* No event is lost.
LEMMA EventsStep == IInv /\ [Next]_vars => EventsKept'
<1> SUFFICES ASSUME IInv, [Next]_vars PROVE EventsKept'
  OBVIOUS
<1>1. CASE Quiet
  BY <1>1 DEF Quiet, IInv, NothingLost, EventsKept
<1>2. CASE SetAside
  <2>1. ToSet(archive') = ToSet(archive)
    BY <1>2 DEF SetAside
  <2> QED BY <1>2, <2>1 DEF SetAside, IInv, NothingLost, EventsKept, Everywhere
<1>3. ASSUME NEW p \in Proc, SaveLog(p) PROVE EventsKept'
  <2>1. Everywhere' = Everywhere \cup {NewEntry(p)} /\ \A x \in Everywhere : x.id < NewEntry(p).id
    BY <1>3, SaveLogDoes
  <2>2. NewEntry(p).ev = seq + 1 /\ NewEntry(p).id <= seq /\ NewEntry(p) \in Entry
    BY <1>3, SaveLogDoes DEF NewEntry
  <2>3. aside' = aside /\ logged' = [logged EXCEPT ![seq + 1] = p]
    BY <1>3 DEF SaveLog
  <2>4. logged \in [Event -> Proc \cup {None}]
    BY DEF IInv, LogInv, TypeOK
  <2>5. \A e \in Event : logged'[e] # None => logged[e] # None \/ e = seq + 1
    BY <2>3, <2>4
  <2> QED BY <2>1, <2>2, <2>3, <2>5 DEF IInv, NothingLost, EventsKept
<1>4. ASSUME NEW p \in Proc, SaveStale(p) PROVE EventsKept'
  <2>1. \A x \in Everywhere : \E y \in Everywhere' : x.ev = y.ev
    <3>1. /\ DOMAIN live' = DOMAIN live /\ archive' = archive
          /\ \A i \in DOMAIN live : live'[i].ev = live[i].ev
      BY <1>4, SaveStaleDoes
    <3> QED BY <3>1 DEF Everywhere, ToSet
  <2>2. aside' = aside /\ logged' = logged
    BY <1>4 DEF SaveStale
  <2> QED BY <2>1, <2>2 DEF IInv, NothingLost, EventsKept
<1> QED BY <1>1, <1>2, <1>3, <1>4, FilesStep

\* No tag is lost.
LEMMA TagsStep == IInv /\ [Next]_vars => TagsKept'
<1> SUFFICES ASSUME IInv, [Next]_vars PROVE TagsKept'
  OBVIOUS
<1>1. CASE Quiet
  BY <1>1 DEF Quiet, IInv, NothingLost, TagsKept
<1>2. CASE SetAside
  <2>1. ToSet(archive') = ToSet(archive)
    BY <1>2 DEF SetAside
  <2> QED BY <1>2, <2>1 DEF SetAside, IInv, NothingLost, TagsKept, Everywhere
<1>3. ASSUME NEW p \in Proc, SaveLog(p) PROVE TagsKept'
  <2>1. Everywhere' = Everywhere \cup {NewEntry(p)} /\ \A x \in Everywhere : x.id < NewEntry(p).id
    BY <1>3, SaveLogDoes
  <2>2. NewEntry(p).ev = seq + 1 /\ NewEntry(p).id <= seq /\ NewEntry(p) \in Entry
    BY <1>3, SaveLogDoes DEF NewEntry
  <2>3. aside' = aside /\ tagged' = tagged
    BY <1>3 DEF SaveLog
  <2> QED BY <2>1, <2>3 DEF IInv, NothingLost, TagsKept
<1>4. ASSUME NEW p \in Proc, SaveStale(p) PROVE TagsKept'
  <2>1. /\ DOMAIN live' = DOMAIN live /\ archive' = archive
        /\ \A i \in DOMAIN live :
             live'[i].ev = live[i].ev /\ (live[i].stale => live'[i].stale)
        /\ \A e \in tagged' \ tagged :
             \E i \in DOMAIN live : live'[i].ev = e /\ live'[i].stale
    BY <1>4, SaveStaleDoes
  <2>2. \A x \in Everywhere : x.stale => \E y \in Everywhere' : x.ev = y.ev /\ y.stale
    BY <2>1 DEF Everywhere, ToSet
  <2>3. \A e \in tagged' \ tagged : \E y \in Everywhere' : y.ev = e /\ y.stale
    BY <2>1 DEF Everywhere, ToSet
  <2>4. aside' = aside
    BY <1>4 DEF SaveStale
  <2> QED BY <2>2, <2>3, <2>4 DEF IInv, NothingLost, TagsKept
<1> QED BY <1>1, <1>2, <1>3, <1>4, FilesStep

\* The chain is not broken.
LEMMA ChainStep == IInv /\ [Next]_vars => Chained'
<1> SUFFICES ASSUME IInv, [Next]_vars PROVE Chained'
  OBVIOUS
<1>1. CASE Quiet
  BY <1>1 DEF Quiet, IInv, LogInv, Chained
<1>2. CASE SetAside
  BY <1>2 DEF SetAside, Chained
<1>3. ASSUME NEW p \in Proc, SaveLog(p) PROVE Chained'
  <2>1. PICK n \in 0 .. Len(live) :
          /\ live' \in Seq(Entry) /\ Len(live') = Len(live) - n + 1
          /\ \A i \in 1 .. Len(live) - n : live'[i] = live[n + i]
          /\ live'[Len(live) - n + 1] = NewEntry(p)
          /\ n < Len(live) => NewEntry(p).prev = live[Len(live)].id
    BY <1>3, SaveLogDoes
  <2>2. \A x \in Everywhere : x.id < NewEntry(p).id
    BY <1>3, SaveLogDoes
  <2>3. live \in Seq(Entry) /\ Len(live) \in Nat
    BY DEF IInv, LogInv, TypeOK
  <2> SUFFICES ASSUME NEW i \in DOMAIN live', i > 1
               PROVE  live'[i].id > live'[i - 1].id /\ live'[i].prev = live'[i - 1].id
    BY DEF Chained
  <2>4. i \in 1 .. Len(live) - n + 1 /\ i - 1 \in 1 .. Len(live) - n
    <3>1. DOMAIN live' = 1 .. Len(live) - n + 1
      BY <2>1
    <3> QED BY <2>3, <3>1
  <2>5. live'[i - 1] = live[n + (i - 1)] /\ n + (i - 1) \in DOMAIN live
    BY <2>1, <2>3, <2>4
  <2>6. CASE i = Len(live) - n + 1
    <3>1. n + (i - 1) = Len(live) /\ n < Len(live)
      BY <2>3, <2>4, <2>6
    <3>2. live'[i] = NewEntry(p) /\ live'[i].prev = live[Len(live)].id
      BY <2>1, <2>6, <3>1
    <3>3. live[n + (i - 1)].id < NewEntry(p).id
      BY <2>2, <2>5 DEF Everywhere, ToSet
    <3>4. live[n + (i - 1)].id \in Nat /\ NewEntry(p).id \in Nat
      BY <1>3, <2>3, <2>5, EntryOf, SaveLogDoes DEF Entry
    <3>5. live'[i - 1] = live[Len(live)]
      BY <2>5, <3>1
    <3>6. live'[i - 1].id = live[Len(live)].id /\ live'[i].id = NewEntry(p).id
      BY <3>2, <3>5
    <3>7. live[Len(live)].id < NewEntry(p).id /\ live[Len(live)].id \in Nat
      BY <3>1, <3>3, <3>4
    <3> QED BY <3>2, <3>4, <3>6, <3>7
  <2>7. CASE i # Len(live) - n + 1
    <3>1. i \in 1 .. Len(live) - n /\ n + i \in DOMAIN live /\ n + i > 1
      BY <2>3, <2>4, <2>7
    <3>2. live'[i] = live[n + i]
      BY <2>1, <3>1
    <3>4. (n + i) - 1 = n + (i - 1)
      BY <2>3, <3>1
    <3>3. /\ live[n + i].id > live[(n + i) - 1].id
          /\ live[n + i].prev = live[(n + i) - 1].id
      BY <3>1 DEF IInv, LogInv, Chained
    <3> QED BY <2>5, <3>2, <3>3, <3>4
  <2> QED BY <2>6, <2>7
<1>4. ASSUME NEW p \in Proc, SaveStale(p) PROVE Chained'
  <2>1. /\ DOMAIN live' = DOMAIN live
        /\ \A i \in DOMAIN live : live'[i].id = live[i].id /\ live'[i].prev = live[i].prev
    BY <1>4, SaveStaleDoes
  <2>2. live \in Seq(Entry)
    BY DEF IInv, LogInv, TypeOK
  <2>3. \A i \in DOMAIN live : i > 1 => i - 1 \in DOMAIN live
    BY <2>2
  <2> QED BY <2>1, <2>3 DEF IInv, LogInv, Chained
<1> QED BY <1>1, <1>2, <1>3, <1>4, FilesStep

\* A process finds its own.
LEMMA FindsStep == IInv /\ [Next]_vars => FindsOwn'
<1> SUFFICES ASSUME IInv, [Next]_vars PROVE FindsOwn'
  OBVIOUS
<1> USE DEF IInv, LogInv, TypeOK, FindsOwn, NoCorpus, store, local, embeddings, past,
          faults
<1>0. CASE UNCHANGED vars
  BY <1>0 DEF vars, past, faults
<1>1. ASSUME NEW p \in Proc, LogEvent(p) PROVE FindsOwn'
  BY <1>1 DEF LogEvent, Enter, Excluded
<1>2. ASSUME NEW p \in Proc, MarkStale(p) PROVE FindsOwn'
  BY <1>2 DEF MarkStale, Enter, Excluded
<1>3. ASSUME NEW p \in Proc, Load(p) PROVE FindsOwn'
  BY <1>3 DEF Load, Loaded
<1>4. ASSUME NEW p \in Proc, Quarantine(p) PROVE FindsOwn'
  <2>1. live' = <<>>
    BY <1>4 DEF Quarantine
  <2> QED BY <2>1 DEF ToSet
<1>5. ASSUME NEW p \in Proc, Refuse(p) PROVE FindsOwn'
  BY <1>5 DEF Refuse, Left
<1>6. ASSUME NEW p \in Proc, Rotate(p) PROVE FindsOwn'
  BY <1>6 DEF Rotate
<1>7. ASSUME NEW p \in Proc, RotateFails(p) PROVE FindsOwn'
  BY <1>7 DEF RotateFails, Kept
<1>8. ASSUME NEW p \in Proc, SaveLog(p) PROVE FindsOwn'
  <2>1. /\ ToSet(live') \subseteq ToSet(live) \cup {NewEntry(p)}
        /\ NewEntry(p).ev = seq + 1
    BY <1>8, SaveLogDoes DEF NewEntry
  <2>2. logged' = [logged EXCEPT ![seq + 1] = p] /\ corpus' = [corpus EXCEPT ![p] = NoCorpus]
    BY <1>8 DEF SaveLog, Invalidated
  <2>3. ~corpus'[p].built /\ \A q \in Proc : q # p => corpus'[q] = corpus[q]
    BY <2>2
  <2>4. \A x \in ToSet(live) : x.ev \in Nat /\ x.ev <= seq /\ seq \in Nat
    BY EntryOf DEF Numbered, Everywhere, ToSet, Event
  <2>5. \A x \in ToSet(live) : logged'[x.ev] = logged[x.ev]
    BY <2>2, <2>4
  <2>6. logged'[seq + 1] = p
    <3>1. seq + 1 \in Event
      BY <1>8, BoundAssumption DEF SaveLog, Begun, Writing, Event
    <3> QED BY <2>2, <3>1
  <2> QED BY <2>1, <2>3, <2>5, <2>6
<1>9. ASSUME NEW p \in Proc, SaveStale(p) PROVE FindsOwn'
  <2>1. \A x \in ToSet(live') : \E y \in ToSet(live) : x.ev = y.ev /\ x.id = y.id
    <3>1. /\ DOMAIN live' = DOMAIN live
          /\ \A i \in DOMAIN live : live'[i].ev = live[i].ev /\ live'[i].id = live[i].id
      BY <1>9, SaveStaleDoes
    <3> HIDE DEF IInv, LogInv, TypeOK, FindsOwn
    <3> QED BY <3>1 DEF ToSet
  <2>2. logged' = logged
    BY <1>9 DEF SaveStale
  <2>3. \A q \in Proc : corpus'[q].built => corpus'[q] = corpus[q]
    BY <1>9 DEF SaveStale, Invalidated
  <2>4. ASSUME NEW q \in Proc, corpus'[q].built, NEW x \in ToSet(live'), logged'[x.ev] = q
        PROVE  x.id \in corpus'[q].ids
    <3>1. PICK y \in ToSet(live) : x.ev = y.ev /\ x.id = y.id
      BY <2>1
    <3>2. corpus'[q] = corpus[q] /\ logged[y.ev] = q
      BY <2>2, <2>3, <2>4, <3>1
    <3> QED BY <2>4, <3>1, <3>2
  <2> QED BY <2>4
<1>10. ASSUME NEW p \in Proc, Search(p) PROVE FindsOwn'
  <2>1. live' = live /\ logged' = logged
    BY <1>10 DEF Search
  <2>2. corpus' = [corpus EXCEPT ![p] = [built |-> TRUE, ids |-> {e.id : e \in ToSet(live)}]]
    BY <1>10 DEF Search
  <2>3. corpus'[p].ids = {e.id : e \in ToSet(live)}
    BY <2>2
  <2>4. \A q \in Proc : q # p => corpus'[q] = corpus[q]
    BY <2>2
  <2> QED BY <2>1, <2>3, <2>4
<1>11. ASSUME NEW p \in Proc, SearchVectors(p) PROVE FindsOwn'
  BY <1>11 DEF SearchVectors
<1>12. ASSUME NEW p \in Proc, SaveVecs(p) PROVE FindsOwn'
  BY <1>12 DEF SaveVecs
<1>13. ASSUME NEW p \in Proc, SaveIds(p) PROVE FindsOwn'
  BY <1>13 DEF SaveIds
<1>14. ASSUME NEW p \in Proc, Kill(p) PROVE FindsOwn'
  BY <1>14 DEF Kill
<1>15. CASE Damage
  BY <1>15 DEF Damage
<1> QED
  BY <1>0, <1>1, <1>2, <1>3, <1>4, <1>5, <1>6, <1>7, <1>8, <1>9, <1>10, <1>11,
     <1>12, <1>13, <1>14, <1>15 DEF Next, Change, Read

-----------------------------------------------------------------------------
\* Nothing is logged yet.
LEMMA InitInv == Init => IInv
<1> SUFFICES ASSUME Init PROVE IInv
  OBVIOUS
<1> USE DEF Init
<1>1. /\ live \in Seq(Entry) /\ archive \in Seq(Entry) /\ data \in [Proc -> Seq(Entry)]
      /\ aside \subseteq Event /\ damaged \in BOOLEAN /\ lock \in Proc \cup {None}
      /\ pc \in [Proc -> Writing \cup {"idle", "vecs", "ids"}]
      /\ op \in [Proc -> {"none", "log", "stale"}]
  <2>1. live \in Seq(Entry) /\ archive \in Seq(Entry) /\ <<>> \in Seq(Entry)
    OBVIOUS
  <2>2. data \in [Proc -> Seq(Entry)]
    BY <2>1
  <2>3. pc \in [Proc -> Writing \cup {"idle", "vecs", "ids"}]
    OBVIOUS
  <2>4. op \in [Proc -> {"none", "log", "stale"}]
    OBVIOUS
  <2> QED BY <2>1, <2>2, <2>3, <2>4
<1>2. /\ \A p \in Proc : pc[p] \in Writing <=> lock = p
      /\ corpus \in [Proc -> [built : BOOLEAN, ids : SUBSET Nat]]
  BY NoneAssumption DEF Writing, NoCorpus
<1>3. /\ logged \in [Event -> Proc \cup {None}] /\ tagged \subseteq Event
      /\ torn \in BOOLEAN /\ seq \in 0 .. MaxEvents /\ fails \in 0 .. MaxFails
      /\ damages \in 0 .. MaxDamage /\ kills \in 0 .. MaxKills
  <2>1. logged \in [Event -> Proc \cup {None}]
    OBVIOUS
  <2>2. /\ MaxEvents \in Nat /\ MaxFails \in Nat /\ MaxDamage \in Nat /\ MaxKills \in Nat
    BY BoundAssumption
  <2>3. /\ seq \in 0 .. MaxEvents /\ fails \in 0 .. MaxFails
        /\ damages \in 0 .. MaxDamage /\ kills \in 0 .. MaxKills
    BY <2>2
  <2>4. tagged \subseteq Event /\ torn \in BOOLEAN
    OBVIOUS
  <2> QED BY <2>1, <2>3, <2>4
<1>4. TypeOK
  BY <1>1, <1>2, <1>3 DEF TypeOK
<1>5. Everywhere = {}
  BY DEF Everywhere, ToSet
<1>6. Chained /\ FindsOwn
  BY DEF Chained, FindsOwn, NoCorpus
<1>7. Begun /\ ReadUnderLock
  BY DEF Begun, ReadUnderLock, Writing
<1>8. IdNamesOne /\ Numbered /\ NothingLost
  BY <1>5 DEF IdNamesOne, Numbered, NothingLost, EventsKept, TagsKept
<1> QED BY <1>4, <1>6, <1>7, <1>8 DEF IInv, LogInv

\* Every step keeps the invariant.
LEMMA StepInv == IInv /\ [Next]_vars => IInv'
BY TypeStep, BegunStep, ReadStep, NumberedStep, IdsStep, EventsStep, TagsStep,
   ChainStep, FindsStep
   DEF IInv, LogInv, NothingLost

\* Hence every reachable state satisfies it.
LEMMA Invariant == Spec => []IInv
BY InitInv, StepInv, PTL DEF Spec

\* The log is sound for any number of processes, whatever is killed or fails: an
\* id names one event, the chain of the live store is unbroken, and a search
\* finds what its process logged (log_event(), _rotate_if_needed(), _get_bm25()).
THEOREM LogSafe == Spec => []LogInv
<1>1. IInv => LogInv
  BY DEF IInv
<1> QED BY Invariant, <1>1, PTL

\* No event whose log_event() returned and no tag whose mark_stale() returned is
\* lost, wherever a process is killed between a rotation and its save.
THEOREM NothingLostSafe == Spec => []NothingLost
<1>1. IInv => NothingLost
  BY DEF IInv
<1> QED BY Invariant, <1>1, PTL

-----------------------------------------------------------------------------
(* The embeddings, as long as one process at most falls back on them.      *)

OneSearches == \A p, q \in Searchers : p = q

VectorTypes ==
  vecs \in Seq(Event) /\ ids \in Seq(Nat) /\ merged \in [Proc -> Seq(Pair)]

\* The inductive invariant of the embeddings.
VectorsInv == IInv /\ VectorTypes /\ Encoded

\* What the steps that leave the embeddings alone have in common.
Elsewhere ==
  /\ UNCHANGED <<vecs, ids, merged, torn>>
  /\ \A p \in Proc : pc'[p] \in {"vecs", "ids"} \/ pc[p] \in {"vecs", "ids"} => pc'[p] = pc[p]

LEMMA OtherSteps == IInv /\ [Next]_vars =>
  Elsewhere \/ \E p \in Proc : SearchVectors(p) \/ SaveVecs(p) \/ SaveIds(p) \/ Kill(p)
<1> SUFFICES ASSUME IInv, [Next]_vars,
                    ~ \E p \in Proc : SearchVectors(p) \/ SaveVecs(p) \/ SaveIds(p) \/ Kill(p)
             PROVE  Elsewhere
  OBVIOUS
<1>t. pc \in [Proc -> Writing \cup {"idle", "vecs", "ids"}]
  BY DEF IInv, LogInv, TypeOK
<1> USE DEF Elsewhere, Writing, local, embeddings, past
<1>0. CASE UNCHANGED vars
  BY <1>0 DEF vars
<1>1. ASSUME NEW p \in Proc, LogEvent(p) \/ MarkStale(p) PROVE Elsewhere
  BY <1>t, <1>1 DEF LogEvent, MarkStale, Enter
<1>2. ASSUME NEW p \in Proc, Load(p) \/ Quarantine(p) PROVE Elsewhere
  BY <1>t, <1>2 DEF Load, Quarantine, Loaded
<1>3. ASSUME NEW p \in Proc, Refuse(p) PROVE Elsewhere
  BY <1>t, <1>3 DEF Refuse, Left
<1>4. ASSUME NEW p \in Proc, Rotate(p) \/ RotateFails(p) PROVE Elsewhere
  BY <1>t, <1>4 DEF Rotate, RotateFails
<1>5. ASSUME NEW p \in Proc, SaveLog(p) \/ SaveStale(p) PROVE Elsewhere
  BY <1>t, <1>5 DEF SaveLog, SaveStale, Left
<1>6. ASSUME NEW p \in Proc, Search(p) PROVE Elsewhere
  BY <1>6 DEF Search
<1>7. CASE Damage
  BY <1>7 DEF Damage
<1> QED BY <1>0, <1>1, <1>2, <1>3, <1>4, <1>5, <1>6, <1>7 DEF Next, Change, Read

\* As long as nothing is moved aside, what a pair names stays in the log.
LEMMA RightStays ==
  ASSUME IInv, [Next]_vars, aside' = {}, NEW c, Right(c)
  PROVE  aside = {} /\ Right(c)'
<1>1. PICK x \in Everywhere : x.id = c.id /\ x.ev = c.ev
  BY DEF Right
<1>2. CASE Quiet
  BY <1>1, <1>2 DEF Quiet, Right
<1>3. CASE SetAside
  <2>1. ToSet(live) = {} /\ aside = {}
    BY <1>3 DEF SetAside
  <2>2. x \in ToSet(archive) /\ archive' = archive
    BY <1>1, <1>3, <2>1 DEF SetAside, Everywhere
  <2> QED BY <1>1, <2>1, <2>2 DEF Right, Everywhere
<1>4. ASSUME NEW p \in Proc, SaveLog(p) PROVE aside = {} /\ Right(c)'
  <2>1. Everywhere' = Everywhere \cup {NewEntry(p)}
    BY <1>4, SaveLogDoes
  <2>2. aside' = aside
    BY <1>4 DEF SaveLog
  <2> QED BY <1>1, <2>1, <2>2 DEF Right
<1>5. ASSUME NEW p \in Proc, SaveStale(p) PROVE aside = {} /\ Right(c)'
  <2>1. /\ DOMAIN live' = DOMAIN live /\ archive' = archive
        /\ \A i \in DOMAIN live : live'[i].ev = live[i].ev /\ live'[i].id = live[i].id
    BY <1>5, SaveStaleDoes
  <2>2. \E y \in Everywhere' : y.id = x.id /\ y.ev = x.ev
    BY <1>1, <2>1 DEF Everywhere, ToSet
  <2>3. aside' = aside
    BY <1>5 DEF SaveStale
  <2> QED BY <1>1, <2>2, <2>3 DEF Right
<1> QED BY <1>2, <1>3, <1>4, <1>5, FilesStep

\* The pairs that the two files hold.
LEMMA CachedIs ==
  ASSUME VectorTypes
  PROVE  /\ Cached \in Seq(Pair)
         /\ \A i \in DOMAIN Cached : Cached[i] = [id |-> ids[i], ev |-> vecs[i]]
<1>1. CASE Len(vecs) = Len(ids)
  <2>1. Cached = [i \in 1 .. Len(ids) |-> [id |-> ids[i], ev |-> vecs[i]]]
    BY <1>1 DEF Cached, VectorTypes
  <2>2. /\ Len(ids) \in Nat
        /\ \A i \in 1 .. Len(ids) : ids[i] \in Nat /\ vecs[i] \in Event
    BY <1>1 DEF VectorTypes
  <2>3. \A i \in 1 .. Len(ids) : [id |-> ids[i], ev |-> vecs[i]] \in Pair
    BY <2>2 DEF Pair
  <2> QED BY <2>1, <2>2, <2>3
<1>2. CASE Len(vecs) # Len(ids)
  BY <1>2 DEF Cached
<1> QED BY <1>1, <1>2

\* A search encodes entries of the live store.
LEMMA UncachedIs ==
  ASSUME IInv
  PROVE  Uncached \in Seq(Entry) /\ \A i \in DOMAIN Uncached : Uncached[i] \in ToSet(live)
<1> DEFINE K == {i \in DOMAIN Readable : Readable[i].id \notin {c.id : c \in ToSet(Cached)}}
<1>1. PICK r \in Seq(Entry) : r = Readable /\ \A i \in DOMAIN r : r[i] \in ToSet(live)
  <2>1. live \in Seq(Entry)
    BY DEF IInv, LogInv, TypeOK
  <2>2. Readable \in {<<>>, live}
    BY DEF Readable
  <2>3. /\ Readable \in Seq(Entry)
        /\ \A i \in DOMAIN Readable : Readable[i] \in ToSet(live)
    <3>1. CASE Readable = live
      BY <2>1, <3>1 DEF ToSet
    <3>2. CASE Readable = <<>>
      BY <3>2
    <3> QED BY <2>2, <3>1, <3>2
  <2> QED BY <2>3
<1>2. Uncached = Selected(r, K)
  BY <1>1 DEF Uncached
<1>3. K \in SUBSET DOMAIN r
  BY <1>1
<1> HIDE DEF K
<1>4. /\ Selected(r, K) \in Seq(Entry)
      /\ \A e : (\E k \in DOMAIN Selected(r, K) : Selected(r, K)[k] = e) <=> \E k \in K : r[k] = e
  BY <1>3, SelectedIs
<1>5. ASSUME NEW i \in DOMAIN Uncached PROVE Uncached[i] \in ToSet(live)
  <2>1. PICK k \in K : r[k] = Uncached[i]
    BY <1>2, <1>4
  <2> QED BY <1>1, <1>3, <2>1
<1> QED BY <1>2, <1>4, <1>5

\* What it will write: what was cached, and the entries it has encoded.
LEMMA MergedIs ==
  ASSUME IInv, VectorTypes
  PROVE  /\ Merged \in Seq(Pair)
         /\ \A c \in ToSet(Merged) : c \in ToSet(Cached) \/ Right(c)
<1> DEFINE n == [i \in DOMAIN Uncached |-> PairOf(Uncached[i])]
<1>1. PICK u \in Seq(Entry) : u = Uncached /\ \A i \in DOMAIN u : u[i] \in ToSet(live)
  BY UncachedIs
<1>2. \A i \in DOMAIN u : PairOf(u[i]) \in Pair
  BY EntryOf DEF PairOf, Pair
<1>3. PICK s \in Seq(Pair) : s = n /\ DOMAIN s = DOMAIN u /\ \A i \in DOMAIN u : s[i] = PairOf(u[i])
  <2>1. DOMAIN u = 1 .. Len(u) /\ Len(u) \in Nat
    OBVIOUS
  <2>2. n = [i \in 1 .. Len(u) |-> PairOf(u[i])]
    BY <1>1, <2>1
  <2> HIDE DEF n
  <2> QED BY <1>2, <2>1, <2>2
<1>4. Merged = Cached \o s
  BY <1>3 DEF Merged
<1> HIDE DEF n
<1>5. PICK b \in Seq(Pair) : b = Cached
  BY CachedIs
<1>6. /\ DOMAIN (b \o s) = 1 .. Len(b) + Len(s) /\ Len(b) \in Nat /\ Len(s) \in Nat
      /\ DOMAIN b = 1 .. Len(b) /\ DOMAIN s = 1 .. Len(s)
      /\ \A i \in 1 .. Len(b) : (b \o s)[i] = b[i]
      /\ \A i \in 1 .. Len(s) : (b \o s)[Len(b) + i] = s[i]
  BY ConcatIs
<1>7. ASSUME NEW i \in DOMAIN (b \o s) PROVE (b \o s)[i] \in ToSet(b) \/ Right((b \o s)[i])
  <2>1. CASE i \in 1 .. Len(b)
    BY <1>6, <2>1 DEF ToSet
  <2>2. CASE i \notin 1 .. Len(b)
    <3>1. i - Len(b) \in 1 .. Len(s) /\ i = Len(b) + (i - Len(b))
      BY <1>6, <2>2
    <3>2. PICK k \in DOMAIN u : (b \o s)[i] = PairOf(u[k])
      BY <1>3, <1>6, <3>1
    <3>3. u[k] \in Everywhere /\ PairOf(u[k]).id = u[k].id /\ PairOf(u[k]).ev = u[k].ev
      BY <1>1 DEF Everywhere, PairOf
    <3> QED BY <3>2, <3>3 DEF Right
  <2> QED BY <2>1, <2>2
<1>8. b \o s \in Seq(Pair)
  OBVIOUS
<1> QED BY <1>4, <1>5, <1>7, <1>8 DEF ToSet

\* The columns of what a search writes.
LEMMA ColumnsAre ==
  ASSUME NEW m \in Seq(Pair)
  PROVE  /\ [i \in DOMAIN m |-> m[i].ev] \in Seq(Event) /\ [i \in DOMAIN m |-> m[i].id] \in Seq(Nat)
         /\ Len([i \in DOMAIN m |-> m[i].ev]) = Len(m) /\ Len([i \in DOMAIN m |-> m[i].id]) = Len(m)
         /\ \A i \in DOMAIN m : m[i] = [id |-> m[i].id, ev |-> m[i].ev]
<1>1. Len(m) \in Nat /\ DOMAIN m = 1 .. Len(m) /\ \A i \in 1 .. Len(m) : m[i] \in Pair
  OBVIOUS
<1>2. \A i \in 1 .. Len(m) : m[i].ev \in Event /\ m[i].id \in Nat
  BY <1>1 DEF Pair
<1>3. \A i \in DOMAIN m : m[i] = [id |-> m[i].id, ev |-> m[i].ev]
  BY <1>1 DEF Pair
<1>4. [i \in 1 .. Len(m) |-> m[i].ev] \in Seq(Event) /\ [i \in 1 .. Len(m) |-> m[i].id] \in Seq(Nat)
  BY <1>1, <1>2
<1> QED BY <1>1, <1>3, <1>4

\* Every step keeps the types.
LEMMA VectorTypesStep == VectorsInv /\ [Next]_vars => VectorTypes'
<1> SUFFICES ASSUME VectorsInv, [Next]_vars PROVE VectorTypes'
  OBVIOUS
<1>t. IInv /\ VectorTypes
  BY DEF VectorsInv
<1>1. CASE Elsewhere
  BY <1>t, <1>1 DEF Elsewhere, VectorTypes
<1>2. ASSUME NEW p \in Proc, SearchVectors(p) PROVE VectorTypes'
  BY <1>t, <1>2, MergedIs DEF SearchVectors, VectorTypes
<1>3. ASSUME NEW p \in Proc, SaveVecs(p) PROVE VectorTypes'
  <2>1. merged[p] \in Seq(Pair)
    BY <1>t DEF VectorTypes
  <2>2. vecs' = [i \in DOMAIN merged[p] |-> merged[p][i].ev]
    BY <1>3 DEF SaveVecs
  <2>3. vecs' \in Seq(Event)
    BY <2>1, <2>2, ColumnsAre
  <2> QED BY <1>t, <1>3, <2>3 DEF SaveVecs, VectorTypes
<1>4. ASSUME NEW p \in Proc, SaveIds(p) PROVE VectorTypes'
  <2>1. merged[p] \in Seq(Pair)
    BY <1>t DEF VectorTypes
  <2>2. ids' = [i \in DOMAIN merged[p] |-> merged[p][i].id]
    BY <1>4 DEF SaveIds
  <2>3. ids' \in Seq(Nat)
    BY <2>1, <2>2, ColumnsAre
  <2> QED BY <1>t, <1>4, <2>3 DEF SaveIds, VectorTypes
<1>5. ASSUME NEW p \in Proc, Kill(p) PROVE VectorTypes'
  BY <1>t, <1>5 DEF Kill, VectorTypes
<1> QED BY <1>t, <1>1, <1>2, <1>3, <1>4, <1>5, OtherSteps

\* Nobody else searches while one does.
LEMMA SearchesAlone ==
  ASSUME OneSearches, VectorsInv, NEW p \in Searchers, NEW q \in Proc, q # p
  PROVE  pc[q] \notin {"vecs", "ids"}
BY DEF OneSearches, VectorsInv, Encoded

\* What was encoded stays right, and the two files are written together.
LEMMA EncodedStep == OneSearches /\ VectorsInv /\ [Next]_vars => Encoded'
<1> SUFFICES ASSUME OneSearches, VectorsInv, [Next]_vars PROVE Encoded'
  OBVIOUS
<1>t. /\ IInv /\ VectorTypes /\ Encoded
      /\ pc \in [Proc -> Writing \cup {"idle", "vecs", "ids"}] /\ torn \in BOOLEAN
      /\ merged \in [Proc -> Seq(Pair)]
  BY DEF VectorsInv, IInv, LogInv, TypeOK, VectorTypes
<1>s. ASSUME aside' = {} PROVE aside = {} /\ \A c : Right(c) => Right(c)'
  <2>1. aside = {}
    <3>1. CASE Quiet \/ SetAside
      BY <1>s, <3>1 DEF Quiet, SetAside
    <3>2. ASSUME NEW p \in Proc, SaveLog(p) \/ SaveStale(p) PROVE aside = {}
      BY <1>s, <3>2 DEF SaveLog, SaveStale
    <3> QED BY <1>t, <3>1, <3>2, FilesStep
  <2> QED BY <1>s, <1>t, <2>1, RightStays
<1> USE DEF Writing
<1>1. CASE Elsewhere
  <2>1. /\ torn' = torn /\ merged' = merged /\ vecs' = vecs /\ Cached' = Cached
        /\ \A p \in Proc : pc'[p] \in {"vecs", "ids"} \/ pc[p] \in {"vecs", "ids"} => pc'[p] = pc[p]
    BY <1>1 DEF Elsewhere, Cached
  <2>2. ASSUME NEW p \in Proc
        PROVE  /\ pc'[p] \in {"vecs", "ids"} => p \in Searchers
               /\ pc'[p] = "ids" => vecs' = [i \in DOMAIN merged'[p] |-> merged'[p][i].ev]
    BY <1>t, <2>1 DEF Encoded
  <2>3. ASSUME aside' = {}, ~torn', \A p \in Proc : pc'[p] # "ids", NEW c \in ToSet(Cached')
        PROVE  Right(c)'
    BY <1>s, <1>t, <2>1, <2>3 DEF Encoded
  <2>4. ASSUME aside' = {}, ~torn', NEW p \in Proc, pc'[p] \in {"vecs", "ids"},
               NEW c \in ToSet(merged'[p])
        PROVE  Right(c)'
    BY <1>s, <1>t, <2>1, <2>4 DEF Encoded
  <2> QED BY <2>2, <2>3, <2>4 DEF Encoded
<1>2. ASSUME NEW p \in Proc, SearchVectors(p) PROVE Encoded'
  <2>1. /\ p \in Searchers /\ pc[p] = "idle" /\ pc'[p] = "vecs" /\ merged'[p] = Merged
        /\ \A q \in Proc : q # p => pc'[q] = pc[q]
        /\ torn' = torn /\ vecs' = vecs /\ ids' = ids /\ aside' = aside /\ Cached' = Cached
    BY <1>t, <1>2 DEF SearchVectors, past, store, Cached
  <2>2. \A q \in Proc : q # p => pc'[q] \notin {"vecs", "ids"}
    BY <2>1, SearchesAlone
  <2>3. ASSUME aside = {}, ~torn PROVE \A c \in ToSet(Cached) : Right(c)
    <3>1. \A q \in Proc : pc[q] # "ids"
      BY <2>1, <2>2
    <3> QED BY <1>t, <2>3, <3>1 DEF Encoded
  <2>4. \A c \in ToSet(Merged) : c \in ToSet(Cached) \/ Right(c)
    BY <1>t, MergedIs
  <2>5. ASSUME aside' = {}, ~torn' PROVE \A c \in ToSet(Cached) \cup ToSet(Merged) : Right(c)'
    BY <1>s, <2>1, <2>3, <2>4, <2>5
  <2> QED BY <2>1, <2>2, <2>5 DEF Encoded
<1>3. ASSUME NEW p \in Proc, SaveVecs(p) PROVE Encoded'
  <2>1. /\ pc[p] = "vecs" /\ pc'[p] = "ids" /\ merged' = merged
        /\ vecs' = [i \in DOMAIN merged[p] |-> merged[p][i].ev]
        /\ \A q \in Proc : q # p => pc'[q] = pc[q]
        /\ torn' = torn /\ aside' = aside
    BY <1>t, <1>3 DEF SaveVecs, past, store
  <2>2. p \in Searchers
    BY <1>t, <2>1 DEF Encoded
  <2>3. \A q \in Proc : q # p => pc'[q] \notin {"vecs", "ids"}
    BY <2>1, <2>2, SearchesAlone
  <2>4. ASSUME aside' = {}, ~torn' PROVE \A c \in ToSet(merged[p]) : Right(c)'
    BY <1>s, <1>t, <2>1, <2>4 DEF Encoded
  <2> QED BY <2>1, <2>2, <2>3, <2>4 DEF Encoded
<1>4. ASSUME NEW p \in Proc, SaveIds(p) PROVE Encoded'
  <2>1. /\ pc[p] = "ids" /\ pc'[p] = "idle" /\ vecs' = vecs
        /\ ids' = [i \in DOMAIN merged[p] |-> merged[p][i].id]
        /\ \A q \in Proc : q # p => pc'[q] = pc[q]
        /\ torn' = torn /\ aside' = aside
    BY <1>t, <1>4 DEF SaveIds, past, store
  <2>2. p \in Searchers /\ vecs = [i \in DOMAIN merged[p] |-> merged[p][i].ev]
    BY <1>t, <2>1 DEF Encoded
  <2>3. \A q \in Proc : pc'[q] \notin {"vecs", "ids"}
    BY <2>1, <2>2, SearchesAlone
  <2>4. PICK m \in Seq(Pair) : m = merged[p]
    BY <1>t
  <2>5. ToSet(Cached') = ToSet(m)
    <3>1. /\ Len(vecs') = Len(ids') /\ DOMAIN ids' = DOMAIN m
          /\ \A i \in DOMAIN m : [id |-> ids'[i], ev |-> vecs'[i]] = m[i]
      <4>1. /\ ids' = [i \in DOMAIN m |-> m[i].id]
            /\ vecs' = [i \in DOMAIN m |-> m[i].ev]
        BY <2>1, <2>2, <2>4
      <4>2. /\ Len([i \in DOMAIN m |-> m[i].ev]) = Len(m) /\ Len([i \in DOMAIN m |-> m[i].id]) = Len(m)
            /\ \A i \in DOMAIN m : m[i] = [id |-> m[i].id, ev |-> m[i].ev]
        BY ColumnsAre, Zenon
      <4>3. DOMAIN ids' = DOMAIN m /\ Len(vecs') = Len(ids')
        BY <4>1, <4>2
      <4>4. \A i \in DOMAIN m : ids'[i] = m[i].id /\ vecs'[i] = m[i].ev
        BY <4>1
      <4>5. \A i \in DOMAIN m : [id |-> ids'[i], ev |-> vecs'[i]] = m[i]
        BY <4>2, <4>4
      <4> QED BY <4>3, <4>5
    <3>2. Cached' = [i \in DOMAIN m |-> [id |-> ids'[i], ev |-> vecs'[i]]]
      BY <3>1 DEF Cached
    <3>3. DOMAIN Cached' = DOMAIN m /\ \A i \in DOMAIN m : Cached'[i] = m[i]
      BY <3>1, <3>2
    <3> QED BY <3>3 DEF ToSet
  <2>6. ASSUME aside' = {}, ~torn' PROVE \A c \in ToSet(Cached') : Right(c)'
    BY <1>s, <1>t, <2>1, <2>4, <2>5, <2>6 DEF Encoded
  <2> QED BY <2>3, <2>6 DEF Encoded
<1>5. ASSUME NEW p \in Proc, Kill(p) PROVE Encoded'
  <2>1. /\ pc'[p] = "idle" /\ torn' = (torn \/ pc[p] = "ids") /\ vecs' = vecs
        /\ \A q \in Proc : q # p => pc'[q] = pc[q] /\ merged'[q] = merged[q]
        /\ Cached' = Cached
    BY <1>t, <1>5 DEF Kill, Cached
  <2>2. ASSUME NEW q \in Proc
        PROVE  /\ pc'[q] \in {"vecs", "ids"} => q \in Searchers
               /\ pc'[q] = "ids" => vecs' = [i \in DOMAIN merged'[q] |-> merged'[q][i].ev]
    <3>1. CASE q = p
      BY <2>1, <3>1
    <3>2. CASE q # p
      BY <1>t, <2>1, <3>2 DEF Encoded
    <3> QED BY <3>1, <3>2
  <2>3. ASSUME aside' = {}, ~torn', \A q \in Proc : pc'[q] # "ids", NEW c \in ToSet(Cached')
        PROVE  Right(c)'
    <3>1. ~torn /\ \A q \in Proc : pc[q] # "ids"
      BY <1>t, <2>1, <2>3
    <3> QED BY <1>s, <1>t, <2>1, <2>3, <3>1 DEF Encoded
  <2>4. ASSUME aside' = {}, ~torn', NEW q \in Proc, pc'[q] \in {"vecs", "ids"},
               NEW c \in ToSet(merged'[q])
        PROVE  Right(c)'
    <3>1. q # p /\ ~torn
      BY <1>t, <2>1, <2>4
    <3> QED BY <1>s, <1>t, <2>1, <2>4, <3>1 DEF Encoded
  <2> QED BY <2>2, <2>3, <2>4 DEF Encoded
<1> QED BY <1>t, <1>1, <1>2, <1>3, <1>4, <1>5, OtherSteps

LEMMA VectorsAlways == OneSearches => (Spec => []VectorsInv)
<1> SUFFICES ASSUME OneSearches PROVE Spec => []VectorsInv
  OBVIOUS
<1>1. Init => VectorsInv
  <2> SUFFICES ASSUME Init PROVE VectorsInv
    OBVIOUS
  <2>1. VectorTypes
    BY DEF Init, VectorTypes
  <2>2. Cached = <<>>
    BY <2>1, CachedIs DEF Init, Cached
  <2>3. Encoded
    BY <2>2 DEF Init, Encoded, ToSet
  <2> QED BY <2>1, <2>3, InitInv DEF VectorsInv
<1>2. VectorsInv /\ [Next]_vars => VectorsInv'
  BY StepInv, VectorTypesStep, EncodedStep DEF VectorsInv
<1> QED BY <1>1, <1>2, PTL DEF Spec

\* A hit in the cache is the vector of the event that was asked for, whatever is
\* logged, rotated, refused or killed between two searches of one process
\* (_load_vec_cache(), _save_vec_cache()).
THEOREM VectorsSafe == OneSearches => (Spec => []VectorsRight)
<1>1. VectorsInv => VectorsRight
  <2> SUFFICES ASSUME VectorsInv PROVE VectorsRight
    OBVIOUS
  <2>1. VectorTypes /\ Encoded /\ IdNamesOne
    BY DEF VectorsInv, IInv, LogInv
  <2> QED BY <2>1 DEF VectorTypes, Encoded, IdNamesOne, Right, VectorsRight, VectorOfItsEvent
<1> QED BY <1>1, VectorsAlways, PTL
=============================================================================
