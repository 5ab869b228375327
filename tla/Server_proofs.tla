---------------------------- MODULE Server_proofs ----------------------------
(***************************************************************************)
(* Proofs about Server, for any number of threads, slots, commits and      *)
(* evictions: who computes, who holds the lock and the slots, why a cached *)
(* result may be stale, and what a lookup is given.  Then, for any number  *)
(* of requests and recordings, about the Behaviour trackers that the same  *)
(* requests load, change and save: what their merges keep of each other.   *)
(***************************************************************************)
EXTENDS Server, Behaviour, Selection_proofs

\* The inductive invariant: all that the runs check.
IInv == ThreadsInv /\ CacheExplained /\ LookupsAgree /\ AnswersFresh

-----------------------------------------------------------------------------
\* There is a number for a new indexer: one more than there are threads.
LEMMA UnusedLoad ==
  ASSUME TypeOK, indexer = 0
  PROVE  /\ Unused \in Load \ {0}
         /\ \A u \in Thread : Unused # mine[u]
<1>1. Cardinality(Thread) \in Nat
  BY ThreadAssumption, FS_CardinalityType
<1>2. PICK n \in 1 .. Cardinality(Thread) + 1 : \A u \in Thread : n # mine[u]
  <2> DEFINE S == 1 .. Cardinality(Thread) + 1
             f == [n \in S |-> CHOOSE u \in Thread : n = mine[u]]
  <2> SUFFICES ASSUME \A n \in S : \E u \in Thread : n = mine[u] PROVE FALSE
    OBVIOUS
  <2>1. \A n \in S : f[n] \in Thread /\ mine[f[n]] = n
    OBVIOUS
  <2>2. IsFiniteSet(S) /\ Cardinality(S) = Cardinality(Thread) + 1
    BY <1>1, FS_Interval
  <2>3. Cardinality(Thread) < Cardinality(S)
    BY <1>1, <2>2
  <2>4. f \in [S -> Thread]
    BY <2>1
  <2>5. \E x, y \in S : x # y /\ f[x] = f[y]
    <3> HIDE DEF S, f
    <3> QED BY <2>2, <2>3, <2>4, ThreadAssumption, FS_PigeonHole
  <2> QED BY <2>1, <2>5
<1>3. n \in Load \ {0} /\ n # indexer
  BY <1>1 DEF Load
<1> QED
  BY <1>2, <1>3 DEF Unused

\* Taking and giving back a slot.
LEMMA SlotCount ==
  ASSUME TypeOK, NEW t \in Thread
  PROVE  /\ Cardinality(traced) \in Nat
         /\ t \notin traced => Cardinality(traced \cup {t}) = Cardinality(traced) + 1
         /\ t \in traced => Cardinality(traced \ {t}) = Cardinality(traced) - 1
<1>1. traced \in SUBSET Thread
  BY DEF TypeOK
<1>2. IsFiniteSet(traced)
  BY <1>1, ThreadAssumption, FS_Subset
<1> QED
  BY <1>2, FS_CardinalityType, FS_AddElement, FS_RemoveElement

\* The numbers that the types mention.
LEMMA Bounds ==
  /\ MaxCommits \in Nat /\ MaxEvicts \in Nat /\ 0 \in Load
  /\ Cardinality(Thread) \in Nat
BY BoundAssumption, ThreadAssumption, FS_CardinalityType DEF Load

\* The breaker decides: its state stays in its types.
LEMMA CheckTypes ==
  ASSUME TypeOK, Check
  PROVE  /\ state' \in {"CLOSED", "OPEN", "HALF_OPEN"} /\ cool' \in BOOLEAN
         /\ blind' \in 0 .. 2 /\ high' = high
<1>1. blind' \in 0 .. 2
  <2>1. CASE Admits /\ high /\ blind < 2
    <3>1. blind' = blind + 1
      BY <2>1 DEF Check
    <3> QED BY <2>1, <3>1 DEF TypeOK
  <2>2. CASE ~(Admits /\ high /\ blind < 2)
    BY <2>2 DEF TypeOK, Check
  <2> QED BY <2>1, <2>2
<1>2. state' \in {"CLOSED", "OPEN", "HALF_OPEN"}
  BY DEF TypeOK, Check
<1>3. cool' \in BOOLEAN /\ high' = high
  BY DEF TypeOK, Check
<1> QED BY <1>1, <1>2, <1>3

\* Every step keeps the types and the count of the slots.
LEMMA TypeStep == IInv /\ [Next]_vars => TypeOK'
<1> SUFFICES ASSUME IInv, [Next]_vars PROVE TypeOK'
  OBVIOUS
<1> USE SlotsAssumption, BoundAssumption
      DEF IInv, ThreadsInv, TypeOK, Version, Result, NoResult, Retrieving, LookingUp,
          Goto, index, results, slots, breaker, singletons, lookups
<1>0. CASE UNCHANGED vars
  BY <1>0 DEF vars, results, slots
<1>1. ASSUME NEW t \in Thread, Retrieve(t) PROVE TypeOK'
  <2>1. /\ state' \in {"CLOSED", "OPEN", "HALF_OPEN"} /\ cool' \in BOOLEAN
        /\ blind' \in 0 .. 2 /\ high' = high
    BY <1>1, CheckTypes DEF Retrieve
  <2>2. /\ \E there \in {"idle", "slot"} : pc' = [pc EXCEPT ![t] = there]
        /\ pc[t] = "idle"
    BY <1>1 DEF Retrieve
  <2>3. /\ pc' \in [Thread -> {"idle", "slot"} \cup Retrieving \cup LookingUp]
        /\ traced \subseteq {u \in Thread : pc'[u] \in Retrieving}
    BY <2>2
  <2> QED BY <1>1, <2>1, <2>3 DEF Retrieve
<1>2. ASSUME NEW t \in Thread, OrgSearch(t) PROVE TypeOK'
  BY <1>2 DEF OrgSearch
<1>3. ASSUME NEW t \in Thread, AcquireSlot(t) PROVE TypeOK'
  <2>1. t \notin traced
    BY <1>3 DEF AcquireSlot
  <2>2. free' = Slots - Cardinality(traced')
    BY <1>3, <2>1, SlotCount DEF AcquireSlot
  <2>3. pc' = [pc EXCEPT ![t] = "cache"] /\ traced' = traced \cup {t}
    BY <1>3 DEF AcquireSlot
  <2> QED BY <1>3, <2>2, <2>3 DEF AcquireSlot
<1>4. ASSUME NEW t \in Thread, NoSlot(t) PROVE TypeOK'
  BY <1>4 DEF NoSlot
<1>5. ASSUME NEW t \in Thread, LookInCache(t) PROVE TypeOK'
  BY <1>5 DEF LookInCache
<1>6. ASSUME NEW t \in Thread, JoinFlight(t) PROVE TypeOK'
  BY <1>6 DEF JoinFlight
<1>7. ASSUME NEW t \in Thread, LoadIndex(t) PROVE TypeOK'
  BY <1>7 DEF LoadIndex
<1>8. ASSUME NEW t \in Thread, Encode(t) PROVE TypeOK'
  <2>1. /\ state' \in {"CLOSED", "OPEN", "HALF_OPEN"} /\ cool' \in BOOLEAN
        /\ blind' \in 0 .. 2 /\ high' = high
    BY <1>8, CheckTypes DEF Encode
  <2>2. \E there \in {"encoding", "store", "end"} : pc' = [pc EXCEPT ![t] = there]
    BY <1>8 DEF Encode, Encoded
  <2>3. /\ pc' \in [Thread -> {"idle", "slot"} \cup Retrieving \cup LookingUp]
        /\ traced \subseteq {u \in Thread : pc'[u] \in Retrieving}
    BY <2>2
  <2> QED BY <1>8, <2>1, <2>3 DEF Encode
<1>9. ASSUME NEW t \in Thread, EncodeEnds(t) PROVE TypeOK'
  BY <1>9 DEF EncodeEnds, RecordSuccess, Encoded
<1>10. ASSUME NEW t \in Thread, EncodeFails(t) PROVE TypeOK'
  BY <1>10 DEF EncodeFails
<1>11. ASSUME NEW t \in Thread, Store(t) PROVE TypeOK'
  BY <1>11 DEF Store, Stored, ResultOf
<1>12. ASSUME NEW t \in Thread, Leave(t) PROVE TypeOK'
  BY <1>12 DEF Leave, Popped, Woken
<1>13. ASSUME NEW t \in Thread, GiveUp(t) PROVE TypeOK'
  BY <1>13 DEF GiveUp
<1>14. ASSUME NEW t \in Thread, Recheck(t) PROVE TypeOK'
  BY <1>14 DEF Recheck
<1>15. ASSUME NEW t \in Thread, End(t) PROVE TypeOK'
  <2>1. free' = Slots - Cardinality(traced')
    <3>1. CASE t \in traced
      <4>1. traced' = traced \ {t} /\ free' = free + 1
        BY <1>15, <3>1 DEF End, Released
      <4>2. Cardinality(traced) \in Nat /\ Cardinality(traced') = Cardinality(traced) - 1
        BY <3>1, <4>1, SlotCount
      <4>3. free = Slots - Cardinality(traced)
        OBVIOUS
      <4> QED BY <4>1, <4>2, <4>3
    <3>2. CASE t \notin traced
      <4>1. traced' = traced /\ free' = free
        BY <1>15, <3>2 DEF End
      <4> QED BY <4>1
    <3> QED BY <3>1, <3>2
  <2>2. traced' = traced \ {t} /\ pc' = [pc EXCEPT ![t] = "idle"]
    BY <1>15 DEF End
  <2>3. state' \in {state, "CLOSED"} /\ cool' \in {cool, FALSE} /\ UNCHANGED <<high, blind>>
    BY <1>15 DEF End, RecordSuccess
  <2>4. /\ pc' \in [Thread -> {"idle", "slot"} \cup Retrieving \cup LookingUp]
        /\ traced' \subseteq {u \in Thread : pc'[u] \in Retrieving}
    BY <2>2
  <2>5. /\ loaded' \in [Thread -> Version] /\ failed' \in [Thread -> BOOLEAN]
        /\ crossed' \in [Thread -> BOOLEAN] /\ slow' \in [Thread -> BOOLEAN]
    BY <1>15, Bounds DEF End
  <2>6. UNCHANGED <<index, cached, flight, singletons, lookups, evicts>>
    BY <1>15 DEF End
  <2>7. /\ state' \in {"CLOSED", "OPEN", "HALF_OPEN"} /\ cool' \in BOOLEAN
        /\ high' \in BOOLEAN /\ blind' \in 0 .. 2
    BY <2>3
  <2> QED BY <2>1, <2>4, <2>5, <2>6, <2>7
<1>16. ASSUME NEW t \in Thread, Lookup(t) PROVE TypeOK'
  BY <1>16 DEF Lookup
<1>17. ASSUME NEW t \in Thread, LookForGraph(t) PROVE TypeOK'
  BY <1>17 DEF LookForGraph
<1>18. ASSUME NEW t \in Thread, TakeLock(t) PROVE TypeOK'
  BY <1>18 DEF TakeLock
<1>19. ASSUME NEW t \in Thread, MakeGraph(t) PROVE TypeOK'
  <2>1. \E there \in LookingUp : pc' = [pc EXCEPT ![t] = there]
    BY <1>19 DEF MakeGraph, FoundMade, GraphReturns
  <2>2. pc[t] = "graphMake" /\ t \notin traced
    BY <1>19 DEF MakeGraph
  <2>3. /\ pc' \in [Thread -> {"idle", "slot"} \cup Retrieving \cup LookingUp]
        /\ traced \subseteq {u \in Thread : pc'[u] \in Retrieving}
    BY <2>1, <2>2
  <2>4. lock' = None /\ graph' \in BOOLEAN
    BY <1>19 DEF MakeGraph, FoundMade, GraphReturns
  <2> QED BY <1>19, <2>3, <2>4 DEF MakeGraph
<1>20. ASSUME NEW t \in Thread, ReturnGraph(t) PROVE TypeOK'
  BY <1>20 DEF ReturnGraph, GraphReturns
<1>21. ASSUME NEW t \in Thread, LookForIndexer(t) PROVE TypeOK'
  BY <1>21 DEF LookForIndexer, BeforeGraph
<1>22. ASSUME NEW t \in Thread, MakeIndexer(t) PROVE TypeOK'
  <2>1. CASE indexer = 0
    <3>1. Unused \in Load
      BY <2>1, UnusedLoad
    <3>2. fresh' \in [Load -> Version \cup {Unloaded}] /\ mine' \in [Thread -> Load]
      BY <1>22, <2>1, <3>1 DEF MakeIndexer, IndexerMissing
    <3> QED BY <1>22, <2>1, <3>1, <3>2 DEF MakeIndexer, IndexerMissing
  <2>2. CASE indexer # 0
    BY <1>22, <2>2 DEF MakeIndexer, IndexerMissing
  <2> QED BY <2>1, <2>2
<1>23. ASSUME NEW t \in Thread, LoadIndexer(t) PROVE TypeOK'
  BY <1>23 DEF LoadIndexer
<1>24. ASSUME NEW t \in Thread, RefreshIndexer(t) PROVE TypeOK'
  BY <1>24 DEF RefreshIndexer, Revalidated, Met
<1>25. ASSUME NEW t \in Thread, ReturnIndexer(t) PROVE TypeOK'
  BY <1>25 DEF ReturnIndexer, Met
<1>26. ASSUME NEW t \in Thread, Answer(t) PROVE TypeOK'
  <2>1. /\ pc' \in [Thread -> {"idle", "slot"} \cup Retrieving \cup LookingUp]
        /\ traced \subseteq {u \in Thread : pc'[u] \in Retrieving}
    BY <1>26 DEF Answer
  <2>2. mine' \in [Thread -> Load] /\ after' \in [Thread -> {"empty", "make", "refresh"}]
    BY <1>26, Bounds DEF Answer
  <2>3. /\ begun' \in [Thread -> Version] /\ robbed' \in [Thread -> BOOLEAN]
        /\ early' \in [Thread -> BOOLEAN]
    BY <1>26 DEF Answer
  <2> QED BY <1>26, <2>1, <2>2, <2>3 DEF Answer
<1>27. CASE Cooldown
  BY <1>27 DEF Cooldown
<1>28. CASE Swing
  BY <1>28 DEF Swing
<1>29. CASE Trip
  BY <1>29 DEF Trip
<1>30. CASE Expire
  BY <1>30 DEF Expire
<1>31. CASE Evict
  <2>1. indexer' \in Load /\ graph' \in BOOLEAN
    BY <1>31, Bounds DEF Evict
  <2>2. evicts' \in 0 .. MaxEvicts
    BY <1>31, Bounds DEF Evict
  <2>3. robbed' \in [Thread -> BOOLEAN]
    BY <1>31 DEF Evict
  <2> QED BY <1>31, <2>1, <2>2 DEF Evict
<1>32. CASE CommitElsewhere
  BY <1>32 DEF CommitElsewhere
<1>33. CASE Commit
  BY <1>33 DEF Commit
<1>34. CASE Invalidate
  <2>1. crossed' \in [Thread -> BOOLEAN]
    BY <1>34 DEF Invalidate
  <2>2. cached' \in Result
    BY <1>34, Bounds DEF Invalidate, Invalidated
  <2> QED BY <1>34, <2>1, <2>2 DEF Invalidate
<1> QED
  BY <1>0, <1>1, <1>2, <1>3, <1>4, <1>5, <1>6, <1>7, <1>8, <1>9, <1>10, <1>11,
     <1>12, <1>13, <1>14, <1>15, <1>16, <1>17, <1>18, <1>19, <1>20, <1>21,
     <1>22, <1>23, <1>24, <1>25, <1>26, <1>27, <1>28, <1>29, <1>30, <1>31,
     <1>32, <1>33, <1>34 DEF Next, Around, Run, Retrieval, LookingUpSteps

\* Whoever computes goes on to the end of the computation.
LEMMA FlightStep == IInv /\ [Next]_vars => FlightOwned'
<1> SUFFICES ASSUME IInv, [Next]_vars PROVE FlightOwned'
  OBVIOUS
<1> USE ThreadAssumption DEF IInv, ThreadsInv, TypeOK, FlightOwned, Goto, index,
          results, slots, breaker, singletons, lookups
<1>0. CASE UNCHANGED vars
  BY <1>0 DEF vars
<1>1. ASSUME NEW t \in Thread, Retrieve(t) PROVE FlightOwned'
  BY <1>1 DEF Retrieve, Check
<1>2. ASSUME NEW t \in Thread, OrgSearch(t) PROVE FlightOwned'
  BY <1>2 DEF OrgSearch
<1>3. ASSUME NEW t \in Thread, AcquireSlot(t) PROVE FlightOwned'
  BY <1>3 DEF AcquireSlot
<1>4. ASSUME NEW t \in Thread, NoSlot(t) PROVE FlightOwned'
  BY <1>4 DEF NoSlot
<1>5. ASSUME NEW t \in Thread, LookInCache(t) PROVE FlightOwned'
  BY <1>5 DEF LookInCache
<1>6. ASSUME NEW t \in Thread, JoinFlight(t) PROVE FlightOwned'
  BY <1>6 DEF JoinFlight
<1>7. ASSUME NEW t \in Thread, LoadIndex(t) PROVE FlightOwned'
  BY <1>7 DEF LoadIndex
<1>8. ASSUME NEW t \in Thread, Encode(t) PROVE FlightOwned'
  BY <1>8 DEF Encode, Check, Encoded
<1>9. ASSUME NEW t \in Thread, EncodeEnds(t) PROVE FlightOwned'
  BY <1>9 DEF EncodeEnds, RecordSuccess, Encoded
<1>10. ASSUME NEW t \in Thread, EncodeFails(t) PROVE FlightOwned'
  BY <1>10 DEF EncodeFails
<1>11. ASSUME NEW t \in Thread, Store(t) PROVE FlightOwned'
  BY <1>11 DEF Store, Stored, ResultOf
<1>12. ASSUME NEW t \in Thread, Leave(t) PROVE FlightOwned'
  BY <1>12 DEF Leave, Popped, Woken
<1>13. ASSUME NEW t \in Thread, GiveUp(t) PROVE FlightOwned'
  BY <1>13 DEF GiveUp
<1>14. ASSUME NEW t \in Thread, Recheck(t) PROVE FlightOwned'
  BY <1>14 DEF Recheck
<1>15. ASSUME NEW t \in Thread, End(t) PROVE FlightOwned'
  BY <1>15 DEF End, RecordSuccess, Released
<1>16. ASSUME NEW t \in Thread, Lookup(t) PROVE FlightOwned'
  BY <1>16 DEF Lookup
<1>17. ASSUME NEW t \in Thread, LookForGraph(t) PROVE FlightOwned'
  BY <1>17 DEF LookForGraph
<1>18. ASSUME NEW t \in Thread, TakeLock(t) PROVE FlightOwned'
  BY <1>18 DEF TakeLock
<1>19. ASSUME NEW t \in Thread, MakeGraph(t) PROVE FlightOwned'
  BY <1>19 DEF MakeGraph, FoundMade, GraphReturns
<1>20. ASSUME NEW t \in Thread, ReturnGraph(t) PROVE FlightOwned'
  BY <1>20 DEF ReturnGraph, GraphReturns
<1>21. ASSUME NEW t \in Thread, LookForIndexer(t) PROVE FlightOwned'
  BY <1>21 DEF LookForIndexer, BeforeGraph
<1>22. ASSUME NEW t \in Thread, MakeIndexer(t) PROVE FlightOwned'
  BY <1>22 DEF MakeIndexer, IndexerMissing
<1>23. ASSUME NEW t \in Thread, LoadIndexer(t) PROVE FlightOwned'
  BY <1>23 DEF LoadIndexer
<1>24. ASSUME NEW t \in Thread, RefreshIndexer(t) PROVE FlightOwned'
  BY <1>24 DEF RefreshIndexer, Revalidated, Met
<1>25. ASSUME NEW t \in Thread, ReturnIndexer(t) PROVE FlightOwned'
  BY <1>25 DEF ReturnIndexer, Met
<1>26. ASSUME NEW t \in Thread, Answer(t) PROVE FlightOwned'
  BY <1>26 DEF Answer
<1>27. CASE Cooldown
  BY <1>27 DEF Cooldown
<1>28. CASE Swing
  BY <1>28 DEF Swing
<1>29. CASE Trip
  BY <1>29 DEF Trip
<1>30. CASE Expire
  BY <1>30 DEF Expire
<1>31. CASE Evict
  BY <1>31 DEF Evict
<1>32. CASE CommitElsewhere
  BY <1>32 DEF CommitElsewhere
<1>33. CASE Commit
  BY <1>33 DEF Commit
<1>34. CASE Invalidate
  BY <1>34 DEF Invalidate, Invalidated
<1> QED
  BY <1>0, <1>1, <1>2, <1>3, <1>4, <1>5, <1>6, <1>7, <1>8, <1>9, <1>10, <1>11,
     <1>12, <1>13, <1>14, <1>15, <1>16, <1>17, <1>18, <1>19, <1>20, <1>21,
     <1>22, <1>23, <1>24, <1>25, <1>26, <1>27, <1>28, <1>29, <1>30, <1>31,
     <1>32, <1>33, <1>34 DEF Next, Around, Run, Retrieval, LookingUpSteps

\* Whoever holds the lock goes on to give it back.
LEMMA HolderStep == IInv /\ [Next]_vars => HolderLoads'
<1> SUFFICES ASSUME IInv, [Next]_vars PROVE HolderLoads'
  OBVIOUS
<1> USE ThreadAssumption DEF IInv, ThreadsInv, TypeOK, HolderLoads, Goto, index, results,
          slots, breaker, singletons, lookups
<1>0. CASE UNCHANGED vars
  BY <1>0 DEF vars
<1>1. ASSUME NEW t \in Thread, Retrieve(t) PROVE HolderLoads'
  BY <1>1 DEF Retrieve, Check
<1>2. ASSUME NEW t \in Thread, OrgSearch(t) PROVE HolderLoads'
  BY <1>2 DEF OrgSearch
<1>3. ASSUME NEW t \in Thread, AcquireSlot(t) PROVE HolderLoads'
  BY <1>3 DEF AcquireSlot
<1>4. ASSUME NEW t \in Thread, NoSlot(t) PROVE HolderLoads'
  BY <1>4 DEF NoSlot
<1>5. ASSUME NEW t \in Thread, LookInCache(t) PROVE HolderLoads'
  BY <1>5 DEF LookInCache
<1>6. ASSUME NEW t \in Thread, JoinFlight(t) PROVE HolderLoads'
  BY <1>6 DEF JoinFlight
<1>7. ASSUME NEW t \in Thread, LoadIndex(t) PROVE HolderLoads'
  BY <1>7 DEF LoadIndex
<1>8. ASSUME NEW t \in Thread, Encode(t) PROVE HolderLoads'
  BY <1>8 DEF Encode, Check, Encoded
<1>9. ASSUME NEW t \in Thread, EncodeEnds(t) PROVE HolderLoads'
  BY <1>9 DEF EncodeEnds, RecordSuccess, Encoded
<1>10. ASSUME NEW t \in Thread, EncodeFails(t) PROVE HolderLoads'
  BY <1>10 DEF EncodeFails
<1>11. ASSUME NEW t \in Thread, Store(t) PROVE HolderLoads'
  BY <1>11 DEF Store, Stored, ResultOf
<1>12. ASSUME NEW t \in Thread, Leave(t) PROVE HolderLoads'
  BY <1>12 DEF Leave, Popped, Woken
<1>13. ASSUME NEW t \in Thread, GiveUp(t) PROVE HolderLoads'
  BY <1>13 DEF GiveUp
<1>14. ASSUME NEW t \in Thread, Recheck(t) PROVE HolderLoads'
  BY <1>14 DEF Recheck
<1>15. ASSUME NEW t \in Thread, End(t) PROVE HolderLoads'
  BY <1>15 DEF End, RecordSuccess, Released
<1>16. ASSUME NEW t \in Thread, Lookup(t) PROVE HolderLoads'
  BY <1>16 DEF Lookup
<1>17. ASSUME NEW t \in Thread, LookForGraph(t) PROVE HolderLoads'
  BY <1>17 DEF LookForGraph
<1>18. ASSUME NEW t \in Thread, TakeLock(t) PROVE HolderLoads'
  BY <1>18 DEF TakeLock
<1>19. ASSUME NEW t \in Thread, MakeGraph(t) PROVE HolderLoads'
  BY <1>19 DEF MakeGraph, FoundMade, GraphReturns
<1>20. ASSUME NEW t \in Thread, ReturnGraph(t) PROVE HolderLoads'
  BY <1>20 DEF ReturnGraph, GraphReturns
<1>21. ASSUME NEW t \in Thread, LookForIndexer(t) PROVE HolderLoads'
  BY <1>21 DEF LookForIndexer, BeforeGraph
<1>22. ASSUME NEW t \in Thread, MakeIndexer(t) PROVE HolderLoads'
  BY <1>22 DEF MakeIndexer, IndexerMissing
<1>23. ASSUME NEW t \in Thread, LoadIndexer(t) PROVE HolderLoads'
  BY <1>23 DEF LoadIndexer
<1>24. ASSUME NEW t \in Thread, RefreshIndexer(t) PROVE HolderLoads'
  BY <1>24 DEF RefreshIndexer, Revalidated, Met
<1>25. ASSUME NEW t \in Thread, ReturnIndexer(t) PROVE HolderLoads'
  BY <1>25 DEF ReturnIndexer, Met
<1>26. ASSUME NEW t \in Thread, Answer(t) PROVE HolderLoads'
  BY <1>26 DEF Answer
<1>27. CASE Cooldown
  BY <1>27 DEF Cooldown
<1>28. CASE Swing
  BY <1>28 DEF Swing
<1>29. CASE Trip
  BY <1>29 DEF Trip
<1>30. CASE Expire
  BY <1>30 DEF Expire
<1>31. CASE Evict
  BY <1>31 DEF Evict
<1>32. CASE CommitElsewhere
  BY <1>32 DEF CommitElsewhere
<1>33. CASE Commit
  BY <1>33 DEF Commit
<1>34. CASE Invalidate
  BY <1>34 DEF Invalidate, Invalidated
<1> QED
  BY <1>0, <1>1, <1>2, <1>3, <1>4, <1>5, <1>6, <1>7, <1>8, <1>9, <1>10, <1>11,
     <1>12, <1>13, <1>14, <1>15, <1>16, <1>17, <1>18, <1>19, <1>20, <1>21,
     <1>22, <1>23, <1>24, <1>25, <1>26, <1>27, <1>28, <1>29, <1>30, <1>31,
     <1>32, <1>33, <1>34 DEF Next, Around, Run, Retrieval, LookingUpSteps

\* One probe between two cooldowns.
LEMMA ProbeStep == IInv /\ [Next]_vars => (OneProbe /\ ProbeUnused)'
<1> SUFFICES ASSUME IInv, [Next]_vars PROVE (OneProbe /\ ProbeUnused)'
  OBVIOUS
<1> USE DEF IInv, ThreadsInv, TypeOK, OneProbe, ProbeUnused, Goto, index, results, slots,
          breaker, singletons, lookups
<1>0. CASE UNCHANGED vars
  BY <1>0 DEF vars
<1>1. ASSUME NEW t \in Thread, Retrieve(t) PROVE (OneProbe /\ ProbeUnused)'
  BY <1>1 DEF Retrieve, Check, Admits, HalfOpenAdmits
<1>2. ASSUME NEW t \in Thread, OrgSearch(t) PROVE (OneProbe /\ ProbeUnused)'
  BY <1>2 DEF OrgSearch
<1>3. ASSUME NEW t \in Thread, AcquireSlot(t) PROVE (OneProbe /\ ProbeUnused)'
  BY <1>3 DEF AcquireSlot
<1>4. ASSUME NEW t \in Thread, NoSlot(t) PROVE (OneProbe /\ ProbeUnused)'
  BY <1>4 DEF NoSlot
<1>5. ASSUME NEW t \in Thread, LookInCache(t) PROVE (OneProbe /\ ProbeUnused)'
  BY <1>5 DEF LookInCache
<1>6. ASSUME NEW t \in Thread, JoinFlight(t) PROVE (OneProbe /\ ProbeUnused)'
  BY <1>6 DEF JoinFlight
<1>7. ASSUME NEW t \in Thread, LoadIndex(t) PROVE (OneProbe /\ ProbeUnused)'
  BY <1>7 DEF LoadIndex
<1>8. ASSUME NEW t \in Thread, Encode(t) PROVE (OneProbe /\ ProbeUnused)'
  BY <1>8 DEF Encode, Check, Admits, HalfOpenAdmits
<1>9. ASSUME NEW t \in Thread, EncodeEnds(t) PROVE (OneProbe /\ ProbeUnused)'
  BY <1>9 DEF EncodeEnds, RecordSuccess, Encoded
<1>10. ASSUME NEW t \in Thread, EncodeFails(t) PROVE (OneProbe /\ ProbeUnused)'
  BY <1>10 DEF EncodeFails
<1>11. ASSUME NEW t \in Thread, Store(t) PROVE (OneProbe /\ ProbeUnused)'
  BY <1>11 DEF Store, Stored, ResultOf
<1>12. ASSUME NEW t \in Thread, Leave(t) PROVE (OneProbe /\ ProbeUnused)'
  BY <1>12 DEF Leave, Popped, Woken
<1>13. ASSUME NEW t \in Thread, GiveUp(t) PROVE (OneProbe /\ ProbeUnused)'
  BY <1>13 DEF GiveUp
<1>14. ASSUME NEW t \in Thread, Recheck(t) PROVE (OneProbe /\ ProbeUnused)'
  BY <1>14 DEF Recheck
<1>15. ASSUME NEW t \in Thread, End(t) PROVE (OneProbe /\ ProbeUnused)'
  BY <1>15 DEF End, RecordSuccess, Released
<1>16. ASSUME NEW t \in Thread, Lookup(t) PROVE (OneProbe /\ ProbeUnused)'
  BY <1>16 DEF Lookup
<1>17. ASSUME NEW t \in Thread, LookForGraph(t) PROVE (OneProbe /\ ProbeUnused)'
  BY <1>17 DEF LookForGraph
<1>18. ASSUME NEW t \in Thread, TakeLock(t) PROVE (OneProbe /\ ProbeUnused)'
  BY <1>18 DEF TakeLock
<1>19. ASSUME NEW t \in Thread, MakeGraph(t) PROVE (OneProbe /\ ProbeUnused)'
  BY <1>19 DEF MakeGraph, FoundMade, GraphReturns
<1>20. ASSUME NEW t \in Thread, ReturnGraph(t) PROVE (OneProbe /\ ProbeUnused)'
  BY <1>20 DEF ReturnGraph, GraphReturns
<1>21. ASSUME NEW t \in Thread, LookForIndexer(t) PROVE (OneProbe /\ ProbeUnused)'
  BY <1>21 DEF LookForIndexer, BeforeGraph
<1>22. ASSUME NEW t \in Thread, MakeIndexer(t) PROVE (OneProbe /\ ProbeUnused)'
  BY <1>22 DEF MakeIndexer, IndexerMissing
<1>23. ASSUME NEW t \in Thread, LoadIndexer(t) PROVE (OneProbe /\ ProbeUnused)'
  BY <1>23 DEF LoadIndexer
<1>24. ASSUME NEW t \in Thread, RefreshIndexer(t) PROVE (OneProbe /\ ProbeUnused)'
  BY <1>24 DEF RefreshIndexer, Revalidated, Met
<1>25. ASSUME NEW t \in Thread, ReturnIndexer(t) PROVE (OneProbe /\ ProbeUnused)'
  BY <1>25 DEF ReturnIndexer, Met
<1>26. ASSUME NEW t \in Thread, Answer(t) PROVE (OneProbe /\ ProbeUnused)'
  BY <1>26 DEF Answer
<1>27. CASE Cooldown
  BY <1>27 DEF Cooldown
<1>28. CASE Swing
  BY <1>28 DEF Swing
<1>29. CASE Trip
  BY <1>29 DEF Trip
<1>30. CASE Expire
  BY <1>30 DEF Expire
<1>31. CASE Evict
  BY <1>31 DEF Evict
<1>32. CASE CommitElsewhere
  BY <1>32 DEF CommitElsewhere
<1>33. CASE Commit
  BY <1>33 DEF Commit
<1>34. CASE Invalidate
  BY <1>34 DEF Invalidate, Invalidated
<1> QED
  BY <1>0, <1>1, <1>2, <1>3, <1>4, <1>5, <1>6, <1>7, <1>8, <1>9, <1>10, <1>11,
     <1>12, <1>13, <1>14, <1>15, <1>16, <1>17, <1>18, <1>19, <1>20, <1>21,
     <1>22, <1>23, <1>24, <1>25, <1>26, <1>27, <1>28, <1>29, <1>30, <1>31,
     <1>32, <1>33, <1>34 DEF Next, Around, Run, Retrieval, LookingUpSteps

\* The cache: an old result comes from a computation that an invalidation crossed.
LEMMA OldStep == IInv /\ [Next]_vars => OldOnlyIfCrossed'
<1> SUFFICES ASSUME IInv, [Next]_vars PROVE OldOnlyIfCrossed'
  OBVIOUS
<1> USE DEF IInv, ThreadsInv, TypeOK, CacheExplained, OldOnlyIfCrossed, Crossing, Version,
          Result, NoResult, index, results, slots, breaker, singletons, lookups
<1>0. CASE UNCHANGED vars
  BY <1>0 DEF vars
<1>1. ASSUME NEW t \in Thread, Retrieve(t) PROVE OldOnlyIfCrossed'
  BY <1>1 DEF Retrieve, Check
<1>2. ASSUME NEW t \in Thread, OrgSearch(t) PROVE OldOnlyIfCrossed'
  BY <1>2 DEF OrgSearch
<1>3. ASSUME NEW t \in Thread, AcquireSlot(t) PROVE OldOnlyIfCrossed'
  BY <1>3 DEF AcquireSlot
<1>4. ASSUME NEW t \in Thread, NoSlot(t) PROVE OldOnlyIfCrossed'
  BY <1>4 DEF NoSlot
<1>5. ASSUME NEW t \in Thread, LookInCache(t) PROVE OldOnlyIfCrossed'
  BY <1>5 DEF LookInCache
<1>6. ASSUME NEW t \in Thread, JoinFlight(t) PROVE OldOnlyIfCrossed'
  BY <1>6 DEF JoinFlight
<1>7. ASSUME NEW t \in Thread, LoadIndex(t) PROVE OldOnlyIfCrossed'
  BY <1>7 DEF LoadIndex
<1>8. ASSUME NEW t \in Thread, Encode(t) PROVE OldOnlyIfCrossed'
  BY <1>8 DEF Encode, Check, Encoded
<1>9. ASSUME NEW t \in Thread, EncodeEnds(t) PROVE OldOnlyIfCrossed'
  BY <1>9 DEF EncodeEnds, RecordSuccess, Encoded
<1>10. ASSUME NEW t \in Thread, EncodeFails(t) PROVE OldOnlyIfCrossed'
  BY <1>10 DEF EncodeFails
<1>11. ASSUME NEW t \in Thread, Store(t) PROVE OldOnlyIfCrossed'
  BY <1>11 DEF Store, Stored, ResultOf
<1>12. ASSUME NEW t \in Thread, Leave(t) PROVE OldOnlyIfCrossed'
  BY <1>12 DEF Leave, Popped, Woken
<1>13. ASSUME NEW t \in Thread, GiveUp(t) PROVE OldOnlyIfCrossed'
  BY <1>13 DEF GiveUp
<1>14. ASSUME NEW t \in Thread, Recheck(t) PROVE OldOnlyIfCrossed'
  BY <1>14 DEF Recheck
<1>15. ASSUME NEW t \in Thread, End(t) PROVE OldOnlyIfCrossed'
  BY <1>15 DEF End, RecordSuccess, Released
<1>16. ASSUME NEW t \in Thread, Lookup(t) PROVE OldOnlyIfCrossed'
  BY <1>16 DEF Lookup
<1>17. ASSUME NEW t \in Thread, LookForGraph(t) PROVE OldOnlyIfCrossed'
  BY <1>17 DEF LookForGraph
<1>18. ASSUME NEW t \in Thread, TakeLock(t) PROVE OldOnlyIfCrossed'
  BY <1>18 DEF TakeLock
<1>19. ASSUME NEW t \in Thread, MakeGraph(t) PROVE OldOnlyIfCrossed'
  BY <1>19 DEF MakeGraph, FoundMade, GraphReturns
<1>20. ASSUME NEW t \in Thread, ReturnGraph(t) PROVE OldOnlyIfCrossed'
  BY <1>20 DEF ReturnGraph, GraphReturns
<1>21. ASSUME NEW t \in Thread, LookForIndexer(t) PROVE OldOnlyIfCrossed'
  BY <1>21 DEF LookForIndexer, BeforeGraph
<1>22. ASSUME NEW t \in Thread, MakeIndexer(t) PROVE OldOnlyIfCrossed'
  BY <1>22 DEF MakeIndexer, IndexerMissing
<1>23. ASSUME NEW t \in Thread, LoadIndexer(t) PROVE OldOnlyIfCrossed'
  BY <1>23 DEF LoadIndexer
<1>24. ASSUME NEW t \in Thread, RefreshIndexer(t) PROVE OldOnlyIfCrossed'
  BY <1>24 DEF RefreshIndexer, Revalidated, Met
<1>25. ASSUME NEW t \in Thread, ReturnIndexer(t) PROVE OldOnlyIfCrossed'
  BY <1>25 DEF ReturnIndexer, Met
<1>26. ASSUME NEW t \in Thread, Answer(t) PROVE OldOnlyIfCrossed'
  BY <1>26 DEF Answer
<1>27. CASE Cooldown
  BY <1>27 DEF Cooldown
<1>28. CASE Swing
  BY <1>28 DEF Swing
<1>29. CASE Trip
  BY <1>29 DEF Trip
<1>30. CASE Expire
  BY <1>30 DEF Expire
<1>31. CASE Evict
  BY <1>31 DEF Evict
<1>32. CASE CommitElsewhere
  BY <1>32 DEF CommitElsewhere
<1>33. CASE Commit
  BY <1>33 DEF Commit
<1>34. CASE Invalidate
  BY <1>34 DEF Invalidate, Invalidated
<1> QED
  BY <1>0, <1>1, <1>2, <1>3, <1>4, <1>5, <1>6, <1>7, <1>8, <1>9, <1>10, <1>11,
     <1>12, <1>13, <1>14, <1>15, <1>16, <1>17, <1>18, <1>19, <1>20, <1>21,
     <1>22, <1>23, <1>24, <1>25, <1>26, <1>27, <1>28, <1>29, <1>30, <1>31,
     <1>32, <1>33, <1>34 DEF Next, Around, Run, Retrieval, LookingUpSteps

\* The cache: an expired result is given to those who have waited for nothing.
LEMMA ExpiredStep == IInv /\ [Next]_vars => ExpiredOnlyIfSlow'
<1> SUFFICES ASSUME IInv, [Next]_vars PROVE ExpiredOnlyIfSlow'
  OBVIOUS
<1> USE DEF IInv, ThreadsInv, TypeOK, CacheExplained, ExpiredOnlyIfSlow, Crossing, Result,
          NoResult, Goto, index, results, slots, breaker, singletons, lookups
<1>0. CASE UNCHANGED vars
  BY <1>0 DEF vars
<1>1. ASSUME NEW t \in Thread, Retrieve(t) PROVE ExpiredOnlyIfSlow'
  BY <1>1 DEF Retrieve, Check
<1>2. ASSUME NEW t \in Thread, OrgSearch(t) PROVE ExpiredOnlyIfSlow'
  BY <1>2 DEF OrgSearch
<1>3. ASSUME NEW t \in Thread, AcquireSlot(t) PROVE ExpiredOnlyIfSlow'
  BY <1>3 DEF AcquireSlot
<1>4. ASSUME NEW t \in Thread, NoSlot(t) PROVE ExpiredOnlyIfSlow'
  BY <1>4 DEF NoSlot
<1>5. ASSUME NEW t \in Thread, LookInCache(t) PROVE ExpiredOnlyIfSlow'
  BY <1>5 DEF LookInCache
<1>6. ASSUME NEW t \in Thread, JoinFlight(t) PROVE ExpiredOnlyIfSlow'
  BY <1>6 DEF JoinFlight
<1>7. ASSUME NEW t \in Thread, LoadIndex(t) PROVE ExpiredOnlyIfSlow'
  BY <1>7 DEF LoadIndex
<1>8. ASSUME NEW t \in Thread, Encode(t) PROVE ExpiredOnlyIfSlow'
  BY <1>8 DEF Encode, Check, Encoded
<1>9. ASSUME NEW t \in Thread, EncodeEnds(t) PROVE ExpiredOnlyIfSlow'
  BY <1>9 DEF EncodeEnds, RecordSuccess, Encoded
<1>10. ASSUME NEW t \in Thread, EncodeFails(t) PROVE ExpiredOnlyIfSlow'
  BY <1>10 DEF EncodeFails
<1>11. ASSUME NEW t \in Thread, Store(t) PROVE ExpiredOnlyIfSlow'
  BY <1>11 DEF Store, Stored, ResultOf
<1>12. ASSUME NEW t \in Thread, Leave(t) PROVE ExpiredOnlyIfSlow'
  BY <1>12 DEF Leave, Popped, Woken
<1>13. ASSUME NEW t \in Thread, GiveUp(t) PROVE ExpiredOnlyIfSlow'
  BY <1>13 DEF GiveUp
<1>14. ASSUME NEW t \in Thread, Recheck(t) PROVE ExpiredOnlyIfSlow'
  BY <1>14 DEF Recheck
<1>15. ASSUME NEW t \in Thread, End(t) PROVE ExpiredOnlyIfSlow'
  BY <1>15 DEF End, RecordSuccess, Released
<1>16. ASSUME NEW t \in Thread, Lookup(t) PROVE ExpiredOnlyIfSlow'
  BY <1>16 DEF Lookup
<1>17. ASSUME NEW t \in Thread, LookForGraph(t) PROVE ExpiredOnlyIfSlow'
  BY <1>17 DEF LookForGraph
<1>18. ASSUME NEW t \in Thread, TakeLock(t) PROVE ExpiredOnlyIfSlow'
  BY <1>18 DEF TakeLock
<1>19. ASSUME NEW t \in Thread, MakeGraph(t) PROVE ExpiredOnlyIfSlow'
  BY <1>19 DEF MakeGraph, FoundMade, GraphReturns
<1>20. ASSUME NEW t \in Thread, ReturnGraph(t) PROVE ExpiredOnlyIfSlow'
  BY <1>20 DEF ReturnGraph, GraphReturns
<1>21. ASSUME NEW t \in Thread, LookForIndexer(t) PROVE ExpiredOnlyIfSlow'
  BY <1>21 DEF LookForIndexer, BeforeGraph
<1>22. ASSUME NEW t \in Thread, MakeIndexer(t) PROVE ExpiredOnlyIfSlow'
  BY <1>22 DEF MakeIndexer, IndexerMissing
<1>23. ASSUME NEW t \in Thread, LoadIndexer(t) PROVE ExpiredOnlyIfSlow'
  BY <1>23 DEF LoadIndexer
<1>24. ASSUME NEW t \in Thread, RefreshIndexer(t) PROVE ExpiredOnlyIfSlow'
  BY <1>24 DEF RefreshIndexer, Revalidated, Met
<1>25. ASSUME NEW t \in Thread, ReturnIndexer(t) PROVE ExpiredOnlyIfSlow'
  BY <1>25 DEF ReturnIndexer, Met
<1>26. ASSUME NEW t \in Thread, Answer(t) PROVE ExpiredOnlyIfSlow'
  BY <1>26 DEF Answer
<1>27. CASE Cooldown
  BY <1>27 DEF Cooldown
<1>28. CASE Swing
  BY <1>28 DEF Swing
<1>29. CASE Trip
  BY <1>29 DEF Trip
<1>30. CASE Expire
  BY <1>30 DEF Expire
<1>31. CASE Evict
  BY <1>31 DEF Evict
<1>32. CASE CommitElsewhere
  BY <1>32 DEF CommitElsewhere
<1>33. CASE Commit
  BY <1>33 DEF Commit
<1>34. CASE Invalidate
  BY <1>34 DEF Invalidate, Invalidated
<1> QED
  BY <1>0, <1>1, <1>2, <1>3, <1>4, <1>5, <1>6, <1>7, <1>8, <1>9, <1>10, <1>11,
     <1>12, <1>13, <1>14, <1>15, <1>16, <1>17, <1>18, <1>19, <1>20, <1>21,
     <1>22, <1>23, <1>24, <1>25, <1>26, <1>27, <1>28, <1>29, <1>30, <1>31,
     <1>32, <1>33, <1>34 DEF Next, Around, Run, Retrieval, LookingUpSteps

\* The computations in flight.
LEMMA CrossingStep == IInv /\ [Next]_vars => Crossing'
<1> SUFFICES ASSUME IInv, [Next]_vars PROVE Crossing'
  OBVIOUS
<1> USE DEF IInv, ThreadsInv, TypeOK, CacheExplained, Crossing, Version, Result, NoResult,
          Goto, index, results, slots, breaker, singletons, lookups
<1>0. CASE UNCHANGED vars
  BY <1>0 DEF vars
<1>1. ASSUME NEW t \in Thread, Retrieve(t) PROVE Crossing'
  BY <1>1 DEF Retrieve, Check
<1>2. ASSUME NEW t \in Thread, OrgSearch(t) PROVE Crossing'
  BY <1>2 DEF OrgSearch
<1>3. ASSUME NEW t \in Thread, AcquireSlot(t) PROVE Crossing'
  BY <1>3 DEF AcquireSlot
<1>4. ASSUME NEW t \in Thread, NoSlot(t) PROVE Crossing'
  BY <1>4 DEF NoSlot
<1>5. ASSUME NEW t \in Thread, LookInCache(t) PROVE Crossing'
  BY <1>5 DEF LookInCache
<1>6. ASSUME NEW t \in Thread, JoinFlight(t) PROVE Crossing'
  BY <1>6 DEF JoinFlight
<1>7. ASSUME NEW t \in Thread, LoadIndex(t) PROVE Crossing'
  BY <1>7 DEF LoadIndex
<1>8. ASSUME NEW t \in Thread, Encode(t) PROVE Crossing'
  BY <1>8 DEF Encode, Check, Encoded
<1>9. ASSUME NEW t \in Thread, EncodeEnds(t) PROVE Crossing'
  BY <1>9 DEF EncodeEnds, RecordSuccess, Encoded
<1>10. ASSUME NEW t \in Thread, EncodeFails(t) PROVE Crossing'
  BY <1>10 DEF EncodeFails
<1>11. ASSUME NEW t \in Thread, Store(t) PROVE Crossing'
  BY <1>11 DEF Store, Stored, ResultOf
<1>12. ASSUME NEW t \in Thread, Leave(t) PROVE Crossing'
  BY <1>12 DEF Leave, Popped, Woken
<1>13. ASSUME NEW t \in Thread, GiveUp(t) PROVE Crossing'
  BY <1>13 DEF GiveUp
<1>14. ASSUME NEW t \in Thread, Recheck(t) PROVE Crossing'
  BY <1>14 DEF Recheck
<1>15. ASSUME NEW t \in Thread, End(t) PROVE Crossing'
  BY <1>15 DEF End, RecordSuccess, Released
<1>16. ASSUME NEW t \in Thread, Lookup(t) PROVE Crossing'
  BY <1>16 DEF Lookup
<1>17. ASSUME NEW t \in Thread, LookForGraph(t) PROVE Crossing'
  BY <1>17 DEF LookForGraph
<1>18. ASSUME NEW t \in Thread, TakeLock(t) PROVE Crossing'
  BY <1>18 DEF TakeLock
<1>19. ASSUME NEW t \in Thread, MakeGraph(t) PROVE Crossing'
  BY <1>19 DEF MakeGraph, FoundMade, GraphReturns
<1>20. ASSUME NEW t \in Thread, ReturnGraph(t) PROVE Crossing'
  BY <1>20 DEF ReturnGraph, GraphReturns
<1>21. ASSUME NEW t \in Thread, LookForIndexer(t) PROVE Crossing'
  BY <1>21 DEF LookForIndexer, BeforeGraph
<1>22. ASSUME NEW t \in Thread, MakeIndexer(t) PROVE Crossing'
  BY <1>22 DEF MakeIndexer, IndexerMissing
<1>23. ASSUME NEW t \in Thread, LoadIndexer(t) PROVE Crossing'
  BY <1>23 DEF LoadIndexer
<1>24. ASSUME NEW t \in Thread, RefreshIndexer(t) PROVE Crossing'
  BY <1>24 DEF RefreshIndexer, Revalidated, Met
<1>25. ASSUME NEW t \in Thread, ReturnIndexer(t) PROVE Crossing'
  BY <1>25 DEF ReturnIndexer, Met
<1>26. ASSUME NEW t \in Thread, Answer(t) PROVE Crossing'
  BY <1>26 DEF Answer
<1>27. CASE Cooldown
  BY <1>27 DEF Cooldown
<1>28. CASE Swing
  BY <1>28 DEF Swing
<1>29. CASE Trip
  BY <1>29 DEF Trip
<1>30. CASE Expire
  BY <1>30 DEF Expire
<1>31. CASE Evict
  BY <1>31 DEF Evict
<1>32. CASE CommitElsewhere
  BY <1>32 DEF CommitElsewhere
<1>33. CASE Commit
  BY <1>33 DEF Commit
<1>34. CASE Invalidate
  BY <1>34 DEF Invalidate, Invalidated
<1> QED
  BY <1>0, <1>1, <1>2, <1>3, <1>4, <1>5, <1>6, <1>7, <1>8, <1>9, <1>10, <1>11,
     <1>12, <1>13, <1>14, <1>15, <1>16, <1>17, <1>18, <1>19, <1>20, <1>21,
     <1>22, <1>23, <1>24, <1>25, <1>26, <1>27, <1>28, <1>29, <1>30, <1>31,
     <1>32, <1>33, <1>34 DEF Next, Around, Run, Retrieval, LookingUpSteps

\* The lookups keep track of the graph and the indexer.
LEMMA TrackedStep == IInv /\ [Next]_vars => Tracked'
<1> SUFFICES ASSUME IInv, [Next]_vars PROVE Tracked'
  OBVIOUS
<1> USE ThreadAssumption DEF IInv, ThreadsInv, TypeOK, LookupsAgree, Tracked, LookingUp, Goto,
          index, results, slots, breaker, singletons, lookups
<1>0. CASE UNCHANGED vars
  BY <1>0 DEF vars
<1>1. ASSUME NEW t \in Thread, Retrieve(t) PROVE Tracked'
  BY <1>1 DEF Retrieve, Check
<1>2. ASSUME NEW t \in Thread, OrgSearch(t) PROVE Tracked'
  BY <1>2 DEF OrgSearch
<1>3. ASSUME NEW t \in Thread, AcquireSlot(t) PROVE Tracked'
  BY <1>3 DEF AcquireSlot
<1>4. ASSUME NEW t \in Thread, NoSlot(t) PROVE Tracked'
  BY <1>4 DEF NoSlot
<1>5. ASSUME NEW t \in Thread, LookInCache(t) PROVE Tracked'
  BY <1>5 DEF LookInCache
<1>6. ASSUME NEW t \in Thread, JoinFlight(t) PROVE Tracked'
  BY <1>6 DEF JoinFlight
<1>7. ASSUME NEW t \in Thread, LoadIndex(t) PROVE Tracked'
  BY <1>7 DEF LoadIndex
<1>8. ASSUME NEW t \in Thread, Encode(t) PROVE Tracked'
  BY <1>8 DEF Encode, Check, Encoded
<1>9. ASSUME NEW t \in Thread, EncodeEnds(t) PROVE Tracked'
  BY <1>9 DEF EncodeEnds, RecordSuccess, Encoded
<1>10. ASSUME NEW t \in Thread, EncodeFails(t) PROVE Tracked'
  BY <1>10 DEF EncodeFails
<1>11. ASSUME NEW t \in Thread, Store(t) PROVE Tracked'
  BY <1>11 DEF Store, Stored, ResultOf
<1>12. ASSUME NEW t \in Thread, Leave(t) PROVE Tracked'
  BY <1>12 DEF Leave, Popped, Woken
<1>13. ASSUME NEW t \in Thread, GiveUp(t) PROVE Tracked'
  BY <1>13 DEF GiveUp
<1>14. ASSUME NEW t \in Thread, Recheck(t) PROVE Tracked'
  BY <1>14 DEF Recheck
<1>15. ASSUME NEW t \in Thread, End(t) PROVE Tracked'
  BY <1>15 DEF End, RecordSuccess, Released
<1>16. ASSUME NEW t \in Thread, Lookup(t) PROVE Tracked'
  BY <1>16 DEF Lookup
<1>17. ASSUME NEW t \in Thread, LookForGraph(t) PROVE Tracked'
  BY <1>17 DEF LookForGraph
<1>18. ASSUME NEW t \in Thread, TakeLock(t) PROVE Tracked'
  BY <1>18 DEF TakeLock
<1>19. ASSUME NEW t \in Thread, MakeGraph(t) PROVE Tracked'
  BY <1>19 DEF MakeGraph, FoundMade, GraphReturns
<1>20. ASSUME NEW t \in Thread, ReturnGraph(t) PROVE Tracked'
  BY <1>20 DEF ReturnGraph, GraphReturns
<1>21. ASSUME NEW t \in Thread, LookForIndexer(t) PROVE Tracked'
  BY <1>21 DEF LookForIndexer, BeforeGraph
<1>22. ASSUME NEW t \in Thread, MakeIndexer(t) PROVE Tracked'
  <2>1. CASE indexer = 0
    <3>1. Unused \in Load \ {0} /\ \A u \in Thread : Unused # mine[u]
      BY <2>1, UnusedLoad
    <3>2. /\ lock' = t /\ indexer' = Unused /\ mine' = [mine EXCEPT ![t] = Unused]
          /\ pc[t] = "indexerMake" /\ pc' = [pc EXCEPT ![t] = "indexerLoad"]
          /\ lock = None /\ UNCHANGED <<after, begun, robbed, early, graph>>
      BY <1>22, <2>1 DEF MakeIndexer, IndexerMissing
    <3> QED BY <2>1, <3>1, <3>2
  <2>2. CASE indexer # 0
    BY <1>22, <2>2 DEF MakeIndexer, IndexerMissing
  <2> QED BY <2>1, <2>2
<1>23. ASSUME NEW t \in Thread, LoadIndexer(t) PROVE Tracked'
  BY <1>23 DEF LoadIndexer
<1>24. ASSUME NEW t \in Thread, RefreshIndexer(t) PROVE Tracked'
  BY <1>24 DEF RefreshIndexer, Revalidated, Met
<1>25. ASSUME NEW t \in Thread, ReturnIndexer(t) PROVE Tracked'
  BY <1>25 DEF ReturnIndexer, Met
<1>26. ASSUME NEW t \in Thread, Answer(t) PROVE Tracked'
  BY <1>26 DEF Answer
<1>27. CASE Cooldown
  BY <1>27 DEF Cooldown
<1>28. CASE Swing
  BY <1>28 DEF Swing
<1>29. CASE Trip
  BY <1>29 DEF Trip
<1>30. CASE Expire
  BY <1>30 DEF Expire
<1>31. CASE Evict
  BY <1>31 DEF Evict
<1>32. CASE CommitElsewhere
  BY <1>32 DEF CommitElsewhere
<1>33. CASE Commit
  BY <1>33 DEF Commit
<1>34. CASE Invalidate
  BY <1>34 DEF Invalidate, Invalidated
<1> QED
  BY <1>0, <1>1, <1>2, <1>3, <1>4, <1>5, <1>6, <1>7, <1>8, <1>9, <1>10, <1>11,
     <1>12, <1>13, <1>14, <1>15, <1>16, <1>17, <1>18, <1>19, <1>20, <1>21,
     <1>22, <1>23, <1>24, <1>25, <1>26, <1>27, <1>28, <1>29, <1>30, <1>31,
     <1>32, <1>33, <1>34 DEF Next, Around, Run, Retrieval, LookingUpSteps

\* The lookups keep up with the disk.
LEMMA FreshStep == IInv /\ [Next]_vars => (Refreshed /\ AnswersFresh)'
<1> SUFFICES ASSUME IInv, [Next]_vars PROVE (Refreshed /\ AnswersFresh)'
  OBVIOUS
<1> USE DEF IInv, ThreadsInv, TypeOK, LookupsAgree, Tracked, Refreshed, AnswersFresh, Version,
          Goto, index, results, slots, breaker, singletons, lookups
<1>0. CASE UNCHANGED vars
  BY <1>0 DEF vars
<1>1. ASSUME NEW t \in Thread, Retrieve(t) PROVE (Refreshed /\ AnswersFresh)'
  BY <1>1 DEF Retrieve, Check
<1>2. ASSUME NEW t \in Thread, OrgSearch(t) PROVE (Refreshed /\ AnswersFresh)'
  BY <1>2 DEF OrgSearch
<1>3. ASSUME NEW t \in Thread, AcquireSlot(t) PROVE (Refreshed /\ AnswersFresh)'
  BY <1>3 DEF AcquireSlot
<1>4. ASSUME NEW t \in Thread, NoSlot(t) PROVE (Refreshed /\ AnswersFresh)'
  BY <1>4 DEF NoSlot
<1>5. ASSUME NEW t \in Thread, LookInCache(t) PROVE (Refreshed /\ AnswersFresh)'
  BY <1>5 DEF LookInCache
<1>6. ASSUME NEW t \in Thread, JoinFlight(t) PROVE (Refreshed /\ AnswersFresh)'
  BY <1>6 DEF JoinFlight
<1>7. ASSUME NEW t \in Thread, LoadIndex(t) PROVE (Refreshed /\ AnswersFresh)'
  BY <1>7 DEF LoadIndex
<1>8. ASSUME NEW t \in Thread, Encode(t) PROVE (Refreshed /\ AnswersFresh)'
  BY <1>8 DEF Encode, Check, Encoded
<1>9. ASSUME NEW t \in Thread, EncodeEnds(t) PROVE (Refreshed /\ AnswersFresh)'
  BY <1>9 DEF EncodeEnds, RecordSuccess, Encoded
<1>10. ASSUME NEW t \in Thread, EncodeFails(t) PROVE (Refreshed /\ AnswersFresh)'
  BY <1>10 DEF EncodeFails
<1>11. ASSUME NEW t \in Thread, Store(t) PROVE (Refreshed /\ AnswersFresh)'
  BY <1>11 DEF Store, Stored, ResultOf
<1>12. ASSUME NEW t \in Thread, Leave(t) PROVE (Refreshed /\ AnswersFresh)'
  BY <1>12 DEF Leave, Popped, Woken
<1>13. ASSUME NEW t \in Thread, GiveUp(t) PROVE (Refreshed /\ AnswersFresh)'
  BY <1>13 DEF GiveUp
<1>14. ASSUME NEW t \in Thread, Recheck(t) PROVE (Refreshed /\ AnswersFresh)'
  BY <1>14 DEF Recheck
<1>15. ASSUME NEW t \in Thread, End(t) PROVE (Refreshed /\ AnswersFresh)'
  BY <1>15 DEF End, RecordSuccess, Released
<1>16. ASSUME NEW t \in Thread, Lookup(t) PROVE (Refreshed /\ AnswersFresh)'
  BY <1>16 DEF Lookup
<1>17. ASSUME NEW t \in Thread, LookForGraph(t) PROVE (Refreshed /\ AnswersFresh)'
  BY <1>17 DEF LookForGraph
<1>18. ASSUME NEW t \in Thread, TakeLock(t) PROVE (Refreshed /\ AnswersFresh)'
  BY <1>18 DEF TakeLock
<1>19. ASSUME NEW t \in Thread, MakeGraph(t) PROVE (Refreshed /\ AnswersFresh)'
  BY <1>19 DEF MakeGraph, FoundMade, GraphReturns
<1>20. ASSUME NEW t \in Thread, ReturnGraph(t) PROVE (Refreshed /\ AnswersFresh)'
  BY <1>20 DEF ReturnGraph, GraphReturns
<1>21. ASSUME NEW t \in Thread, LookForIndexer(t) PROVE (Refreshed /\ AnswersFresh)'
  BY <1>21 DEF LookForIndexer, BeforeGraph
<1>22. ASSUME NEW t \in Thread, MakeIndexer(t) PROVE (Refreshed /\ AnswersFresh)'
  <2>1. CASE indexer = 0
    <3>1. Unused \in Load \ {0} /\ \A u \in Thread : Unused # mine[u]
      BY <2>1, UnusedLoad
    <3>2. /\ indexer' = Unused /\ mine' = [mine EXCEPT ![t] = Unused]
          /\ fresh' = [fresh EXCEPT ![Unused] = Unloaded] /\ disk' = disk
          /\ pc' = [pc EXCEPT ![t] = "indexerLoad"]
          /\ UNCHANGED <<begun, early>>
      BY <1>22, <2>1 DEF MakeIndexer, IndexerMissing
    <3>3. Refreshed'
      BY <2>1, <3>1, <3>2 DEF Unloaded
    <3>4. AnswersFresh'
      BY <2>1, <3>1, <3>2
    <3> QED BY <3>3, <3>4
  <2>2. CASE indexer # 0
    BY <1>22, <2>2 DEF MakeIndexer, IndexerMissing
  <2> QED BY <2>1, <2>2
<1>23. ASSUME NEW t \in Thread, LoadIndexer(t) PROVE (Refreshed /\ AnswersFresh)'
  BY <1>23 DEF LoadIndexer
<1>24. ASSUME NEW t \in Thread, RefreshIndexer(t) PROVE (Refreshed /\ AnswersFresh)'
  BY <1>24 DEF RefreshIndexer, Revalidated, Met
<1>25. ASSUME NEW t \in Thread, ReturnIndexer(t) PROVE (Refreshed /\ AnswersFresh)'
  <2>1. /\ pc[t] = "indexerRet" /\ pc' = [pc EXCEPT ![t] = "answer"]
        /\ mine' = [mine EXCEPT ![t] = indexer]
        /\ early' = [early EXCEPT ![t] = @ \/ BeingLoaded]
        /\ UNCHANGED <<disk, fresh, indexer, begun>>
    BY <1>25 DEF ReturnIndexer, Met
  <2>2. Refreshed'
    BY <2>1
  <2>3. AnswersFresh'
    <3> SUFFICES ASSUME NEW u \in Thread, pc'[u] = "answer", mine'[u] # 0, ~early'[u]
                 PROVE  fresh'[mine'[u]] >= begun'[u]
      OBVIOUS
    <3>1. CASE u = t
      BY <2>1, <3>1 DEF BeingLoaded
    <3>2. CASE u # t
      BY <2>1, <3>2
    <3> QED BY <3>1, <3>2
  <2> QED BY <2>2, <2>3
<1>26. ASSUME NEW t \in Thread, Answer(t) PROVE (Refreshed /\ AnswersFresh)'
  BY <1>26 DEF Answer
<1>27. CASE Cooldown
  BY <1>27 DEF Cooldown
<1>28. CASE Swing
  BY <1>28 DEF Swing
<1>29. CASE Trip
  BY <1>29 DEF Trip
<1>30. CASE Expire
  BY <1>30 DEF Expire
<1>31. CASE Evict
  BY <1>31 DEF Evict
<1>32. CASE CommitElsewhere
  <2>1. disk' = disk + 1 /\ UNCHANGED <<pc, fresh, indexer, mine, begun, early>>
    BY <1>32 DEF CommitElsewhere
  <2>2. Refreshed'
    BY <2>1 DEF Unloaded
  <2>3. AnswersFresh'
    BY <2>1
  <2> QED BY <2>2, <2>3
<1>33. CASE Commit
  <2>1. disk' = disk + 1 /\ UNCHANGED <<pc, fresh, indexer, mine, begun, early>>
    BY <1>33 DEF Commit
  <2>2. Refreshed'
    BY <2>1 DEF Unloaded
  <2>3. AnswersFresh'
    BY <2>1
  <2> QED BY <2>2, <2>3
<1>34. CASE Invalidate
  BY <1>34 DEF Invalidate, Invalidated
<1> QED
  BY <1>0, <1>1, <1>2, <1>3, <1>4, <1>5, <1>6, <1>7, <1>8, <1>9, <1>10, <1>11,
     <1>12, <1>13, <1>14, <1>15, <1>16, <1>17, <1>18, <1>19, <1>20, <1>21,
     <1>22, <1>23, <1>24, <1>25, <1>26, <1>27, <1>28, <1>29, <1>30, <1>31,
     <1>32, <1>33, <1>34 DEF Next, Around, Run, Retrieval, LookingUpSteps

\* Two lookups that are tracked agree, and neither is given None.
LEMMA TrackedAgree == Tracked => OneIndexer /\ NoneOnlyIfRobbed
BY DEF Tracked, OneIndexer, NoneOnlyIfRobbed

-----------------------------------------------------------------------------
\* A server that has just started satisfies the invariant.
LEMMA InitInv == Init => IInv
<1> SUFFICES ASSUME Init PROVE IInv
  OBVIOUS
<1>1. TypeOK
  <2>1. free = Slots - Cardinality(traced) /\ traced = {}
    BY SlotsAssumption, FS_EmptySet DEF Init
  <2>2. disk \in Version /\ own \in Version /\ cached \in Result
    BY Bounds DEF Init, Version, Result, NoResult
  <2>3. /\ pc \in [Thread -> {"idle", "slot"} \cup Retrieving \cup LookingUp]
        /\ loaded \in [Thread -> Version] /\ begun \in [Thread -> Version]
        /\ mine \in [Thread -> Load] /\ fresh \in [Load -> Version \cup {Unloaded}]
    BY Bounds DEF Init, Version
  <2>4. indexer \in Load /\ evicts \in 0 .. MaxEvicts /\ blind \in 0 .. 2
    BY Bounds DEF Init
  <2> QED BY <2>1, <2>2, <2>3, <2>4 DEF Init, TypeOK
<1>2. FlightOwned /\ HolderLoads /\ OneProbe /\ ProbeUnused
  BY DEF Init, FlightOwned, HolderLoads, OneProbe, ProbeUnused
<1>3. CacheExplained
  BY DEF Init, NoResult, CacheExplained, OldOnlyIfCrossed, ExpiredOnlyIfSlow, Crossing
<1>4. Tracked
  BY DEF Init, Tracked, LookingUp
<1>5. Refreshed /\ AnswersFresh
  BY DEF Init, Refreshed, AnswersFresh
<1> QED BY <1>1, <1>2, <1>3, <1>4, <1>5, TrackedAgree DEF IInv, ThreadsInv, LookupsAgree

\* Every step keeps it.
LEMMA StepInv == IInv /\ [Next]_vars => IInv'
<1> SUFFICES ASSUME IInv, [Next]_vars PROVE IInv'
  OBVIOUS
<1>1. ThreadsInv'
  BY TypeStep, FlightStep, HolderStep, ProbeStep DEF ThreadsInv
<1>2. CacheExplained'
  BY OldStep, ExpiredStep, CrossingStep DEF CacheExplained
<1>3. Tracked' /\ Refreshed' /\ AnswersFresh'
  BY TrackedStep, FreshStep
<1>4. OneIndexer' /\ NoneOnlyIfRobbed'
  BY <1>3 DEF Tracked, OneIndexer, NoneOnlyIfRobbed
<1> QED BY <1>1, <1>2, <1>3, <1>4 DEF IInv, LookupsAgree

\* The invariant holds in every state of every behaviour.
LEMMA Invariant == Spec => []IInv
BY InitInv, StepInv, PTL DEF Spec

\* The in-flight entry, the slots and the singleton lock belong to a thread that
\* will give them back, and one probe passes the breaker, whatever the threads
\* (hybrid_retrieve(), _traced(), _get_indexer(), CircuitBreaker.check()).
THEOREM ThreadsSafe == Spec => []ThreadsInv
<1>1. IInv => ThreadsInv
  BY DEF IInv
<1> QED BY <1>1, Invariant, PTL

\* Every stale or expired result has its reason: an invalidation that fell into its
\* computation or is still to come, a caller that waited too long or for a computation
\* that raised (hybrid_retrieve(), invalidate_hybrid_cache()).
THEOREM CacheSafe == Spec => []CacheExplained
<1>1. IInv => CacheExplained
  BY DEF IInv
<1> QED BY <1>1, Invariant, PTL

\* Lookups into which no eviction fell find an indexer, the same for all
\* (_get_graph(), _get_indexer()).
THEOREM LookupsSafe == Spec => []LookupsAgree
<1>1. IInv => LookupsAgree
  BY DEF IInv
<1> QED BY <1>1, Invariant, PTL

\* A lookup answers from an index at least as new as the one on disk when it was
\* called, unless it met one being loaded (reload_if_changed()).
THEOREM AnswersNew == Spec => []AnswersFresh
<1>1. IInv => AnswersFresh
  BY DEF IInv
<1> QED BY <1>1, Invariant, PTL

-----------------------------------------------------------------------------
(* The behaviour trackers.                                                   *)

\* The inductive invariant: what the runs check of the trackers.
TrackersInv == BoundedInv /\ CountedOnce

-----------------------------------------------------------------------------
(* The history of a copy.                                                    *)

\* Recordings are numbers.
LEMMA DataIs ==
  ASSUME NEW x \in Data
  PROVE  /\ x.history \in [Query -> Entry]
         /\ \A q \in Query : /\ x.history[q] \in Entry
                             /\ x.history[q].at \in Nat /\ x.history[q].at <= MaxRecordings
                             /\ x.history[q].useful \in BOOLEAN
         /\ x.hits \in Nat /\ x.patterns \in Seq(Recording) /\ x.summary \in Nat
BY LimitAssumption DEF Data, Entry, Recording

\* Among some entries one is the oldest, and one the newest.
LEMMA OldestOf ==
  ASSUME NEW x \in Data, NEW S \in SUBSET Query, S # {}
  PROVE  \E q \in S : \A r \in S : x.history[q].at <= x.history[r].at
<1> DEFINE T == {x.history[q].at : q \in S}
<1>1. T \in SUBSET Nat /\ T # {}
  BY DataIs
<1>2. \A q \in S : x.history[q].at \in T
  OBVIOUS
<1>3. \A n \in T : \E q \in S : n = x.history[q].at
  OBVIOUS
<1> HIDE DEF T
<1>4. PICK n \in T : \A m \in T : n <= m
  BY <1>1, LeastNatural
<1> QED BY <1>2, <1>3, <1>4

LEMMA NewestOf ==
  ASSUME NEW x \in Data, NEW S \in SUBSET Query, S # {}
  PROVE  \E q \in S : \A r \in S : x.history[r].at <= x.history[q].at
<1> DEFINE T == {MaxRecordings - x.history[q].at : q \in S}
<1>1. \A q \in S : x.history[q].at \in Nat /\ x.history[q].at <= MaxRecordings
  BY DataIs
<1>2. MaxRecordings \in Nat
  BY LimitAssumption
<1>3. T \in SUBSET Nat /\ T # {}
  BY <1>1, <1>2
<1>4. \A q \in S : MaxRecordings - x.history[q].at \in T
  OBVIOUS
<1>5. \A n \in T : \E q \in S : n = MaxRecordings - x.history[q].at
  OBVIOUS
<1> HIDE DEF T
<1>6. PICK n \in T : \A m \in T : n <= m
  BY <1>3, LeastNatural
<1>7. PICK q \in S : n = MaxRecordings - x.history[q].at
  BY <1>5
<1>8. \A r \in S : x.history[r].at <= x.history[q].at
  BY <1>1, <1>2, <1>4, <1>6, <1>7
<1> QED BY <1>8

\* Sets of queries are finite.
LEMMA QueriesFinite ==
  ASSUME NEW S \in SUBSET Query
  PROVE  IsFiniteSet(S) /\ Cardinality(S) \in Nat
BY QueryAssumption, FS_Subset, FS_CardinalityType

\* More entries that are newer push out what fewer pushed out.
LEMMA OutdatedToo ==
  ASSUME NEW x, NEW y, NEW n, NEW m,
         Newer(x, n) \subseteq Newer(y, m), Outdated(x, n)
  PROVE  Outdated(y, m)
<1>1. Newer(x, n) \in SUBSET Query /\ Newer(y, m) \in SUBSET Query
  BY DEF Newer
<1>2. IsFiniteSet(Newer(y, m))
  BY <1>1, QueriesFinite
<1>3. Cardinality(Newer(x, n)) <= Cardinality(Newer(y, m))
  BY <1>2, FS_Subset
<1>4. Cardinality(Newer(x, n)) \in Nat /\ Cardinality(Newer(y, m)) \in Nat
  BY <1>1, QueriesFinite
<1> QED BY <1>3, <1>4, LimitAssumption DEF Outdated

\* prune() takes entries away and changes nothing else.
LEMMA PrunedIs ==
  ASSUME NEW x \in Data
  PROVE  /\ Pruned(x) \in Data
         /\ \A q \in Query : Pruned(x).history[q] =
              IF Outdated(x, x.history[q].at) THEN Absent ELSE x.history[q]
         /\ Pruned(x).hits = x.hits /\ Pruned(x).patterns = x.patterns
         /\ Pruned(x).summary = x.summary
<1>1. Absent \in Entry
  BY DEF Absent, Entry
<1> QED BY <1>1 DEF Pruned, Data

\* What is outdated before prune() is outdated after.
LEMMA PrunedOutdates ==
  ASSUME NEW x \in Data, NEW n \in Nat, Outdated(x, n)
  PROVE  Outdated(Pruned(x), n)
<1> DEFINE S == {q \in Newer(x, n) : Outdated(x, x.history[q].at)}
<1>1. CASE S = {}
  <2>1. Newer(x, n) \subseteq Newer(Pruned(x), n)
    BY <1>1, PrunedIs DEF Newer
  <2> QED BY <2>1, OutdatedToo
<1>2. CASE S # {}
  <2>1. S \in SUBSET Query
    BY DEF Newer
  <2>2. PICK q \in S : \A r \in S : x.history[r].at <= x.history[q].at
    <3> HIDE DEF S
    <3> QED BY <1>2, <2>1, NewestOf
  <2>3. x.history[q].at > n /\ Outdated(x, x.history[q].at)
    BY <2>2 DEF Newer
  <2>4. Newer(x, x.history[q].at) \subseteq Newer(Pruned(x), n)
    <3> SUFFICES ASSUME NEW r \in Query, x.history[r].at > x.history[q].at
                 PROVE  Pruned(x).history[r].at > n
      BY DEF Newer
    <3>1. x.history[r].at \in Nat /\ x.history[q].at \in Nat
      BY <2>1, <2>2, DataIs
    <3>2. r \notin S /\ x.history[r].at > n
      BY <2>2, <2>3, <3>1
    <3>3. ~Outdated(x, x.history[r].at)
      BY <3>2 DEF Newer
    <3> QED BY <3>2, <3>3, PrunedIs
  <2> QED BY <2>3, <2>4, OutdatedToo
<1> QED BY <1>1, <1>2

\* prune() leaves at most MaxHistory entries of different age.
LEMMA PrunedFits ==
  ASSUME NEW x \in Data,
         \A q \in Kept(x), r \in Query : x.history[q].at = x.history[r].at => q = r
  PROVE  Cardinality(Kept(Pruned(x))) <= MaxHistory
<1> DEFINE S == Kept(Pruned(x))
<1>1. S \in SUBSET Query
  BY DEF Kept
<1>2. \A q \in S : q \in Kept(x) /\ ~Outdated(x, x.history[q].at)
  BY PrunedIs DEF Kept, Absent
<1>3. CASE S = {}
  BY <1>3, FS_EmptySet, LimitAssumption
<1>4. CASE S # {}
  <2>1. PICK q \in S : \A r \in S : x.history[q].at <= x.history[r].at
    <3> HIDE DEF S
    <3> QED BY <1>1, <1>4, OldestOf
  <2>2. S \ {q} \subseteq Newer(x, x.history[q].at)
    <3> SUFFICES ASSUME NEW r \in S, r # q PROVE r \in Query /\ x.history[r].at > x.history[q].at
      BY DEF Newer
    <3>1. x.history[r].at # x.history[q].at
      BY <1>1, <1>2
    <3> QED BY <1>1, <2>1, <3>1, DataIs
  <2>3. /\ Cardinality(S \ {q}) <= Cardinality(Newer(x, x.history[q].at))
        /\ Cardinality(S \ {q}) \in Nat /\ Cardinality(Newer(x, x.history[q].at)) \in Nat
    <3>1. Newer(x, x.history[q].at) \in SUBSET Query /\ S \ {q} \in SUBSET Query
      BY <1>1 DEF Newer
    <3> QED BY <2>2, <3>1, QueriesFinite, FS_Subset
  <2>4. Cardinality(S \ {q}) = Cardinality(S) - 1 /\ Cardinality(S) \in Nat
    BY <1>1, QueriesFinite, FS_RemoveElement
  <2>5. Cardinality(Newer(x, x.history[q].at)) < MaxHistory
    <3> HIDE DEF S
    <3> QED BY <1>2, <2>1, <2>3, LimitAssumption DEF Outdated
  <2> QED BY <2>3, <2>4, <2>5, LimitAssumption
<1> QED BY <1>3, <1>4

-----------------------------------------------------------------------------
(* The steps.                                                                *)

\* Where a tracker has come to.
LEMMA CopyIs ==
  ASSUME BehaviourTypeOK
  PROVE  /\ file \in Copy /\ \A p \in Tracker : mem[p] \in Copy
         /\ \A x \in Copy : x \in Data /\ (x = file \/ \E p \in Tracker : x = mem[p])
         /\ Empty \in Data
<1>1. Empty \in Data
  BY DEF Empty, Absent, Data, Entry
<1> QED BY <1>1 DEF BehaviourTypeOK, Copy

\* The part of the own buffer that was not loaded.
LEMMA AppendedIs ==
  ASSUME BehaviourTypeOK, NEW p \in Tracker
  PROVE  /\ Appended(p, mem[p]) \in Seq(Recording)
         /\ Len(Appended(p, mem[p])) =
              IF base[p].length < Len(mem[p].patterns)
              THEN Len(mem[p].patterns) - base[p].length ELSE 0
         /\ \A i \in 1 .. Len(Appended(p, mem[p])) :
              Appended(p, mem[p])[i] = mem[p].patterns[base[p].length + i]
<1> DEFINE s == mem[p].patterns
           n == base[p].length
<1>1. s \in Seq(Recording) /\ n \in Nat
  BY DataIs DEF BehaviourTypeOK
<1> HIDE DEF s, n
<1>2. /\ SubSeq(s, n + 1, Len(s)) \in Seq(Recording)
      /\ Len(SubSeq(s, n + 1, Len(s))) = IF n < Len(s) THEN Len(s) - n ELSE 0
      /\ \A i \in 1 .. Len(SubSeq(s, n + 1, Len(s))) : SubSeq(s, n + 1, Len(s))[i] = s[n + i]
  <2>1. Len(s) \in Nat /\ \A i \in n + 1 .. Len(s) : s[i] \in Recording
    BY <1>1
  <2>2. SubSeq(s, n + 1, Len(s)) \in Seq(Recording)
    BY <1>1, <2>1, SubSeqProperties
  <2>3. Len(SubSeq(s, n + 1, Len(s))) = IF n < Len(s) THEN Len(s) - n ELSE 0
    BY <1>1, <2>1, SubSeqProperties
  <2>4. \A i \in 1 .. Len(SubSeq(s, n + 1, Len(s))) : SubSeq(s, n + 1, Len(s))[i] = s[n + i]
    BY <1>1, <2>1, <2>3, SubSeqProperties
  <2> QED BY <2>2, <2>3, <2>4
<1> QED BY <1>2 DEF Appended, s, n

\* _merge_from_disk() and save()
LEMMA MergedIs ==
  ASSUME BehaviourTypeOK, NEW p \in Tracker
  PROVE  LET m == Merged(p, mem[p]) IN
         /\ m \in Data
         /\ \A q \in Query : m.history[q] =
              IF mem[p].history[q].at # 0 THEN mem[p].history[q] ELSE file.history[q]
         /\ m.hits = IF file.hits > mem[p].hits THEN file.hits ELSE mem[p].hits
         /\ m.patterns = IF Summarized(p) THEN file.patterns \o Appended(p, mem[p])
                         ELSE mem[p].patterns
         /\ m.summary = IF Summarized(p) THEN file.summary ELSE mem[p].summary
<1>1. mem[p] \in Data /\ file \in Data
  BY DEF BehaviourTypeOK
<1>2. file.patterns \o Appended(p, mem[p]) \in Seq(Recording)
  BY <1>1, AppendedIs, DataIs
<1>3. United(mem[p]) \in [Query -> Entry]
  BY <1>1, DataIs DEF United
<1>4. Styled(p, mem[p]).patterns \in Seq(Recording) /\ Styled(p, mem[p]).summary \in Nat
  BY <1>1, <1>2, DataIs DEF Styled
<1>5. Weight(mem[p]) \in Nat
  BY <1>1, DataIs DEF Weight
<1>6. Merged(p, mem[p]) \in Data
  BY <1>3, <1>4, <1>5 DEF Merged, Data
<1>7. \A q \in Query : Merged(p, mem[p]).history[q] =
        IF mem[p].history[q].at # 0 THEN mem[p].history[q] ELSE file.history[q]
  BY DEF Merged, United, Kept
<1> QED BY <1>6, <1>7 DEF Merged, Weight, Styled

LEMMA WrittenIs ==
  ASSUME BehaviourTypeOK, NEW p \in Tracker
  PROVE  /\ Written(p) \in Data
         /\ Written(p).hits = Merged(p, mem[p]).hits
         /\ Written(p).patterns = Merged(p, mem[p]).patterns
         /\ Written(p).summary = Merged(p, mem[p]).summary
         /\ \A q \in Query :
              \/ Written(p).history[q] = Absent
              \/ Written(p).history[q] = mem[p].history[q] /\ mem[p].history[q].at # 0
              \/ Written(p).history[q] = file.history[q] /\ mem[p].history[q].at = 0
BY MergedIs, PrunedIs DEF Written

\* The ages in what a merge makes differ if those of the copies do.
LEMMA MergedAges ==
  ASSUME BehaviourTypeOK, OneQuery, NEW p \in Tracker,
         NEW q \in Kept(Merged(p, mem[p])), NEW r \in Query,
         Merged(p, mem[p]).history[q].at = Merged(p, mem[p]).history[r].at
  PROVE  q = r
<1> DEFINE m == Merged(p, mem[p])
<1>1. q \in Query /\ m.history[q].at # 0
  BY DEF Kept
<1>2. PICK x \in {mem[p], file} : x.history[q] = m.history[q]
  BY <1>1, MergedIs
<1>3. PICK y \in {mem[p], file} : y.history[r] = m.history[r]
  BY MergedIs
<1>4. q \in Kept(x) /\ x.history[q].at = y.history[r].at /\ x \in Copy /\ y \in Copy
  BY <1>1, <1>2, <1>3, CopyIs DEF Kept
<1> QED BY <1>4 DEF OneQuery

\* The buffer after a query.
LEMMA BufferedIs ==
  ASSUME NEW s \in Seq(Recording), NEW n \in Recording
  PROVE  /\ Buffered(s, n) \in Seq(Recording)
         /\ ToSet(Buffered(s, n)) \subseteq ToSet(s) \cup {n}
         /\ IF Len(s) + 1 > Cap
            THEN Len(Buffered(s, n)) = Len(s)
            ELSE Buffered(s, n) = Append(s, n)
<1> DEFINE t == Append(s, n)
<1>1. t \in Seq(Recording) /\ Len(t) = Len(s) + 1 /\ Len(s) \in Nat
  OBVIOUS
<1>2. \A i \in 1 .. Len(t) : t[i] \in ToSet(s) \cup {n}
  BY DEF ToSet
<1> HIDE DEF t
<1>3. /\ Tail(t) \in Seq(Recording) /\ Len(Tail(t)) = Len(s)
      /\ \A i \in 1 .. Len(s) : Tail(t)[i] = t[i + 1]
  BY <1>1
<1>4. CASE Len(s) + 1 > Cap
  <2>1. Buffered(s, n) = Tail(t)
    BY <1>1, <1>4 DEF Buffered, t
  <2>2. \A i \in 1 .. Len(s) : i + 1 \in 1 .. Len(t)
    BY <1>1
  <2>3. ToSet(Tail(t)) \subseteq ToSet(s) \cup {n}
    BY <1>1, <1>2, <1>3, <2>2 DEF ToSet
  <2> QED BY <1>3, <1>4, <2>1, <2>3
<1>5. CASE ~(Len(s) + 1 > Cap)
  <2>1. Buffered(s, n) = t
    BY <1>1, <1>5 DEF Buffered, t
  <2>2. ToSet(t) \subseteq ToSet(s) \cup {n}
    BY <1>1, <1>2 DEF ToSet
  <2> QED BY <1>1, <1>5, <2>1, <2>2 DEF t
<1> QED BY <1>4, <1>5

\* What a copy knows of the past: every entry is in some copy now.
Known(x) ==
  \A q \in Query : x.history[q].at # 0 => \E y \in Copy : y.history[q].at = x.history[q].at

LEMMA AllKnown ==
  ASSUME BehaviourTypeOK
  PROVE  /\ \A x \in Copy : Known(x)
         /\ Known(Empty) /\ Known(Pruned(file))
         /\ \A p \in Tracker : Known(Written(p))
<1>1. \A x \in Copy : Known(x)
  BY DEF Known
<1>2. Known(Empty)
  BY DEF Known, Empty, Absent
<1>3. Known(Pruned(file))
  BY CopyIs, PrunedIs DEF Known, Absent
<1>4. ASSUME NEW p \in Tracker PROVE Known(Written(p))
  BY CopyIs, WrittenIs DEF Known, Absent
<1> QED BY <1>1, <1>2, <1>3, <1>4

\* What a step writes.
LEMMA SaveIs ==
  ASSUME BehaviourTypeOK, NEW p \in Tracker, Save(p)
  PROVE  /\ file' = Written(p)
         /\ \A t \in Tracker : mem'[t] =
              IF t # p THEN mem[t] ELSE IF p = Watcher THEN Written(p) ELSE Empty
         /\ \A t \in Tracker : counted'[t] =
              IF t # p THEN counted[t] ELSE IF p = Watcher THEN filed' ELSE {}
         /\ \A t \in Tracker : base'[t] =
              IF t # p THEN base[t]
              ELSE IF p # Watcher THEN NoBase
              ELSE IF Summarized(p) THEN [base[p] EXCEPT !.adopted = @ + 1] ELSE base[p]
         /\ \A t \in Tracker : stage'[t] =
              IF t # p THEN stage[t] ELSE IF p = Watcher THEN "loaded" ELSE "none"
<1>1. file' = Written(p)
  BY DEF Save
<1>2. \A t \in Tracker : mem'[t] =
        IF t # p THEN mem[t] ELSE IF p = Watcher THEN Written(p) ELSE Empty
  BY DEF Save, BehaviourTypeOK
<1>3. \A t \in Tracker : counted'[t] =
        IF t # p THEN counted[t] ELSE IF p = Watcher THEN filed' ELSE {}
  BY DEF Save, BehaviourTypeOK
<1>4. \A t \in Tracker : base'[t] =
        IF t # p THEN base[t]
        ELSE IF p # Watcher THEN NoBase
        ELSE IF Summarized(p) THEN [base[p] EXCEPT !.adopted = @ + 1] ELSE base[p]
  BY DEF Save, BehaviourTypeOK
<1>5. \A t \in Tracker : stage'[t] =
        IF t # p THEN stage[t] ELSE IF p = Watcher THEN "loaded" ELSE "none"
  BY DEF Save, BehaviourTypeOK
<1> QED BY <1>1, <1>2, <1>3, <1>4, <1>5

\* Nobody else notices.
LEMMA SaveKeeps ==
  ASSUME BehaviourTypeOK, NEW p \in Tracker, Save(p), NEW t \in Tracker, t # p
  PROVE  mem'[t] = mem[t] /\ counted'[t] = counted[t] /\ base'[t] = base[t] /\ stage'[t] = stage[t]
<1>1. mem'[t] = mem[t]
  BY DEF Save, BehaviourTypeOK
<1>2. counted'[t] = counted[t]
  BY DEF Save, BehaviourTypeOK
<1>3. base'[t] = base[t]
  BY DEF Save, BehaviourTypeOK
<1>4. stage'[t] = stage[t]
  BY DEF Save, BehaviourTypeOK
<1> QED BY <1>1, <1>2, <1>3, <1>4

LEMMA OpenIs ==
  ASSUME BehaviourTypeOK, NEW p \in Tracker, Open(p)
  PROVE  /\ \A t \in Tracker : mem'[t] = IF t = p THEN Pruned(file) ELSE mem[t]
         /\ \A t \in Tracker : counted'[t] = IF t = p THEN filed ELSE counted[t]
         /\ \A t \in Tracker : base'[t] =
              IF t = p THEN [length |-> Len(file.patterns), summary |-> file.summary, adopted |-> 0]
              ELSE base[t]
         /\ \A t \in Tracker : stage'[t] = IF t = p THEN "loaded" ELSE stage[t]
BY DEF Open, BehaviourTypeOK

LEMMA DropIs ==
  ASSUME BehaviourTypeOK, NEW p \in Tracker, Drop(p)
  PROVE  /\ \A t \in Tracker : mem'[t] = IF t = p THEN Empty ELSE mem[t]
         /\ \A t \in Tracker : counted'[t] = IF t = p THEN {} ELSE counted[t]
         /\ \A t \in Tracker : base'[t] = IF t = p THEN NoBase ELSE base[t]
         /\ \A t \in Tracker : stage'[t] = IF t = p THEN "none" ELSE stage[t]
BY DEF Drop, BehaviourTypeOK

Recorded(p, q, good) ==
  /\ p \in Tracker /\ asked + 1 \in Recording
  /\ \A t \in Tracker : t # p => mem'[t] = mem[t] /\ counted'[t] = counted[t]
                                 /\ stage'[t] = stage[t]
  /\ stage'[p] = "recorded"
  /\ \A r \in Query : mem'[p].history[r] =
       IF r = q THEN [at |-> asked + 1, useful |-> good] ELSE mem[p].history[r]
  /\ mem'[p].hits = IF good THEN mem[p].hits + 1 ELSE mem[p].hits
  /\ counted'[p] = IF good THEN counted[p] \cup {asked + 1} ELSE counted[p]
  /\ \/ /\ mem'[p].patterns = <<>> /\ mem'[p].summary = summed + 1
        /\ summed' = summed + 1
        /\ consumed' = [consumed EXCEPT ![summed + 1] =
             ToSet(Buffered(mem[p].patterns, asked + 1))]
     \/ /\ mem'[p].patterns = Buffered(mem[p].patterns, asked + 1)
        /\ mem'[p].summary = mem[p].summary
        /\ summed' = summed /\ consumed' = consumed
  /\ mem'[p] \in Data

LEMMA RecordIs ==
  ASSUME BehaviourTypeOK, NEW p \in Request, NEW q \in Query, NEW good \in BOOLEAN,
         NEW storing \in BOOLEAN, RecordQuery(p, q, good, storing)
  PROVE  Recorded(p, q, good)
<1> DEFINE s == Buffered(mem[p].patterns, asked + 1)
           sum == Summarizes(s, storing)
           n == asked + 1
           e == [at |-> n, useful |-> FALSE]
           d == [history |-> [mem[p].history EXCEPT ![q] = IF good THEN Marked(e) ELSE e],
                 hits |-> IF good THEN mem[p].hits + 1 ELSE mem[p].hits,
                 patterns |-> IF sum THEN <<>> ELSE s,
                 summary |-> IF sum THEN summed + 1 ELSE mem[p].summary]
<1>1. p \in Tracker /\ n \in Recording /\ mem[p] \in Data
  <2>1. p \in Tracker /\ mem[p] \in Data
    BY DEF BehaviourTypeOK, Tracker
  <2>2. asked \in Nat /\ asked < MaxRecordings
    BY DEF RecordQuery, BehaviourTypeOK
  <2> QED BY <2>1, <2>2, LimitAssumption DEF Recording
<1>2. mem' = [mem EXCEPT ![p] = d]
  BY DEF RecordQuery
<1>3. mem'[p] = d /\ \A t \in Tracker : t # p => mem'[t] = mem[t]
  <2> HIDE DEF d
  <2> QED BY <1>1, <1>2 DEF BehaviourTypeOK
<1>4. s \in Seq(Recording) /\ summed + 1 \in Nat
  BY <1>1, DataIs, BufferedIs DEF BehaviourTypeOK
<1>5. (IF good THEN Marked(e) ELSE e) = [at |-> n, useful |-> good]
  BY DEF Marked
<1>6. \A r \in Query : d.history[r] =
        IF r = q THEN [at |-> n, useful |-> good] ELSE mem[p].history[r]
  BY <1>1, <1>5, DataIs
<1>7. d.history \in [Query -> Entry]
  <2>1. [at |-> n, useful |-> good] \in Entry
    BY <1>1 DEF Entry
  <2> QED BY <1>1, <1>5, <2>1, DataIs
<1>8. d \in Data
  <2>1. d.hits \in Nat /\ d.patterns \in Seq(Recording) /\ d.summary \in Nat
    <3> HIDE DEF s, sum
    <3> QED BY <1>1, <1>4, DataIs
  <2> QED BY <1>7, <2>1 DEF Data
<1>9. /\ counted'[p] = IF good THEN counted[p] \cup {n} ELSE counted[p]
      /\ stage'[p] = "recorded"
      /\ \A t \in Tracker : t # p => counted'[t] = counted[t] /\ stage'[t] = stage[t]
  BY <1>1 DEF RecordQuery, BehaviourTypeOK
<1>10. /\ mem'[p].hits = IF good THEN mem[p].hits + 1 ELSE mem[p].hits
       /\ mem'[p].patterns = IF sum THEN <<>> ELSE s
       /\ mem'[p].summary = IF sum THEN summed + 1 ELSE mem[p].summary
       /\ mem'[p].history = d.history
       /\ mem'[p] \in Data
  <2> HIDE DEF s, sum
  <2> QED BY <1>3, <1>8
<1>11. /\ sum => summed' = summed + 1 /\ consumed' = [consumed EXCEPT ![summed + 1] = ToSet(s)]
       /\ ~sum => summed' = summed /\ consumed' = consumed
  BY DEF RecordQuery
<1>12. /\ \/ /\ mem'[p].patterns = <<>> /\ mem'[p].summary = summed + 1
             /\ summed' = summed + 1
             /\ consumed' = [consumed EXCEPT ![summed + 1] = ToSet(s)]
          \/ /\ mem'[p].patterns = s /\ mem'[p].summary = mem[p].summary
             /\ summed' = summed /\ consumed' = consumed
  <2> HIDE DEF sum, s, d
  <2> QED BY <1>10, <1>11
<1> HIDE DEF d, sum
<1> QED BY <1>1, <1>3, <1>6, <1>9, <1>10, <1>12 DEF Recorded

LEMMA EditIs ==
  ASSUME BehaviourTypeOK, NEW n \in Recording, RecordFileEdit(n)
  PROVE  /\ Watcher \in Tracker /\ Recent(n) \subseteq Kept(mem[Watcher])
         /\ \A t \in Tracker : t # Watcher => mem'[t] = mem[t] /\ counted'[t] = counted[t]
         /\ \A q \in Query :
              /\ mem'[Watcher].history[q].at = mem[Watcher].history[q].at
              /\ mem'[Watcher].history[q].useful =
                   IF q \in Recent(n) THEN TRUE ELSE mem[Watcher].history[q].useful
         /\ mem'[Watcher].hits = mem[Watcher].hits + Cardinality(Recent(n))
         /\ mem'[Watcher].patterns = mem[Watcher].patterns
         /\ mem'[Watcher].summary = mem[Watcher].summary
         /\ counted'[Watcher] =
              counted[Watcher] \cup {mem[Watcher].history[q].at : q \in Recent(n)}
         /\ mem'[Watcher] \in Data
<1> DEFINE w == mem[Watcher]
           h == [q \in Query |-> IF q \in Recent(n) THEN Marked(w.history[q]) ELSE w.history[q]]
           c == Cardinality(Recent(n))
           d == mem'[Watcher]
<1>1. Watcher \in Tracker /\ w \in Data /\ Recent(n) \subseteq Kept(w) /\ Recent(n) \in SUBSET Query
  BY DEF BehaviourTypeOK, Tracker, Recent, Kept
<1>2. mem' = [mem EXCEPT
        ![Watcher].history = [q \in Query |-> IF q \in Recent(n) THEN Marked(@[q]) ELSE @[q]],
        ![Watcher].hits = @ + Cardinality(Recent(n))]
  BY DEF RecordFileEdit
<1>3. d = [w EXCEPT !.history = h, !.hits = w.hits + c]
      /\ \A t \in Tracker : t # Watcher => mem'[t] = mem[t]
  BY <1>1, <1>2 DEF BehaviourTypeOK, Data
<1>4. c \in Nat
  BY <1>1, QueriesFinite
<1>5. \A q \in Query : /\ h[q] \in Entry /\ h[q].at = w.history[q].at
                       /\ h[q].useful = IF q \in Recent(n) THEN TRUE ELSE w.history[q].useful
  <2> SUFFICES ASSUME NEW q \in Query
               PROVE  /\ h[q] \in Entry /\ h[q].at = w.history[q].at
                      /\ h[q].useful = IF q \in Recent(n) THEN TRUE ELSE w.history[q].useful
    OBVIOUS
  <2> DEFINE e == w.history[q]
  <2>1. e \in Entry
    BY <1>1, DataIs
  <2> HIDE DEF e
  <2>2. Marked(e) \in Entry /\ Marked(e).at = e.at /\ Marked(e).useful = TRUE
    BY <2>1 DEF Marked, Entry
  <2> QED BY <2>1, <2>2 DEF e
<1> HIDE DEF h, c, d
<1>6. h \in [Query -> Entry]
  BY <1>5 DEF h
<1>7. d.history = h /\ d.hits = w.hits + c /\ d.patterns = w.patterns /\ d.summary = w.summary
      /\ d \in Data
  <2>1. w.hits + c \in Nat
    BY <1>1, <1>4, DataIs
  <2> HIDE DEF w
  <2> QED BY <1>1, <1>3, <1>6, <2>1 DEF Data
<1>8. /\ counted'[Watcher] =
           counted[Watcher] \cup {w.history[q].at : q \in Recent(n)}
      /\ \A t \in Tracker : t # Watcher => counted'[t] = counted[t]
  BY <1>1 DEF RecordFileEdit, BehaviourTypeOK
<1> QED BY <1>1, <1>3, <1>5, <1>7, <1>8 DEF c, d

\* The copies after a step: each is one of before, or what the step writes.
LEMMA CopiesAfter ==
  ASSUME BehaviourTypeOK, [BehaviourNext]_behaviourVars
  PROVE  \A x \in Copy' :
           \/ Known(x)
           \/ \E p \in Request, q \in Query, good, storing \in BOOLEAN :
                RecordQuery(p, q, good, storing) /\ x = mem'[p]
<1> SUFFICES ASSUME NEW x \in Copy'
             PROVE  \/ Known(x)
                    \/ \E p \in Request, q \in Query, good, storing \in BOOLEAN :
                         RecordQuery(p, q, good, storing) /\ x = mem'[p]
  OBVIOUS
<1>1. x = file' \/ \E t \in Tracker : x = mem'[t]
  BY DEF Copy
<1>2. CASE UNCHANGED behaviourVars
  <2>1. x \in Copy
    BY <1>1, <1>2 DEF behaviourVars, trackers, Copy
  <2> QED BY <2>1, AllKnown
<1>3. ASSUME NEW p \in Tracker, Open(p) PROVE Known(x)
  <2>1. file' = file
    BY <1>3 DEF Open
  <2> QED BY <1>1, <1>3, <2>1, OpenIs, AllKnown, CopyIs
<1>4. ASSUME NEW p \in Tracker, Save(p) PROVE Known(x)
  <2>1. x \in {Written(p), Empty} \/ \E t \in Tracker : x = mem[t]
    BY <1>1, <1>4, SaveIs
  <2> QED BY <2>1, AllKnown, CopyIs
<1>5. ASSUME NEW p \in Tracker, Drop(p) PROVE Known(x)
  <2>1. file' = file
    BY <1>5 DEF Drop
  <2> QED BY <1>1, <1>5, <2>1, DropIs, AllKnown, CopyIs
<1>6. ASSUME NEW p \in Request, NEW q \in Query, NEW good \in BOOLEAN,
             NEW storing \in BOOLEAN, RecordQuery(p, q, good, storing)
      PROVE  Known(x) \/ x = mem'[p]
  <2>0. Recorded(p, q, good)
    BY <1>6, RecordIs
  <2>1. file' = file
    BY <1>6 DEF RecordQuery
  <2> QED BY <1>1, <2>0, <2>1, AllKnown, CopyIs DEF Recorded
<1>7. ASSUME NEW n \in Recording, RecordFileEdit(n) PROVE Known(x)
  <2>1. file' = file
    BY <1>7 DEF RecordFileEdit
  <2>2. Known(mem'[Watcher])
    BY <1>7, EditIs, AllKnown, CopyIs DEF Known
  <2> QED BY <1>1, <1>7, <2>1, <2>2, EditIs, AllKnown, CopyIs
<1> QED BY <1>2, <1>3, <1>4, <1>5, <1>6, <1>7 DEF BehaviourNext

\* Either all entries were known, or one query was asked that was unknown, or may
\* be asked again.
LEMMA EntriesAfter ==
  ASSUME TrackersInv, [BehaviourNext]_behaviourVars
  PROVE  \/ \A x \in Copy' : Known(x)
         \/ /\ asked' = asked + 1
            /\ \E q \in Query : \A x \in Copy' : \A r \in Query : x.history[r].at # 0 =>
                 \/ r = q /\ x.history[r].at = asked + 1
                 \/ /\ \E y \in Copy : y.history[r].at = x.history[r].at
                    /\ r = q => q \in Repeated
<1> USE DEF TrackersInv, BoundedInv
<1>1. CASE ~\E p \in Request, q \in Query, good, storing \in BOOLEAN :
             RecordQuery(p, q, good, storing)
  BY <1>1, CopiesAfter
<1>2. ASSUME NEW p \in Request, NEW q \in Query, NEW good \in BOOLEAN,
             NEW storing \in BOOLEAN, RecordQuery(p, q, good, storing)
      PROVE  /\ asked' = asked + 1
             /\ \A x \in Copy' : \A r \in Query : x.history[r].at # 0 =>
                 \/ r = q /\ x.history[r].at = asked + 1
                 \/ /\ \E y \in Copy : y.history[r].at = x.history[r].at
                    /\ r = q => q \in Repeated
  <2>0. Recorded(p, q, good)
    BY <1>2, RecordIs
  <2>1. asked' = asked + 1
    BY <1>2 DEF RecordQuery
  <2>2. q \in Repeated \/ \A y \in Copy : y.history[q].at = 0
    <3>1. q \in Repeated \/ \A t \in Tracker : q \notin Kept(mem[t]) \cup Kept(file)
      BY <1>2 DEF RecordQuery
    <3>2. p \in Tracker
      BY <2>0 DEF Recorded
    <3> QED BY <3>1, <3>2, CopyIs DEF Kept
  <2>3. file' = file
    BY <1>2 DEF RecordQuery
  <2> SUFFICES ASSUME NEW x \in Copy', NEW r \in Query, x.history[r].at # 0
               PROVE  \/ r = q /\ x.history[r].at = asked + 1
                      \/ /\ \E y \in Copy : y.history[r].at = x.history[r].at
                         /\ r = q => q \in Repeated
    BY <2>1
  <2>4. CASE x \in Copy
    BY <2>2, <2>4
  <2>5. CASE x = mem'[p]
    BY <2>0, <2>2, <2>5, CopyIs DEF Recorded
  <2>6. x \in Copy \/ x = mem'[p]
    <3>1. x = file' \/ \E t \in Tracker : x = mem'[t]
      BY DEF Copy
    <3> QED BY <2>0, <2>3, <3>1, CopyIs DEF Recorded
  <2> QED BY <2>4, <2>5, <2>6
<1> QED BY <1>1, <1>2

LEMMA TrackerTypeStep == TrackersInv /\ [BehaviourNext]_behaviourVars => BehaviourTypeOK'
<1> SUFFICES ASSUME TrackersInv, [BehaviourNext]_behaviourVars PROVE BehaviourTypeOK'
  OBVIOUS
<1> USE DEF TrackersInv, BoundedInv
<1>a. /\ file \in Data /\ \A p \in Tracker : mem[p] \in Data
      /\ \A p \in Tracker : base[p] \in [length : Nat, summary : Nat, adopted : Nat]
      /\ NoBase \in [length : Nat, summary : Nat, adopted : Nat]
  BY DEF BehaviourTypeOK, NoBase
<1>1. CASE UNCHANGED behaviourVars
  BY <1>1 DEF behaviourVars, trackers, history, BehaviourTypeOK, Data, Kept
<1>2. ASSUME NEW p \in Tracker, Open(p) PROVE BehaviourTypeOK'
  <2>1. Pruned(file) \in Data /\ Len(file.patterns) \in Nat /\ file.summary \in Nat
    BY <1>a, PrunedIs, DataIs
  <2>2. mem' \in [Tracker -> Data]
    BY <1>2, <2>1 DEF Open, BehaviourTypeOK
  <2>3. base' \in [Tracker -> [length : Nat, summary : Nat, adopted : Nat]]
    BY <1>2, <2>1 DEF Open, BehaviourTypeOK
  <2>4. stage' \in [Tracker -> {"none", "loaded", "recorded"}] /\ counted' \in [Tracker -> SUBSET Recording]
    BY <1>2 DEF Open, BehaviourTypeOK
  <2>5. UNCHANGED <<file, asked, summed, gone, filed, consumed, spliced, reverted, unmarked, echoed>>
    BY <1>2 DEF Open
  <2> QED BY <2>2, <2>3, <2>4, <2>5 DEF BehaviourTypeOK, Kept
<1>3. ASSUME NEW p \in Tracker, Save(p) PROVE BehaviourTypeOK'
  <2>1. Written(p) \in Data /\ Empty \in Data
    BY WrittenIs, CopyIs
  <2>2. file' \in Data /\ mem' \in [Tracker -> Data]
    BY <1>3, <2>1 DEF Save, BehaviourTypeOK
  <2>3. Cardinality(Kept(file')) <= MaxHistory
    BY <1>3, MergedIs, MergedAges, PrunedFits DEF Save, Written
  <2>4. base' \in [Tracker -> [length : Nat, summary : Nat, adopted : Nat]]
    <3>1. [base[p] EXCEPT !.adopted = @ + 1] \in [length : Nat, summary : Nat, adopted : Nat]
      BY <1>a
    <3>2. \/ base' = [base EXCEPT ![p] = NoBase] \/ base' = base
          \/ base' = [base EXCEPT ![p].adopted = @ + 1]
      BY <1>3 DEF Save
    <3> QED BY <1>a, <3>1, <3>2 DEF BehaviourTypeOK
  <2>5. stage' \in [Tracker -> {"none", "loaded", "recorded"}]
    BY <1>3 DEF Save, BehaviourTypeOK
  <2>6. filed' \in SUBSET Recording
    BY <1>3 DEF Save, BehaviourTypeOK
  <2>7. counted' \in [Tracker -> SUBSET Recording]
    BY <1>3, <2>6 DEF Save, BehaviourTypeOK
  <2>8. spliced' \in Nat
    <3>1. Len(Appended(p, mem[p])) \in Nat /\ spliced \in Nat
      BY AppendedIs DEF BehaviourTypeOK
    <3>2. spliced' = IF Summarized(p) THEN spliced + Len(Appended(p, mem[p])) ELSE spliced
      BY <1>3 DEF Save
    <3> QED BY <3>1, <3>2
  <2>9. gone' \subseteq Query
    BY <1>3 DEF Save, BehaviourTypeOK, Kept
  <2>10. {reverted', unmarked', echoed'} \subseteq BOOLEAN
    <3>1. reverted' \in BOOLEAN
      BY <1>3 DEF Save, BehaviourTypeOK
    <3>2. unmarked' \in BOOLEAN /\ echoed' \in BOOLEAN
      BY <1>3 DEF Save, BehaviourTypeOK
    <3> QED BY <3>1, <3>2
  <2>11. UNCHANGED <<asked, summed, consumed>>
    BY <1>3 DEF Save
  <2>12. (Cardinality(Kept(file)) <= MaxHistory)'
    BY <2>3 DEF Kept
  <2> QED BY <2>2, <2>12, <2>4, <2>5, <2>6, <2>7, <2>8, <2>9, <2>10, <2>11 DEF BehaviourTypeOK
<1>4. ASSUME NEW p \in Tracker, Drop(p) PROVE BehaviourTypeOK'
  <2>1. mem' \in [Tracker -> Data]
    BY <1>4, CopyIs DEF Drop, BehaviourTypeOK
  <2>2. base' \in [Tracker -> [length : Nat, summary : Nat, adopted : Nat]]
    BY <1>4, <1>a DEF Drop, BehaviourTypeOK
  <2>3. stage' \in [Tracker -> {"none", "loaded", "recorded"}] /\ counted' \in [Tracker -> SUBSET Recording]
    BY <1>4 DEF Drop, BehaviourTypeOK
  <2>4. UNCHANGED <<file, asked, summed, gone, filed, consumed, spliced, reverted, unmarked, echoed>>
    BY <1>4 DEF Drop
  <2> QED BY <2>1, <2>2, <2>3, <2>4 DEF BehaviourTypeOK, Kept
<1>5. ASSUME NEW p \in Request, NEW q \in Query, NEW good \in BOOLEAN,
             NEW storing \in BOOLEAN, RecordQuery(p, q, good, storing)
      PROVE  BehaviourTypeOK'
  <2>0. Recorded(p, q, good)
    BY <1>5, RecordIs
  <2>1. mem' \in [Tracker -> Data]
    <3>1. DOMAIN mem' = Tracker /\ mem' = [t \in DOMAIN mem' |-> mem'[t]]
      BY <1>5 DEF RecordQuery, BehaviourTypeOK
    <3>2. \A t \in Tracker : mem'[t] \in Data
      BY <1>a, <2>0 DEF Recorded
    <3> QED BY <3>1, <3>2
  <2>2. asked' \in 0 .. MaxRecordings /\ asked' = asked + 1 /\ asked + 1 \in Recording
    <3>1. asked' = asked + 1
      BY <1>5 DEF RecordQuery
    <3>2. asked + 1 \in Recording
      BY <2>0 DEF Recorded
    <3> QED BY <3>1, <3>2, LimitAssumption DEF Recording
  <2>3. counted' \in [Tracker -> SUBSET Recording]
    BY <1>5, <2>2 DEF RecordQuery, BehaviourTypeOK
  <2>4. summed' \in 0 .. MaxRecordings /\ summed <= asked
    <3>1. summed <= asked /\ summed \in Nat /\ asked \in Nat
      BY LimitAssumption DEF Past, BehaviourTypeOK
    <3>2. summed' = summed \/ summed' = summed + 1
      BY <1>5 DEF RecordQuery
    <3> QED BY <2>2, <3>1, <3>2, LimitAssumption DEF BehaviourTypeOK
  <2>5. consumed' \in [Recording -> SUBSET Recording]
    <3> DEFINE s == Buffered(mem[p].patterns, asked + 1)
    <3>1. s \in Seq(Recording)
      BY <1>a, <2>0, <2>2, BufferedIs, DataIs DEF Recorded
    <3> HIDE DEF s
    <3>2. ToSet(s) \subseteq Recording
      BY <3>1 DEF ToSet
    <3>3. consumed' = consumed \/ consumed' = [consumed EXCEPT ![summed + 1] = ToSet(s)]
      BY <1>5 DEF RecordQuery, s
    <3> QED BY <3>2, <3>3 DEF BehaviourTypeOK
  <2>6. stage' \in [Tracker -> {"none", "loaded", "recorded"}]
    BY <1>5 DEF RecordQuery, BehaviourTypeOK
  <2>7. UNCHANGED <<file, base, gone, filed, spliced, reverted, unmarked, echoed>>
    BY <1>5 DEF RecordQuery
  <2> QED BY <2>1, <2>2, <2>3, <2>4, <2>5, <2>6, <2>7 DEF BehaviourTypeOK, Kept
<1>6. ASSUME NEW n \in Recording, RecordFileEdit(n) PROVE BehaviourTypeOK'
  <2>1. mem' \in [Tracker -> Data]
    <3>1. DOMAIN mem' = Tracker /\ mem' = [t \in DOMAIN mem' |-> mem'[t]]
      BY <1>6 DEF RecordFileEdit, BehaviourTypeOK
    <3>2. \A t \in Tracker : mem'[t] \in Data
      BY <1>a, <1>6, EditIs
    <3> QED BY <3>1, <3>2
  <2>2. counted' \in [Tracker -> SUBSET Recording]
    <3>1. \A q \in Recent(n) : mem[Watcher].history[q].at \in Recording
      <4>1. Watcher \in Tracker /\ Recent(n) \subseteq Kept(mem[Watcher])
        BY <1>6, EditIs
      <4>2. \A q \in Kept(mem[Watcher]) : mem[Watcher].history[q].at \in Recording
        BY <1>a, <4>1 DEF Kept, Data, Entry
      <4> QED BY <4>1, <4>2
    <3>2. {mem[Watcher].history[q].at : q \in Recent(n)} \in SUBSET Recording
      BY <3>1
    <3> DEFINE c == {mem[Watcher].history[q].at : q \in Recent(n)}
    <3>3. counted' = [counted EXCEPT ![Watcher] = @ \cup c]
      BY <1>6 DEF RecordFileEdit
    <3> HIDE DEF c
    <3> QED BY <3>2, <3>3 DEF c, BehaviourTypeOK
  <2>3. UNCHANGED <<file, stage, base, asked, summed, gone, filed, consumed, spliced,
                    reverted, unmarked, echoed>>
    BY <1>6 DEF RecordFileEdit
  <2> QED BY <2>1, <2>2, <2>3 DEF BehaviourTypeOK, Kept
<1> QED BY <1>1, <1>2, <1>3, <1>4, <1>5, <1>6 DEF BehaviourNext

\* Who has a buffer and a summary of the past.
LEMMA ConcatSet ==
  ASSUME NEW S, NEW a \in Seq(S), NEW b \in Seq(S)
  PROVE  ToSet(a \o b) = ToSet(a) \cup ToSet(b)
<1>1. /\ DOMAIN (a \o b) = 1 .. Len(a) + Len(b)
      /\ \A i \in 1 .. Len(a) : (a \o b)[i] = a[i]
      /\ \A i \in 1 .. Len(b) : (a \o b)[Len(a) + i] = b[i]
      /\ DOMAIN a = 1 .. Len(a) /\ DOMAIN b = 1 .. Len(b)
      /\ Len(a) \in Nat /\ Len(b) \in Nat
  OBVIOUS
<1>2. ASSUME NEW v \in ToSet(a \o b) PROVE v \in ToSet(a) \/ v \in ToSet(b)
  <2>1. PICK i \in 1 .. Len(a) + Len(b) : v = (a \o b)[i]
    BY <1>1, <1>2 DEF ToSet
  <2>2. CASE i \in 1 .. Len(a)
    BY <1>1, <2>1, <2>2 DEF ToSet
  <2>3. CASE i \notin 1 .. Len(a)
    <3> DEFINE k == i - Len(a)
    <3>1. k \in 1 .. Len(b) /\ i = Len(a) + k
      BY <1>1, <2>3
    <3> QED BY <1>1, <2>1, <3>1 DEF ToSet
  <2> QED BY <2>2, <2>3
<1>3. ASSUME NEW v \in ToSet(a) PROVE v \in ToSet(a \o b)
  <2>1. PICK i \in 1 .. Len(a) : v = a[i]
    BY <1>1, <1>3 DEF ToSet
  <2>2. i \in 1 .. Len(a) + Len(b) /\ (a \o b)[i] = v
    BY <1>1, <2>1
  <2> QED BY <1>1, <2>2 DEF ToSet
<1>4. ASSUME NEW v \in ToSet(b) PROVE v \in ToSet(a \o b)
  <2>1. PICK i \in 1 .. Len(b) : v = b[i]
    BY <1>1, <1>4 DEF ToSet
  <2>2. Len(a) + i \in 1 .. Len(a) + Len(b) /\ (a \o b)[Len(a) + i] = v
    BY <1>1, <2>1
  <2> QED BY <1>1, <2>2 DEF ToSet
<1> QED BY <1>2, <1>3, <1>4

LEMMA AppendedSet ==
  ASSUME BehaviourTypeOK, NEW p \in Tracker
  PROVE  ToSet(Appended(p, mem[p])) \subseteq ToSet(mem[p].patterns)
<1> DEFINE a == Appended(p, mem[p])
           s == mem[p].patterns
           n == base[p].length
<1>1. a \in Seq(Recording) /\ s \in Seq(Recording) /\ n \in Nat
  BY AppendedIs, DataIs DEF BehaviourTypeOK
<1>2. /\ Len(a) = IF n < Len(s) THEN Len(s) - n ELSE 0
      /\ \A i \in 1 .. Len(a) : a[i] = s[n + i]
  BY AppendedIs
<1> HIDE DEF a, s, n
<1>3. \A i \in 1 .. Len(a) : n + i \in 1 .. Len(s) /\ a[i] = s[n + i]
  BY <1>1, <1>2
<1> QED BY <1>1, <1>3 DEF ToSet, a, s

\* Buffers after a merge.
LEMMA WrittenBuffer ==
  ASSUME BehaviourTypeOK, NEW p \in Tracker
  PROVE  /\ ToSet(Written(p).patterns) =
              IF Summarized(p) THEN ToSet(file.patterns) \cup ToSet(Appended(p, mem[p]))
              ELSE ToSet(mem[p].patterns)
         /\ Len(Written(p).patterns) =
              IF Summarized(p) THEN Len(file.patterns) + Len(Appended(p, mem[p]))
              ELSE Len(mem[p].patterns)
         /\ Written(p).summary = IF Summarized(p) THEN file.summary ELSE mem[p].summary
<1>1. file.patterns \in Seq(Recording) /\ Appended(p, mem[p]) \in Seq(Recording)
  BY AppendedIs, DataIs DEF BehaviourTypeOK
<1>2. Written(p).patterns = IF Summarized(p) THEN file.patterns \o Appended(p, mem[p])
                            ELSE mem[p].patterns
  BY WrittenIs, MergedIs
<1>3. ToSet(file.patterns \o Appended(p, mem[p])) =
        ToSet(file.patterns) \cup ToSet(Appended(p, mem[p]))
  BY <1>1, ConcatSet
<1>4. Len(file.patterns \o Appended(p, mem[p])) = Len(file.patterns) + Len(Appended(p, mem[p]))
  BY <1>1
<1> QED BY <1>2, <1>3, <1>4, WrittenIs, MergedIs

LEMMA AtRestStep == TrackersInv /\ [BehaviourNext]_behaviourVars => AtRest'
<1> SUFFICES ASSUME TrackersInv, [BehaviourNext]_behaviourVars PROVE AtRest'
  OBVIOUS
<1> USE DEF TrackersInv, BoundedInv
<1>1. CASE UNCHANGED behaviourVars
  BY <1>1 DEF behaviourVars, trackers, history, AtRest
<1>2. ASSUME NEW p \in Tracker, Open(p) PROVE AtRest'
  BY <1>2, OpenIs DEF AtRest
<1>3. ASSUME NEW p \in Tracker, Save(p) PROVE AtRest'
  <2> SUFFICES ASSUME NEW t \in Tracker
               PROVE  /\ stage'[t] = "none" => mem'[t] = Empty /\ base'[t] = NoBase /\ counted'[t] = {}
                      /\ stage'[t] = "recorded" => t \in Request
                      /\ t \in Request => base'[t].adopted = 0
    BY DEF AtRest
  <2>1. CASE t # p
    <3>1. mem'[t] = mem[t] /\ counted'[t] = counted[t] /\ base'[t] = base[t] /\ stage'[t] = stage[t]
      BY <1>3, <2>1, SaveKeeps
    <3> QED BY <3>1 DEF AtRest
  <2>2. CASE t = p /\ p = Watcher
    <3>1. stage'[t] = "loaded" /\ t \notin Request
      BY <1>3, <2>2, SaveIs, RoleAssumption
    <3> QED BY <3>1
  <2>3. CASE t = p /\ p # Watcher
    <3>1. mem'[t] = Empty
      BY <1>3, <2>3, SaveIs
    <3>2. base'[t] = NoBase
      BY <1>3, <2>3, SaveIs
    <3>3. counted'[t] = {} /\ stage'[t] = "none"
      BY <1>3, <2>3, SaveIs
    <3> QED BY <3>1, <3>2, <3>3 DEF NoBase
  <2> QED BY <2>1, <2>2, <2>3
<1>4. ASSUME NEW p \in Tracker, Drop(p) PROVE AtRest'
  BY <1>4, DropIs DEF AtRest, NoBase
<1>5. ASSUME NEW p \in Request, NEW q \in Query, NEW good \in BOOLEAN,
             NEW storing \in BOOLEAN, RecordQuery(p, q, good, storing)
      PROVE  AtRest'
  <2>0. Recorded(p, q, good)
    BY <1>5, RecordIs
  <2>1. base' = base
    BY <1>5 DEF RecordQuery
  <2> QED BY <1>5, <2>0, <2>1 DEF AtRest, Recorded
<1>6. ASSUME NEW n \in Recording, RecordFileEdit(n) PROVE AtRest'
  <2>1. stage' = stage /\ base' = base /\ stage[Watcher] = "loaded"
    BY <1>6 DEF RecordFileEdit
  <2> QED BY <1>6, <2>1, EditIs DEF AtRest
<1> QED BY <1>1, <1>2, <1>3, <1>4, <1>5, <1>6 DEF BehaviourNext

\* The buffer and the summary of a copy are of the past.
Behind(x) == ToSet(x.patterns) \subseteq 1 .. asked /\ x.summary <= summed

LEMMA AllBehind ==
  ASSUME BehaviourTypeOK, Past
  PROVE  /\ \A x \in Copy : Behind(x)
         /\ Behind(Empty) /\ Behind(Pruned(file))
         /\ \A p \in Tracker : Behind(Written(p))
<1>1. \A x \in Copy : Behind(x)
  BY DEF Past, Behind
<1>2. Behind(Empty)
  BY DEF Behind, Empty, ToSet, BehaviourTypeOK
<1>3. Behind(Pruned(file))
  BY <1>1, CopyIs, PrunedIs DEF Behind
<1>4. ASSUME NEW p \in Tracker PROVE Behind(Written(p))
  BY <1>1, CopyIs, WrittenBuffer, AppendedSet DEF Behind
<1> QED BY <1>1, <1>2, <1>3, <1>4

LEMMA PastStep == TrackersInv /\ [BehaviourNext]_behaviourVars => Past'
<1> SUFFICES ASSUME TrackersInv, [BehaviourNext]_behaviourVars PROVE Past'
  OBVIOUS
<1> USE DEF TrackersInv, BoundedInv
<1>a. asked \in Nat /\ summed \in Nat /\ summed <= asked /\ filed \subseteq 1 .. asked
  BY DEF BehaviourTypeOK, Past
<1>b. \A t \in Tracker : counted[t] \subseteq 1 .. asked
  BY DEF Past
<1>c. \A k \in Recording : consumed[k] \subseteq 1 .. asked
  BY DEF Past
<1>d. asked' = asked \/ asked' = asked + 1
  <2>1. CASE UNCHANGED behaviourVars
    BY <2>1 DEF behaviourVars
  <2>2. ASSUME NEW p \in Tracker, Open(p) \/ Drop(p) PROVE asked' = asked
    BY <2>2 DEF Open, Drop
  <2>3. ASSUME NEW p \in Tracker, Save(p) PROVE asked' = asked
    BY <2>3 DEF Save
  <2>4. ASSUME NEW p \in Request, NEW q \in Query, NEW good \in BOOLEAN,
               NEW storing \in BOOLEAN, RecordQuery(p, q, good, storing)
        PROVE  asked' = asked + 1
    BY <2>4 DEF RecordQuery
  <2>5. ASSUME NEW n \in Recording, RecordFileEdit(n) PROVE asked' = asked
    BY <2>5 DEF RecordFileEdit
  <2> QED BY <2>1, <2>2, <2>3, <2>4, <2>5 DEF BehaviourNext
<1>e. \A x \in Copy' : \A q \in Query : x.history[q].at <= asked'
  <2> SUFFICES ASSUME NEW x \in Copy', NEW q \in Query PROVE x.history[q].at <= asked'
    OBVIOUS
  <2>1. CASE \E y \in Copy : y.history[q].at = x.history[q].at
    <3>1. PICK y \in Copy : y.history[q].at = x.history[q].at
      BY <2>1
    <3>2. y.history[q].at <= asked /\ y.history[q].at \in Nat
      BY CopyIs, DataIs DEF Past
    <3> QED BY <1>a, <1>d, <3>1, <3>2
  <2>2. CASE x.history[q].at = 0
    BY <1>a, <1>d, <2>2
  <2>3. CASE x.history[q].at = asked + 1 /\ asked' = asked + 1
    BY <1>a, <2>3
  <2> QED BY <2>1, <2>2, <2>3, EntriesAfter DEF Known
<1>1. CASE UNCHANGED behaviourVars
  BY <1>1 DEF behaviourVars, trackers, history, Past, Copy
<1>2. ASSUME \A x \in Copy' : Behind(x) \/ (ToSet(x.patterns) \subseteq 1 .. asked' /\ x.summary <= summed'),
             \A t \in Tracker : counted'[t] \subseteq 1 .. asked', filed' \subseteq 1 .. asked',
             summed' \in Nat, summed <= summed', summed' <= asked',
             \A k \in Recording : consumed'[k] \subseteq 1 .. asked'
      PROVE  Past'
  <2>1. \A x \in Copy' : ToSet(x.patterns) \subseteq 1 .. asked' /\ x.summary <= summed'
    <3> SUFFICES ASSUME NEW x \in Copy', Behind(x)
                 PROVE  ToSet(x.patterns) \subseteq 1 .. asked' /\ x.summary <= summed'
      BY <1>2
    <3>1. x.summary \in Nat
      BY TrackerTypeStep DEF BehaviourTypeOK, Copy, Data
    <3> QED BY <1>a, <1>d, <1>2, <3>1 DEF Behind
  <2> QED BY <1>e, <1>2, <2>1 DEF Past
<1>f. \A x \in Copy' : x = file' \/ \E t \in Tracker : x = mem'[t]
  BY DEF Copy
<1>3. ASSUME NEW p \in Tracker, Open(p) PROVE Past'
  <2>1. UNCHANGED <<file, asked, summed, filed, consumed>>
    BY <1>3 DEF Open
  <2>2. \A x \in Copy' : Behind(x)
    BY <1>3, <1>f, <2>1, OpenIs, AllBehind, CopyIs
  <2>3. \A t \in Tracker : counted'[t] \subseteq 1 .. asked
    BY <1>a, <1>b, <1>3, OpenIs
  <2> QED BY <1>a, <1>c, <1>2, <2>1, <2>2, <2>3
<1>4. ASSUME NEW p \in Tracker, Save(p) PROVE Past'
  <2>1. UNCHANGED <<asked, summed, consumed>> /\ filed' \in {filed, counted[p]}
    BY <1>4 DEF Save
  <2>2. \A x \in Copy' : Behind(x)
    <3>1. \A x \in Copy' : x \in {Written(p), Empty} \/ \E t \in Tracker : x = mem[t]
      <4> SUFFICES ASSUME NEW x \in Copy'
                   PROVE  x \in {Written(p), Empty} \/ \E t \in Tracker : x = mem[t]
        OBVIOUS
      <4>1. x = file' \/ \E t \in Tracker : x = mem'[t]
        BY <1>f
      <4> QED BY <1>4, <4>1, SaveIs
    <3> QED BY <3>1, AllBehind, CopyIs
  <2>3. filed' \subseteq 1 .. asked
    BY <1>a, <1>b, <2>1
  <2>4. \A t \in Tracker : counted'[t] \subseteq 1 .. asked
    BY <1>b, <1>4, <2>3, SaveIs
  <2> QED BY <1>a, <1>c, <1>2, <2>1, <2>2, <2>3, <2>4
<1>5. ASSUME NEW p \in Tracker, Drop(p) PROVE Past'
  <2>1. UNCHANGED <<file, asked, summed, filed, consumed>>
    BY <1>5 DEF Drop
  <2>2. \A x \in Copy' : Behind(x)
    BY <1>5, <1>f, <2>1, DropIs, AllBehind, CopyIs
  <2>3. \A t \in Tracker : counted'[t] \subseteq 1 .. asked
    BY <1>b, <1>5, DropIs
  <2> QED BY <1>a, <1>c, <1>2, <2>1, <2>2, <2>3
<1>6. ASSUME NEW p \in Request, NEW q \in Query, NEW good \in BOOLEAN,
             NEW storing \in BOOLEAN, RecordQuery(p, q, good, storing)
      PROVE  Past'
  <2>0. Recorded(p, q, good)
    BY <1>6, RecordIs
  <2> DEFINE s == Buffered(mem[p].patterns, asked + 1)
  <2>1. file' = file /\ filed' = filed /\ asked' = asked + 1
    BY <1>6 DEF RecordQuery
  <2>2. p \in Tracker /\ asked + 1 \in Recording
    BY <2>0 DEF Recorded
  <2>3. ToSet(s) \subseteq 1 .. asked + 1
    <3>1. mem[p].patterns \in Seq(Recording) /\ ToSet(mem[p].patterns) \subseteq 1 .. asked
      BY <2>2, CopyIs, DataIs DEF Past
    <3>2. ToSet(s) \subseteq ToSet(mem[p].patterns) \cup {asked + 1}
      BY <2>2, <3>1, BufferedIs
    <3> QED BY <1>a, <3>1, <3>2
  <2> HIDE DEF s
  <2>4. /\ summed' = summed + 1 /\ mem'[p].patterns = <<>> /\ mem'[p].summary = summed'
           /\ consumed' = [consumed EXCEPT ![summed + 1] = ToSet(s)]
        \/ /\ summed' = summed /\ mem'[p].patterns = s /\ mem'[p].summary = mem[p].summary
           /\ consumed' = consumed
    BY <2>0 DEF Recorded, s
  <2>5. \A t \in Tracker : counted'[t] \subseteq 1 .. asked'
    BY <1>a, <1>b, <2>0, <2>1, <2>2 DEF Recorded
  <2>6. \A k \in Recording : consumed'[k] \subseteq 1 .. asked'
    BY <1>a, <1>c, <2>1, <2>3, <2>4 DEF BehaviourTypeOK
  <2>7. ToSet(mem'[p].patterns) \subseteq 1 .. asked' /\ mem'[p].summary <= summed'
    <3>1. ToSet(<<>>) = {}
      BY DEF ToSet
    <3>2. mem[p].summary <= summed
      BY <2>2, CopyIs DEF Past
    <3> QED BY <1>a, <2>1, <2>3, <2>4, <3>1, <3>2
  <2>8. \A x \in Copy' : Behind(x) \/ x = mem'[p]
    BY <1>f, <2>0, <2>1, AllBehind, CopyIs DEF Recorded
  <2>9. summed' \in Nat /\ summed <= summed' /\ summed' <= asked' /\ filed' \subseteq 1 .. asked'
    BY <1>a, <2>1, <2>4
  <2> QED BY <1>2, <2>5, <2>6, <2>7, <2>8, <2>9
<1>7. ASSUME NEW n \in Recording, RecordFileEdit(n) PROVE Past'
  <2>1. UNCHANGED <<file, asked, summed, filed, consumed>>
    BY <1>7 DEF RecordFileEdit
  <2>2. \A x \in Copy' : Behind(x)
    <3>1. Behind(mem'[Watcher])
      BY <1>7, EditIs, AllBehind, CopyIs DEF Behind
    <3> QED BY <1>7, <1>f, <2>1, <3>1, EditIs, AllBehind, CopyIs
  <2>3. \A t \in Tracker : counted'[t] \subseteq 1 .. asked
    <3>1. \A q \in Recent(n) : mem[Watcher].history[q].at \in 1 .. asked
      <4>1. Watcher \in Tracker /\ Recent(n) \subseteq Kept(mem[Watcher])
        BY <1>7, EditIs
      <4>2. \A q \in Kept(mem[Watcher]) : q \in Query /\ mem[Watcher].history[q].at # 0
        BY DEF Kept
      <4>3. \A q \in Query : mem[Watcher].history[q].at \in Nat /\ mem[Watcher].history[q].at <= asked
        BY <4>1, CopyIs, DataIs DEF Past
      <4> QED BY <1>a, <4>1, <4>2, <4>3
    <3>2. {mem[Watcher].history[q].at : q \in Recent(n)} \subseteq 1 .. asked
      BY <3>1
    <3> QED BY <1>b, <1>7, <3>2, EditIs
  <2> QED BY <1>a, <1>c, <1>2, <2>1, <2>2, <2>3
<1> QED BY <1>1, <1>3, <1>4, <1>5, <1>6, <1>7 DEF BehaviourNext

LEMMA OneQueryStep == TrackersInv /\ [BehaviourNext]_behaviourVars => OneQuery'
<1> SUFFICES ASSUME TrackersInv, [BehaviourNext]_behaviourVars,
                    NEW x \in Copy', NEW y \in Copy', NEW q \in Query, NEW r \in Query,
                    x.history[q].at # 0, x.history[q].at = y.history[r].at
             PROVE  q = r
  BY DEF OneQuery, Kept
<1> USE DEF TrackersInv, BoundedInv
<1>1. ASSUME NEW v \in Copy, NEW w \in Copy, v.history[q].at = x.history[q].at,
             w.history[r].at = y.history[r].at
      PROVE  q = r
  BY <1>1 DEF OneQuery, Kept
<1>2. \A v \in Copy : \A s \in Query : v.history[s].at <= asked /\ v.history[s].at \in Nat
  BY CopyIs, DataIs DEF Past
<1>3. asked \in Nat
  BY DEF BehaviourTypeOK
<1>4. CASE \A v \in Copy' : Known(v)
  BY <1>1, <1>4 DEF Known
<1>5. ASSUME NEW a \in Query, \A v \in Copy' : \A s \in Query : v.history[s].at # 0 =>
               \/ s = a /\ v.history[s].at = asked + 1
               \/ /\ \E w \in Copy : w.history[s].at = v.history[s].at
                  /\ s = a => a \in Repeated
      PROVE  q = r
  <2>1. \/ q = a /\ x.history[q].at = asked + 1
        \/ \E w \in Copy : w.history[q].at = x.history[q].at
    BY <1>5
  <2>2. \/ r = a /\ y.history[r].at = asked + 1
        \/ \E w \in Copy : w.history[r].at = y.history[r].at
    BY <1>5
  <2> QED BY <1>1, <1>2, <1>3, <2>1, <2>2
<1> QED BY <1>4, <1>5, EntriesAfter

LEMMA OneRecordingStep == TrackersInv /\ [BehaviourNext]_behaviourVars => OneRecording'
<1> SUFFICES ASSUME TrackersInv, [BehaviourNext]_behaviourVars,
                    NEW x \in Copy', NEW y \in Copy', NEW q \in Query \ Repeated,
                    x.history[q].at # 0, y.history[q].at # 0
             PROVE  x.history[q].at = y.history[q].at
  BY DEF OneRecording, Kept
<1> USE DEF TrackersInv, BoundedInv
<1>1. ASSUME NEW v \in Copy, NEW w \in Copy, v.history[q].at = x.history[q].at,
             w.history[q].at = y.history[q].at
      PROVE  x.history[q].at = y.history[q].at
  BY <1>1 DEF OneRecording, Kept
<1>2. CASE \A v \in Copy' : Known(v)
  BY <1>1, <1>2 DEF Known
<1>3. ASSUME NEW a \in Query, \A v \in Copy' : \A s \in Query : v.history[s].at # 0 =>
               \/ s = a /\ v.history[s].at = asked + 1
               \/ /\ \E w \in Copy : w.history[s].at = v.history[s].at
                  /\ s = a => a \in Repeated
      PROVE  x.history[q].at = y.history[q].at
  <2>1. \/ q = a /\ x.history[q].at = asked + 1
        \/ q # a /\ \E w \in Copy : w.history[q].at = x.history[q].at
    BY <1>3
  <2>2. \/ q = a /\ y.history[q].at = asked + 1
        \/ q # a /\ \E w \in Copy : w.history[q].at = y.history[q].at
    BY <1>3
  <2> QED BY <1>1, <2>1, <2>2
<1> QED BY <1>2, <1>3, EntriesAfter

-----------------------------------------------------------------------------
(* What is pruned stays out.                                                 *)

\* A save that puts no older recording back only makes the file newer.
LEMMA MergedNewer ==
  ASSUME TrackersInv, NEW p \in Tracker, Save(p), ~reverted', NEW q \in Query
  PROVE  /\ file.history[q].at <= Merged(p, mem[p]).history[q].at
         /\ mem[p].history[q].at <= Merged(p, mem[p]).history[q].at
<1> USE DEF TrackersInv, BoundedInv
<1>1. /\ file.history[q].at \in Nat /\ mem[p].history[q].at \in Nat
  BY CopyIs, DataIs
<1>2. file.history[q].at # 0 /\ mem[p].history[q].at # 0 =>
        file.history[q].at <= mem[p].history[q].at
  <2>1. ~\E r \in Kept(file) : mem[p].history[r].at \notin {0} /\ mem[p].history[r].at < file.history[r].at
    BY DEF Save
  <2> QED BY <1>1, <2>1 DEF Kept
<1> QED BY <1>1, <1>2, MergedIs

LEMMA StillOutdated ==
  ASSUME TrackersInv, NEW p \in Tracker, Save(p), ~reverted', NEW n \in Nat,
         Outdated(file, n) \/ Outdated(mem[p], n) \/ Outdated(Merged(p, mem[p]), n)
  PROVE  Outdated(Merged(p, mem[p]), n) /\ Outdated(file', n)
<1> USE DEF TrackersInv, BoundedInv
<1> DEFINE m == Merged(p, mem[p])
<1>1. m \in Data /\ file' = Pruned(m)
  BY MergedIs DEF Save, Written
<1>2. Newer(file, n) \subseteq Newer(m, n) /\ Newer(mem[p], n) \subseteq Newer(m, n)
  <2> SUFFICES ASSUME NEW q \in Query
               PROVE  /\ file.history[q].at > n => m.history[q].at > n
                      /\ mem[p].history[q].at > n => m.history[q].at > n
    BY DEF Newer
  <2>1. file.history[q].at \in Nat /\ mem[p].history[q].at \in Nat /\ m.history[q].at \in Nat
    BY <1>1, CopyIs, DataIs
  <2> QED BY <2>1, MergedNewer
<1>3. Outdated(m, n)
  BY <1>2, OutdatedToo
<1> QED BY <1>1, <1>3, PrunedOutdates

\* What a merge loses is outdated by what it keeps.
LEMMA LostIsOutdated ==
  ASSUME TrackersInv, NEW p \in Tracker, Save(p), NEW q \in Query,
         Merged(p, mem[p]).history[q].at # 0, file'.history[q].at = 0
  PROVE  /\ Outdated(Merged(p, mem[p]), Merged(p, mem[p]).history[q].at)
         /\ Outdated(file', Merged(p, mem[p]).history[q].at)
<1> USE DEF TrackersInv, BoundedInv
<1> DEFINE m == Merged(p, mem[p])
<1>1. m \in Data /\ file' = Pruned(m)
  BY MergedIs DEF Save, Written
<1>2. Outdated(m, m.history[q].at)
  BY <1>1, PrunedIs
<1>3. m.history[q].at \in Nat
  BY <1>1, DataIs
<1> QED BY <1>1, <1>2, <1>3, PrunedOutdates

\* The merge has the recording of the file, but for repeated queries.
LEMMA MergedSame ==
  ASSUME TrackersInv, NEW p \in Tracker, NEW q \in Query \ Repeated
  PROVE  /\ file.history[q].at # 0 => Merged(p, mem[p]).history[q].at = file.history[q].at
         /\ mem[p].history[q].at # 0 => Merged(p, mem[p]).history[q].at = mem[p].history[q].at
<1> USE DEF TrackersInv, BoundedInv
<1>1. file.history[q].at # 0 /\ mem[p].history[q].at # 0 =>
        file.history[q].at = mem[p].history[q].at
  BY CopyIs DEF OneRecording, Kept
<1> QED BY <1>1, MergedIs

\* The reason why a pruned entry stays out, kept by every step that changes no file.
LEMMA GoneKept ==
  ASSUME TrackersInv, UNCHANGED <<file, gone, reverted>>,
         \A t \in Tracker : \A q \in Query \ Repeated : mem'[t].history[q].at # 0 =>
           \/ mem'[t].history[q].at = mem[t].history[q].at
           \/ mem'[t].history[q].at = file.history[q].at
           \/ q \notin gone
  PROVE  PrunedStaysOut' /\ GoneOutdated'
<1> USE DEF TrackersInv, BoundedInv
<1>1. PrunedStaysOut'
  BY DEF PrunedStaysOut, Kept
<1>2. ASSUME ~reverted', NEW t \in Tracker, NEW q \in gone \ Repeated, q \in Query,
             mem'[t].history[q].at # 0
      PROVE  Outdated(file, mem'[t].history[q].at)
  <2>1. file.history[q].at = 0
    BY <1>2 DEF PrunedStaysOut, Kept
  <2>2. mem'[t].history[q].at = mem[t].history[q].at
    BY <1>2, <2>1
  <2> QED BY <1>2, <2>2 DEF GoneOutdated, Kept
<1>3. GoneOutdated'
  BY <1>2 DEF GoneOutdated, Kept, Outdated, Newer
<1> QED BY <1>1, <1>3

LEMMA GoneStep ==
  TrackersInv /\ [BehaviourNext]_behaviourVars => PrunedStaysOut' /\ GoneOutdated'
<1> SUFFICES ASSUME TrackersInv, [BehaviourNext]_behaviourVars
             PROVE  PrunedStaysOut' /\ GoneOutdated'
  OBVIOUS
<1> USE DEF TrackersInv, BoundedInv
<1>1. CASE UNCHANGED behaviourVars
  BY <1>1, GoneKept DEF behaviourVars, trackers, history
<1>2. ASSUME NEW p \in Tracker, Open(p) PROVE PrunedStaysOut' /\ GoneOutdated'
  <2>1. UNCHANGED <<file, gone, reverted>>
    BY <1>2 DEF Open
  <2>2. \A q \in Query : Pruned(file).history[q].at # 0 =>
          Pruned(file).history[q].at = file.history[q].at
    BY CopyIs, PrunedIs DEF Absent
  <2> QED BY <1>2, <2>1, <2>2, OpenIs, GoneKept
<1>3. ASSUME NEW p \in Tracker, Save(p) PROVE PrunedStaysOut' /\ GoneOutdated'
  <2> SUFFICES ASSUME ~reverted' PROVE PrunedStaysOut' /\ GoneOutdated'
    BY DEF PrunedStaysOut, GoneOutdated
  <2> DEFINE m == Merged(p, mem[p])
  <2>1. m \in Data /\ file' = Pruned(m) /\ ~reverted
    BY <1>3, MergedIs DEF Save, Written
  <2>2. gone' = gone \cup (Kept(file) \ Kept(file'))
    BY <1>3 DEF Save
  <2>3. ASSUME NEW q \in Query \ Repeated, q \in gone PROVE file'.history[q].at = 0
    <3>1. file.history[q].at = 0
      BY <2>1, <2>3 DEF PrunedStaysOut, Kept
    <3>2. CASE mem[p].history[q].at = 0
      <4>1. m.history[q].at = 0
        BY <3>1, <3>2, MergedIs
      <4> QED BY <2>1, <4>1, PrunedIs DEF Absent
    <3>3. CASE mem[p].history[q].at # 0
      <4>1. Outdated(file, mem[p].history[q].at) /\ mem[p].history[q].at \in Nat
        BY <2>1, <2>3, <3>3, CopyIs, DataIs DEF GoneOutdated, Kept
      <4>2. Outdated(m, m.history[q].at)
        BY <1>3, <3>3, <4>1, StillOutdated, MergedSame
      <4> QED BY <2>1, <4>2, PrunedIs DEF Absent
    <3> QED BY <3>2, <3>3
  <2>4. PrunedStaysOut'
    BY <2>2, <2>3 DEF PrunedStaysOut, Kept
  <2>5. ASSUME NEW t \in Tracker, NEW q \in Query \ Repeated, q \in gone', mem'[t].history[q].at # 0
        PROVE  Outdated(file', mem'[t].history[q].at)
    <3>1. CASE t = p
      <4>1. mem'[t] \in {file', Empty}
        BY <1>3, <3>1, SaveIs
      <4>2. Empty.history[q].at = 0
        BY DEF Empty, Absent
      <4>3. file'.history[q].at = 0
        BY <2>2, <2>3, <2>5 DEF Kept
      <4> QED BY <2>5, <4>1, <4>2, <4>3
    <3>2. CASE t # p
      <4>1. mem'[t] = mem[t] /\ mem[t] \in Copy /\ mem[t].history[q].at \in Nat
        BY <1>3, <3>2, SaveIs, CopyIs, DataIs
      <4>2. CASE q \in gone
        <5>1. Outdated(file, mem[t].history[q].at)
          BY <2>1, <2>5, <4>1, <4>2 DEF GoneOutdated, Kept
        <5> QED BY <1>3, <4>1, <5>1, StillOutdated
      <4>3. CASE q \notin gone
        <5>1. file.history[q].at # 0 /\ file'.history[q].at = 0
          BY <2>2, <2>5, <4>3 DEF Kept
        <5>2. m.history[q].at = file.history[q].at /\ file.history[q].at = mem[t].history[q].at
          BY <2>5, <4>1, <5>1, CopyIs, MergedSame DEF OneRecording, Kept
        <5> QED BY <1>3, <4>1, <5>1, <5>2, LostIsOutdated
      <4> QED BY <4>2, <4>3
    <3> QED BY <3>1, <3>2
  <2>6. GoneOutdated'
    BY <2>5 DEF GoneOutdated, Kept, Outdated, Newer
  <2> QED BY <2>4, <2>6
<1>4. ASSUME NEW p \in Tracker, Drop(p) PROVE PrunedStaysOut' /\ GoneOutdated'
  <2>1. UNCHANGED <<file, gone, reverted>>
    BY <1>4 DEF Drop
  <2>2. \A q \in Query : Empty.history[q].at = 0
    BY DEF Empty, Absent
  <2> QED BY <1>4, <2>1, <2>2, DropIs, GoneKept
<1>5. ASSUME NEW p \in Request, NEW q \in Query, NEW good \in BOOLEAN,
             NEW storing \in BOOLEAN, RecordQuery(p, q, good, storing)
      PROVE  PrunedStaysOut' /\ GoneOutdated'
  <2>0. Recorded(p, q, good)
    BY <1>5, RecordIs
  <2>1. UNCHANGED <<file, gone, reverted>>
    BY <1>5 DEF RecordQuery
  <2>2. q \in Repeated \/ q \notin gone
    <3>1. q \in Repeated \/ \A t \in Tracker : q \notin gone
      BY <1>5 DEF RecordQuery
    <3> QED BY <2>0, <3>1 DEF Recorded
  <2>3. \A t \in Tracker : \A r \in Query : t # p \/ r # q => mem'[t].history[r] = mem[t].history[r]
    BY <2>0 DEF Recorded
  <2> QED BY <2>1, <2>2, <2>3, GoneKept
<1>6. ASSUME NEW n \in Recording, RecordFileEdit(n) PROVE PrunedStaysOut' /\ GoneOutdated'
  <2>1. UNCHANGED <<file, gone, reverted>>
    BY <1>6 DEF RecordFileEdit
  <2>2. \A t \in Tracker : \A r \in Query : mem'[t].history[r].at = mem[t].history[r].at
    BY <1>6, EditIs
  <2> QED BY <2>1, <2>2, GoneKept
<1> QED BY <1>1, <1>2, <1>3, <1>4, <1>5, <1>6 DEF BehaviourNext

-----------------------------------------------------------------------------
(* No recording counts twice.                                                *)

\* CountSound, with the copies named.
SoundAmong(x, C, Y) ==
  /\ x.hits = Cardinality(C)
  /\ \A q \in Query : x.history[q].at \in C => x.history[q].useful
  /\ \A y \in Y : \A q \in Query : y.history[q].at \in C =>
       x.history[q].at >= y.history[q].at \/ Outdated(x, y.history[q].at)

\* A copy that stays remains sound among copies that know no more of its marks.
LEMMA StaysSound ==
  ASSUME NEW x, NEW C, NEW Y, NEW Z, SoundAmong(x, C, Y),
         \A z \in Z : \A q \in Query : z.history[q].at \in C =>
           \E y \in Y : y.history[q].at = z.history[q].at
  PROVE  SoundAmong(x, C, Z)
BY DEF SoundAmong

\* A tracker that holds nothing is sound.
LEMMA EmptySound ==
  ASSUME NEW Y
  PROVE  SoundAmong(Empty, {}, Y)
BY FS_EmptySet DEF SoundAmong, Empty

\* Sound, but for entries that prune() is about to take.
NearlySound(x, C, Y) ==
  /\ x.hits = Cardinality(C)
  /\ \A q \in Query : x.history[q].at \in C =>
       x.history[q].useful \/ Outdated(x, x.history[q].at)
  /\ \A y \in Y : \A q \in Query : y.history[q].at \in C =>
       x.history[q].at >= y.history[q].at \/ Outdated(x, y.history[q].at)

\* prune() makes a copy sound.
LEMMA PrunedSound ==
  ASSUME NEW x \in Data, NEW C \in SUBSET Recording, NEW Y, NearlySound(x, C, Y)
  PROVE  SoundAmong(Pruned(x), C, Y)
<1> DEFINE z == Pruned(x)
<1>1. z.hits = Cardinality(C)
  BY PrunedIs DEF NearlySound
<1>2. ASSUME NEW q \in Query, z.history[q].at \in C PROVE z.history[q].useful
  <2>1. z.history[q].at # 0
    BY <1>2 DEF Recording
  <2>2. z.history[q] = x.history[q] /\ ~Outdated(x, x.history[q].at)
    BY <2>1, PrunedIs DEF Absent
  <2> QED BY <1>2, <2>2 DEF NearlySound
<1>3. ASSUME NEW y \in Y, NEW q \in Query, y.history[q].at \in C
      PROVE  z.history[q].at >= y.history[q].at \/ Outdated(z, y.history[q].at)
  <2> DEFINE a == y.history[q].at
  <2>1. a \in Nat /\ a \in C /\ x.history[q].at \in Nat
    <3>1. a \in C /\ a \in Recording
      BY <1>3
    <3>2. a \in Nat
      BY <3>1, LimitAssumption DEF Recording
    <3>3. x.history[q].at \in Nat
      BY DataIs
    <3> QED BY <3>1, <3>2, <3>3
  <2>2. CASE Outdated(x, a)
    BY <2>1, <2>2, PrunedOutdates
  <2>3. CASE ~Outdated(x, a) /\ Outdated(x, x.history[q].at)
    <3>1. x.history[q].at >= a
      BY <1>3, <2>3 DEF NearlySound
    <3>2. Newer(x, x.history[q].at) \subseteq Newer(x, a)
      <4> SUFFICES ASSUME NEW r \in Query, x.history[r].at > x.history[q].at
                   PROVE  x.history[r].at > a
        BY DEF Newer
      <4> HIDE DEF a
      <4> QED BY <2>1, <3>1, DataIs
    <3> QED BY <2>3, <3>2, OutdatedToo
  <2>4. CASE ~Outdated(x, a) /\ ~Outdated(x, x.history[q].at)
    BY <1>3, <2>4, PrunedIs DEF NearlySound
  <2> QED BY <2>2, <2>3, <2>4
<1> HIDE DEF z
<1> QED BY <1>1, <1>2, <1>3 DEF SoundAmong, z

\* Newer entries of a copy keep what was outdated.
LEMMA NewerSame ==
  ASSUME NEW x \in Data, NEW y \in Data, NEW n \in Nat, Outdated(x, n),
         \A q \in Query : x.history[q].at <= y.history[q].at
  PROVE  Outdated(y, n)
<1>1. Newer(x, n) \subseteq Newer(y, n)
  <2> SUFFICES ASSUME NEW q \in Query, x.history[q].at > n PROVE y.history[q].at > n
    BY DEF Newer
  <2> QED BY DataIs
<1> QED BY <1>1, OutdatedToo

\* A merge takes the count of one side, and that side's marks with it: the other
\* side has none of them without a mark.
LEMMA MergedSound ==
  ASSUME TrackersInv, NEW p \in Tracker, Save(p), ~reverted', ~unmarked'
  PROVE  NearlySound(Merged(p, mem[p]), filed', Copy)
<1> USE DEF TrackersInv, BoundedInv
<1> DEFINE m == Merged(p, mem[p])
           C == filed'
<1>1. SoundAmong(file, filed, Copy) /\ SoundAmong(mem[p], counted[p], Copy)
  <2>1. ~unmarked /\ ~reverted
    BY DEF Save
  <2> QED BY <2>1 DEF CountedOnce, CountsSound, CountSound, SoundAmong
<1>2. /\ file \in Copy /\ mem[p] \in Copy /\ file \in Data /\ mem[p] \in Data /\ m \in Data
      /\ filed \in SUBSET Recording /\ counted[p] \in SUBSET Recording
  BY CopyIs, MergedIs DEF BehaviourTypeOK
<1>3. \A q \in Query : /\ file.history[q].at <= m.history[q].at
                       /\ mem[p].history[q].at <= m.history[q].at
  BY MergedNewer
<1>4. \A q \in Query : m.history[q] =
        IF mem[p].history[q].at # 0 THEN mem[p].history[q] ELSE file.history[q]
  BY MergedIs
<1>5. \A q \in Query : mem[p].history[q].at # 0 /\ file.history[q].useful => mem[p].history[q].useful
  <2>1. ~\E q \in Kept(mem[p]) : file.history[q].useful /\ ~mem[p].history[q].useful
    BY DEF Save
  <2> QED BY <2>1 DEF Kept
<1>6. m.hits = IF file.hits > mem[p].hits THEN file.hits ELSE mem[p].hits
  BY MergedIs
<1>7. C = IF file.hits > mem[p].hits THEN filed ELSE counted[p]
  BY DEF Save
<1>8. \A q \in Query : /\ file.history[q].at \in Nat /\ mem[p].history[q].at \in Nat
                       /\ m.history[q].at \in Nat
  BY <1>2, DataIs
<1> HIDE DEF m, C
<1>9. CASE file.hits > mem[p].hits
  <2>1. C = filed /\ m.hits = Cardinality(filed)
    BY <1>1, <1>6, <1>7, <1>9 DEF SoundAmong
  <2>2. ASSUME NEW y \in Copy, NEW q \in Query, y.history[q].at \in filed
        PROVE  m.history[q].at >= y.history[q].at \/ Outdated(m, y.history[q].at)
    <3>1. y.history[q].at \in Nat
      BY CopyIs, DataIs
    <3>2. file.history[q].at >= y.history[q].at \/ Outdated(file, y.history[q].at)
      BY <1>1, <2>2 DEF SoundAmong
    <3> QED BY <1>2, <1>3, <1>8, <3>1, <3>2, NewerSame
  <2>3. ASSUME NEW q \in Query, m.history[q].at \in filed, ~Outdated(m, m.history[q].at)
        PROVE  m.history[q].useful
    <3>1. m.history[q].at # 0
      BY <1>2, <2>3 DEF Recording
    <3>2. CASE mem[p].history[q].at = 0
      BY <1>1, <1>4, <2>3, <3>2 DEF SoundAmong
    <3>3. CASE mem[p].history[q].at # 0
      <4>1. m.history[q] = mem[p].history[q]
        BY <1>4, <3>3
      <4>2. ~Outdated(file, m.history[q].at)
        BY <1>2, <1>3, <1>8, <2>3, NewerSame
      <4>3. file.history[q].at >= m.history[q].at
        BY <1>1, <1>2, <2>3, <4>1, <4>2 DEF SoundAmong
      <4>4. file.history[q].at = m.history[q].at
        BY <1>3, <1>8, <4>3
      <4>5. file.history[q].useful
        BY <1>1, <2>3, <4>4 DEF SoundAmong
      <4> QED BY <1>5, <3>3, <4>1, <4>5
    <3> QED BY <3>2, <3>3
  <2>4. \A q \in Query : m.history[q].at \in filed =>
          m.history[q].useful \/ Outdated(m, m.history[q].at)
    BY <2>3
  <2>5. NearlySound(m, filed, Copy)
    BY <2>1, <2>2, <2>4 DEF NearlySound
  <2> QED BY <2>1, <2>5 DEF C, m
<1>10. CASE ~(file.hits > mem[p].hits)
  <2>1. C = counted[p] /\ m.hits = Cardinality(counted[p])
    BY <1>1, <1>6, <1>7, <1>10 DEF SoundAmong
  <2>2. ASSUME NEW y \in Copy, NEW q \in Query, y.history[q].at \in counted[p]
        PROVE  m.history[q].at >= y.history[q].at \/ Outdated(m, y.history[q].at)
    <3>1. y.history[q].at \in Nat
      BY CopyIs, DataIs
    <3>2. mem[p].history[q].at >= y.history[q].at \/ Outdated(mem[p], y.history[q].at)
      BY <1>1, <2>2 DEF SoundAmong
    <3> QED BY <1>2, <1>3, <1>8, <3>1, <3>2, NewerSame
  <2>3. ASSUME NEW q \in Query, m.history[q].at \in counted[p], ~Outdated(m, m.history[q].at)
        PROVE  m.history[q].useful
    <3>1. m.history[q].at # 0
      BY <1>2, <2>3 DEF Recording
    <3>2. CASE mem[p].history[q].at # 0
      BY <1>1, <1>4, <2>3, <3>2 DEF SoundAmong
    <3>3. CASE mem[p].history[q].at = 0
      <4>1. m.history[q] = file.history[q]
        BY <1>4, <3>3
      <4>2. ~Outdated(mem[p], m.history[q].at)
        BY <1>2, <1>3, <1>8, <2>3, NewerSame
      <4>3. mem[p].history[q].at >= m.history[q].at
        BY <1>1, <1>2, <2>3, <4>1, <4>2 DEF SoundAmong
      <4> QED BY <1>8, <3>1, <3>3, <4>3
    <3> QED BY <3>2, <3>3
  <2>4. \A q \in Query : m.history[q].at \in counted[p] =>
          m.history[q].useful \/ Outdated(m, m.history[q].at)
    BY <2>3
  <2>5. NearlySound(m, counted[p], Copy)
    BY <2>1, <2>2, <2>4 DEF NearlySound
  <2> QED BY <2>1, <2>5 DEF C, m
<1> QED BY <1>9, <1>10 DEF m, C

\* What the copies of a step may hold of a set of recordings of the past.
LEMMA StillKnown ==
  ASSUME TrackersInv, [BehaviourNext]_behaviourVars, NEW C, C \subseteq 1 .. asked,
         NEW z \in Copy', NEW q \in Query, z.history[q].at \in C
  PROVE  \E y \in Copy : y.history[q].at = z.history[q].at
<1>1. z.history[q].at # 0 /\ z.history[q].at # asked + 1
  BY DEF TrackersInv, BoundedInv, BehaviourTypeOK
<1> QED BY <1>1, EntriesAfter DEF Known

LEMMA CountsStep == TrackersInv /\ [BehaviourNext]_behaviourVars => CountsSound' /\ MarksOnce'
<1> SUFFICES ASSUME TrackersInv, [BehaviourNext]_behaviourVars, ~unmarked', ~reverted'
             PROVE  /\ SoundAmong(file', filed', Copy')
                    /\ \A t \in Tracker : SoundAmong(mem'[t], counted'[t], Copy')
  <2>1. /\ CountSound(file, filed)' = SoundAmong(file', filed', Copy')
        /\ \A t \in Tracker : CountSound(mem[t], counted[t])' = SoundAmong(mem'[t], counted'[t], Copy')
    BY DEF CountSound, SoundAmong, Outdated, Newer
  <2> QED BY <2>1 DEF CountsSound, MarksOnce, SoundAmong
<1> USE DEF TrackersInv, BoundedInv
<1>a. ~unmarked /\ ~reverted
  <2>1. (unmarked => unmarked') /\ (reverted => reverted')
    <3>1. CASE UNCHANGED behaviourVars
      BY <3>1 DEF behaviourVars, history
    <3>2. ASSUME NEW p \in Tracker, Open(p) \/ Drop(p) PROVE UNCHANGED <<unmarked, reverted>>
      BY <3>2 DEF Open, Drop
    <3>3. ASSUME NEW p \in Tracker, Save(p) PROVE (unmarked => unmarked') /\ (reverted => reverted')
      BY <3>3 DEF Save
    <3>4. ASSUME NEW p \in Request, NEW q \in Query, NEW good \in BOOLEAN,
                 NEW storing \in BOOLEAN, RecordQuery(p, q, good, storing)
          PROVE  UNCHANGED <<unmarked, reverted>>
      BY <3>4 DEF RecordQuery
    <3>5. ASSUME NEW n \in Recording, RecordFileEdit(n) PROVE UNCHANGED <<unmarked, reverted>>
      BY <3>5 DEF RecordFileEdit
    <3> QED BY <3>1, <3>2, <3>3, <3>4, <3>5 DEF BehaviourNext
  <2> QED BY <2>1
<1>b. /\ SoundAmong(file, filed, Copy)
      /\ \A t \in Tracker : SoundAmong(mem[t], counted[t], Copy)
  BY <1>a DEF CountedOnce, CountsSound, CountSound, SoundAmong
<1>c. filed \subseteq 1 .. asked /\ \A t \in Tracker : counted[t] \subseteq 1 .. asked
  BY DEF Past
<1>d. asked \in Nat
  BY DEF BehaviourTypeOK
<1>e. /\ SoundAmong(file, filed, Copy')
      /\ \A t \in Tracker : SoundAmong(mem[t], counted[t], Copy')
  <2>1. SoundAmong(file, filed, Copy')
    <3>1. \A z \in Copy' : \A q \in Query : z.history[q].at \in filed =>
            \E y \in Copy : y.history[q].at = z.history[q].at
      BY <1>c, StillKnown
    <3> QED BY <1>b, <3>1, StaysSound
  <2>2. ASSUME NEW t \in Tracker PROVE SoundAmong(mem[t], counted[t], Copy')
    <3>1. \A z \in Copy' : \A q \in Query : z.history[q].at \in counted[t] =>
            \E y \in Copy : y.history[q].at = z.history[q].at
      BY <1>c, StillKnown
    <3> QED BY <1>b, <3>1, StaysSound
  <2> QED BY <2>1, <2>2
<1>1. CASE UNCHANGED behaviourVars
  BY <1>e, <1>1 DEF behaviourVars, trackers, history
<1>2. ASSUME NEW p \in Tracker, Open(p)
      PROVE  /\ SoundAmong(file', filed', Copy')
             /\ \A t \in Tracker : SoundAmong(mem'[t], counted'[t], Copy')
  <2>1. file' = file /\ filed' = filed
    BY <1>2 DEF Open
  <2>2. SoundAmong(Pruned(file), filed, Copy')
    <3>1. file \in Data /\ filed \in SUBSET Recording
      BY DEF BehaviourTypeOK
    <3>2. NearlySound(file, filed, Copy')
      BY <1>e DEF NearlySound, SoundAmong
    <3> QED BY <3>1, <3>2, PrunedSound
  <2> QED BY <1>e, <1>2, <2>1, <2>2, OpenIs
<1>3. ASSUME NEW p \in Tracker, Save(p)
      PROVE  /\ SoundAmong(file', filed', Copy')
             /\ \A t \in Tracker : SoundAmong(mem'[t], counted'[t], Copy')
  <2>1. filed' \in SUBSET Recording /\ filed' \subseteq 1 .. asked
    BY <1>3, <1>c DEF Save, BehaviourTypeOK
  <2>2. SoundAmong(file', filed', Copy')
    <3>1. NearlySound(Merged(p, mem[p]), filed', Copy)
      BY <1>3, MergedSound
    <3>2. Merged(p, mem[p]) \in Data /\ file' = Pruned(Merged(p, mem[p]))
      BY <1>3, MergedIs DEF Save, Written
    <3>3. SoundAmong(file', filed', Copy)
      BY <2>1, <3>1, <3>2, PrunedSound
    <3>4. \A z \in Copy' : \A q \in Query : z.history[q].at \in filed' =>
            \E y \in Copy : y.history[q].at = z.history[q].at
      BY <2>1, StillKnown
    <3> QED BY <3>3, <3>4, StaysSound
  <2>3. SoundAmong(Empty, {}, Copy')
    BY EmptySound
  <2>4. ASSUME NEW t \in Tracker PROVE SoundAmong(mem'[t], counted'[t], Copy')
    <3>1. CASE t # p
      <4>1. mem'[t] = mem[t] /\ counted'[t] = counted[t]
        BY <1>3, <3>1, SaveKeeps
      <4> QED BY <1>e, <4>1
    <3>2. CASE t = p /\ p = Watcher
      <4>1. mem'[t] = Written(p) /\ file' = Written(p)
        BY <1>3, <3>2, SaveIs
      <4>2. counted'[t] = filed'
        BY <1>3, <3>2, SaveIs
      <4> QED BY <2>2, <4>1, <4>2
    <3>3. CASE t = p /\ p # Watcher
      <4>1. mem'[t] = Empty
        BY <1>3, <3>3, SaveIs
      <4>2. counted'[t] = {}
        BY <1>3, <3>3, SaveIs
      <4> QED BY <2>3, <4>1, <4>2
    <3> QED BY <3>1, <3>2, <3>3
  <2> QED BY <2>2, <2>4
<1>4. ASSUME NEW p \in Tracker, Drop(p)
      PROVE  /\ SoundAmong(file', filed', Copy')
             /\ \A t \in Tracker : SoundAmong(mem'[t], counted'[t], Copy')
  <2>1. file' = file /\ filed' = filed
    BY <1>4 DEF Drop
  <2> QED BY <1>e, <1>4, <2>1, DropIs, EmptySound
<1>5. ASSUME NEW p \in Request, NEW q \in Query, NEW good \in BOOLEAN,
             NEW storing \in BOOLEAN, RecordQuery(p, q, good, storing)
      PROVE  /\ SoundAmong(file', filed', Copy')
             /\ \A t \in Tracker : SoundAmong(mem'[t], counted'[t], Copy')
  <2>0. Recorded(p, q, good)
    BY <1>5, RecordIs
  <2>1. file' = file /\ filed' = filed
    BY <1>5 DEF RecordQuery
  <2>2. p \in Tracker /\ mem[p] \in Data /\ mem'[p] \in Data
    BY <2>0, CopyIs DEF Recorded
  <2> DEFINE n == asked + 1
             x == mem'[p]
             C == counted'[p]
  <2>3. C = IF good THEN counted[p] \cup {n} ELSE counted[p]
    BY <2>0 DEF Recorded
  <2>4. \A r \in Query : x.history[r] = IF r = q THEN [at |-> n, useful |-> good] ELSE mem[p].history[r]
    BY <2>0 DEF Recorded
  <2>5. x.hits = IF good THEN mem[p].hits + 1 ELSE mem[p].hits
    BY <2>0 DEF Recorded
  <2>6. \A r \in Query : mem[p].history[r].at <= asked /\ mem[p].history[r].at \in Nat
    BY <2>2, CopyIs, DataIs DEF Past
  <2>7. n \notin counted[p] /\ counted[p] \subseteq 1 .. asked /\ IsFiniteSet(counted[p])
    <3>1. n \notin 1 .. asked /\ IsFiniteSet(1 .. asked)
      BY <1>d, FS_Interval
    <3> QED BY <1>c, <2>2, <3>1, FS_Subset
  <2>8. SoundAmong(mem[p], counted[p], Copy')
    BY <1>e, <2>2
  <2> HIDE DEF n, x, C
  <2>9. x.hits = Cardinality(C)
    <3>1. mem[p].hits = Cardinality(counted[p])
      BY <2>8 DEF SoundAmong
    <3>2. Cardinality(counted[p] \cup {n}) = Cardinality(counted[p]) + 1
      BY <2>7, FS_AddElement
    <3> QED BY <2>3, <2>5, <3>1, <3>2
  <2>10. \A r \in Query : mem[p].history[r].at <= x.history[r].at /\ x.history[r].at \in Nat
    BY <1>d, <2>4, <2>6 DEF n
  <2>11. ASSUME NEW r \in Query, x.history[r].at \in C PROVE x.history[r].useful
    <3>1. CASE r = q
      BY <2>3, <2>4, <2>7, <2>11, <3>1
    <3>2. CASE r # q
      <4>1. x.history[r] = mem[p].history[r] /\ x.history[r].at # n
        BY <1>d, <2>4, <2>6, <3>2 DEF n
      <4>2. x.history[r].at \in counted[p]
        BY <2>3, <2>11, <4>1
      <4> QED BY <2>8, <4>1, <4>2 DEF SoundAmong
    <3> QED BY <3>1, <3>2
  <2>12. ASSUME NEW y \in Copy', NEW r \in Query, y.history[r].at \in C
         PROVE  x.history[r].at >= y.history[r].at \/ Outdated(x, y.history[r].at)
    <3>0. y.history[r].at \in Nat
      <4>1. y \in Data
        BY TrackerTypeStep DEF BehaviourTypeOK, Copy
      <4> QED BY <4>1, DataIs
    <3>1. CASE y.history[r].at \in counted[p]
      <4>1. mem[p].history[r].at >= y.history[r].at \/ Outdated(mem[p], y.history[r].at)
        BY <2>8, <3>1 DEF SoundAmong
      <4> QED BY <2>2, <2>6, <2>10, <3>0, <4>1, NewerSame DEF x
    <3>2. CASE y.history[r].at \notin counted[p]
      <4>1. y.history[r].at = n
        BY <2>3, <2>12, <3>2
      <4>2. x \in Copy' /\ x.history[q].at = n /\ n # 0
        BY <1>d, <2>2, <2>4 DEF x, n, Copy
      <4>3. r = q
        BY <4>1, <4>2, OneQueryStep DEF OneQuery, Kept
      <4> QED BY <3>0, <4>1, <4>2, <4>3
    <3> QED BY <3>1, <3>2
  <2>13. SoundAmong(x, C, Copy')
    BY <2>9, <2>11, <2>12 DEF SoundAmong
  <2>14. ASSUME NEW t \in Tracker, t # p PROVE SoundAmong(mem'[t], counted'[t], Copy')
    <3>1. mem'[t] = mem[t] /\ counted'[t] = counted[t]
      BY <2>0, <2>14 DEF Recorded
    <3> QED BY <1>e, <3>1
  <2> QED BY <1>e, <2>1, <2>13, <2>14 DEF x, C
<1>6. ASSUME NEW n \in Recording, RecordFileEdit(n)
      PROVE  /\ SoundAmong(file', filed', Copy')
             /\ \A t \in Tracker : SoundAmong(mem'[t], counted'[t], Copy')
  <2>1. file' = file /\ filed' = filed
    BY <1>6 DEF RecordFileEdit
  <2> DEFINE w == mem[Watcher]
             x == mem'[Watcher]
             R == Recent(n)
             A == {w.history[q].at : q \in R}
             K == counted[Watcher]
             C == counted'[Watcher]
  <2>2. Watcher \in Tracker /\ w \in Data /\ x \in Data /\ w \in Copy
    BY <1>6, EditIs, CopyIs
  <2>3. R \in SUBSET Query /\ \A q \in R : w.history[q].at # 0 /\ ~w.history[q].useful
    BY DEF Recent, Kept
  <2>4. C = K \cup A /\ x.hits = w.hits + Cardinality(R)
    BY <1>6, EditIs
  <2>5. \A q \in Query : /\ x.history[q].at = w.history[q].at
                         /\ x.history[q].useful = IF q \in R THEN TRUE ELSE w.history[q].useful
    BY <1>6, EditIs
  <2>6. SoundAmong(w, K, Copy')
    BY <1>e, <2>2
  <2>7. \A q \in R, r \in Query : w.history[q].at = w.history[r].at => q = r
    BY <2>2, <2>3 DEF OneQuery, Kept
  <2>8. \A a \in A : \E q \in R : a = w.history[q].at
    OBVIOUS
  <2>9. \A q \in R : w.history[q].at \in A
    OBVIOUS
  <2>10. IsFiniteSet(K)
    <3>1. IsFiniteSet(1 .. asked)
      BY <1>d, FS_Interval
    <3> QED BY <1>c, <2>2, <3>1, FS_Subset
  <2>11. IsFiniteSet(A) /\ Cardinality(A) = Cardinality(R)
    <3> DEFINE f == [q \in R |-> w.history[q].at]
    <3>1. f \in Bijection(R, A)
      BY <2>7, <2>3 DEF Bijection, Injection, Surjection, IsInjective
    <3>2. IsFiniteSet(R)
      BY <2>3, QueriesFinite
    <3> HIDE DEF f, A, R
    <3> QED BY <3>1, <3>2, FS_Bijection DEF ExistsBijection
  <2> HIDE DEF A, C, K, w, x, R
  <2>12. K \cap A = {}
    <3> SUFFICES ASSUME NEW q \in R, w.history[q].at \in K PROVE FALSE
      BY <2>8
    <3> QED BY <2>3, <2>6 DEF SoundAmong
  <2>13. x.hits = Cardinality(C)
    <3>1. Cardinality(K \cup A) = Cardinality(K) + Cardinality(A)
      <4>1. Cardinality(K \cup A) = Cardinality(K) + Cardinality(A) - Cardinality(K \cap A)
        BY <2>10, <2>11, FS_Union
      <4>2. Cardinality(K \cap A) = 0
        BY <2>12, FS_EmptySet
      <4>3. Cardinality(K) \in Nat /\ Cardinality(A) \in Nat
        BY <2>10, <2>11, FS_CardinalityType
      <4> QED BY <4>1, <4>2, <4>3
    <3> QED BY <2>4, <2>6, <2>11, <3>1 DEF SoundAmong
  <2>14. ASSUME NEW q \in Query, x.history[q].at \in C PROVE x.history[q].useful
    <3>1. CASE w.history[q].at \in K
      BY <2>5, <2>6, <3>1 DEF SoundAmong
    <3>2. CASE w.history[q].at \in A
      <4>1. PICK r \in R : w.history[q].at = w.history[r].at
        BY <2>8, <3>2
      <4>2. r = q
        BY <2>7, <4>1
      <4> QED BY <2>5, <4>1, <4>2
    <3> QED BY <2>4, <2>5, <2>14, <3>1, <3>2
  <2>15. ASSUME NEW y \in Copy', NEW q \in Query, y.history[q].at \in C
         PROVE  x.history[q].at >= y.history[q].at \/ Outdated(x, y.history[q].at)
    <3>0. y.history[q].at \in Nat /\ x.history[q].at \in Nat
      <4>1. y \in Data
        BY TrackerTypeStep DEF BehaviourTypeOK, Copy
      <4> QED BY <2>2, <4>1, DataIs
    <3>1. CASE y.history[q].at \in K
      <4>1. w.history[q].at >= y.history[q].at \/ Outdated(w, y.history[q].at)
        BY <2>6, <3>1 DEF SoundAmong
      <4>2. \A r \in Query : w.history[r].at <= x.history[r].at
        <5> SUFFICES ASSUME NEW r \in Query PROVE w.history[r].at <= x.history[r].at
          OBVIOUS
        <5>1. w.history[r].at \in Nat /\ x.history[r].at = w.history[r].at
          BY <2>2, <2>5, DataIs
        <5> QED BY <5>1
      <4> QED BY <2>2, <2>5, <3>0, <4>1, <4>2, NewerSame
    <3>2. CASE y.history[q].at \in A
      <4>1. PICK r \in R : y.history[q].at = w.history[r].at
        BY <2>8, <3>2
      <4>2. x \in Copy' /\ x.history[r].at = w.history[r].at /\ x.history[r].at # 0 /\ r \in Query
        BY <2>2, <2>3, <2>5 DEF x, Copy
      <4>3. q = r
        BY <4>1, <4>2, OneQueryStep DEF OneQuery, Kept
      <4> QED BY <3>0, <4>1, <4>2, <4>3
    <3> QED BY <2>4, <2>15, <3>1, <3>2
  <2>16. SoundAmong(x, C, Copy')
    BY <2>13, <2>14, <2>15 DEF SoundAmong
  <2>17. ASSUME NEW t \in Tracker, t # Watcher PROVE SoundAmong(mem'[t], counted'[t], Copy')
    <3>1. mem'[t] = mem[t] /\ counted'[t] = counted[t]
      BY <1>6, <2>17, EditIs
    <3> QED BY <1>e, <3>1
  <2> QED BY <1>e, <2>1, <2>16, <2>17 DEF x, C
<1> QED BY <1>1, <1>2, <1>3, <1>4, <1>5, <1>6 DEF BehaviourNext

-----------------------------------------------------------------------------
(* The buffers.                                                              *)

\* No save puts an older summary back: a tracker that had the summary of the file
\* when it was loaded has that or a newer one.
LEMMA SummaryRises ==
  ASSUME TrackersInv, NEW p \in Tracker
  PROVE  file.summary <= Written(p).summary
<1>1. file.summary \in Nat /\ mem[p].summary \in Nat /\ base[p].summary \in Nat
  BY CopyIs, DataIs DEF TrackersInv, BoundedInv, BehaviourTypeOK
<1>2. base[p].summary <= mem[p].summary
  BY DEF TrackersInv, BoundedInv, SummariesRise
<1>3. Written(p).summary = IF Summarized(p) THEN file.summary ELSE mem[p].summary
  BY WrittenBuffer DEF TrackersInv, BoundedInv
<1>4. CASE Summarized(p)
  BY <1>1, <1>3, <1>4
<1>5. CASE ~Summarized(p)
  <2>1. file.summary = 0 \/ file.summary = base[p].summary
    BY <1>5 DEF Summarized
  <2> QED BY <1>1, <1>2, <1>3, <1>5, <2>1
<1> QED BY <1>4, <1>5

LEMMA SummariesStep == TrackersInv /\ [BehaviourNext]_behaviourVars => SummariesRise'
<1> SUFFICES ASSUME TrackersInv, [BehaviourNext]_behaviourVars, NEW t \in Tracker
             PROVE  base'[t].summary <= file'.summary /\ base'[t].summary <= mem'[t].summary
  BY DEF SummariesRise
<1> USE DEF TrackersInv, BoundedInv
<1>a. base[t].summary <= file.summary /\ base[t].summary <= mem[t].summary
  BY DEF SummariesRise
<1>b. /\ base[t].summary \in Nat /\ mem[t].summary \in Nat /\ file.summary \in Nat
      /\ summed \in Nat /\ file.summary <= summed /\ NoBase.summary = 0
  BY CopyIs, DataIs DEF BehaviourTypeOK, Past, NoBase
<1>1. CASE UNCHANGED behaviourVars
  BY <1>a, <1>1 DEF behaviourVars, trackers
<1>2. ASSUME NEW p \in Tracker, Open(p)
      PROVE  base'[t].summary <= file'.summary /\ base'[t].summary <= mem'[t].summary
  <2>1. file' = file /\ Pruned(file).summary = file.summary
    BY <1>2, CopyIs, PrunedIs DEF Open
  <2>2. CASE t = p
    <3>1. base'[t].summary = file.summary /\ mem'[t] = Pruned(file)
      BY <1>2, <2>2, OpenIs
    <3> QED BY <1>b, <2>1, <3>1
  <2>3. CASE t # p
    <3>1. base'[t] = base[t] /\ mem'[t] = mem[t]
      BY <1>2, <2>3, OpenIs
    <3> QED BY <1>a, <2>1, <3>1
  <2> QED BY <2>2, <2>3
<1>3. ASSUME NEW p \in Tracker, Save(p)
      PROVE  base'[t].summary <= file'.summary /\ base'[t].summary <= mem'[t].summary
  <2>1. file' = Written(p) /\ file.summary <= Written(p).summary /\ Written(p).summary \in Nat
    BY <1>3, SummaryRises, WrittenIs, DataIs DEF Save
  <2>2. CASE t # p
    <3>1. base'[t] = base[t]
      BY <1>3, <2>2, SaveKeeps
    <3>2. mem'[t] = mem[t]
      BY <1>3, <2>2, SaveKeeps
    <3> QED BY <1>a, <1>b, <2>1, <3>1, <3>2
  <2>3. CASE t = p /\ p = Watcher
    <3>1. base'[t].summary = base[t].summary
      <4>1. base'[t] = IF Summarized(p) THEN [base[p] EXCEPT !.adopted = @ + 1] ELSE base[p]
        BY <1>3, <2>3, SaveIs
      <4>2. [base[p] EXCEPT !.adopted = @ + 1].summary = base[p].summary
        BY DEF BehaviourTypeOK
      <4> QED BY <2>3, <4>1, <4>2
    <3>2. mem'[t] = Written(p)
      BY <1>3, <2>3, SaveIs
    <3> QED BY <1>a, <1>b, <2>1, <3>1, <3>2
  <2>4. CASE t = p /\ p # Watcher
    <3>1. base'[t] = NoBase
      BY <1>3, <2>4, SaveIs
    <3>2. mem'[t] = Empty
      BY <1>3, <2>4, SaveIs
    <3>3. Empty.summary \in Nat
      BY CopyIs, DataIs
    <3> QED BY <1>b, <2>1, <3>1, <3>2, <3>3
  <2> QED BY <2>2, <2>3, <2>4
<1>4. ASSUME NEW p \in Tracker, Drop(p)
      PROVE  base'[t].summary <= file'.summary /\ base'[t].summary <= mem'[t].summary
  <2>1. file' = file /\ Empty.summary \in Nat
    BY <1>4, CopyIs, DataIs DEF Drop
  <2>2. \/ base'[t] = base[t] /\ mem'[t] = mem[t]
        \/ base'[t] = NoBase /\ mem'[t] = Empty
    BY <1>4, DropIs
  <2> QED BY <1>a, <1>b, <2>1, <2>2
<1>5. ASSUME NEW p \in Request, NEW q \in Query, NEW good \in BOOLEAN,
             NEW storing \in BOOLEAN, RecordQuery(p, q, good, storing)
      PROVE  base'[t].summary <= file'.summary /\ base'[t].summary <= mem'[t].summary
  <2>0. Recorded(p, q, good)
    BY <1>5, RecordIs
  <2>1. file' = file /\ base' = base
    BY <1>5 DEF RecordQuery
  <2>2. \/ mem'[t].summary = mem[t].summary \/ mem'[t].summary = summed + 1
    BY <2>0 DEF Recorded
  <2> QED BY <1>a, <1>b, <2>1, <2>2
<1>6. ASSUME NEW n \in Recording, RecordFileEdit(n)
      PROVE  base'[t].summary <= file'.summary /\ base'[t].summary <= mem'[t].summary
  <2>1. file' = file /\ base' = base
    BY <1>6 DEF RecordFileEdit
  <2>2. mem'[t].summary = mem[t].summary
    BY <1>6, EditIs
  <2> QED BY <1>a, <2>1, <2>2
<1> QED BY <1>1, <1>2, <1>3, <1>4, <1>5, <1>6 DEF BehaviourNext

\* What is behind the part of a buffer that was loaded.
LEMMA BehindLoaded ==
  ASSUME NEW s \in Seq(Recording), NEW k \in Nat
  PROVE  /\ SubSeq(s, k + 1, Len(s)) \in Seq(Recording)
         /\ Len(s) <= k => /\ Len(SubSeq(s, k + 1, Len(s))) = 0
                           /\ ToSet(SubSeq(s, k + 1, Len(s))) = {}
         /\ Len(s) = k => \A n \in Recording :
              LET t == Append(s, n) IN
              /\ Len(SubSeq(t, k + 1, Len(t))) = 1
              /\ ToSet(SubSeq(t, k + 1, Len(t))) = {n}
<1>1. /\ SubSeq(s, k + 1, Len(s)) \in Seq(Recording)
      /\ Len(SubSeq(s, k + 1, Len(s))) = IF k < Len(s) THEN Len(s) - k ELSE 0
  <2>1. Len(s) \in Nat /\ \A i \in k + 1 .. Len(s) : s[i] \in Recording
    OBVIOUS
  <2> QED BY <2>1, SubSeqProperties
<1>2. ASSUME Len(s) <= k
      PROVE  /\ Len(SubSeq(s, k + 1, Len(s))) = 0
             /\ ToSet(SubSeq(s, k + 1, Len(s))) = {}
  <2> DEFINE u == SubSeq(s, k + 1, Len(s))
  <2>1. Len(u) = 0 /\ u \in Seq(Recording)
    BY <1>1, <1>2
  <2> HIDE DEF u
  <2>2. ToSet(u) = {}
    BY <2>1 DEF ToSet
  <2> QED BY <2>1, <2>2 DEF u
<1>3. ASSUME Len(s) = k, NEW n \in Recording
      PROVE  /\ Len(SubSeq(Append(s, n), k + 1, Len(Append(s, n)))) = 1
             /\ ToSet(SubSeq(Append(s, n), k + 1, Len(Append(s, n)))) = {n}
  <2> DEFINE t == Append(s, n)
             u == SubSeq(t, k + 1, Len(t))
  <2>1. t \in Seq(Recording) /\ Len(t) = k + 1 /\ t[k + 1] = n
    BY <1>3
  <2> HIDE DEF t
  <2>2. u \in Seq(Recording) /\ Len(u) = 1 /\ u[1] = n
    <3>1. \A i \in k + 1 .. Len(t) : t[i] \in Recording
      BY <2>1
    <3> QED BY <2>1, <3>1, SubSeqProperties
  <2> HIDE DEF u
  <2>3. ToSet(u) = {n}
    BY <2>2 DEF ToSet
  <2> QED BY <2>2, <2>3 DEF t, u
<1> QED BY <1>1, <1>2, <1>3

\* The buffer of a copy is that of one before the step, or holds the new query too.
LEMMA RecordedBuffer ==
  ASSUME TrackersInv, NEW p \in Request, NEW q \in Query, NEW good \in BOOLEAN,
         NEW storing \in BOOLEAN, RecordQuery(p, q, good, storing)
  PROVE  /\ ToSet(mem'[p].patterns) \subseteq ToSet(mem[p].patterns) \cup {asked + 1}
         /\ Len(mem'[p].patterns) <= Cap \/ Len(mem'[p].patterns) = Len(mem[p].patterns)
         /\ Len(Appended(p, mem'[p])) <= 1
         /\ ToSet(Appended(p, mem'[p])) \subseteq {asked + 1}
         /\ \A k \in Recording :
              consumed'[k] \subseteq consumed[k] \cup ToSet(mem[p].patterns) \cup {asked + 1}
         /\ Len(Appended(p, mem'[p])) # 0 => consumed' = consumed
<1> USE DEF TrackersInv, BoundedInv
<1>0. Recorded(p, q, good)
  BY RecordIs
<1> DEFINE s == mem[p].patterns
           n == asked + 1
           b == Buffered(s, n)
           k == base[p].length
           t == mem'[p].patterns
           a == Appended(p, mem'[p])
<1>1. p \in Tracker /\ n \in Recording /\ s \in Seq(Recording) /\ k \in Nat /\ Cap \in Nat
  BY <1>0, CopyIs, DataIs, LimitAssumption DEF Recorded, BehaviourTypeOK
<1>2. Len(s) = k
  <2>1. stage[p] = "loaded" /\ base[p].adopted = 0
    BY <1>1 DEF RecordQuery, AtRest
  <2> QED BY <1>1, <2>1 DEF AppendedOwn
<1>3. /\ b \in Seq(Recording) /\ ToSet(b) \subseteq ToSet(s) \cup {n}
      /\ IF Len(s) + 1 > Cap THEN Len(b) = Len(s) ELSE b = Append(s, n)
  BY <1>1, BufferedIs
<1>4. \/ t = <<>> /\ consumed' = [consumed EXCEPT ![summed + 1] = ToSet(b)]
      \/ t = b /\ consumed' = consumed
  BY <1>0 DEF Recorded
<1>5. a = SubSeq(t, k + 1, Len(t))
  BY DEF Appended
<1>6. consumed \in [Recording -> SUBSET Recording] /\ asked \in Nat
  BY DEF BehaviourTypeOK
<1> HIDE DEF a, t, b, k, n, s
<1>7. \A j \in Recording : consumed'[j] \subseteq consumed[j] \cup ToSet(s) \cup {n}
  BY <1>3, <1>4, <1>6
<1>8. CASE t = <<>> /\ consumed' = [consumed EXCEPT ![summed + 1] = ToSet(b)]
  <2>1. t \in Seq(Recording) /\ Len(t) = 0 /\ ToSet(t) = {}
    BY <1>8 DEF ToSet
  <2>2. Len(a) = 0 /\ ToSet(a) = {}
    <3>1. Len(t) <= k
      BY <1>1, <2>1
    <3>2. Len(SubSeq(t, k + 1, Len(t))) = 0 /\ ToSet(SubSeq(t, k + 1, Len(t))) = {}
      BY <1>1, <2>1, <3>1, BehindLoaded
    <3> QED BY <1>5, <3>2
  <2> QED BY <1>1, <1>7, <2>1, <2>2 DEF s, n, t, a
<1>9. CASE t = b /\ consumed' = consumed
  <2>1. CASE Len(s) + 1 > Cap
    <3>1. Len(b) = Len(s)
      BY <1>3, <2>1
    <3>2. Len(a) = 0 /\ ToSet(a) = {}
      BY <1>1, <1>2, <1>3, <1>5, <1>9, <3>1, BehindLoaded
    <3> QED BY <1>3, <1>7, <1>9, <3>1, <3>2 DEF s, n, t, a
  <2>2. CASE ~(Len(s) + 1 > Cap)
    <3>1. b = Append(s, n) /\ Len(b) = Len(s) + 1 /\ Len(s) \in Nat
      BY <1>1, <1>3, <2>2
    <3>2. Len(a) = 1 /\ ToSet(a) = {n}
      BY <1>1, <1>2, <1>5, <1>9, <3>1, BehindLoaded
    <3>3. Len(t) <= Cap
      BY <1>1, <1>9, <2>2, <3>1
    <3> QED BY <1>3, <1>7, <1>9, <3>2, <3>3 DEF s, n, t, a
  <2> QED BY <2>1, <2>2
<1> QED BY <1>4, <1>8, <1>9

\* AppendedOwn, for a tracker: what it has, and who else there is.
Own(p) ==
  /\ stage[p] = "loaded" /\ base[p].adopted = 0 => Len(mem[p].patterns) = base[p].length
  /\ stage[p] = "recorded" =>
       /\ Len(Appended(p, mem[p])) <= 1
       /\ \A n \in ToSet(Appended(p, mem[p])) :
            /\ n \notin ToSet(file.patterns)
            /\ \A t \in Tracker \ {p} : n \notin ToSet(mem[t].patterns)
            /\ \A k \in Recording : n \notin consumed[k]

LEMMA AppendedOwnStep == TrackersInv /\ [BehaviourNext]_behaviourVars => AppendedOwn'
<1> SUFFICES ASSUME TrackersInv, [BehaviourNext]_behaviourVars, NEW t \in Tracker
             PROVE  Own(t)'
  BY DEF AppendedOwn, Own
<1> USE DEF TrackersInv, BoundedInv
<1>a. Own(t)
  BY DEF AppendedOwn, Own
<1>b. asked \in Nat /\ \A u \in Tracker : ToSet(mem[u].patterns) \subseteq 1 .. asked
  BY CopyIs DEF Past, BehaviourTypeOK
<1>c. \A u \in Tracker : ToSet(Appended(u, mem[u])) \subseteq ToSet(mem[u].patterns)
  BY AppendedSet
<1>d. ToSet(Empty.patterns) = {}
  BY DEF Empty, ToSet
\* A tracker that the step leaves alone, among buffers that have got no more of it.
<1>e. ASSUME stage'[t] = stage[t], base'[t] = base[t], mem'[t].patterns = mem[t].patterns,
             ToSet(file'.patterns) \subseteq ToSet(file.patterns)
               \cup UNION {ToSet(mem[u].patterns) : u \in Tracker \ {t}},
             \A u \in Tracker \ {t} : ToSet(mem'[u].patterns) \subseteq
               ToSet(file.patterns) \cup {asked + 1}
               \cup UNION {ToSet(mem[v].patterns) : v \in Tracker \ {t}},
             \A k \in Recording : consumed'[k] \subseteq consumed[k] \cup {asked + 1}
               \cup UNION {ToSet(mem[v].patterns) : v \in Tracker \ {t}}
      PROVE  Own(t)'
  <2>1. Appended(t, mem[t])' = Appended(t, mem[t])
    BY <1>e DEF Appended
  <2>2. stage'[t] = "loaded" /\ base'[t].adopted = 0 => Len(mem'[t].patterns) = base'[t].length
    BY <1>a, <1>e DEF Own
  <2>3. ASSUME stage'[t] = "recorded"
        PROVE  /\ Len(Appended(t, mem[t])) <= 1
               /\ \A n \in ToSet(Appended(t, mem[t])) :
                    /\ n \notin ToSet(file'.patterns)
                    /\ \A u \in Tracker \ {t} : n \notin ToSet(mem'[u].patterns)
                    /\ \A k \in Recording : n \notin consumed'[k]
    <3>1. /\ Len(Appended(t, mem[t])) <= 1
          /\ \A n \in ToSet(Appended(t, mem[t])) :
               /\ n \notin ToSet(file.patterns)
               /\ \A u \in Tracker \ {t} : n \notin ToSet(mem[u].patterns)
               /\ \A k \in Recording : n \notin consumed[k]
      BY <1>a, <1>e, <2>3 DEF Own
    <3>2. asked + 1 \notin ToSet(Appended(t, mem[t]))
      BY <1>b, <1>c
    <3>3. \A n \in ToSet(Appended(t, mem[t])) :
            n \notin UNION {ToSet(mem[u].patterns) : u \in Tracker \ {t}}
      BY <3>1
    <3> QED BY <1>e, <3>1, <3>2, <3>3
  <2> QED BY <2>1, <2>2, <2>3 DEF Own
<1>1. CASE UNCHANGED behaviourVars
  BY <1>a, <1>1 DEF behaviourVars, trackers, history, Own, Appended
<1>2. ASSUME NEW p \in Tracker, Open(p) PROVE Own(t)'
  <2>1. file' = file /\ consumed' = consumed /\ Pruned(file).patterns = file.patterns
    BY <1>2, CopyIs, PrunedIs DEF Open
  <2>2. CASE t = p
    <3>1. stage'[t] = "loaded"
      BY <1>2, <2>2, OpenIs
    <3>2. mem'[t].patterns = file.patterns
      BY <1>2, <2>1, <2>2, OpenIs
    <3>3. base'[t].length = Len(file.patterns)
      BY <1>2, <2>2, OpenIs
    <3> QED BY <3>1, <3>2, <3>3 DEF Own
  <2>3. CASE t # p
    <3>1. stage'[t] = stage[t] /\ base'[t] = base[t] /\ mem'[t] = mem[t]
      BY <1>2, <2>3, OpenIs
    <3>2. \A u \in Tracker : mem'[u].patterns \in {mem[u].patterns, file.patterns}
      BY <1>2, <2>1, OpenIs
    <3> QED BY <1>e, <2>1, <3>1, <3>2
  <2> QED BY <2>2, <2>3
<1>3. ASSUME NEW p \in Tracker, Save(p) PROVE Own(t)'
  <2>1. file' = Written(p) /\ consumed' = consumed
    BY <1>3 DEF Save
  <2>2. ToSet(Written(p).patterns) \subseteq ToSet(file.patterns) \cup ToSet(mem[p].patterns)
    BY <1>c, WrittenBuffer
  <2>3. CASE t # p
    <3>1. stage'[t] = stage[t] /\ base'[t] = base[t] /\ mem'[t] = mem[t]
      BY <1>3, <2>3, SaveKeeps
    <3>2. ASSUME NEW u \in Tracker PROVE mem'[u] \in {mem[u], Written(p), Empty}
      BY <1>3, SaveIs
    <3>3. \A u \in Tracker : ToSet(mem'[u].patterns) \subseteq
            ToSet(file.patterns) \cup ToSet(mem[p].patterns) \cup ToSet(mem[u].patterns)
      BY <1>d, <2>2, <3>2
    <3> QED BY <1>e, <2>1, <2>2, <2>3, <3>1, <3>3
  <2>4. CASE t = p /\ p # Watcher
    <3>1. stage'[t] = "none"
      BY <1>3, <2>4, SaveIs
    <3> QED BY <3>1 DEF Own
  <2>5. CASE t = p /\ p = Watcher
    <3>1. stage'[t] = "loaded" /\ stage[t] = "loaded"
      BY <1>3, <2>5, SaveIs DEF Save
    <3>2. mem'[t] = Written(p)
      BY <1>3, <2>5, SaveIs
    <3>3. base'[t] = IF Summarized(p) THEN [base[p] EXCEPT !.adopted = @ + 1] ELSE base[p]
      BY <1>3, <2>5, SaveIs
    <3>4. CASE Summarized(p)
      <4>1. base'[t].adopted = base[p].adopted + 1 /\ base[p].adopted \in Nat
        BY <3>3, <3>4 DEF BehaviourTypeOK
      <4>2. base'[t].adopted # 0
        BY <4>1
      <4> QED BY <3>1, <4>2 DEF Own
    <3>5. CASE ~Summarized(p)
      <4>1. base'[t] = base[t] /\ Len(mem'[t].patterns) = Len(mem[t].patterns)
        BY <2>5, <3>2, <3>3, <3>5, WrittenBuffer
      <4> QED BY <1>a, <3>1, <4>1 DEF Own
    <3> QED BY <3>4, <3>5
  <2> QED BY <2>3, <2>4, <2>5
<1>4. ASSUME NEW p \in Tracker, Drop(p) PROVE Own(t)'
  <2>1. file' = file /\ consumed' = consumed
    BY <1>4 DEF Drop
  <2>2. CASE t = p
    <3>1. stage'[t] = "none"
      BY <1>4, <2>2, DropIs
    <3> QED BY <3>1 DEF Own
  <2>3. CASE t # p
    <3>1. stage'[t] = stage[t] /\ base'[t] = base[t] /\ mem'[t] = mem[t]
      BY <1>4, <2>3, DropIs
    <3>2. \A u \in Tracker : mem'[u] \in {mem[u], Empty}
      BY <1>4, DropIs
    <3> QED BY <1>d, <1>e, <2>1, <3>1, <3>2
  <2> QED BY <2>2, <2>3
<1>5. ASSUME NEW p \in Request, NEW q \in Query, NEW good \in BOOLEAN,
             NEW storing \in BOOLEAN, RecordQuery(p, q, good, storing)
      PROVE  Own(t)'
  <2>0. Recorded(p, q, good)
    BY <1>5, RecordIs
  <2>1. file' = file /\ base' = base
    BY <1>5 DEF RecordQuery
  <2>2. p \in Tracker
    BY <2>0 DEF Recorded
  <2>3. CASE t # p
    <3>1. stage'[t] = stage[t] /\ \A u \in Tracker : u # p => mem'[u] = mem[u]
      BY <2>0, <2>3 DEF Recorded
    <3>2. /\ ToSet(mem'[p].patterns) \subseteq ToSet(mem[p].patterns) \cup {asked + 1}
          /\ \A k \in Recording :
               consumed'[k] \subseteq consumed[k] \cup ToSet(mem[p].patterns) \cup {asked + 1}
      BY <1>5, RecordedBuffer
    <3> QED BY <1>e, <2>1, <2>2, <2>3, <3>1, <3>2
  <2>4. CASE t = p
    <3>1. stage'[t] = "recorded" /\ \A u \in Tracker \ {t} : mem'[u] = mem[u]
      BY <2>0, <2>4 DEF Recorded
    <3>2. /\ Len(Appended(p, mem'[p])) <= 1
          /\ ToSet(Appended(p, mem'[p])) \subseteq {asked + 1}
          /\ Len(Appended(p, mem'[p])) # 0 => consumed' = consumed
      BY <1>5, RecordedBuffer
    <3>3. Appended(t, mem[t])' = Appended(p, mem'[p])
      BY <2>1, <2>4 DEF Appended
    <3>4. ASSUME NEW n \in ToSet(Appended(p, mem'[p]))
          PROVE  n = asked + 1 /\ consumed' = consumed
      <4>1. Appended(p, mem'[p]) # <<>>
        BY <3>4 DEF ToSet
      <4>2. Appended(p, mem'[p]) \in Seq(Recording)
        <5>1. mem'[p].patterns \in Seq(Recording) /\ base[p].length \in Nat
          BY <2>0, <2>2, DataIs DEF Recorded, BehaviourTypeOK
        <5> QED BY <5>1, BehindLoaded DEF Appended
      <4>3. Len(Appended(p, mem'[p])) # 0
        BY <4>1, <4>2, EmptySeq
      <4> QED BY <3>2, <3>4, <4>3
    <3>5. asked + 1 \notin ToSet(file.patterns)
      BY <1>b, CopyIs DEF Past
    <3>6. \A u \in Tracker : asked + 1 \notin ToSet(mem[u].patterns)
      BY <1>b
    <3>7. \A k \in Recording : asked + 1 \notin consumed[k]
      BY <1>b DEF Past
    <3> QED BY <2>1, <3>1, <3>2, <3>3, <3>4, <3>5, <3>6, <3>7 DEF Own
  <2> QED BY <2>3, <2>4
<1>6. ASSUME NEW n \in Recording, RecordFileEdit(n) PROVE Own(t)'
  <2>1. UNCHANGED <<file, stage, base, consumed>>
    BY <1>6 DEF RecordFileEdit
  <2>2. \A u \in Tracker : mem'[u].patterns = mem[u].patterns
    BY <1>6, EditIs
  <2> QED BY <1>e, <2>1, <2>2
<1> QED BY <1>1, <1>2, <1>3, <1>4, <1>5, <1>6 DEF BehaviourNext

\* BuffersSound, for a copy.
BufferSound(x) ==
  /\ Len(x.patterns) <= Cap + spliced
  /\ x.summary # 0 => ToSet(x.patterns) \cap consumed[x.summary] = {}

LEMMA BuffersStep ==
  TrackersInv /\ [BehaviourNext]_behaviourVars => BuffersSound' /\ RingBounded' /\ SummedOnce'
<1> SUFFICES ASSUME TrackersInv, [BehaviourNext]_behaviourVars, ~echoed', NEW x \in Copy'
             PROVE  /\ Len(x.patterns) <= Cap + spliced'
                    /\ x.summary # 0 => ToSet(x.patterns) \cap consumed'[x.summary] = {}
  <2>1. file' \in Copy'
    BY DEF Copy
  <2> QED BY <2>1 DEF BuffersSound, RingBounded, SummedOnce
<1> USE DEF TrackersInv, BoundedInv
<1>a. ~echoed
  <2>1. CASE UNCHANGED behaviourVars
    BY <2>1 DEF behaviourVars, history
  <2>2. ASSUME NEW p \in Tracker, Open(p) \/ Drop(p) \/ Save(p) PROVE echoed => echoed'
    BY <2>2 DEF Open, Drop, Save
  <2>3. ASSUME NEW p \in Request, NEW q \in Query, NEW good \in BOOLEAN,
               NEW storing \in BOOLEAN, RecordQuery(p, q, good, storing)
        PROVE  echoed' = echoed
    BY <2>3 DEF RecordQuery
  <2>4. ASSUME NEW n \in Recording, RecordFileEdit(n) PROVE echoed' = echoed
    BY <2>4 DEF RecordFileEdit
  <2> QED BY <2>1, <2>2, <2>3, <2>4 DEF BehaviourNext
<1>b. \A y \in Copy : BufferSound(y)
  BY <1>a DEF CountedOnce, BuffersSound, BufferSound
<1>c. x = file' \/ \E t \in Tracker : x = mem'[t]
  BY DEF Copy
<1>d. Cap \in Nat /\ spliced \in Nat /\ asked \in Nat /\ summed \in Nat
      /\ consumed \in [Recording -> SUBSET Recording]
  BY LimitAssumption DEF BehaviourTypeOK
<1>e. ToSet(<<>>) = {} /\ Len(<<>>) = 0
  BY DEF ToSet
<1>f. BufferSound(Empty)
  BY <1>d, <1>e DEF BufferSound, Empty
<1>g. ASSUME BufferSound(x), spliced' = spliced, consumed' = consumed
      PROVE  /\ Len(x.patterns) <= Cap + spliced'
             /\ x.summary # 0 => ToSet(x.patterns) \cap consumed'[x.summary] = {}
  BY <1>g DEF BufferSound
<1>1. CASE UNCHANGED behaviourVars
  <2>1. BufferSound(x)
    BY <1>b, <1>c, <1>1, CopyIs DEF behaviourVars, trackers
  <2> QED BY <1>1, <1>g, <2>1 DEF behaviourVars, history
<1>2. ASSUME NEW p \in Tracker, Open(p)
      PROVE  /\ Len(x.patterns) <= Cap + spliced'
             /\ x.summary # 0 => ToSet(x.patterns) \cap consumed'[x.summary] = {}
  <2>1. UNCHANGED <<file, spliced, consumed>>
    BY <1>2 DEF Open
  <2>2. BufferSound(Pruned(file))
    BY <1>b, CopyIs, PrunedIs DEF BufferSound
  <2>3. BufferSound(x)
    BY <1>b, <1>c, <1>2, <2>1, <2>2, OpenIs, CopyIs
  <2> QED BY <1>g, <2>1, <2>3
<1>3. ASSUME NEW p \in Tracker, Save(p)
      PROVE  /\ Len(x.patterns) <= Cap + spliced'
             /\ x.summary # 0 => ToSet(x.patterns) \cap consumed'[x.summary] = {}
  <2>1. consumed' = consumed /\ file' = Written(p)
    BY <1>3 DEF Save
  <2>2. spliced' = IF Summarized(p) THEN spliced + Len(Appended(p, mem[p])) ELSE spliced
    BY <1>3 DEF Save
  <2>3. Len(Appended(p, mem[p])) \in Nat
    BY AppendedIs
  <2>4. spliced <= spliced' /\ spliced' \in Nat
    BY <1>d, <2>2, <2>3
  <2>5. /\ Len(Written(p).patterns) <= Cap + spliced'
        /\ Written(p).summary # 0 => ToSet(Written(p).patterns) \cap consumed[Written(p).summary] = {}
    <3>1. CASE ~Summarized(p)
      <4>1. BufferSound(mem[p])
        BY <1>b, CopyIs
      <4> QED BY <2>2, <3>1, <4>1, WrittenBuffer DEF BufferSound
    <3>2. CASE Summarized(p)
      <4>1. BufferSound(file) /\ Len(file.patterns) \in Nat /\ file.summary # 0
        BY <1>b, <3>2, CopyIs, DataIs DEF Summarized
      <4>2. file.summary \in Recording
        <5>1. file.summary <= summed /\ summed <= asked /\ asked <= MaxRecordings
              /\ file.summary \in Nat
          BY CopyIs, DataIs DEF Past, BehaviourTypeOK
        <5> QED BY <1>d, <4>1, <5>1, LimitAssumption DEF Recording
      <4>3. ToSet(Appended(p, mem[p])) \cap consumed[file.summary] = {}
        <5>1. CASE p = Watcher
          <6>1. stage[p] = "loaded" /\ base[p].adopted = 0
            <7>1. ~(base[p].adopted > 0) /\ stage[p] = "loaded"
              BY <1>3, <3>2, <5>1 DEF Save
            <7>2. base[p].adopted \in Nat
              BY DEF BehaviourTypeOK
            <7> QED BY <7>1, <7>2
          <6>2. Len(mem[p].patterns) = base[p].length
            BY <6>1 DEF AppendedOwn
          <6>3. mem[p].patterns \in Seq(Recording) /\ base[p].length \in Nat
            BY DataIs DEF BehaviourTypeOK
          <6>4. Len(mem[p].patterns) <= base[p].length
            BY <6>2, <6>3
          <6>5. ToSet(Appended(p, mem[p])) = {}
            BY <6>3, <6>4, BehindLoaded DEF Appended
          <6> QED BY <6>5
        <5>2. CASE p # Watcher
          <6>1. stage[p] = "recorded"
            BY <1>3, <5>2 DEF Save
          <6> QED BY <4>2, <6>1 DEF AppendedOwn
        <5> QED BY <5>1, <5>2
      <4>4. /\ Len(Written(p).patterns) = Len(file.patterns) + Len(Appended(p, mem[p]))
            /\ ToSet(Written(p).patterns) = ToSet(file.patterns) \cup ToSet(Appended(p, mem[p]))
            /\ Written(p).summary = file.summary
        BY <3>2, WrittenBuffer
      <4>5. Len(Written(p).patterns) <= Cap + spliced'
        <5>1. Len(file.patterns) <= Cap + spliced /\ spliced' = spliced + Len(Appended(p, mem[p]))
          BY <2>2, <3>2, <4>1 DEF BufferSound
        <5> DEFINE l == Len(Written(p).patterns)
                   k == Len(file.patterns)
                   a == Len(Appended(p, mem[p]))
        <5>2. l = k + a /\ k <= Cap + spliced /\ spliced' = spliced + a
          BY <4>4, <5>1
        <5>3. k \in Nat /\ a \in Nat
          BY <2>3, <4>1
        <5> HIDE DEF l, k, a
        <5>4. l <= Cap + spliced'
          BY <1>d, <5>2, <5>3
        <5> QED BY <5>4 DEF l
      <4>6. ToSet(file.patterns) \cap consumed[file.summary] = {}
        BY <4>1 DEF BufferSound
      <4> QED BY <4>3, <4>4, <4>5, <4>6
    <3> QED BY <3>1, <3>2
  <2>6. CASE x = Written(p)
    BY <2>1, <2>5, <2>6
  <2>7. CASE BufferSound(x)
    <3>1. x \in Data
      BY TrackerTypeStep DEF BehaviourTypeOK, Copy
    <3>2. Len(x.patterns) \in Nat
      BY <3>1, DataIs
    <3> QED BY <1>d, <2>1, <2>4, <2>7, <3>2 DEF BufferSound
  <2>8. x = Written(p) \/ BufferSound(x)
    <3>1. CASE x = file'
      BY <2>1, <3>1
    <3>2. ASSUME NEW t \in Tracker, x = mem'[t] PROVE x = Written(p) \/ BufferSound(x)
      <4>1. mem'[t] \in {mem[t], Written(p), Empty}
        BY <1>3, SaveIs
      <4> QED BY <1>b, <1>f, <3>2, <4>1, CopyIs
    <3> QED BY <1>c, <3>1, <3>2
  <2> QED BY <2>6, <2>7, <2>8
<1>4. ASSUME NEW p \in Tracker, Drop(p)
      PROVE  /\ Len(x.patterns) <= Cap + spliced'
             /\ x.summary # 0 => ToSet(x.patterns) \cap consumed'[x.summary] = {}
  <2>1. UNCHANGED <<file, spliced, consumed>>
    BY <1>4 DEF Drop
  <2>2. BufferSound(x)
    BY <1>b, <1>c, <1>f, <1>4, <2>1, DropIs, CopyIs
  <2> QED BY <1>g, <2>1, <2>2
<1>5. ASSUME NEW p \in Request, NEW q \in Query, NEW good \in BOOLEAN,
             NEW storing \in BOOLEAN, RecordQuery(p, q, good, storing)
      PROVE  /\ Len(x.patterns) <= Cap + spliced'
             /\ x.summary # 0 => ToSet(x.patterns) \cap consumed'[x.summary] = {}
  <2>0. Recorded(p, q, good)
    BY <1>5, RecordIs
  <2>1. file' = file /\ spliced' = spliced
    BY <1>5 DEF RecordQuery
  <2>2. p \in Tracker /\ mem[p] \in Copy /\ Len(mem[p].patterns) \in Nat
    BY <2>0, CopyIs, DataIs DEF Recorded
  <2>3. CASE x \in Copy
    <3>1. BufferSound(x) /\ x.summary <= summed /\ x.summary \in Nat
      BY <1>b, <2>3, CopyIs, DataIs DEF Past
    <3>2. x.summary # 0 => consumed'[x.summary] = consumed[x.summary]
      <4>1. x.summary # summed + 1
        BY <1>d, <3>1
      <4>2. \/ consumed' = consumed
            \/ consumed' = [consumed EXCEPT ![summed + 1] =
                              ToSet(Buffered(mem[p].patterns, asked + 1))]
        BY <2>0 DEF Recorded
      <4>3. x.summary # 0 => x.summary \in Recording
        <5>1. summed <= asked /\ asked <= MaxRecordings
          BY LimitAssumption DEF Past, BehaviourTypeOK
        <5> QED BY <1>d, <3>1, <5>1, LimitAssumption DEF Recording
      <4> HIDE DEF Recording
      <4> QED BY <1>d, <4>1, <4>2, <4>3
    <3> QED BY <2>1, <3>1, <3>2 DEF BufferSound
  <2>4. CASE x = mem'[p]
    <3>1. Len(x.patterns) <= Cap + spliced'
      <4>1. Len(x.patterns) <= Cap \/ Len(x.patterns) = Len(mem[p].patterns)
        BY <1>5, <2>4, RecordedBuffer
      <4>2. Len(mem[p].patterns) <= Cap + spliced /\ Len(x.patterns) \in Nat
        BY <1>b, <2>0, <2>2, <2>4, DataIs DEF BufferSound, Recorded
      <4> QED BY <1>d, <2>1, <2>2, <4>1, <4>2
    <3>2. ASSUME x.summary # 0 PROVE ToSet(x.patterns) \cap consumed'[x.summary] = {}
      <4>1. CASE mem'[p].patterns = <<>>
        BY <1>e, <2>4, <4>1
      <4>2. CASE /\ mem'[p].summary = mem[p].summary /\ consumed' = consumed
        <5>1. ToSet(x.patterns) \subseteq ToSet(mem[p].patterns) \cup {asked + 1}
          BY <1>5, <2>4, RecordedBuffer
        <5>2. ToSet(mem[p].patterns) \cap consumed[mem[p].summary] = {}
          BY <1>b, <2>2, <2>4, <3>2, <4>2 DEF BufferSound
        <5>3. asked + 1 \notin consumed[mem[p].summary]
          <6>1. mem[p].summary \in Recording
            <7>1. mem[p].summary \in Nat /\ mem[p].summary <= summed /\ summed <= asked
                  /\ asked <= MaxRecordings /\ mem[p].summary # 0
              BY <2>2, <2>4, <3>2, <4>2, CopyIs, DataIs DEF Past, BehaviourTypeOK
            <7> QED BY <1>d, <7>1, LimitAssumption DEF Recording
          <6>2. consumed[mem[p].summary] \subseteq 1 .. asked
            BY <6>1 DEF Past
          <6> QED BY <1>d, <6>2
        <5> QED BY <2>4, <4>2, <5>1, <5>2, <5>3
      <4> QED BY <2>0, <4>1, <4>2 DEF Recorded
    <3> QED BY <3>1, <3>2
  <2>5. x \in Copy \/ x = mem'[p]
    BY <1>c, <2>0, <2>1, CopyIs DEF Recorded
  <2> QED BY <2>3, <2>4, <2>5
<1>6. ASSUME NEW n \in Recording, RecordFileEdit(n)
      PROVE  /\ Len(x.patterns) <= Cap + spliced'
             /\ x.summary # 0 => ToSet(x.patterns) \cap consumed'[x.summary] = {}
  <2>1. UNCHANGED <<file, spliced, consumed>>
    BY <1>6 DEF RecordFileEdit
  <2>2. BufferSound(mem'[Watcher])
    BY <1>b, <1>6, EditIs, CopyIs DEF BufferSound
  <2>3. BufferSound(x)
    BY <1>b, <1>c, <1>6, <2>1, <2>2, EditIs, CopyIs
  <2> QED BY <1>g, <2>1, <2>3
<1> QED BY <1>1, <1>2, <1>3, <1>4, <1>5, <1>6 DEF BehaviourNext

-----------------------------------------------------------------------------
(* The theorems.                                                             *)

LEMMA TrackersInit == BehaviourInit => TrackersInv
<1> SUFFICES ASSUME BehaviourInit PROVE TrackersInv
  OBVIOUS
<1>1. /\ file = Empty /\ \A p \in Tracker : mem[p] = Empty /\ base[p] = NoBase
         /\ stage[p] = "none" /\ counted[p] = {}
      /\ asked = 0 /\ summed = 0 /\ gone = {} /\ filed = {} /\ spliced = 0
      /\ \A k \in Recording : consumed[k] = {}
  BY DEF BehaviourInit
<1>2. /\ Empty \in Data /\ \A q \in Query : Empty.history[q] = Absent
      /\ Absent.at = 0 /\ Absent.useful = FALSE
      /\ Empty.hits = 0 /\ Empty.patterns = <<>> /\ Empty.summary = 0
  BY DEF Empty, Absent, Data, Entry
<1>3. Kept(Empty) = {} /\ Cardinality({}) = 0 /\ ToSet(<<>>) = {}
  BY <1>2, FS_EmptySet DEF Kept, ToSet
<1>4. \A x \in Copy : x = Empty
  BY <1>1 DEF Copy
<1>5. NoBase = [length |-> 0, summary |-> 0, adopted |-> 0]
      /\ NoBase \in [length : Nat, summary : Nat, adopted : Nat]
  BY DEF NoBase
<1>6. BehaviourTypeOK
  <2>1. mem \in [Tracker -> Data]
    BY <1>2 DEF BehaviourInit
  <2>2. base \in [Tracker -> [length : Nat, summary : Nat, adopted : Nat]]
    BY <1>5 DEF BehaviourInit
  <2>3. file \in Data /\ Cardinality(Kept(file)) <= MaxHistory
    BY <1>1, <1>2, <1>3, LimitAssumption
  <2>4. asked \in 0 .. MaxRecordings /\ summed \in 0 .. MaxRecordings /\ spliced \in Nat
    BY <1>1, LimitAssumption
  <2>5. /\ stage \in [Tracker -> {"none", "loaded", "recorded"}]
        /\ counted \in [Tracker -> SUBSET Recording] /\ consumed \in [Recording -> SUBSET Recording]
        /\ gone \subseteq Query /\ filed \subseteq Recording
        /\ {reverted, unmarked, echoed} \subseteq BOOLEAN
    BY DEF BehaviourInit
  <2> QED BY <2>1, <2>2, <2>3, <2>4, <2>5 DEF BehaviourTypeOK
<1>7. AtRest
  BY <1>1, <1>5 DEF AtRest
<1>8. Past
  BY <1>1, <1>2, <1>3, <1>4 DEF Past
<1>9. OneQuery /\ OneRecording
  BY <1>3, <1>4 DEF OneQuery, OneRecording
<1>10. PrunedStaysOut /\ GoneOutdated
  BY <1>1 DEF PrunedStaysOut, GoneOutdated
<1>11. RingBounded /\ SummariesRise
  BY <1>1, <1>2, <1>5, LimitAssumption DEF RingBounded, SummariesRise
<1>12. AppendedOwn
  BY <1>1 DEF AppendedOwn
<1>13. MarksOnce /\ CountsSound
  BY <1>1, <1>2, <1>3, <1>4 DEF MarksOnce, CountsSound, CountSound
<1>14. SummedOnce /\ BuffersSound
  BY <1>1, <1>2, <1>3, <1>4, LimitAssumption DEF SummedOnce, BuffersSound
<1> QED BY <1>6, <1>7, <1>8, <1>9, <1>10, <1>11, <1>12, <1>13, <1>14
        DEF TrackersInv, BoundedInv, CountedOnce

LEMMA TrackersStep == TrackersInv /\ [BehaviourNext]_behaviourVars => TrackersInv'
<1> SUFFICES ASSUME TrackersInv, [BehaviourNext]_behaviourVars PROVE TrackersInv'
  OBVIOUS
<1>1. BoundedInv'
  BY TrackerTypeStep, AtRestStep, PastStep, OneQueryStep, OneRecordingStep, GoneStep,
     SummariesStep, AppendedOwnStep, BuffersStep DEF BoundedInv
<1>2. CountedOnce'
  BY CountsStep, BuffersStep DEF CountedOnce
<1> QED BY <1>1, <1>2 DEF TrackersInv

LEMMA TrackersSafe == BehaviourSpec => []TrackersInv
BY TrackersInit, TrackersStep, PTL DEF BehaviourSpec

\* In every interleaving of loads, recordings, edits and saves of any number of
\* trackers the history stays within max_query_history, no stale copy brings a
\* pruned entry back, and the buffer outgrows its bound by no more than merges put
\* behind a buffer that was summarized meanwhile.
THEOREM TrackersBounded == BehaviourSpec => []BoundedInv
BY TrackersSafe, PTL DEF TrackersInv

\* No query counts twice, neither as a hit of its symbol nor as an example of the
\* style, however often copies of the file are merged into it.
THEOREM CountsOnce == BehaviourSpec => []CountedOnce
BY TrackersSafe, PTL DEF TrackersInv

\* A save takes from the file neither a query that is not among the oldest, nor a
\* hit, nor a summary: another tracker's work is lost by no merge.
THEOREM NothingLost == BehaviourSpec => NothingTakenBack
<1> DEFINE Kind == /\ OnlyOldestPruned
                   /\ file'.hits >= file.hits
                   /\ file'.summary >= file.summary
<1>1. TrackersInv /\ [BehaviourNext]_behaviourVars => [Kind]_behaviourVars
  <2> SUFFICES ASSUME TrackersInv, BehaviourNext PROVE Kind
    OBVIOUS
  <2> USE DEF TrackersInv, BoundedInv
  <2>1. file.hits \in Nat /\ file.summary \in Nat
    BY CopyIs, DataIs
  <2>2. CASE file' = file
    BY <2>1, <2>2 DEF OnlyOldestPruned
  <2>3. ASSUME NEW p \in Tracker, Save(p) PROVE Kind
    <3>1. file' = Written(p)
      BY <2>3 DEF Save
    <3>2. file'.summary >= file.summary
      <4>1. file.summary <= Written(p).summary /\ Written(p).summary \in Nat
        BY SummaryRises, WrittenIs, DataIs
      <4> QED BY <2>1, <3>1, <4>1
    <3>3. file'.hits >= file.hits
      <4>1. Written(p).hits = IF file.hits > mem[p].hits THEN file.hits ELSE mem[p].hits
        BY WrittenIs, MergedIs
      <4>2. mem[p].hits \in Nat
        BY CopyIs, DataIs
      <4> QED BY <2>1, <3>1, <4>1, <4>2
    <3>4. ASSUME NEW q \in Query \ Repeated, file.history[q].at # 0, file'.history[q].at = 0
          PROVE  Outdated(file', file.history[q].at)
      <4>1. Merged(p, mem[p]).history[q].at = file.history[q].at
        BY <3>4, MergedSame
      <4> QED BY <2>3, <3>4, <4>1, LostIsOutdated
    <3>5. OnlyOldestPruned
      <4>1. \A q \in Kept(file) \ Kept(file') : q \in Query /\ file.history[q].at # 0
                                              /\ file'.history[q].at = 0
        BY DEF Kept
      <4> QED BY <3>4, <4>1 DEF OnlyOldestPruned
    <3> QED BY <3>2, <3>3, <3>5
  <2>4. ASSUME NEW p \in Tracker, Open(p) \/ Drop(p) PROVE file' = file
    BY <2>4 DEF Open, Drop
  <2>5. ASSUME NEW p \in Request, NEW q \in Query, NEW good \in BOOLEAN,
               NEW storing \in BOOLEAN, RecordQuery(p, q, good, storing)
        PROVE  file' = file
    BY <2>5 DEF RecordQuery
  <2>6. ASSUME NEW n \in Recording, RecordFileEdit(n) PROVE file' = file
    BY <2>6 DEF RecordFileEdit
  <2> QED BY <2>2, <2>3, <2>4, <2>5, <2>6 DEF BehaviourNext
<1> QED BY <1>1, TrackersSafe, PTL DEF BehaviourSpec, NothingTakenBack

=============================================================================
