-------------------------------- MODULE Server --------------------------------
(***************************************************************************)
(* The MCP server at work: tool calls in several threads, the circuit      *)
(* breaker and the slots they pass, the cache of hybrid_retrieve() with    *)
(* its in-flight deduplication, the graph and the indexer that are loaded  *)
(* once and evicted by the idle manager and the memory watchdog, and the   *)
(* watcher thread that rewrites the index.  Sources:                       *)
(* interface/server/mcp_server.py, idle_manager.py, memory_watchdog.py,    *)
(* intelligence/retrieval/hybrid.py, data/memory/circuit_breaker.py and    *)
(* embeddings.py.                                                          *)
(*                                                                         *)
(* Data abstraction.  All calls of hybrid_retrieve() ask the same query.   *)
(* The index on disk is a version number, a result the version it was      *)
(* computed from.  A graph is there or not; an indexer has a number, 0 is  *)
(* None.  The memory is over the breaker's limit or under it.              *)
(***************************************************************************)
EXTENDS Integers, FiniteSets

CONSTANTS
  Thread,      \* threads that call tools
  Slots,       \* _TOOL_MAX_CONCURRENT
  MaxCommits,  \* bound of the model: times the index is rewritten
  MaxEvicts,   \* bound of the model: evictions
  None         \* no thread

ASSUME ThreadAssumption == IsFiniteSet(Thread) /\ None \notin Thread
ASSUME SlotsAssumption == Slots \in Nat \ {0}
ASSUME BoundAssumption == {MaxCommits, MaxEvicts} \subseteq Nat

VARIABLES
  pc,       \* where each thread is in its call
  disk,     \* the version of the index on disk
  own,      \* the version that this process has written last
  saved,    \* whether the watcher thread is between its save and the invalidation
  cached,   \* _HYBRID_CACHE of the query
  flight,   \* _IN_FLIGHT of the query: the thread that set the event, or None
  loaded,   \* the version that each thread's HybridRetriever has loaded
  traced,   \* the threads whose call holds a slot
  failed,   \* whether the computation of each thread has raised
  free,     \* the free slots of _TOOL_SEMAPHORE
  state,    \* the breaker
  cool,     \* whether its cooldown is over
  high,     \* whether the memory is over the limit
  graph,    \* whether _GRAPH is loaded
  indexer,  \* _INDEXER
  fresh,    \* the version that each indexer holds
  lock,     \* the holder of _SINGLETON_LOCK
  after,    \* what a lookup does when _get_graph() returns
  mine,     \* the indexer that a lookup uses
  evicts,   \* evictions so far
  crossed,  \* history: whether an invalidation fell into a thread's computation
  slow,     \* history: whether a thread gave up waiting, or waited for a failure
  begun,    \* history: the version on disk when a lookup began
  robbed,   \* history: whether an eviction fell into a thread's lookup
  early,    \* history: whether a lookup met an indexer still being loaded
  blind     \* history: calls admitted over the limit in this cooldown

index == <<disk, own, saved>>
results == <<cached, flight, loaded, failed, crossed, slow>>
slots == <<free, traced>>
breaker == <<state, cool, high, blind>>
singletons == <<graph, indexer, fresh, lock>>
lookups == <<after, mine, begun, robbed, early>>
vars == <<pc, index, results, slots, breaker, singletons, lookups, evicts>>

-----------------------------------------------------------------------------
Version == 0 .. MaxCommits
Load == 0 .. Cardinality(Thread) + 1
Unloaded == -1
Result == [held : BOOLEAN, version : Version, old : BOOLEAN, crossed : BOOLEAN]
NoResult == [held |-> FALSE, version |-> 0, old |-> FALSE, crossed |-> FALSE]

\* Where a traced call holds a slot, and where a lookup is.
Retrieving ==
  {"cache", "flight", "load", "encode", "encoding", "store", "leave", "wait",
   "recheck", "end"}
LookingUp ==
  {"graph", "graphLock", "graphMake", "graphRet", "indexer", "indexerMake",
   "indexerLoad", "indexerFresh", "indexerRet", "answer"}

TypeOK ==
  /\ pc \in [Thread -> {"idle", "slot"} \cup Retrieving \cup LookingUp]
  /\ disk \in Version /\ own \in Version /\ saved \in BOOLEAN
  /\ cached \in Result
  /\ flight \in Thread \cup {None}
  /\ loaded \in [Thread -> Version] /\ failed \in [Thread -> BOOLEAN]
  /\ free = Slots - Cardinality(traced)
  /\ traced \subseteq {t \in Thread : pc[t] \in Retrieving}
  /\ state \in {"CLOSED", "OPEN", "HALF_OPEN"}
  /\ cool \in BOOLEAN /\ high \in BOOLEAN /\ graph \in BOOLEAN
  /\ indexer \in Load /\ fresh \in [Load -> Version \cup {Unloaded}]
  /\ lock \in Thread \cup {None}
  /\ after \in [Thread -> {"empty", "make", "refresh"}]
  /\ mine \in [Thread -> Load]
  /\ evicts \in 0 .. MaxEvicts
  /\ crossed \in [Thread -> BOOLEAN] /\ slow \in [Thread -> BOOLEAN]
  /\ robbed \in [Thread -> BOOLEAN] /\ early \in [Thread -> BOOLEAN]
  /\ begun \in [Thread -> Version] /\ blind \in 0 .. 2

Goto(t, there) == pc' = [pc EXCEPT ![t] = there]

-----------------------------------------------------------------------------
(* The circuit breaker.                                                      *)

HalfOpenAdmits == state = "HALF_OPEN" /\ ~high

Admits ==
  \/ state = "CLOSED" /\ ~high
  \/ state = "OPEN" /\ cool
  \/ HalfOpenAdmits

\* check()
Check ==
  /\ state' = IF ~Admits THEN "OPEN"
              ELSE IF state = "OPEN" THEN "HALF_OPEN" ELSE state
  /\ cool' = FALSE
  /\ blind' = IF Admits /\ high /\ blind < 2 THEN blind + 1 ELSE blind
  /\ UNCHANGED high

\* record_success()
RecordSuccess == state' = "CLOSED" /\ cool' = FALSE /\ UNCHANGED <<high, blind>>

Cooldown ==
  /\ state = "OPEN" /\ ~cool
  /\ cool' = TRUE /\ blind' = 0
  /\ UNCHANGED <<pc, index, results, slots, state, high, singletons, lookups, evicts>>

\* The memory passes the limit, one way or the other.
Swing ==
  /\ high' = ~high /\ blind' = 0
  /\ UNCHANGED <<pc, index, results, slots, state, cool, singletons, lookups, evicts>>

\* check_once() of the watchdog, over the limit: record_failure().
Trip ==
  /\ high /\ (state # "OPEN" \/ cool)
  /\ state' = "OPEN" /\ cool' = FALSE
  /\ UNCHANGED <<pc, index, results, slots, high, blind, singletons, lookups, evicts>>

-----------------------------------------------------------------------------
(* A call that retrieves: _traced() or not, and hybrid_retrieve().           *)

\* A breaker that refuses sheds the call.
Retrieve(t) ==
  /\ pc[t] = "idle"
  /\ Check
  /\ Goto(t, IF Admits THEN "slot" ELSE "idle")
  /\ UNCHANGED <<index, results, slots, singletons, lookups, evicts>>

\* org_search and its like call hybrid_retrieve() without _traced().
OrgSearch(t) ==
  /\ pc[t] = "idle"
  /\ Goto(t, "cache")
  /\ UNCHANGED <<index, results, slots, breaker, singletons, lookups, evicts>>

AcquireSlot(t) ==
  /\ pc[t] = "slot" /\ free > 0
  /\ free' = free - 1 /\ traced' = traced \cup {t}
  /\ Goto(t, "cache")
  /\ UNCHANGED <<index, results, breaker, singletons, lookups, evicts>>

\* No slot within _TOOL_ACQUIRE_TIMEOUT: the call is shed.
NoSlot(t) ==
  /\ pc[t] = "slot" /\ free = 0
  /\ Goto(t, "idle")
  /\ UNCHANGED <<index, results, slots, breaker, singletons, lookups, evicts>>

LookInCache(t) ==
  /\ pc[t] = "cache"
  /\ Goto(t, IF cached.held /\ ~cached.old THEN "end" ELSE "flight")
  /\ UNCHANGED <<index, results, slots, breaker, singletons, lookups, evicts>>

\* The first miss computes, the others wait for it.
JoinFlight(t) ==
  /\ pc[t] = "flight"
  /\ IF flight = None
     THEN flight' = t /\ Goto(t, "load")
     ELSE UNCHANGED flight /\ Goto(t, "wait")
  /\ UNCHANGED <<index, cached, loaded, failed, crossed, slow, slots, breaker,
                 singletons, lookups, evicts>>

\* HybridRetriever(): its graph and its indexer are read from disk.
LoadIndex(t) ==
  /\ pc[t] = "load"
  /\ loaded' = [loaded EXCEPT ![t] = disk]
  /\ crossed' = [crossed EXCEPT ![t] = FALSE]
  /\ Goto(t, "encode")
  /\ UNCHANGED <<index, cached, flight, failed, slow, slots, breaker, singletons,
                 lookups, evicts>>

Encoded(t) == Goto(t, IF flight = t THEN "store" ELSE "end")

\* encode_with_timeout(): refused, the call makes do with keyword results.
Encode(t) ==
  /\ pc[t] = "encode"
  /\ Check
  /\ IF Admits THEN Goto(t, "encoding") ELSE Encoded(t)
  /\ UNCHANGED <<index, results, slots, singletons, lookups, evicts>>

EncodeEnds(t) ==
  /\ pc[t] = "encoding"
  /\ RecordSuccess
  /\ Encoded(t)
  /\ UNCHANGED <<index, results, slots, singletons, lookups, evicts>>

\* It times out, or the model is evicted as get_model() returns it.
EncodeFails(t) ==
  /\ pc[t] = "encoding"
  /\ failed' = [failed EXCEPT ![t] = TRUE]
  /\ Goto(t, IF flight = t THEN "leave" ELSE "end")
  /\ UNCHANGED <<index, cached, flight, loaded, crossed, slow, slots, breaker,
                 singletons, lookups, evicts>>

ResultOf(t) ==
  [held |-> TRUE, version |-> loaded[t], old |-> FALSE, crossed |-> crossed[t]]

Stored(t) == ResultOf(t)

Store(t) ==
  /\ pc[t] = "store"
  /\ cached' = Stored(t)
  /\ Goto(t, "leave")
  /\ UNCHANGED <<index, flight, loaded, failed, crossed, slow, slots, breaker,
                 singletons, lookups, evicts>>

\* Mutant: only a result clears the entry.
PoppedOnSuccess(t) == IF failed[t] THEN flight ELSE None
Popped(t) == None

\* The event is set.
Woken(t) == [u \in Thread |-> IF pc[u] = "wait" THEN "recheck" ELSE pc[u]]

Leave(t) ==
  /\ pc[t] = "leave"
  /\ flight' = Popped(t)
  /\ pc' = [Woken(t) EXCEPT ![t] = "end"]
  /\ slow' = [u \in Thread |-> slow[u] \/ (pc[u] = "wait" /\ failed[t])]
  /\ UNCHANGED <<index, cached, loaded, failed, crossed, slots, breaker,
                 singletons, lookups, evicts>>

\* 30 seconds, and no result.
GiveUp(t) ==
  /\ pc[t] = "wait"
  /\ slow' = [slow EXCEPT ![t] = TRUE]
  /\ Goto(t, "recheck")
  /\ UNCHANGED <<index, cached, flight, loaded, failed, crossed, slots, breaker,
                 singletons, lookups, evicts>>

\* A waiter takes what the cache holds, of whatever age.
Recheck(t) ==
  /\ pc[t] = "recheck"
  /\ Goto(t, IF cached.held THEN "end" ELSE "load")
  /\ UNCHANGED <<index, results, slots, breaker, singletons, lookups, evicts>>

Released(t) == free + 1

\* The tool has returned, or raised.
End(t) ==
  /\ pc[t] = "end"
  /\ IF t \in traced /\ ~failed[t] THEN RecordSuccess ELSE UNCHANGED breaker
  /\ free' = IF t \in traced THEN Released(t) ELSE free
  /\ traced' = traced \ {t}
  /\ loaded' = [loaded EXCEPT ![t] = 0] /\ failed' = [failed EXCEPT ![t] = FALSE]
  /\ crossed' = [crossed EXCEPT ![t] = FALSE] /\ slow' = [slow EXCEPT ![t] = FALSE]
  /\ Goto(t, "idle")
  /\ UNCHANGED <<index, cached, flight, singletons, lookups, evicts>>

\* An entry of the cache passes _HYBRID_CACHE_TTL: five minutes, in which those
\* who have stored it and those who were woken for it are long gone.
Expire ==
  /\ cached.held /\ ~cached.old
  /\ \A t \in Thread : pc[t] \notin {"leave", "recheck"}
  /\ cached' = [cached EXCEPT !.old = TRUE]
  /\ UNCHANGED <<pc, index, flight, loaded, failed, crossed, slow, slots,
                 breaker, singletons, lookups, evicts>>

-----------------------------------------------------------------------------
(* A lookup: _graph_is_empty(), then _get_indexer().                         *)

Lookup(t) ==
  /\ pc[t] = "idle"
  /\ begun' = [begun EXCEPT ![t] = disk]
  /\ Goto(t, "graph")
  /\ UNCHANGED <<index, results, slots, breaker, singletons, after, mine,
                 robbed, early, evicts>>

\* _get_graph()
LookForGraph(t) ==
  /\ pc[t] = "graph"
  /\ Goto(t, IF graph THEN "graphRet" ELSE "graphLock")
  /\ UNCHANGED <<index, results, slots, breaker, singletons, lookups, evicts>>

TakeLock(t) ==
  /\ pc[t] = "graphLock" /\ lock = None
  /\ lock' = t
  /\ Goto(t, "graphMake")
  /\ UNCHANGED <<index, results, slots, breaker, graph, indexer, fresh, lookups,
                 evicts>>

GraphReturns(t, it) ==
  Goto(t, CASE after[t] = "empty" -> IF it THEN "indexer" ELSE "answer"
               [] after[t] = "make" -> "indexerMake"
               [] after[t] = "refresh" -> "indexerFresh")

FoundMade(t) == Goto(t, "graphRet")

\* The second check, then KnowledgeGraph(), under _SINGLETON_LOCK.
MakeGraph(t) ==
  /\ pc[t] = "graphMake"
  /\ lock' = None
  /\ IF graph
     THEN FoundMade(t) /\ UNCHANGED graph
     ELSE graph' = TRUE /\ GraphReturns(t, TRUE)
  /\ UNCHANGED <<index, results, slots, breaker, indexer, fresh, lookups,
                 evicts>>

\* _revalidate(_GRAPH), and return _GRAPH: the global is read once more.
ReturnGraph(t) ==
  /\ pc[t] = "graphRet"
  /\ GraphReturns(t, graph)
  /\ UNCHANGED <<index, results, slots, breaker, singletons, lookups, evicts>>

BeforeGraph(t) == lock

\* _get_indexer()
LookForIndexer(t) ==
  /\ pc[t] = "indexer"
  /\ after' = [after EXCEPT ![t] = IF indexer = 0 THEN "make" ELSE "refresh"]
  /\ lock' = BeforeGraph(t)
  /\ Goto(t, "graph")
  /\ UNCHANGED <<index, results, slots, breaker, graph, indexer, fresh,
                 mine, begun, robbed, early, evicts>>

\* Mutant: whoever found none makes one.
IndexerMissingOnce(t) == TRUE
\* The second check, under _SINGLETON_LOCK.
IndexerMissing(t) == indexer = 0

Unused == CHOOSE n \in Load \ {0} : n # indexer /\ \A u \in Thread : n # mine[u]

\* _INDEXER = ASTIndexer(graph): the others see it before it is loaded.  A
\* thread that comes second goes on as if it had found the indexer at first.
MakeIndexer(t) ==
  /\ pc[t] = "indexerMake" /\ lock = None
  /\ IF IndexerMissing(t)
     THEN /\ lock' = t
          /\ indexer' = Unused
          /\ fresh' = [fresh EXCEPT ![Unused] = Unloaded]
          /\ mine' = [mine EXCEPT ![t] = Unused]
          /\ Goto(t, "indexerLoad") /\ UNCHANGED after
     ELSE /\ after' = [after EXCEPT ![t] = "refresh"]
          /\ Goto(t, "graph") /\ UNCHANGED <<lock, indexer, fresh, mine>>
  /\ UNCHANGED <<index, results, slots, breaker, graph, begun, robbed, early,
                 evicts>>

\* _INDEXER.load(), and the lock is released.
LoadIndexer(t) ==
  /\ pc[t] = "indexerLoad"
  /\ fresh' = [fresh EXCEPT ![mine[t]] = disk]
  /\ lock' = None
  /\ Goto(t, "answer")
  /\ UNCHANGED <<index, results, slots, breaker, graph, indexer, lookups, evicts>>

\* Mutant: an indexer that has been loaded is never read again.
RevalidatedNever == fresh
\* _revalidate(_INDEXER): reload_if_changed(), whatever there is to reload; an
\* indexer that is not loaded stays so.
Revalidated ==
  IF indexer = 0 \/ fresh[indexer] = Unloaded
  THEN fresh ELSE [fresh EXCEPT ![indexer] = disk]

\* Whether _INDEXER is an indexer that another thread is loading.
BeingLoaded == indexer # 0 /\ fresh[indexer] = Unloaded
Met(t) == early' = [early EXCEPT ![t] = @ \/ BeingLoaded]

RefreshIndexer(t) ==
  /\ pc[t] = "indexerFresh"
  /\ fresh' = Revalidated
  /\ Met(t)
  /\ Goto(t, "indexerRet")
  /\ UNCHANGED <<index, results, slots, breaker, graph, indexer, lock, after,
                 mine, begun, robbed, evicts>>

\* return _INDEXER
ReturnIndexer(t) ==
  /\ pc[t] = "indexerRet"
  /\ mine' = [mine EXCEPT ![t] = indexer]
  /\ Met(t)
  /\ Goto(t, "answer")
  /\ UNCHANGED <<index, results, slots, breaker, singletons, after, begun,
                 robbed, evicts>>

\* The tool answers, or raises because it was given None.
Answer(t) ==
  /\ pc[t] = "answer"
  /\ mine' = [mine EXCEPT ![t] = 0]
  /\ after' = [after EXCEPT ![t] = "empty"] /\ begun' = [begun EXCEPT ![t] = 0]
  /\ robbed' = [robbed EXCEPT ![t] = FALSE]
  /\ early' = [early EXCEPT ![t] = FALSE]
  /\ Goto(t, "idle")
  /\ UNCHANGED <<index, results, slots, breaker, singletons, evicts>>

\* _evict_singletons(), which the idle manager and the watchdog call.
Evict ==
  /\ evicts < MaxEvicts /\ evicts' = evicts + 1
  /\ lock = None /\ (graph \/ indexer # 0)
  /\ graph' = FALSE /\ indexer' = 0
  /\ robbed' = [t \in Thread |-> robbed[t] \/ pc[t] \in LookingUp]
  /\ UNCHANGED <<pc, index, results, slots, breaker, fresh, lock, after, mine,
                 begun, early>>

-----------------------------------------------------------------------------
(* The index is rewritten.                                                   *)

\* Another process saves: nothing is invalidated here.
CommitElsewhere ==
  /\ disk < MaxCommits /\ disk' = disk + 1
  /\ UNCHANGED <<pc, own, saved, results, slots, breaker, singletons, lookups,
                 evicts>>

\* A flush of this process saves, and then invalidates the cache.
Commit ==
  /\ ~saved /\ disk < MaxCommits
  /\ disk' = disk + 1 /\ own' = disk + 1
  /\ saved' = TRUE
  /\ UNCHANGED <<pc, results, slots, breaker, singletons, lookups, evicts>>

\* Mutant: the entries are kept until they expire.
InvalidatedNot == cached
Invalidated == NoResult

\* invalidate_hybrid_cache(): what is in flight goes on.
Invalidate ==
  /\ saved /\ saved' = FALSE
  /\ cached' = Invalidated
  /\ crossed' = [t \in Thread |->
       crossed[t] \/ pc[t] \in {"encode", "encoding", "store"}]
  /\ UNCHANGED <<pc, disk, own, flight, loaded, failed, slow, slots, breaker,
                 singletons, lookups, evicts>>

Init ==
  /\ pc = [t \in Thread |-> "idle"]
  /\ disk = 0 /\ own = 0 /\ saved = FALSE
  /\ cached = NoResult /\ flight = None
  /\ loaded = [t \in Thread |-> 0] /\ failed = [t \in Thread |-> FALSE]
  /\ free = Slots /\ traced = {}
  /\ state = "CLOSED" /\ cool = FALSE /\ high = FALSE
  /\ graph = FALSE /\ indexer = 0 /\ fresh = [n \in Load |-> 0] /\ lock = None
  /\ after = [t \in Thread |-> "empty"]
  /\ mine = [t \in Thread |-> 0]
  /\ evicts = 0
  /\ crossed = [t \in Thread |-> FALSE] /\ slow = [t \in Thread |-> FALSE]
  /\ begun = [t \in Thread |-> 0]
  /\ robbed = [t \in Thread |-> FALSE] /\ early = [t \in Thread |-> FALSE]
  /\ blind = 0

Retrieval(t) ==
  \/ AcquireSlot(t) \/ NoSlot(t) \/ LookInCache(t) \/ JoinFlight(t)
  \/ LoadIndex(t) \/ Encode(t) \/ EncodeEnds(t) \/ EncodeFails(t) \/ Store(t)
  \/ Leave(t) \/ GiveUp(t) \/ Recheck(t) \/ End(t)
LookingUpSteps(t) ==
  \/ LookForGraph(t) \/ TakeLock(t) \/ MakeGraph(t) \/ ReturnGraph(t)
  \/ LookForIndexer(t) \/ MakeIndexer(t) \/ LoadIndexer(t)
  \/ RefreshIndexer(t) \/ ReturnIndexer(t) \/ Answer(t)
Run(t) == Retrieval(t) \/ LookingUpSteps(t)
Around ==
  \/ Cooldown \/ Swing \/ Trip \/ Expire \/ Evict
  \/ CommitElsewhere \/ Commit \/ Invalidate

Next ==
  Around \/ \E t \in Thread : Retrieve(t) \/ OrgSearch(t) \/ Lookup(t) \/ Run(t)
Spec == Init /\ [][Next]_vars

-----------------------------------------------------------------------------
\* Whoever computes the query is in flight, alone, and leaves no entry behind,
\* whether it succeeds or raises: no later miss waits for a computation that is
\* over (hybrid_retrieve(), the finally).
FlightOwned ==
  flight # None =>
    pc[flight] \in {"load", "encode", "encoding", "store", "leave"}

\* A cached result is older than what this process has written only while the
\* invalidation is still to come, or when one fell into its computation
\* (invalidate_hybrid_cache(): "Evict all cached results").
OldOnlyIfCrossed ==
  cached.held /\ cached.version < own => saved \/ cached.crossed

\* An expired result is given only to a caller that waited too long, or for a
\* computation that raised (hybrid_retrieve(), _HYBRID_CACHE_TTL).
ExpiredOnlyIfSlow ==
  \A t \in Thread : pc[t] = "recheck" /\ cached.held /\ cached.old => slow[t]

\* Between two cooldowns at most one call is let through over the limit,
\* whatever calls begun earlier report (CircuitBreaker.check(), "allow one probe
\* call").
OneProbe == blind <= 1

\* Lookups into which no eviction fell use one indexer between them
\* (_get_indexer(), double-checked locking).
OneIndexer ==
  \A t, u \in Thread :
    pc[t] = "answer" /\ pc[u] = "answer" /\ ~robbed[t] /\ ~robbed[u]
      => mine[t] = mine[u]

\* A lookup is given None only if an eviction fell into it (_get_graph() and
\* _get_indexer(); idle_manager.py: "callers never see a crash").
NoneOnlyIfRobbed ==
  \A t \in Thread : pc[t] = "answer" /\ mine[t] = 0 => robbed[t]

\* A lookup answers from an index at least as new as the one on disk when it
\* was called, whichever process wrote that, unless it met an indexer that
\* another thread had published and not yet loaded (_get_indexer(),
\* reload_if_changed()).
AnswersFresh ==
  \A t \in Thread :
    pc[t] = "answer" /\ mine[t] # 0 /\ ~early[t] => fresh[mine[t]] >= begun[t]

\* Whoever holds _SINGLETON_LOCK is loading: nobody waits for the lock with the
\* lock in hand (_get_indexer(), "self-deadlock").
HolderLoads == lock # None => pc[lock] \in {"graphMake", "indexerLoad"}

\* Why: what each step still needs of the steps before it.

\* A cooldown that is over has not been used yet.
ProbeUnused == cool => blind = 0

\* The computations in flight: what is stored later has been crossed by every
\* invalidation since its index was read; a result whose computation did not raise
\* cannot expire before those who wait for it are woken.
Crossing ==
  /\ own <= disk
  /\ \A t \in Thread :
       /\ pc[t] \in {"encode", "encoding", "store"} /\ loaded[t] < own => saved \/ crossed[t]
       /\ pc[t] = "leave" /\ ~failed[t] => ~(cached.held /\ cached.old)

\* The lookups: what a thread into whose lookup no eviction fell has found is
\* still there, and what it has been given is what there is.
Tracked ==
  /\ \A t \in Thread :
       /\ pc[t] \in {"graphMake", "indexerLoad"} => lock = t
       /\ pc[t] \notin LookingUp => after[t] = "empty"
       /\ pc[t] \notin {"indexerLoad", "answer"} => mine[t] = 0
       /\ pc[t] \in {"indexerFresh", "indexerRet"} => after[t] = "refresh"
       /\ pc[t] = "indexerLoad" => indexer # 0 /\ mine[t] = indexer
       /\ ~robbed[t] =>
            /\ pc[t] = "graphRet" => graph
            /\ after[t] = "refresh" => indexer # 0
            /\ pc[t] = "answer" => indexer # 0 /\ mine[t] = indexer

\* No indexer is newer than the disk, and one that is found loaded after the
\* refresh of a lookup is as new as that lookup.
Refreshed ==
  /\ \A n \in Load : fresh[n] <= disk
  /\ \A t \in Thread :
       /\ begun[t] <= disk
       /\ pc[t] = "indexerRet" /\ ~early[t] /\ indexer # 0 =>
            fresh[indexer] = Unloaded \/ fresh[indexer] >= begun[t]

\* In-flight entry, slots and singleton lock belong to a thread that will give
\* them back, and one probe passes the breaker, with the types of all state
\* (hybrid_retrieve(), _traced(), _get_indexer(), CircuitBreaker.check()).
ThreadsInv ==
  TypeOK /\ FlightOwned /\ HolderLoads /\ OneProbe /\ ProbeUnused

\* What is old in the cache, or given from it when it has expired, is so for one
\* of the two reasons above (hybrid_retrieve(), invalidate_hybrid_cache()).
CacheExplained == OldOnlyIfCrossed /\ ExpiredOnlyIfSlow /\ Crossing

\* Lookups into which no eviction fell find an indexer, and the same one, as new
\* as their call unless another thread was loading it (_get_graph(),
\* _get_indexer()).
LookupsAgree == OneIndexer /\ NoneOnlyIfRobbed /\ Tracked /\ Refreshed
=============================================================================
