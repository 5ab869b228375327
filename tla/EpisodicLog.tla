----------------------------- MODULE EpisodicLog -----------------------------
(***************************************************************************)
(* The episodic memory: episodic.json, the live events; its archive, into  *)
(* which the oldest are rotated; the BM25 index that each process caches;  *)
(* and the two files that cache the embeddings of the events.  Source:     *)
(* data/memory/episodic_memory.py.                                         *)
(*                                                                         *)
(* Data abstraction.  An event is known by the order in which it was       *)
(* logged; its id is the number of its e_<N>.  The vector of an event is   *)
(* the event.  A file is replaced in one step (core/config/atomic.py).     *)
(* A process does one operation at a time; one that has to wait too long   *)
(* for store_lock has changed nothing.                                     *)
(***************************************************************************)
EXTENDS Integers, Sequences, FiniteSets, SequencesExt, Selection

CONSTANTS
  Proc,       \* processes
  Searchers,  \* those whose searches fall back on the embeddings
  Cap,        \* episodic_max_events
  MaxEvents,  \* bound of the model: events logged
  Naming,     \* the events that name the file mark_stale() is called for
  MaxFails,   \* bound of the model: rotations without an archive
  MaxDamage,  \* bound of the model: times episodic.json is damaged
  MaxKills,   \* bound of the model: processes killed
  None        \* no process

ASSUME SearchersAssumption == Searchers \subseteq Proc
ASSUME NoneAssumption == None \notin Proc
ASSUME CapAssumption == Cap \in Nat \ {0}
ASSUME NamingAssumption == Naming \subseteq 1 .. MaxEvents
ASSUME BoundAssumption ==
  {MaxEvents, MaxFails, MaxDamage, MaxKills} \subseteq Nat

VARIABLES
  live,      \* episodic.json
  archive,   \* episodic_archive.json
  damaged,   \* whether episodic.json cannot be read
  aside,     \* the events of the files moved aside
  lock,      \* the holder of store_lock
  pc,        \* where each process is in its operation
  op,        \* which operation it is in
  data,      \* its local `data`
  corpus,    \* _BM25_CORPUS, the ids, or nothing
  vecs,      \* episodic_vecs.npy
  ids,       \* episodic_vecs_ids.json
  merged,    \* the local merged_ids and merged_vecs of a search
  logged,    \* history: the events whose log_event() returned, and by whom
  tagged,    \* history: the events whose mark_stale() returned
  seq,       \* history: events begun so far
  torn,      \* history: whether a kill has left the files of the vectors of two searches
  fails, damages, kills  \* faults so far

store == <<live, archive, damaged, aside>>
local == <<pc, op, data>>
embeddings == <<vecs, ids, merged>>
past == <<logged, tagged, seq, torn>>
faults == <<fails, damages, kills>>
vars == <<store, lock, local, corpus, embeddings, past, faults>>

-----------------------------------------------------------------------------
Event == 1 .. MaxEvents
Entry == [ev : Event, id : Nat, prev : Int, stale : BOOLEAN]
Pair == [id : Nat, ev : Event]
Writing == {"load", "rotate", "save"}
NoCorpus == [built |-> FALSE, ids |-> {}]

TypeOK ==
  /\ live \in Seq(Entry) /\ archive \in Seq(Entry) /\ aside \subseteq Event
  /\ damaged \in BOOLEAN
  /\ lock \in Proc \cup {None}
  /\ pc \in [Proc -> Writing \cup {"idle", "vecs", "ids"}]
  /\ \A p \in Proc : pc[p] \in Writing <=> lock = p
  /\ op \in [Proc -> {"none", "log", "stale"}]
  /\ data \in [Proc -> Seq(Entry)]
  /\ corpus \in [Proc -> [built : BOOLEAN, ids : SUBSET Nat]]
  /\ logged \in [Event -> Proc \cup {None}]
  /\ tagged \subseteq Event /\ seq \in 0 .. MaxEvents /\ torn \in BOOLEAN
  /\ fails \in 0 .. MaxFails /\ damages \in 0 .. MaxDamage
  /\ kills \in 0 .. MaxKills

-----------------------------------------------------------------------------
(* log_event() and mark_stale(), which read, modify and write under the      *)
(* lock of the stores.                                                       *)

\* Mutant: the file is read before the lock is taken.
ExcludedNever == TRUE
Excluded == lock = None

Enter(p, what) ==
  /\ pc[p] = "idle" /\ Excluded
  /\ lock' = p
  /\ pc' = [pc EXCEPT ![p] = "load"]
  /\ op' = [op EXCEPT ![p] = what]
  /\ UNCHANGED <<store, data, corpus, embeddings, past, faults>>

LogEvent(p) == seq < MaxEvents /\ Enter(p, "log")
MarkStale(p) == Enter(p, "stale")

Loaded(p, entries) ==
  /\ data' = [data EXCEPT ![p] = entries]
  /\ pc' = [pc EXCEPT ![p] = IF op[p] = "log" THEN "rotate" ELSE "save"]
  /\ UNCHANGED <<lock, op, corpus, embeddings, past, faults>>

\* _load(writer=True)
Load(p) ==
  /\ pc[p] = "load" /\ ~damaged
  /\ Loaded(p, live)
  /\ UNCHANGED store

\* What is kept of a file that is moved aside.
MovedAside == {e.ev : e \in ToSet(live)}

\* quarantine_if_stably_corrupt(): the file is moved aside.
Quarantine(p) ==
  /\ pc[p] = "load" /\ damaged
  /\ aside' = aside \cup MovedAside
  /\ live' = <<>> /\ damaged' = FALSE
  /\ Loaded(p, <<>>)
  /\ UNCHANGED archive

Left(p) ==
  /\ lock' = None
  /\ pc' = [pc EXCEPT ![p] = "idle"] /\ op' = [op EXCEPT ![p] = "none"]
  /\ data' = [data EXCEPT ![p] = <<>>]

\* The file cannot be moved: StoreUnreadableError, the event is not recorded.
Refuse(p) ==
  /\ pc[p] = "load" /\ damaged
  /\ Left(p)
  /\ UNCHANGED <<store, corpus, embeddings, past, faults>>

\* max(1, int(len(data) * _ARCHIVE_FRACTION))
ArchiveCount(n) == IF n \div 5 > 1 THEN n \div 5 ELSE 1

\* existing + to_archive
Archived(p) == archive \o SubSeq(data[p], 1, ArchiveCount(Len(data[p])))

\* _rotate_if_needed()
Rotate(p) ==
  /\ pc[p] = "rotate"
  /\ pc' = [pc EXCEPT ![p] = "save"]
  /\ IF Len(data[p]) < Cap
     THEN UNCHANGED <<archive, data>>
     ELSE LET n == ArchiveCount(Len(data[p])) IN
          /\ archive' = Archived(p)
          /\ data' = [data EXCEPT ![p] = SubSeq(@, n + 1, Len(@))]
  /\ UNCHANGED <<live, damaged, aside, lock, op, corpus, embeddings, past, faults>>

\* Mutant: the entries go although the archive has not got them.
KeptNone(p) == SubSeq(data[p], ArchiveCount(Len(data[p])) + 1, Len(data[p]))
\* What stays in the store when the archive cannot be written.
Kept(p) == data[p]

RotateFails(p) ==
  /\ pc[p] = "rotate" /\ Len(data[p]) >= Cap
  /\ fails < MaxFails /\ fails' = fails + 1
  /\ data' = [data EXCEPT ![p] = Kept(p)]
  /\ pc' = [pc EXCEPT ![p] = "save"]
  /\ UNCHANGED <<store, lock, op, corpus, embeddings, past, damages, kills>>

MaxId(q) == Max({e.id : e \in ToSet(q)} \cup {-1})

\* Mutant: the id is the number of entries.
NextEventIdCount(q) == Len(q)
\* Mutant: the archive is not consulted.
NextEventIdLive(q) == MaxId(q) + 1
\* _next_event_id()
NextEventId(q) == Max({MaxId(q), MaxId(archive)}) + 1

PrevOf(q) == IF q = <<>> THEN -1 ELSE q[Len(q)].id

\* The writer's cached index does not outlive its save.
Invalidated(p) == [corpus EXCEPT ![p] = NoCorpus]

\* The entry is appended and the store saved.
SaveLog(p) ==
  /\ pc[p] = "save" /\ op[p] = "log"
  /\ live' = Append(data[p],
       [ev |-> seq + 1, id |-> NextEventId(data[p]), prev |-> PrevOf(data[p]),
        stale |-> FALSE])
  /\ seq' = seq + 1
  /\ logged' = [logged EXCEPT ![seq + 1] = p]
  /\ corpus' = Invalidated(p)
  /\ damaged' = FALSE
  /\ Left(p)
  /\ UNCHANGED <<archive, aside, embeddings, tagged, torn, faults>>

\* The entries that name the file and are not stale yet.
Newly(q) == {i \in DOMAIN q : q[i].ev \in Naming /\ ~q[i].stale}

\* They are flagged; when there is none nothing is saved.
SaveStale(p) ==
  LET T == Newly(data[p]) IN
  /\ pc[p] = "save" /\ op[p] = "stale"
  /\ live' = IF T = {} THEN live
             ELSE [i \in DOMAIN data[p] |->
                    [data[p][i] EXCEPT !.stale = @ \/ i \in T]]
  /\ tagged' = tagged \cup {data[p][i].ev : i \in T}
  /\ corpus' = IF T = {} THEN corpus ELSE Invalidated(p)
  /\ damaged' = (damaged /\ T = {})
  /\ Left(p)
  /\ UNCHANGED <<archive, aside, embeddings, logged, seq, torn, faults>>

-----------------------------------------------------------------------------
(* search_episodes(), which takes no lock.                                   *)

Readable == IF damaged THEN <<>> ELSE live

\* _get_bm25(): the cached index, or one of what was just read.
Search(p) ==
  /\ pc[p] = "idle" /\ Readable # <<>> /\ ~corpus[p].built
  /\ corpus' = [corpus EXCEPT
       ![p] = [built |-> TRUE, ids |-> {e.id : e \in ToSet(live)}]]
  /\ UNCHANGED <<store, lock, local, embeddings, past, faults>>

\* _load_vec_cache(): files of different lengths are no cache.
Cached ==
  IF Len(vecs) = Len(ids)
  THEN [i \in DOMAIN ids |-> [id |-> ids[i], ev |-> vecs[i]]]
  ELSE <<>>

Uncached ==
  LET known == {c.id : c \in ToSet(Cached)} IN
  Selected(Readable, {i \in DOMAIN Readable : Readable[i].id \notin known})
PairOf(e) == [id |-> e.id, ev |-> e.ev]

\* merged_ids and merged_vecs
Merged == Cached \o [i \in DOMAIN Uncached |-> PairOf(Uncached[i])]

\* _semantic_episode_search(): entries without a vector are encoded.
SearchVectors(p) ==
  /\ p \in Searchers /\ pc[p] = "idle" /\ Uncached # <<>>
  /\ merged' = [merged EXCEPT ![p] = Merged]
  /\ pc' = [pc EXCEPT ![p] = "vecs"]
  /\ UNCHANGED <<store, lock, op, data, corpus, vecs, ids, past, faults>>

\* _save_vec_cache(): two files, one after the other.
SaveVecs(p) ==
  /\ pc[p] = "vecs"
  /\ vecs' = [i \in DOMAIN merged[p] |-> merged[p][i].ev]
  /\ pc' = [pc EXCEPT ![p] = "ids"]
  /\ UNCHANGED <<store, lock, op, data, corpus, ids, merged, past, faults>>

SaveIds(p) ==
  /\ pc[p] = "ids"
  /\ ids' = [i \in DOMAIN merged[p] |-> merged[p][i].id]
  /\ merged' = [merged EXCEPT ![p] = <<>>]
  /\ pc' = [pc EXCEPT ![p] = "idle"]
  /\ UNCHANGED <<store, lock, op, data, corpus, vecs, past, faults>>

-----------------------------------------------------------------------------
\* episodic.json is damaged from outside.
Damage ==
  /\ damages < MaxDamage /\ damages' = damages + 1
  /\ ~damaged /\ live # <<>>
  /\ damaged' = TRUE
  /\ UNCHANGED <<live, archive, aside, lock, local, corpus, embeddings, past,
                 fails, kills>>

\* The process is killed: the kernel frees the lock.  It is started again.
Kill(p) ==
  /\ kills < MaxKills /\ kills' = kills + 1
  /\ pc[p] # "idle" \/ corpus[p].built
  /\ lock' = IF lock = p THEN None ELSE lock
  /\ pc' = [pc EXCEPT ![p] = "idle"] /\ op' = [op EXCEPT ![p] = "none"]
  /\ data' = [data EXCEPT ![p] = <<>>]
  /\ corpus' = [corpus EXCEPT ![p] = NoCorpus]
  /\ merged' = [merged EXCEPT ![p] = <<>>]
  /\ torn' = (torn \/ pc[p] = "ids")
  /\ UNCHANGED <<store, vecs, ids, logged, tagged, seq, fails, damages>>

Init ==
  /\ live = <<>> /\ archive = <<>> /\ damaged = FALSE /\ aside = {}
  /\ lock = None
  /\ pc = [p \in Proc |-> "idle"] /\ op = [p \in Proc |-> "none"]
  /\ data = [p \in Proc |-> <<>>] /\ corpus = [p \in Proc |-> NoCorpus]
  /\ vecs = <<>> /\ ids = <<>> /\ merged = [p \in Proc |-> <<>>]
  /\ logged = [e \in Event |-> None] /\ tagged = {} /\ seq = 0
  /\ torn = FALSE
  /\ fails = 0 /\ damages = 0 /\ kills = 0

Change(p) ==
  \/ LogEvent(p) \/ MarkStale(p) \/ Load(p) \/ Quarantine(p) \/ Refuse(p)
  \/ Rotate(p) \/ RotateFails(p) \/ SaveLog(p) \/ SaveStale(p)
Read(p) == Search(p) \/ SearchVectors(p) \/ SaveVecs(p) \/ SaveIds(p)

Next == Damage \/ \E p \in Proc : Change(p) \/ Read(p) \/ Kill(p)
Spec == Init /\ [][Next]_vars

-----------------------------------------------------------------------------
Everywhere == ToSet(live) \cup ToSet(archive)

\* An event whose log_event() returned is in the live store, in the archive or
\* in a file that was moved aside, wherever a process is killed and whatever
\* fails (_rotate_if_needed(): removed only once safely in the archive).
EventsKept ==
  \A e \in Event : logged[e] # None =>
    e \in aside \cup {x.ev : x \in Everywhere}

\* An id names one event for as long as the store lives: what a rotation cut
\* short left in both files is the same event, and no new one gets its id
\* (_next_event_id()).
IdNamesOne ==
  \A x, y \in Everywhere : x.id = y.id => x.ev = y.ev

\* The live store is in the order of its ids, and each entry names the one
\* before it, across rotations (log_event(), "prev").
Chained ==
  \A i \in DOMAIN live : i > 1 =>
    live[i].id > live[i - 1].id /\ live[i].prev = live[i - 1].id

\* The tag of an event survives every later write of the store and its
\* rotation: two writers never undo each other (mark_stale(), log_event()).
TagsKept ==
  \A e \in tagged : e \in aside \/ \E x \in Everywhere : x.ev = e /\ x.stale

\* Searching, a process finds the live events it has logged itself: its cached
\* index holds their ids (_save() invalidates, _get_bm25()).
FindsOwn ==
  \A p \in Proc : corpus[p].built =>
    \A x \in ToSet(live) : logged[x.ev] = p => x.id \in corpus[p].ids

\* A hit in the cache of embeddings is the vector of the event with that id
\* (_semantic_episode_search(): "a cache hit by ID is always valid"), unless a
\* store was moved aside, a search was killed between its two files, or one is
\* between them.
VectorOfItsEvent ==
  aside = {} /\ ~torn /\ (\A p \in Proc : pc[p] # "ids") =>
    \A c \in ToSet(Cached) : \A x \in Everywhere : x.id = c.id => x.ev = c.ev

\* Why: what each step still needs of the steps before it.

\* Whoever logs has an event left to log, and only it rotates.
Begun ==
  \A p \in Proc :
    /\ pc[p] \in Writing /\ op[p] = "log" => seq < MaxEvents
    /\ pc[p] = "rotate" => op[p] = "log"

\* Events and their ids are numbered within those begun.
Numbered == \A x \in Everywhere : x.ev <= seq /\ x.id < seq

\* What a writer has read is still what the store holds, but for the oldest
\* entries, which are in the archive when it leaves them out.
Holds(p, n) ==
  /\ data[p] = SubSeq(live, n + 1, Len(live))
  /\ \A i \in 1 .. n : live[i] \in ToSet(archive)
ReadUnderLock ==
  \A p \in Proc :
    /\ pc[p] = "rotate" => data[p] = live
    /\ pc[p] = "save" /\ op[p] = "log" => \E n \in 0 .. Len(live) : Holds(p, n)
    /\ pc[p] = "save" /\ op[p] = "stale" => data[p] = live

\* The embeddings of entries that are somewhere in the log: those that are cached
\* between two searches, and those that a search will write; one that has written
\* the first file will write the ids that belong to it.
Right(c) == \E x \in Everywhere : x.id = c.id /\ x.ev = c.ev
Encoded ==
  /\ aside = {} /\ ~torn =>
       /\ (\A p \in Proc : pc[p] # "ids") => \A c \in ToSet(Cached) : Right(c)
       /\ \A p \in Proc : pc[p] \in {"vecs", "ids"} => \A c \in ToSet(merged[p]) : Right(c)
  /\ \A p \in Proc :
       /\ pc[p] \in {"vecs", "ids"} => p \in Searchers
       /\ pc[p] = "ids" => vecs = [i \in DOMAIN merged[p] |-> merged[p][i].ev]

\* The log and its index, with the types of all their state: one event for each
\* id and an unbroken chain, across rotations, kills and stores set aside, and a
\* process that searches finds its own (log_event(), _rotate_if_needed(),
\* _get_bm25()).
LogInv ==
  TypeOK /\ IdNamesOne /\ Chained /\ FindsOwn /\ Begun /\ Numbered /\ ReadUnderLock

\* Neither an event nor a tag is lost by a rotation, a kill, a failure or another
\* writer (_rotate_if_needed(), mark_stale()).
NothingLost == EventsKept /\ TagsKept

\* The files of the embeddings: their types, and each event with its own vector
\* (_load_vec_cache(), _semantic_episode_search()).
VectorsRight ==
  /\ vecs \in Seq(Event) /\ ids \in Seq(Nat)
  /\ merged \in [Proc -> Seq(Pair)]
  /\ VectorOfItsEvent
=============================================================================
