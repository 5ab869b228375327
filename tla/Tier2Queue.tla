----------------------------- MODULE Tier2Queue -----------------------------
(***************************************************************************)
(* The files a Tier-1 run of index-repo defers: pending_tier2.json, the    *)
(* Tier-2 run that works it off in batches, and the servers that take      *)
(* files out of it on access.  Source: intelligence/indexer/ast_indexer.py *)
(* (_write_pending_tier2(), _index_tier2(), the end of                     *)
(* _index_repo_impl()), intelligence/indexer/on_demand.py and              *)
(* interface/tools/bg_progress.py.                                         *)
(*                                                                         *)
(* Data abstraction.  Of the index only the deferred files are kept, and   *)
(* whether the vectors of the Tier-1 files are in it.  Each section under  *)
(* the lock of the queue is one step; a lock that is busy for too long is  *)
(* one of its failures.  A save of the index is one step: what it does     *)
(* inside, and that it rebases the files its instance changed, is module   *)
(* AstIndex.  The lease of the graph journal keeps Tier-1 and Tier-2 runs  *)
(* apart (index_repo()).                                                   *)
(***************************************************************************)
EXTENDS Integers, FiniteSets

CONSTANTS
  File,      \* the files below the weight limit of Tier 1
  Server,    \* processes that expand on access
  Mortal,    \* servers that may be killed between two steps
  Batch,     \* files indexed between two flushes
  Overlap,   \* whether servers expand while a Tier-1 run is under way
  Stopping,  \* whether the Stop button is used
  MaxRuns,   \* bound of the model: Tier-1 runs
  MaxFails   \* bound of the model: failures and kills

ASSUME FileAssumption == IsFiniteSet(File)
ASSUME RolesAssumption == Mortal \subseteq Server
ASSUME BatchAssumption == Batch \in Nat \ {0}
ASSUME FlagsAssumption == Overlap \in BOOLEAN /\ Stopping \in BOOLEAN
ASSUME RunsAssumption == MaxRuns \in Nat /\ MaxFails \in Nat

VARIABLES
  queue,     \* pending_tier2.json
  disk,      \* the index on disk
  tier1,     \* where a Tier-1 run is
  tier2,     \* where a Tier-2 run is
  read,      \* its _data as read, and then as it wrote it back
  todo,      \* what its loop over _pending has not reached
  left,      \* its _remaining
  total,     \* its total_files
  mem,       \* its index
  own,       \* the files in it that are not saved: _dirty_files
  owed,      \* whether its _pending_embeds holds the Tier-1 files
  behind,    \* whether ast_index.json was written since it read or wrote it
  stop,      \* stop_requested in the progress file of the run
  polled,    \* whether should_stop() has been asked for the next file
  at,        \* where expand_on_access() of each server is
  seen,      \* its `data`
  found,     \* its newly_indexed
  dirty,     \* the files in the memory of each server that are not saved
  skipped,   \* history: the files whose index_file() raised, or that are gone
  dropped,   \* history: the files a stop, or the end of a server, took away
  wasted,    \* history: a run lost the vectors of the Tier-1 files
  runs, fails  \* Tier-1 runs, and failures, so far

loop == <<read, todo, left, total>>
copy == <<mem, own, owed, behind>>
run == <<tier2, loop, copy>>
button == <<stop, polled>>
access == <<at, seen, found, dirty>>
past == <<skipped, dropped, wasted>>
counts == <<runs, fails>>
queueVars == <<queue, disk, tier1, run, button, access, past, counts>>

-----------------------------------------------------------------------------
Queue == [there : BOOLEAN, files : SUBSET File, embed : BOOLEAN]
Index == [files : SUBSET File, tier1 : BOOLEAN]
NoQueue == [there |-> FALSE, files |-> {}, embed |-> FALSE]

QueueTypeOK ==
  /\ queue \in Queue
  /\ disk \in Index /\ mem \in Index
  /\ tier1 \in {"off", "queued"}
  /\ tier2 \in {"off", "embed", "unembed", "index", "save", "trim", "clear"}
  /\ tier1 = "off" \/ tier2 = "off"
  /\ read \in Queue
  /\ todo \subseteq File /\ left \subseteq File /\ own \subseteq mem.files
  /\ total \in 0 .. Cardinality(File)
  /\ behind \in BOOLEAN /\ stop \in BOOLEAN /\ polled \in BOOLEAN
  /\ at \in [Server -> {"idle", "index", "trim", "save"}]
  /\ seen \in [Server -> Queue]
  /\ found \in [Server -> SUBSET File] /\ dirty \in [Server -> SUBSET File]
  /\ skipped \subseteq File /\ dropped \subseteq File
  /\ wasted \in BOOLEAN /\ owed \in BOOLEAN
  /\ runs \in 0 .. MaxRuns /\ fails \in 0 .. MaxFails

Fail == fails < MaxFails /\ fails' = fails + 1 /\ UNCHANGED runs

-----------------------------------------------------------------------------
(* Tier 1.                                                                  *)

\* The lease of the graph journal is free.
Free == tier1 = "off" /\ tier2 = "off"

\* The walk of a large repository: the low-weight files are queued, and the
\* vectors of the others are deferred with them.
Walk ==
  /\ Free
  /\ Overlap \/ \A s \in Server : at[s] = "idle" /\ dirty[s] = {}
  /\ runs < MaxRuns /\ runs' = runs + 1
  /\ tier1' = "queued"
  /\ queue' = [there |-> TRUE, files |-> File, embed |-> TRUE]
  /\ skipped' = {} /\ dropped' = {} /\ wasted' = FALSE
  /\ UNCHANGED <<disk, run, button, access, fails>>

\* The index, built from nothing, replaces the one on disk.
SaveTier1 ==
  /\ tier1 = "queued"
  /\ tier1' = "off"
  /\ disk' = [files |-> {}, tier1 |-> FALSE]
  /\ behind' = TRUE
  /\ UNCHANGED <<queue, tier2, loop, mem, own, owed, button, access, past,
                 counts>>

KillTier1 ==
  /\ tier1 = "queued" /\ Fail
  /\ tier1' = "off"
  /\ UNCHANGED <<queue, disk, run, button, access, past>>

-----------------------------------------------------------------------------
(* Tier 2: _index_tier2().                                                  *)

\* load(), and the queue; a queue that is not there, or busy, ends the run.
Begin ==
  /\ Free /\ queue.there
  /\ mem' = disk /\ own' = {} /\ behind' = FALSE
  /\ read' = queue /\ todo' = queue.files /\ left' = queue.files /\ total' = 0
  /\ tier2' = IF queue.embed THEN "embed" ELSE "index"
  /\ stop' = FALSE /\ polled' = FALSE /\ owed' = FALSE
  /\ UNCHANGED <<queue, disk, tier1, access, past, counts>>

\* The vectors that Tier 1 deferred.
EmbedTier1 ==
  /\ tier2 = "embed"
  /\ mem' = [mem EXCEPT !.tier1 = TRUE]
  /\ read' = [read EXCEPT !.embed = FALSE]
  /\ tier2' = "unembed"
  /\ UNCHANGED <<queue, disk, tier1, todo, left, total, own, owed, behind,
                 button, access, past, counts>>

\* The model cannot be used: a warning; the next batch takes them along.
EmbedTier1Fails ==
  /\ tier2 = "embed" /\ Fail
  /\ read' = [read EXCEPT !.embed = FALSE]
  /\ owed' = TRUE
  /\ tier2' = "unembed"
  /\ UNCHANGED <<queue, disk, tier1, todo, left, total, mem, own, behind,
                 button, access, past>>

\* The queue says so at once, before anything is saved; or it is busy.
Unembed ==
  /\ tier2 = "unembed"
  /\ \/ queue' = read /\ UNCHANGED counts
     \/ Fail /\ UNCHANGED queue
  /\ tier2' = "index"
  /\ UNCHANGED <<disk, tier1, loop, copy, button, access, past>>

\* Mutant: the batch is trimmed from the queue before it is saved.
FollowingTrimFirst(step) ==
  CASE step = "index" -> "trim"
    [] step = "trim" -> "save"
    [] step = "save" -> IF todo # {} THEN "index" ELSE "clear"

\* The order of a flush: the index is saved, then the queue is rewritten, or
\* removed at the end (a last batch that is full is flushed with it).
Following(step) ==
  CASE step = "index" -> "save"
    [] step = "save" -> IF todo # {} THEN "trim" ELSE "clear"
    [] step = "trim" -> "index"

\* should_stop(), asked before each file.
Poll ==
  /\ tier2 = "index" /\ todo # {} /\ ~polled
  /\ IF stop
     THEN tier2' = Following("index") /\ todo' = {} /\ UNCHANGED polled
     ELSE polled' = TRUE /\ UNCHANGED <<tier2, todo>>
  /\ UNCHANGED <<queue, disk, tier1, read, left, total, copy, stop, access,
                 past, counts>>

\* A file that is gone is not asked for.
FileGone(f) ==
  /\ tier2 = "index" /\ f \in todo /\ ~polled /\ Fail
  /\ todo' = todo \ {f} /\ left' = left \ {f}
  /\ skipped' = skipped \cup {f} /\ UNCHANGED <<dropped, wasted>>
  /\ UNCHANGED <<queue, disk, tier1, tier2, read, total, copy, button, access>>

\* Whether a batch is complete.
Flush(n) == n % Batch = 0

\* The file is handled: update() rewrites the progress file.
Handled(f, n) ==
  /\ tier2 = "index" /\ f \in todo /\ polled
  /\ todo' = todo \ {f} /\ left' = left \ {f}
  /\ total' = n
  /\ polled' = FALSE /\ stop' = FALSE
  /\ tier2' = IF Flush(n) THEN Following("index") ELSE "index"
  /\ UNCHANGED <<queue, disk, tier1, read, owed, behind, access>>

IndexFile(f) ==
  /\ Handled(f, total + 1)
  /\ mem' = [mem EXCEPT !.files = @ \cup {f}] /\ own' = own \cup {f}
  /\ UNCHANGED <<past, counts>>

\* index_file() raises: a line in the debug log.
IndexFileFails(f) ==
  /\ Handled(f, total) /\ Fail
  /\ skipped' = skipped \cup {f}
  /\ UNCHANGED <<dropped, wasted, mem, own>>

AllHandled ==
  /\ tier2 = "index" /\ todo = {}
  /\ tier2' = Following("index")
  /\ UNCHANGED <<queue, disk, tier1, loop, copy, button, access, past, counts>>

\* save(): over the index it knows, or the files it changed over a newer one.
Saved(m) ==
  IF behind THEN [disk EXCEPT !.files = @ \cup own] ELSE m

\* _batch_embed_pending() once more, for what is owed.
Embedded == IF owed THEN {mem, [mem EXCEPT !.tier1 = TRUE]} ELSE {mem}

SaveTier2 ==
  /\ tier2 = "save"
  /\ \E m \in Embedded :
       /\ disk' = Saved(m) /\ mem' = Saved(m)
       /\ owed' = (owed /\ ~m.tier1)
       /\ wasted' = (wasted \/ (m.tier1 /\ ~Saved(m).tier1))
  /\ own' = {} /\ behind' = FALSE
  /\ tier2' = Following("save")
  /\ UNCHANGED <<queue, tier1, loop, button, access, skipped, dropped, counts>>

\* The rest of the queue replaces it; or it is busy, which is ignored.
Trim ==
  /\ tier2 = "trim"
  /\ \/ /\ queue' = [there |-> TRUE, files |-> left, embed |-> FALSE]
        /\ UNCHANGED counts
     \/ Fail /\ UNCHANGED queue
  /\ tier2' = Following("trim")
  /\ UNCHANGED <<disk, tier1, loop, copy, button, access, past>>

\* os.remove(), without the lock and also after a stop.
Clear ==
  /\ tier2 = "clear"
  /\ queue' = NoQueue
  /\ dropped' = dropped \cup left
  /\ wasted' = (wasted \/ owed)
  /\ tier2' = "off"
  /\ UNCHANGED <<disk, tier1, loop, copy, button, access, skipped, counts>>

\* The process is killed, or save() raises.
KillTier2 ==
  /\ tier2 # "off" /\ Fail
  /\ wasted' = (wasted \/ owed \/ mem.tier1)
  /\ tier2' = "off"
  /\ UNCHANGED <<queue, disk, tier1, loop, copy, button, access, skipped,
                 dropped>>

\* The Stop button writes stop_requested into the progress file.
RequestStop ==
  /\ Stopping /\ tier2 = "index" /\ todo # {} /\ ~stop
  /\ stop' = TRUE
  /\ UNCHANGED <<queue, disk, tier1, run, polled, access, past, counts>>

-----------------------------------------------------------------------------
(* expand_on_access().                                                      *)

\* The queue is read under its lock, which is given up again.
ReadQueue(s) ==
  /\ at[s] = "idle" /\ queue.there /\ queue.files # {}
  /\ Overlap \/ tier1 = "off"
  /\ seen' = [seen EXCEPT ![s] = queue]
  /\ found' = [found EXCEPT ![s] = {}]
  /\ at' = [at EXCEPT ![s] = "index"]
  /\ UNCHANGED <<queue, disk, tier1, run, button, dirty, past, counts>>

\* The requested file and those it imports, if they were queued; a file that
\* raises stays in the queue.
Expand(s) ==
  /\ at[s] = "index"
  /\ \E F \in SUBSET seen[s].files :
       /\ found' = [found EXCEPT ![s] = F]
       /\ dirty' = [dirty EXCEPT ![s] = @ \cup F]
       /\ at' = [at EXCEPT ![s] = IF F = {} THEN "idle" ELSE "trim"]
  /\ UNCHANGED <<queue, disk, tier1, run, button, seen, past, counts>>

\* Mutant: the whole queue is taken for indexed.
RestNone(s) == {}
\* `remaining`, of the queue that was read.
Rest(s) == seen[s].files \ found[s]

\* Mutant: the other entries of the queue are not kept.
WrittenBackBare(s) == [there |-> TRUE, files |-> Rest(s), embed |-> FALSE]
WrittenBack(s) == [seen[s] EXCEPT !.files = Rest(s)]

\* _save_queue(): the queue as it was read, less what was indexed; busy is a
\* warning.
WriteBack(s) ==
  /\ at[s] = "trim"
  /\ \/ /\ queue' = WrittenBack(s)
        /\ UNCHANGED counts
     \/ Fail /\ UNCHANGED queue
  /\ at' = [at EXCEPT ![s] = "save"]
  /\ UNCHANGED <<disk, tier1, run, button, seen, found, dirty, past>>

\* indexer.save(), which rebases; the files of an earlier expansion go with it.
SaveServer(s) ==
  /\ at[s] = "save"
  /\ disk' = [disk EXCEPT !.files = @ \cup dirty[s]]
  /\ dirty' = [dirty EXCEPT ![s] = {}]
  /\ behind' = TRUE
  /\ at' = [at EXCEPT ![s] = "idle"]
  /\ UNCHANGED <<queue, tier1, tier2, loop, mem, own, owed, button, seen, found,
                 past, counts>>

\* It raises: a warning.
SaveServerFails(s) ==
  /\ at[s] = "save" /\ Fail
  /\ at' = [at EXCEPT ![s] = "idle"]
  /\ UNCHANGED <<queue, disk, tier1, run, button, seen, found, dirty, past>>

KillServer(s) ==
  /\ s \in Mortal /\ Fail
  /\ at' = [at EXCEPT ![s] = "idle"]
  /\ dirty' = [dirty EXCEPT ![s] = {}]
  /\ dropped' = dropped \cup dirty[s]
  /\ UNCHANGED <<queue, disk, tier1, run, button, seen, found, skipped, wasted>>

-----------------------------------------------------------------------------
QueueInit ==
  /\ queue = NoQueue
  /\ disk = [files |-> {}, tier1 |-> FALSE] /\ mem = disk
  /\ tier1 = "off" /\ tier2 = "off"
  /\ read = NoQueue /\ todo = {} /\ left = {} /\ total = 0 /\ own = {}
  /\ behind = FALSE /\ stop = FALSE /\ polled = FALSE /\ owed = FALSE
  /\ at = [s \in Server |-> "idle"] /\ seen = [s \in Server |-> NoQueue]
  /\ found = [s \in Server |-> {}] /\ dirty = [s \in Server |-> {}]
  /\ skipped = {} /\ dropped = {} /\ wasted = FALSE /\ runs = 0 /\ fails = 0

Tier1 == Walk \/ SaveTier1 \/ KillTier1
Tier2 ==
  \/ Begin \/ EmbedTier1 \/ EmbedTier1Fails \/ Unembed \/ Poll \/ AllHandled
  \/ \E f \in File : IndexFile(f) \/ IndexFileFails(f) \/ FileGone(f)
  \/ SaveTier2 \/ Trim \/ Clear
Access(s) ==
  \/ ReadQueue(s) \/ Expand(s) \/ WriteBack(s) \/ SaveServer(s)
  \/ SaveServerFails(s)

QueueNext ==
  \/ Tier1 \/ Tier2 \/ KillTier2 \/ RequestStop
  \/ \E s \in Server : Access(s) \/ KillServer(s)

\* A Tier-2 run is started after a Tier-1 run, by the user after a kill, and
\* runs; a server finishes what it began.
Fairness ==
  /\ WF_queueVars(SaveTier1) /\ WF_queueVars(Tier2)
  /\ \A s \in Server :
       WF_queueVars(Expand(s) \/ WriteBack(s) \/ SaveServer(s) \/ SaveServerFails(s))

QueueSpec == QueueInit /\ [][QueueNext]_queueVars
FairQueueSpec == QueueSpec /\ Fairness

-----------------------------------------------------------------------------
Accounted(f) ==
  f \in disk.files \cup skipped \cup dropped \/ \E s \in Server : f \in dirty[s]

\* A deferred file is queued, or in the index on disk, or in the unsaved memory
\* of a live server, or index_file() raised on it: none is lost between the
\* queue and the index, whatever a Tier-2 run was doing when it was killed.
\* Only a run that was stopped and a server that was killed drop files
\* (the order of save() and the queue in _index_tier2(); _save_queue()).
NothingLost == runs > 0 => \A f \in File : f \in queue.files \/ Accounted(f)

\* A run that is not killed leaves no queued file behind
\* (_index_tier2(), from the queue to its removal).
Drains == \A f \in File : f \in queue.files ~> Accounted(f)

\* As long as the vectors of the Tier-1 files are not in the index on disk, the
\* queue asks for them or a run is about to make them, unless a run that had
\* taken the request off the queue lost them: it was killed before its save,
\* its save was rebased, or the model failed it to the end
\* (the embed_pending flag of the queue).
EmbedsPending ==
  runs > 0 /\ tier1 = "off" =>
    disk.tier1 \/ queue.embed \/ tier2 # "off" \/ wasted

\* Whatever has to do with the queue comes after a Tier-1 run.
Started ==
  queue.there \/ tier2 # "off" \/ (\E s \in Server : at[s] # "idle") => runs > 0

\* Tier 1 leaves everything to the queue until its index is on disk.
Queued ==
  tier1 = "queued" =>
    queue.files = File /\ queue.embed /\ \A s \in Server : at[s] = "idle"

\* Where a Tier-2 run has each file: before it, or behind it in its memory or
\* out of its hands; what it will write into the queue loses none.
RunCovers ==
  tier2 # "off" =>
    /\ todo \subseteq left /\ total + Cardinality(todo) <= Cardinality(File)
    /\ tier2 \notin {"index", "save"} => own = {}
    /\ tier2 \in {"embed", "unembed"} => read.files = left
    /\ ~behind => disk.files \subseteq mem.files /\ (disk.tier1 => mem.tier1)
    /\ \A f \in File : f \in left \cup own \/ Accounted(f)

\* The same of a server that will write the queue back.
ServersCover ==
  \A s \in Server : at[s] \in {"index", "trim"} =>
    /\ \A f \in File : f \in seen[s].files \/ Accounted(f)
    /\ at[s] = "trim" => found[s] \subseteq dirty[s]

\* Who still knows of the vectors of the Tier-1 files.
RunEmbeds == tier2 \notin {"off", "embed"} /\ (owed \/ mem.tier1)
VectorsKnown ==
  /\ tier2 \in {"unembed", "index", "save"} => disk.tier1 \/ wasted \/ RunEmbeds
  /\ tier2 \in {"trim", "clear"} => disk.tier1 \/ wasted \/ owed
  /\ tier2 = "embed" => read.embed /\ (queue.embed \/ disk.tier1 \/ wasted)
  /\ tier2 = "unembed" => ~read.embed
  /\ \A s \in Server : at[s] \in {"index", "trim"} /\ ~seen[s].embed =>
       disk.tier1 \/ wasted \/ RunEmbeds

\* Both halves of the hand-over, queue and index: no deferred file is lost, because
\* each actor that is about to rewrite the queue accounts for everything it will
\* leave out (_index_tier2(), expand_on_access()).
QueueInv ==
  /\ QueueTypeOK
  /\ Started /\ Queued /\ RunCovers /\ ServersCover /\ NothingLost

\* The request for the vectors of the Tier-1 files is not lost either, however the
\* queue is rewritten by a run and a server (embed_pending in run_tier2_pending(); the
\* `data` of expand_on_access()).
EmbedsInv == VectorsKnown /\ EmbedsPending
=============================================================================
