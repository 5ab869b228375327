---------------------------- MODULE VectorStore -----------------------------
(***************************************************************************)
(* The local vector store of CogniRepo: the FAISS file semantic.index and  *)
(* the list semantic_metadata.json, where row i of the one describes row i *)
(* of the other, LocalVectorDB instances in several processes that load,   *)
(* extend, edit and search the pair, and the cron job that prunes it.      *)
(* Source: core/vector_db/local_vector_db.py, ops/cron/prune_memory.py.    *)
(*                                                                         *)
(* Data abstraction.  A memory (its text, and the vector computed from it) *)
(* is an element of Entry, added at most once.  A file's mtime and size    *)
(* are the value of a clock that every write advances.                     *)
(***************************************************************************)
EXTENDS Integers, Sequences, SequencesExt, Selection

CONSTANTS
  Proc,       \* processes
  Editors,    \* those that deprecate rows
  Failing,    \* those whose saves may be refused (breaker open, store busy)
  Mortal,     \* those that may be killed
  Pruners,    \* those that run prune(); the others hold a LocalVectorDB
  Entry,      \* memories
  Seeds,      \* the memories stored at the beginning, in row order
  Expendable, \* memories whose score is below the pruning threshold
  MaxClock,   \* bound of the model: no prune() begins after this time
  None        \* no lock holder

ASSUME RolesAssumption ==
  /\ Editors \subseteq Proc /\ Failing \subseteq Proc
  /\ Mortal \subseteq Proc /\ Pruners \subseteq Proc
ASSUME SeedsAssumption ==
  /\ Seeds \in Seq(Entry)
  /\ \A i, j \in DOMAIN Seeds : Seeds[i] = Seeds[j] => i = j
ASSUME NoneAssumption == None \notin Proc
ASSUME BoundAssumption == MaxClock \in Nat

VARIABLES
  index,    \* semantic.index: the memory whose vector is in each row
  meta,     \* semantic_metadata.json: memory and deprecated flag of each row
  stamp,    \* when each of the two was last written
  lock,     \* holder of cognirepo.lock
  pc,       \* where each process is in its current call
  mem,      \* self.index and self.metadata (prune(): what it will write)
  pending,  \* self._pending, the adds not yet saved
  synced,   \* self._synced_stamp
  loaded,   \* self._loaded_disk_mtime
  taken,    \* the stamp a load in progress took before reading
  issued,   \* history: memories given to add()
  stored,   \* history: memories whose save has returned
  chosen,   \* history: memories some caller asked to deprecate
  torn      \* history: a process was killed between the two files of a save

disk == <<index, meta, stamp>>
self == <<mem, pending, synced, loaded, taken>>
history == <<issued, stored, chosen, torn>>
vars == <<disk, lock, pc, self, history>>

-----------------------------------------------------------------------------
Row == [entry : Entry, dead : BOOLEAN]
Stamp == [index : Nat, meta : Nat]
Memory == [index : Seq(Entry), meta : Seq(Row)]
PC == {"down", "open", "read", "idle", "index", "meta", "loaded", "pruneIndex", "pruneMeta"}

TypeOK ==
  /\ index \in Seq(Entry)
  /\ meta \in Seq(Row)
  /\ stamp \in Stamp
  /\ lock \in Proc \cup {None}
  /\ pc \in [Proc -> PC]
  /\ \A p \in Proc : pc[p] \in {"pruneIndex", "pruneMeta"} => p \in Pruners
  /\ mem \in [Proc -> Memory]
  /\ pending \in [Proc -> Seq(Entry)]
  /\ synced \in [Proc -> Stamp]
  /\ loaded \in [Proc -> Nat]
  /\ taken \in [Proc -> Stamp]
  /\ issued \subseteq Entry /\ stored \subseteq Entry /\ chosen \subseteq Entry
  /\ torn \in BOOLEAN

\* The metadata rows of fresh entries.
RowsOf(s) == [i \in DOMAIN s |-> [entry |-> s[i], dead |-> FALSE]]
EntriesOf(m) == [i \in DOMAIN m |-> m[i].entry]

\* Mutant: the adds go in front.
Prepended(x, s) == [index |-> s \o x.index, meta |-> RowsOf(s) \o x.meta]

\* Index and metadata as in memory x, with the adds s behind.
Extended(x, s) == [index |-> x.index \o s, meta |-> x.meta \o RowsOf(s)]

\* _disk_mtime(): the newest of the two files.
Newest(s) == IF s.index >= s.meta THEN s.index ELSE s.meta
Tick == Newest(stamp) + 1
Nothing == [index |-> <<>>, meta |-> <<>>]
NoStamp == [index |-> 0, meta |-> 0]

Init ==
  /\ index = Seeds
  /\ meta = RowsOf(Seeds)
  /\ stamp = NoStamp
  /\ lock = None
  /\ pc = [p \in Proc |-> "down"]
  /\ mem = [p \in Proc |-> Nothing]
  /\ pending = [p \in Proc |-> <<>>]
  /\ synced = [p \in Proc |-> NoStamp]
  /\ loaded = [p \in Proc |-> 0]
  /\ taken = [p \in Proc |-> NoStamp]
  /\ issued = Range(Seeds)
  /\ stored = Range(Seeds)
  /\ chosen = {}
  /\ torn = FALSE

-----------------------------------------------------------------------------
(* Loading, without the lock: the stamp, then the index, then the metadata. *)

BeginRead(p) ==
  /\ p \notin Pruners
  /\ taken' = [taken EXCEPT ![p] = stamp]
  /\ pc' = [pc EXCEPT ![p] = "open"]
  /\ UNCHANGED <<disk, lock, mem, pending, synced, loaded, history>>

\* LocalVectorDB(): a fresh instance samples the stamp before reading.
Open(p) == pc[p] = "down" /\ BeginRead(p)

\* _maybe_reload(), at the start of each search.
Reload(p) ==
  /\ pc[p] = "idle"
  /\ pending[p] = <<>>
  /\ Newest(stamp) > loaded[p]
  /\ BeginRead(p)

ReadIndex(p) ==
  /\ pc[p] = "open"
  /\ mem' = [mem EXCEPT ![p].index = index]
  /\ pc' = [pc EXCEPT ![p] = "read"]
  /\ UNCHANGED <<disk, lock, pending, synced, loaded, taken, history>>

\* Mutant: the stamp is sampled after reading.
ReadMetaLate(p) ==
  /\ pc[p] = "read"
  /\ mem' = [mem EXCEPT ![p].meta = meta]
  /\ synced' = [synced EXCEPT ![p] = stamp]
  /\ loaded' = [loaded EXCEPT ![p] = Newest(stamp)]
  /\ taken' = [taken EXCEPT ![p] = NoStamp]
  /\ pc' = [pc EXCEPT ![p] = "idle"]
  /\ UNCHANGED <<disk, lock, pending, history>>

ReadMeta(p) ==
  /\ pc[p] = "read"
  /\ mem' = [mem EXCEPT ![p].meta = meta]
  /\ synced' = [synced EXCEPT ![p] = taken[p]]
  /\ loaded' = [loaded EXCEPT ![p] = Newest(taken[p])]
  /\ taken' = [taken EXCEPT ![p] = NoStamp]
  /\ pc' = [pc EXCEPT ![p] = "idle"]
  /\ UNCHANGED <<disk, lock, pending, history>>

-----------------------------------------------------------------------------
(* Adding.  add() and add_batch() extend the memory and save() both files  *)
(* under the lock, the index first.                                        *)

\* Mutant: no merge into newer disk state.
NeverSynced(p, s) == Extended(mem[p], s)

\* _sync_locked() of an instance whose unsaved adds are pending[p] followed by
\* s: in sync, its memory with s; otherwise the files with all of its adds.
Synced(p, s) ==
  IF stamp = synced[p] THEN Extended(mem[p], s)
                       ELSE Extended([index |-> index, meta |-> meta], pending[p] \o s)

\* add(): the entry is in memory and in _pending; save() takes the lock and
\* merges.
Add(p, e) ==
  /\ pc[p] = "idle"
  /\ e \notin issued
  /\ lock = None
  /\ lock' = p
  /\ issued' = issued \cup {e}
  /\ mem' = [mem EXCEPT ![p] = Synced(p, <<e>>)]
  /\ pending' = [pending EXCEPT ![p] = Append(@, e)]
  /\ synced' = [synced EXCEPT ![p] = stamp]
  /\ loaded' = [loaded EXCEPT ![p] = IF stamp = synced[p] THEN @ ELSE Newest(stamp)]
  /\ pc' = [pc EXCEPT ![p] = "index"]
  /\ UNCHANGED <<disk, taken, stored, chosen, torn>>

\* add() whose save() is refused, by breaker.check() or by a StoreBusy: the
\* entry stays in memory and in _pending for the next save of this instance.
AddFails(p, e) ==
  /\ pc[p] = "idle"
  /\ p \in Failing
  /\ e \notin issued
  /\ issued' = issued \cup {e}
  /\ mem' = [mem EXCEPT ![p] = Extended(@, <<e>>)]
  /\ pending' = [pending EXCEPT ![p] = Append(@, e)]
  /\ UNCHANGED <<disk, lock, pc, synced, loaded, taken, stored, chosen, torn>>

\* Mutant: the index and the metadata are saved under one lock each.
SaveIndexUnlocks(p) ==
  /\ pc[p] = "index"
  /\ index' = mem[p].index
  /\ stamp' = [stamp EXCEPT !.index = Tick]
  /\ lock' = None
  /\ pc' = [pc EXCEPT ![p] = "meta"]
  /\ UNCHANGED <<meta, self, history>>

\* save(): promote the index.
SaveIndex(p) ==
  /\ pc[p] = "index"
  /\ index' = mem[p].index
  /\ stamp' = [stamp EXCEPT !.index = Tick]
  /\ pc' = [pc EXCEPT ![p] = "meta"]
  /\ UNCHANGED <<meta, lock, self, history>>

\* _save_meta() inside save(): promote the metadata, release the lock.
SaveMeta(p) ==
  /\ pc[p] = "meta"
  /\ meta' = mem[p].meta
  /\ stamp' = [stamp EXCEPT !.meta = Tick]
  /\ synced' = [synced EXCEPT ![p] = stamp']
  /\ stored' = stored \cup Range(pending[p])
  /\ pending' = [pending EXCEPT ![p] = <<>>]
  /\ lock' = None
  /\ pc' = [pc EXCEPT ![p] = "loaded"]
  /\ UNCHANGED <<index, mem, loaded, taken, issued, chosen, torn>>

\* The tail of save(), outside the lock: what is on disk now counts as loaded.
SaveLoaded(p) ==
  /\ pc[p] = "loaded"
  /\ loaded' = [loaded EXCEPT ![p] = Newest(stamp)]
  /\ pc' = [pc EXCEPT ![p] = "idle"]
  /\ UNCHANGED <<disk, lock, mem, pending, synced, taken, history>>

\* deprecate_row(i), of a row the caller found in this instance: under the lock
\* merge, flag row i, promote the metadata only.  _pending is left alone.
EditRow(p, i) ==
  LET now == Synced(p, <<>>) IN
  /\ pc[p] = "idle"
  /\ p \in Editors
  /\ ~mem[p].meta[i].dead
  /\ lock = None
  /\ chosen' = chosen \cup {mem[p].meta[i].entry}
  /\ IF i \in DOMAIN now.meta
       THEN /\ mem' = [mem EXCEPT ![p] = [now EXCEPT !.meta[i].dead = TRUE]]
            /\ meta' = mem'[p].meta
            /\ stamp' = [stamp EXCEPT !.meta = Tick]
       ELSE /\ mem' = [mem EXCEPT ![p] = now]
            /\ UNCHANGED <<meta, stamp>>
  /\ synced' = [synced EXCEPT ![p] = stamp']
  /\ loaded' = [loaded EXCEPT ![p] = IF stamp = synced[p] THEN @ ELSE Newest(stamp)]
  /\ UNCHANGED <<index, lock, pc, pending, taken, issued, stored, torn>>

-----------------------------------------------------------------------------
(* prune(), with no lock: read the metadata, re-encode what is kept,       *)
(* promote a new index, then the new metadata.                             *)

\* Mutant: the comparison with the threshold is the wrong way round.
KeptCold(m) == Selected(m, {i \in DOMAIN m : m[i].entry \in Expendable})

Kept(m) == Selected(m, {i \in DOMAIN m : m[i].entry \notin Expendable})

PruneRead(p) ==
  /\ p \in Pruners
  /\ pc[p] = "down"
  /\ Newest(stamp) <= MaxClock
  /\ Kept(meta) \notin {<<>>, meta}
  /\ mem' = [mem EXCEPT ![p] = [index |-> EntriesOf(Kept(meta)), meta |-> Kept(meta)]]
  /\ pc' = [pc EXCEPT ![p] = "pruneIndex"]
  /\ UNCHANGED <<disk, lock, pending, synced, loaded, taken, history>>

PruneIndex(p) ==
  /\ pc[p] = "pruneIndex"
  /\ index' = mem[p].index
  /\ stamp' = [stamp EXCEPT !.index = Tick]
  /\ pc' = [pc EXCEPT ![p] = "pruneMeta"]
  /\ UNCHANGED <<meta, lock, self, history>>

PruneMeta(p) ==
  /\ pc[p] = "pruneMeta"
  /\ meta' = mem[p].meta
  /\ stamp' = [stamp EXCEPT !.meta = Tick]
  /\ mem' = [mem EXCEPT ![p] = Nothing]
  /\ pc' = [pc EXCEPT ![p] = "down"]
  /\ UNCHANGED <<index, lock, pending, synced, loaded, taken, history>>

-----------------------------------------------------------------------------
\* The process is killed: its memory is gone, the kernel frees the lock.
Crash(p) ==
  /\ p \in Mortal
  /\ pc[p] # "down"
  /\ pc' = [pc EXCEPT ![p] = "down"]
  /\ lock' = IF lock = p THEN None ELSE lock
  /\ mem' = [mem EXCEPT ![p] = Nothing]
  /\ pending' = [pending EXCEPT ![p] = <<>>]
  /\ synced' = [synced EXCEPT ![p] = NoStamp]
  /\ loaded' = [loaded EXCEPT ![p] = 0]
  /\ taken' = [taken EXCEPT ![p] = NoStamp]
  /\ torn' = (torn \/ pc[p] = "meta")
  /\ UNCHANGED <<disk, issued, stored, chosen>>

Load(p) == Open(p) \/ Reload(p) \/ ReadIndex(p) \/ ReadMeta(p)
Save(p) == SaveIndex(p) \/ SaveMeta(p) \/ SaveLoaded(p)
Prune(p) == PruneRead(p) \/ PruneIndex(p) \/ PruneMeta(p)

Next ==
  \E p \in Proc :
    \/ Load(p)
    \/ \E e \in Entry : Add(p, e) \/ AddFails(p, e)
    \/ Save(p)
    \/ \E i \in DOMAIN mem[p].meta : EditRow(p, i)
    \/ Prune(p)
    \/ Crash(p)

Spec == Init /\ [][Next]_vars

-----------------------------------------------------------------------------
(* Properties.  The pair of files is at rest when nobody holds the lock    *)
(* and no prune() is between its two writes; whole, when moreover nobody   *)
(* was ever killed between the two.                                        *)

AtRest == lock = None /\ \A p \in Pruners : pc[p] # "pruneMeta"
Whole == AtRest /\ ~torn

\* Vector i belongs to metadata row i (tests/test_locked_rmw.py,
\* test_vectors_from_8_processes_are_all_kept_and_aligned), whatever was
\* refused or killed outside the window between the two renames.
Aligned == Whole => index = EntriesOf(meta)

\* Every memory whose save() returned is found: its vector is in some row, that
\* row of the metadata is its own, and it has no other row.
StoredFound ==
  Whole => \A e \in stored :
    \E i \in DOMAIN index \cap DOMAIN meta :
      /\ index[i] = e
      /\ \A j \in DOMAIN meta : meta[j].entry = e <=> j = i

\* What a kill in that window leaves: a vector too many perhaps, but never a
\* metadata row without a vector, nor a stored memory without its row.
NoOrphanRow ==
  AtRest =>
    /\ Len(meta) <= Len(index)
    /\ \A e \in stored : \E i \in DOMAIN meta : meta[i].entry = e

\* Only memories a caller asked to deprecate are deprecated, however the rows
\* moved since the caller learnt the row number (SemanticMemory.deprecate).
OnlyChosenDead == \A i \in DOMAIN meta : meta[i].dead => meta[i].entry \in chosen

\* A deprecated memory never comes back to the searches: no save of another
\* process rewrites its row without the flag (deprecate_row, _sync_locked).
StaysDead ==
  [][\A e \in Entry :
      (\E i \in DOMAIN meta : meta[i] = [entry |-> e, dead |-> TRUE])
        => ~ \E i \in DOMAIN meta' : meta'[i] = [entry |-> e, dead |-> FALSE]]_vars

\* An instance that finds no newer file holds what the files hold
\* (_maybe_reload: memories stored by another process are not invisible).
SearchFresh ==
  \A p \in Proc \ Pruners :
    AtRest /\ pc[p] = "idle" /\ pending[p] = <<>> /\ Newest(stamp) <= loaded[p]
      => mem[p] = [index |-> index, meta |-> meta]

\* prune() drops only memories below the threshold.
OnlyExpendableGone ==
  AtRest => \A e \in stored \ Expendable :
    (\E i \in DOMAIN index : index[i] = e) /\ \E i \in DOMAIN meta : meta[i].entry = e

\* Why: what an instance knows of the files, and the files in the middle of a save,
\* while nobody prunes and no instance that deprecates has an unsaved add.

Disk == [index |-> index, meta |-> meta]

\* A stamp is older than the next write; whoever finds the one it took unchanged
\* holds what the files hold, with its own adds behind.
Stamped ==
  \A p \in Proc : \A s \in {synced[p], taken[p]} :
    s.index <= Newest(stamp) /\ s.meta <= Newest(stamp)
InSync ==
  \A p \in Proc :
    /\ pc[p] = "read" /\ taken[p] = stamp => mem[p].index = index
    /\ pc[p] \in {"idle", "loaded"} /\ synced[p] = stamp =>
         mem[p] = Extended(Disk, pending[p])

\* The holder of the lock is about to write the files with its adds behind.
Saving ==
  \A p \in Proc :
    /\ lock = p <=> pc[p] \in {"index", "meta"}
    /\ pc[p] = "index" => mem[p] = Extended(Disk, pending[p])
    /\ pc[p] = "meta" =>
         /\ mem[p].index = index
         /\ mem[p].meta = meta \o RowsOf(pending[p])
         /\ Len(mem[p].meta) <= Len(index)
         /\ ~torn => index = EntriesOf(meta) \o pending[p]
    /\ pc[p] \notin {"idle", "index", "meta"} => pending[p] = <<>>

\* The files between two saves, and what was stored, at any time.
Rest ==
  /\ Len(meta) <= Len(index)
  /\ ~torn /\ (\A p \in Proc : pc[p] # "meta") => index = EntriesOf(meta)
  /\ \A e \in stored : \E i \in DOMAIN meta : meta[i].entry = e

\* A memory is in one row, or among the unsaved adds of one instance.
OnePlace ==
  /\ \A i, j \in DOMAIN meta : meta[i].entry = meta[j].entry => i = j
  /\ \A i \in DOMAIN meta : meta[i].entry \in issued
  /\ \A p \in Proc : \A i \in DOMAIN pending[p] :
       /\ pending[p][i] \in issued
       /\ \A j \in DOMAIN meta : meta[j].entry # pending[p][i]
       /\ \A q \in Proc : \A j \in DOMAIN pending[q] :
            pending[p][i] = pending[q][j] => p = q /\ i = j

\* Where a row is, it stays: who deprecates finds it where it saw it.
RowsStay ==
  \A p \in Editors : pc[p] \notin {"index", "meta"} =>
    /\ pending[p] = <<>>
    /\ \A i \in DOMAIN mem[p].meta :
         i \in DOMAIN meta /\ mem[p].meta[i].entry = meta[i].entry

\* While every memory is stored and none is added, an instance that finds no newer
\* file, or none newer than it synchronised with, holds what the files hold.
Settled ==
  /\ lock = None
  /\ \A p \in Proc : pc[p] \notin {"index", "meta", "loaded"} /\ pending[p] = <<>>
Current ==
  \A p \in Proc :
    /\ pc[p] = "read" /\ Newest(stamp) <= Newest(taken[p]) => mem[p].index = index
    /\ pc[p] = "idle" /\ (Newest(stamp) <= loaded[p] \/ synced[p] = stamp) => mem[p] = Disk
    /\ loaded[p] <= Newest(stamp)

\* Memory x has a vector and a row for each memory that is not expendable.
Complete(x) ==
  \A e \in Entry \ Expendable :
    e \in Range(x.index) /\ \E i \in DOMAIN x.meta : x.meta[i].entry = e
Spared ==
  /\ Complete(Disk)
  /\ \A p \in Proc : pc[p] \in {"pruneIndex", "pruneMeta"} => Complete(mem[p])

\* The files under every interleaving of adds, edits, refused saves, reloads and
\* kills, with the types of all state: vectors and rows correspond, and what a
\* kill leaves never lacks a vector or a stored memory (save(), _sync_locked()).
RowsInv ==
  /\ TypeOK /\ Aligned /\ NoOrphanRow
  /\ Stamped /\ InSync /\ Saving /\ Rest /\ OnePlace /\ RowsStay
=============================================================================
