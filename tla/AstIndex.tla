------------------------------ MODULE AstIndex ------------------------------
(***************************************************************************)
(* The AST index of CogniRepo: ast_index.json (the record of each file),   *)
(* ast.index (a FAISS IndexIDMap2: vectors under explicit ids) and         *)
(* ast_metadata.json (a list in which the vector with id i is described by *)
(* entry i), and the ASTIndexer instances of several processes that load,  *)
(* update, compact, rebase and save the three.  Source:                    *)
(* intelligence/indexer/ast_indexer.py and file_watcher.py.                *)
(*                                                                         *)
(* Data abstraction.  A source file has one symbol; its content is a       *)
(* version number, 0 when the file does not exist.  The stamp of           *)
(* ast_index.json is the number of times it was written.  A full           *)
(* index_repo() embeds all files at its end, in the order it met them; as  *)
(* its copy is its own, that is the same as embedding each when met.       *)
(***************************************************************************)
EXTENDS Integers, Sequences, SequencesExt, Selection

CONSTANTS
  Proc,       \* ASTIndexer instances
  Builders,   \* those that build from nothing, without a load (index-repo)
  Updaters,   \* those that load and then update (watcher, index-repo --files)
  Watchers,   \* the updaters driven by file events
  Reloaders,  \* those that call reload_if_changed() (MCP servers)
  Failing,    \* those whose saves may raise between two files
  Mortal,     \* those that may be killed
  File,       \* source files
  Seeds,      \* the files indexed at the beginning, in the order of their ids
  Versions,   \* contents of a file
  MaxEdits,   \* bound of the model: edits of the sources
  MaxSaves,   \* bound of the model: saves begun
  None        \* no lock holder

ASSUME RolesAssumption ==
  /\ Builders \subseteq Proc /\ Updaters \subseteq Proc /\ Reloaders \subseteq Proc
  /\ Watchers \subseteq Updaters /\ Builders \cap Updaters = {}
  /\ Failing \subseteq Proc /\ Mortal \subseteq Proc
ASSUME SeedsAssumption == Seeds \in Seq(File)
ASSUME VersionsAssumption == Versions \subseteq Nat \ {0} /\ 1 \in Versions
ASSUME NoneAssumption == None \notin Proc
ASSUME BoundAssumption == MaxEdits \in Nat /\ MaxSaves \in Nat

VARIABLES
  src,      \* the source tree: the version of each file
  edits,    \* how many edits there have been
  disk,     \* the three files of the index
  stamp,    \* (mtime, size) of ast_index.json
  lock,     \* holder of cognirepo.lock
  pc,       \* where each instance is in its current call
  mem,      \* self.index_data["files"], self.faiss_index, self.faiss_meta
  dirty,    \* self._dirty_files, in insertion order
  synced,   \* self._disk_stamp; Never before the first load() or save()
  taken,    \* the local `stamp` of a load() in progress
  events,   \* RepoFileHandler._pending of each watcher
  readGen,  \* history: the saves whose files a load() in progress has read
  gen,      \* history: the save that wrote ast.index and ast_metadata.json
  broken    \* history: a save stopped half way, or a load mixed two saves

world == <<src, edits>>
self == <<mem, dirty, synced, taken>>
history == <<readGen, gen, broken>>
vars == <<world, disk, stamp, lock, pc, self, events, history>>

-----------------------------------------------------------------------------
Never == -1
Record == [ver : Versions \cup {0}, id : Int]
Meta == [source : {"symbol", "file_summary"}, file : File, ver : Versions]
Vector == [id : Nat, of : Meta]
Store == [files : [File -> Record], index : Seq(Vector), meta : Seq(Meta)]
Loading == {"files", "index", "meta"}
Saving == {"saveFiles", "saveIndex", "saveMeta"}

TypeOK ==
  /\ src \in [File -> Versions \cup {0}]
  /\ edits \in 0 .. MaxEdits
  /\ disk \in Store
  /\ stamp \in Nat
  /\ lock \in Proc \cup {None}
  /\ pc \in [Proc -> {"down", "idle"} \cup Loading \cup Saving]
  /\ mem \in [Proc -> Store]
  /\ dirty \in [Proc -> Seq(File)]
  /\ synced \in [Proc -> Nat \cup {Never}]
  /\ taken \in [Proc -> Nat]
  /\ events \in [Proc -> SUBSET File]
  /\ readGen \in [Proc -> [files : Nat, index : Nat]]
  /\ gen \in [index : Nat, meta : Nat]
  /\ broken \in BOOLEAN

-----------------------------------------------------------------------------
(* The operations on a store.                                              *)

NoRecord == [ver |-> 0, id |-> -1]
EmptyStore == [files |-> [f \in File |-> NoRecord], index |-> <<>>, meta |-> <<>>]

\* remove_ids: the vectors of index s that are not under an id of I.
Without(s, I) == Selected(s, {k \in DOMAIN s : s[k].id \notin I})

\* add_with_ids(len(faiss_meta)), faiss_meta.append: store x with the vector of
\* `what`, described by m.
Added(x, what, m) ==
  [x EXCEPT !.index = Append(@, [id |-> Len(x.meta), of |-> what]),
            !.meta = Append(@, m)]

About(source, f, ver) == [source |-> source, file |-> f, ver |-> ver]
Embedded(x, m) == Added(x, m, m)

\* index_file(): the old symbol vector goes (the old summary does not), the new
\* content is recorded and embedded, with its summary.
Indexed(x, f, ver) ==
  LET y == [x EXCEPT !.index = Without(@, {x.files[f].id}),
                     !.files[f] = [ver |-> ver, id |-> Len(x.meta)]] IN
  Embedded(Embedded(y, About("symbol", f, ver)), About("file_summary", f, ver))

\* _remove_mutate(): symbol vector and record go.
Removed(x, f) ==
  [x EXCEPT !.files[f] = NoRecord, !.index = Without(@, {x.files[f].id})]

\* reconstruct(): among the vectors under id i, the one added last.
At(x, i) == {k \in DOMAIN x.index : x.index[k].id = i}

Resolves(x, i) == i >= 0 /\ i < Len(x.meta) /\ At(x, i) # {}
VectorAt(x, i) == x.index[CHOOSE k \in At(x, i) : \A j \in At(x, i) : j <= k].of

\* _summary_ids(): the ids of every summary there has been of file f.
Summaries(x, f) ==
  {k - 1 : k \in {n \in DOMAIN x.meta : x.meta[n].source = "file_summary" /\ x.meta[n].file = f}}

\* _transplant(): store x with the vector that mine has under id i, if any.
Transplanted(x, mine, i) ==
  IF Resolves(mine, i) THEN Added(x, VectorAt(mine, i), mine.meta[i + 1]) ELSE x

\* One step of _rebase_onto_disk_locked(): file f of store x, as in mine, with
\* its newest summary.
Redo(mine, x, f) ==
  LET i == mine.files[f].id
      y == [x EXCEPT !.index = Without(@, {x.files[f].id} \cup Summaries(x, f)),
                     !.files[f] = [ver |-> mine.files[f].ver,
                                   id |-> IF Resolves(mine, i) THEN Len(x.meta) ELSE -1]]
      summaries == Summaries(mine, f)
      z == Transplanted(y, mine, i)
  IN IF mine.files[f].ver = 0 \/ summaries = {}
       THEN z
       ELSE Transplanted(z, mine, Max(summaries))

\* Mutant: the local copy replaces what is on disk.
Overwritten(mine, fs) == mine

\* _rebase_onto_disk_locked(): the files fs of mine, redone on what is on disk.
Rebased(mine, fs) ==
  LET redone[n \in 0 .. Len(fs)] ==
        IF n = 0 THEN disk ELSE Redo(mine, redone[n - 1], fs[n])
  IN redone[Len(fs)]

\* What compact_faiss() keeps: the ids some record refers to, in order, each as
\* its position in the metadata.
Kept(x) ==
  InOrder({i + 1 : i \in {j \in {x.files[f].id : f \in File} : Resolves(x, j)}}, Len(x.meta))

\* Mutant: the records keep their old ids.
CompactedOldIds(x) ==
  LET kept == Kept(x) IN
  [x EXCEPT
     !.index = [k \in DOMAIN kept |-> [id |-> k - 1, of |-> VectorAt(x, kept[k] - 1)]],
     !.meta = [k \in DOMAIN kept |-> x.meta[kept[k]]]]

\* compact_faiss(): the kept vectors and descriptions, renumbered from 0.
Compacted(x) ==
  LET kept == Kept(x)
      newId(i) == IF Resolves(x, i) THEN (CHOOSE k \in DOMAIN kept : kept[k] = i + 1) - 1 ELSE -1
  IN [files |-> [f \in File |-> [x.files[f] EXCEPT !.id = newId(@)]],
      index |-> [k \in DOMAIN kept |-> [id |-> k - 1, of |-> VectorAt(x, kept[k] - 1)]],
      meta |-> [k \in DOMAIN kept |-> x.meta[kept[k]]]]

\* What index-repo leaves of the files fs at version 1.
Filled(fs) ==
  LET filled[n \in 0 .. Len(fs)] ==
        IF n = 0 THEN EmptyStore ELSE Indexed(filled[n - 1], fs[n], 1)
  IN filled[Len(fs)]

Init ==
  /\ src = [f \in File |-> 1]
  /\ edits = 0
  /\ disk = Filled(Seeds)
  /\ stamp = IF Seeds = <<>> THEN 0 ELSE 1
  /\ lock = None
  /\ pc = [p \in Proc |-> "down"]
  /\ mem = [p \in Proc |-> EmptyStore]
  /\ dirty = [p \in Proc |-> <<>>]
  /\ synced = [p \in Proc |-> Never]
  /\ taken = [p \in Proc |-> 0]
  /\ events = [p \in Proc |-> {}]
  /\ readGen = [p \in Proc |-> [files |-> 0, index |-> 0]]
  /\ gen = [index |-> stamp, meta |-> stamp]
  /\ broken = FALSE

-----------------------------------------------------------------------------
\* A source file is changed, created or deleted.  The watchers that are
\* observing get an event.
Watching(p) == p \in Watchers /\ pc[p] \notin {"down"} \cup Loading
Edit(f, v) ==
  /\ edits < MaxEdits
  /\ v # src[f]
  /\ edits' = edits + 1
  /\ src' = [src EXCEPT ![f] = v]
  /\ events' = [p \in Proc |-> IF Watching(p) THEN events[p] \cup {f} ELSE events[p]]
  /\ UNCHANGED <<disk, stamp, lock, pc, self, readGen, gen, broken>>

-----------------------------------------------------------------------------
(* Loading: the stamp, then the three files one after the other, without   *)
(* the lock.                                                               *)

BeginLoad(p) ==
  /\ pc' = [pc EXCEPT ![p] = "files"]
  /\ taken' = [taken EXCEPT ![p] = stamp]
  /\ UNCHANGED <<world, disk, stamp, lock, mem, dirty, synced, events, history>>

\* ASTIndexer(); load().
Start(p) == pc[p] = "down" /\ p \notin Builders /\ BeginLoad(p)

\* ASTIndexer() of a full index-repo, which does not load.
StartBuild(p) ==
  /\ pc[p] = "down"
  /\ p \in Builders
  /\ pc' = [pc EXCEPT ![p] = "idle"]
  /\ UNCHANGED <<world, disk, stamp, lock, self, events, history>>

\* reload_if_changed() of an instance without unsaved changes.
Reload(p) ==
  /\ pc[p] = "idle"
  /\ p \in Reloaders
  /\ synced[p] \notin {Never, stamp}
  /\ dirty[p] = <<>>
  /\ BeginLoad(p)

\* reload_if_changed() otherwise: a rebase under the lock.
ReloadRebase(p) ==
  /\ pc[p] = "idle"
  /\ p \in Reloaders
  /\ synced[p] \notin {Never, stamp}
  /\ dirty[p] # <<>>
  /\ lock = None
  /\ mem' = [mem EXCEPT ![p] = Rebased(@, dirty[p])]
  /\ synced' = [synced EXCEPT ![p] = stamp]
  /\ UNCHANGED <<world, disk, stamp, lock, pc, dirty, taken, events, history>>

LoadFiles(p) ==
  /\ pc[p] = "files"
  /\ mem' = [mem EXCEPT ![p].files = disk.files]
  /\ readGen' = [readGen EXCEPT ![p].files = stamp]
  /\ pc' = [pc EXCEPT ![p] = "index"]
  /\ UNCHANGED <<world, disk, stamp, lock, dirty, synced, taken, events, gen, broken>>

LoadIndex(p) ==
  /\ pc[p] = "index"
  /\ mem' = [mem EXCEPT ![p].index = disk.index]
  /\ readGen' = [readGen EXCEPT ![p].index = gen.index]
  /\ pc' = [pc EXCEPT ![p] = "meta"]
  /\ UNCHANGED <<world, disk, stamp, lock, dirty, synced, taken, events, gen, broken>>

\* Mutant: the stamp is sampled after reading.
LoadMetaLate(p) ==
  /\ pc[p] = "meta"
  /\ mem' = [mem EXCEPT ![p].meta = disk.meta]
  /\ synced' = [synced EXCEPT ![p] = stamp]
  /\ taken' = [taken EXCEPT ![p] = 0]
  /\ readGen' = [readGen EXCEPT ![p] = [files |-> 0, index |-> 0]]
  /\ broken' = (broken \/ readGen[p] # [files |-> gen.meta, index |-> gen.meta])
  /\ pc' = [pc EXCEPT ![p] = "idle"]
  /\ UNCHANGED <<world, disk, stamp, lock, dirty, events, gen>>

LoadMeta(p) ==
  /\ pc[p] = "meta"
  /\ mem' = [mem EXCEPT ![p].meta = disk.meta]
  /\ synced' = [synced EXCEPT ![p] = taken[p]]
  /\ taken' = [taken EXCEPT ![p] = 0]
  /\ readGen' = [readGen EXCEPT ![p] = [files |-> 0, index |-> 0]]
  /\ broken' = (broken \/ readGen[p] # [files |-> gen.meta, index |-> gen.meta])
  /\ pc' = [pc EXCEPT ![p] = "idle"]
  /\ UNCHANGED <<world, disk, stamp, lock, dirty, events, gen>>

-----------------------------------------------------------------------------
(* Updating the copy in memory.                                            *)

\* p has a reason to look at file f; afterwards it has none.
Handle(p, f) ==
  /\ pc[p] = "idle"
  /\ p \in Builders \cup Updaters
  /\ p \in Watchers => f \in events[p]
  /\ events' = [events EXCEPT ![p] = @ \ {f}]
  /\ UNCHANGED <<world, disk, stamp, lock, pc, synced, taken, history>>

Touched(p, f) ==
  dirty' = [dirty EXCEPT ![p] = IF Contains(@, f) THEN @ ELSE Append(@, f)]

\* index_file(): unchanged with respect to the copy in memory, or embedded.
IndexFile(p, f) ==
  /\ Handle(p, f)
  /\ src[f] # 0
  /\ IF mem[p].files[f].ver = src[f]
       THEN UNCHANGED <<mem, dirty>>
       ELSE /\ mem' = [mem EXCEPT ![p] = Indexed(@, f, src[f])]
            /\ Touched(p, f)

\* _remove_mutate(), after a deletion, with note_file_removed().
RemoveFile(p, f) ==
  /\ Handle(p, f)
  /\ p \in Watchers
  /\ src[f] = 0
  /\ mem' = [mem EXCEPT ![p] = Removed(@, f)]
  /\ Touched(p, f)

-----------------------------------------------------------------------------
(* Saving, under store_lock: ast_index.json, ast.index, ast_metadata.json. *)

\* _is_stale_vs_disk(): a never-synced instance is a fresh build, not stale.
IsStale(p) == synced[p] \notin {Never, stamp}

\* What p compacts its copy to before it saves: the end of index_repo() always
\* compacts, a watcher does when enough rows are dead, other callers do not.
BeforeSave(p) ==
  CASE p \in Builders -> {Compacted(mem[p])}
    [] p \in Watchers -> {mem[p], Compacted(mem[p])}
    [] OTHER           -> {mem[p]}

\* save() up to the rebase.
SaveBegin(p) ==
  /\ pc[p] = "idle"
  /\ p \in Builders \cup Updaters
  /\ lock = None
  /\ stamp < MaxSaves
  /\ lock' = p
  /\ \E own \in BeforeSave(p) :
       mem' = [mem EXCEPT ![p] = IF IsStale(p) THEN Rebased(own, dirty[p]) ELSE own]
  /\ synced' = [synced EXCEPT ![p] = IF IsStale(p) THEN stamp ELSE @]
  /\ pc' = [pc EXCEPT ![p] = "saveFiles"]
  /\ UNCHANGED <<world, disk, stamp, dirty, taken, events, history>>

SaveFiles(p) ==
  /\ pc[p] = "saveFiles"
  /\ disk' = [disk EXCEPT !.files = mem[p].files]
  /\ stamp' = stamp + 1
  /\ pc' = [pc EXCEPT ![p] = "saveIndex"]
  /\ UNCHANGED <<world, lock, self, events, history>>

SaveIndex(p) ==
  /\ pc[p] = "saveIndex"
  /\ disk' = [disk EXCEPT !.index = mem[p].index]
  /\ gen' = [gen EXCEPT !.index = stamp]
  /\ pc' = [pc EXCEPT ![p] = "saveMeta"]
  /\ UNCHANGED <<world, stamp, lock, self, events, readGen, broken>>

\* The last file; the stamp and the dirty files are settled under the lock.
SaveMeta(p) ==
  /\ pc[p] = "saveMeta"
  /\ disk' = [disk EXCEPT !.meta = mem[p].meta]
  /\ gen' = [gen EXCEPT !.meta = stamp]
  /\ synced' = [synced EXCEPT ![p] = stamp]
  /\ dirty' = [dirty EXCEPT ![p] = <<>>]
  /\ lock' = None
  /\ pc' = [pc EXCEPT ![p] = "idle"]
  /\ UNCHANGED <<world, stamp, mem, taken, events, readGen, broken>>

\* Writing one of the files raises: what was promoted before stays.
SaveFails(p) ==
  /\ pc[p] \in Saving
  /\ p \in Failing
  /\ lock' = None
  /\ pc' = [pc EXCEPT ![p] = "idle"]
  /\ broken' = (broken \/ pc[p] # "saveFiles")
  /\ UNCHANGED <<world, disk, stamp, self, events, readGen, gen>>

\* The process ends or is killed; the kernel frees the lock.
Crash(p) ==
  /\ p \in Mortal
  /\ pc[p] # "down"
  /\ pc' = [pc EXCEPT ![p] = "down"]
  /\ lock' = IF lock = p THEN None ELSE lock
  /\ mem' = [mem EXCEPT ![p] = EmptyStore]
  /\ dirty' = [dirty EXCEPT ![p] = <<>>]
  /\ synced' = [synced EXCEPT ![p] = Never]
  /\ taken' = [taken EXCEPT ![p] = 0]
  /\ readGen' = [readGen EXCEPT ![p] = [files |-> 0, index |-> 0]]
  /\ events' = [events EXCEPT ![p] = {}]
  /\ broken' = (broken \/ pc[p] \in {"saveIndex", "saveMeta"})
  /\ UNCHANGED <<world, disk, stamp, gen>>

-----------------------------------------------------------------------------
Load(p) ==
  \/ Start(p) \/ StartBuild(p) \/ Reload(p) \/ ReloadRebase(p)
  \/ LoadFiles(p) \/ LoadIndex(p) \/ LoadMeta(p)
Save(p) == SaveBegin(p) \/ SaveFiles(p) \/ SaveIndex(p) \/ SaveMeta(p) \/ SaveFails(p)

Next ==
  \/ \E f \in File, v \in Versions \cup {0} : Edit(f, v)
  \/ \E p \in Proc :
       \/ Load(p)
       \/ \E f \in File : IndexFile(p, f) \/ RemoveFile(p, f)
       \/ Save(p)
       \/ Crash(p)

Spec == Init /\ [][Next]_vars

-----------------------------------------------------------------------------
(* Properties.                                                             *)

\* Every record of store x points at a description of its own symbol and at the
\* vector of it, every vector has a description of its own, and every symbol
\* vector belongs to a record: no symbol that was replaced or removed can be
\* found, and nothing is found under another's name.
Consistent(x) ==
  /\ \A f \in File : x.files[f].id >= 0 =>
       /\ Resolves(x, x.files[f].id)
       /\ VectorAt(x, x.files[f].id) = About("symbol", f, x.files[f].ver)
  /\ \A k \in DOMAIN x.index :
       LET v == x.index[k] IN
       /\ v.id < Len(x.meta) /\ x.meta[v.id + 1] = v.of
       /\ v.of.source = "symbol" => x.files[v.of.file] = [ver |-> v.of.ver, id |-> v.id]

\* As long as no save stopped half way and no load read across two saves, the
\* files are consistent whenever no save is in progress, and so is the copy of
\* every instance between calls, through every index_file(), removal,
\* compaction, rebase and reload (_assert_consistent of the rebase tests).
DiskConsistent == ~broken /\ lock = None => Consistent(disk)
MemConsistent == ~broken => \A p \in Proc : pc[p] = "idle" => Consistent(mem[p])

\* No vector is dropped on the way: as long as ~broken, every record has one.
AllEmbedded ==
  ~broken /\ lock = None => \A f \in File : disk.files[f].ver # 0 => disk.files[f].id >= 0

\* A save by an instance that has loaded changes only the records of the files
\* it changed itself: what only the other writer touched is kept, broken or not
\* (GRAPH_CONCURRENCY.md, "rebase per file").
OthersKept ==
  [][\A p \in Proc : \A f \in File :
       SaveFiles(p) /\ synced[p] # Never /\ ~Contains(dirty[p], f)
         => disk'.files[f].ver = disk.files[f].ver]_vars

\* Between calls an instance whose stamp is that of ast_index.json has the
\* records that are on disk, but for its own unsaved changes.
RecordsFresh ==
  \A p \in Proc : pc[p] = "idle" /\ synced[p] = stamp =>
    \A f \in File : ~Contains(dirty[p], f) => mem[p].files[f].ver = disk.files[f].ver

\* Why: what the steps of a save and of a load still need of the steps before.

\* Consistent, and every record has a vector.
Sound(x) == Consistent(x) /\ \A f \in File : x.files[f].ver # 0 => x.files[f].id >= 0

Halfway == {"saveIndex", "saveMeta"}

\* The holder of the lock is in a save, and has written what comes before its step.
SaverHolds == \A p \in Proc : lock = p <=> pc[p] \in Saving
Written ==
  \A p \in Proc :
    /\ pc[p] \in Halfway => disk.files = mem[p].files
    /\ pc[p] = "saveMeta" => disk.index = mem[p].index

\* The three files are of the same save, or a later one is on its way.
Generations ==
  /\ gen.meta <= gen.index /\ gen.index <= stamp
  /\ \A p \in Proc : pc[p] = "saveIndex" => gen.index < stamp
  /\ \A p \in Proc : pc[p] = "saveMeta" => gen.index = stamp
  /\ ~broken =>
       IF \E p \in Proc : pc[p] \in Halfway
       THEN stamp = gen.meta + 1 /\ gen.index \in {gen.meta, stamp}
       ELSE gen.meta = stamp

\* What is whole is sound: the files but for half a save, every copy but for half
\* a load.
WholeSound ==
  ~broken =>
    /\ (\A p \in Proc : pc[p] \notin Halfway) => Sound(disk)
    /\ \A p \in Proc : pc[p] \in {"down", "idle"} \cup Saving => Sound(mem[p])

\* What a load has read is what the save it counts wrote; with the files of that
\* save it still lacks, it makes a sound copy.
Reading ==
  \A p \in Proc :
    /\ pc[p] \in {"index", "meta"} =>
         /\ readGen[p].files <= stamp
         /\ readGen[p].files = stamp => mem[p].files = disk.files
    /\ pc[p] = "meta" =>
         /\ readGen[p].index <= gen.index
         /\ readGen[p].index = gen.index => mem[p].index = disk.index
Assembled ==
  ~broken => \A p \in Proc :
    /\ pc[p] = "index" /\ readGen[p].files = gen.meta /\ gen.index = gen.meta =>
         Sound([disk EXCEPT !.files = mem[p].files])
    /\ pc[p] = "meta" /\ readGen[p] = [files |-> gen.meta, index |-> gen.meta] =>
         Sound([mem[p] EXCEPT !.meta = disk.meta])

\* A stamp that is found again is that of the records in memory, but for the
\* files that are dirty.
Stamped ==
  \A p \in Proc :
    /\ synced[p] <= stamp /\ taken[p] <= stamp
    /\ pc[p] = "down" => synced[p] = Never
    /\ pc[p] \in {"down"} \cup Loading => dirty[p] = <<>>
    /\ pc[p] \in {"index", "meta"} /\ taken[p] = stamp => mem[p].files = disk.files
    /\ pc[p] = "saveFiles" => synced[p] \in {Never, stamp}
    /\ pc[p] \in Halfway => synced[p] < stamp
    /\ pc[p] \in {"idle", "saveFiles"} /\ synced[p] = stamp =>
         \A f \in File : ~Contains(dirty[p], f) => mem[p].files[f].ver = disk.files[f].ver

\* Records, descriptions and vectors of the files and of every copy in memory
\* stay together, with the types of all state, through updates, removals,
\* compactions, rebases, reloads and kills (save(), compact_faiss(),
\* _rebase_onto_disk_locked()).
IndexInv ==
  /\ TypeOK /\ DiskConsistent /\ MemConsistent /\ AllEmbedded
  /\ SaverHolds /\ Written /\ Generations
  /\ WholeSound /\ Reading /\ Assembled /\ Stamped
=============================================================================
