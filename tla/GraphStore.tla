----------------------------- MODULE GraphStore -----------------------------
(***************************************************************************)
(* The shared knowledge-graph store of CogniRepo: one graph.pkl and one    *)
(* graph.journal in .cognirepo/graph/, and the KnowledgeGraph instances of *)
(* several processes (index-repo runs, the file watcher, MCP servers) that *)
(* load, mutate, journal, save and reload it.  Source:                     *)
(* data/graph/knowledge_graph.py and data/graph/journal.py.                *)
(*                                                                         *)
(* Data abstraction.  A mutation (add_node, add_edge, ...) is an element   *)
(* of Op, issued at most once.  A graph is the number of times each op was *)
(* applied to it, so that "lost" is 0, "exactly once" is 1 and "applied    *)
(* twice" is 2.  A journal segment is its sequence number and the set of   *)
(* ops it carries; a byte offset is a number of whole segments.            *)
(***************************************************************************)
EXTENDS Integers, Sequences, FiniteSets

CONSTANTS
  Proc,       \* KnowledgeGraph instances, at most one per process
  Writers,    \* instances that mutate and save (index-repo, watcher, prune)
  Indexers,   \* the writers that also journal (index_repo with graph_journal on)
  Op,         \* mutations
  None,       \* no lock holder
  FlushOps,   \* _flush_ops: pending ops that force a flush while journaling
  Cap,        \* _UNSYNCED_OPS_CAP: pending ops kept when not journaling
  MaxSaves    \* bound of the model: graph.pkl replacements

ASSUME ProcAssumption == Indexers \subseteq Writers /\ Writers \subseteq Proc
ASSUME NoneAssumption == None \notin Proc
ASSUME OpAssumption == IsFiniteSet(Op)
ASSUME BoundAssumption == FlushOps \in Nat \ {0} /\ Cap \in Nat /\ MaxSaves \in Nat

VARIABLES
  pkl,        \* graph.pkl: its graph, its journal_seq marker, a version (its mtime)
  jnl,        \* graph.journal: present, segs, torn tail, gen (which file it is)
  lock,       \* holder of cognirepo.lock (store_lock)
  lease,      \* holder of graph.journal.writer (WriterLease)
  pc,         \* where each instance is in its current call
  graph,      \* self.G
  pending,    \* self._pending, the ops not yet on disk
  overflow,   \* self._pending_overflow
  seq,        \* self._journal_seq
  off,        \* self._journal_bytes, and (not in the code) which file it measures
  stamp,      \* self._disk_stamp
  taken,      \* the local `stamp` of _load() or `current` of reload_if_changed()
  active,     \* self._journal_active
  locked,     \* self._locked
  issued,     \* history: ops ever issued
  acked,      \* history: ops dropped from _pending as being on disk
  retried     \* history: ops whose append raised after the record was written

diskVars == <<pkl, jnl>>
lockVars == <<lock, lease>>
syncVars == <<seq, off, stamp, taken>>
opVars == <<pending, overflow>>
history == <<issued, acked, retried>>
vars == <<diskVars, lockVars, pc, graph, opVars, syncVars, active, locked, history>>

-----------------------------------------------------------------------------
Graphs == [Op -> Nat]
EmptyGraph == [o \in Op |-> 0]
Segment == [seq : Nat, ops : SUBSET Op]
Offset == [at : Nat, gen : Nat]
JnlStamp == [present : BOOLEAN, gen : Nat, len : Nat, torn : BOOLEAN]
Stamp == [pkl : Nat, jnl : JnlStamp]
Pickle == [graph : Graphs, marker : Nat, ver : Nat]
Journals == [present : BOOLEAN, segs : Seq(Segment), torn : BOOLEAN, gen : Nat]
PC == {"down", "idle", "load", "replay", "tail", "promote", "compact", "resync"}

TypeOK ==
  /\ pkl \in Pickle
  /\ jnl \in Journals
  /\ lock \in Proc \cup {None}
  /\ lease \in Proc \cup {None}
  /\ pc \in [Proc -> PC]
  /\ graph \in [Proc -> Graphs]
  /\ pending \in [Proc -> SUBSET Op]
  /\ overflow \in [Proc -> BOOLEAN]
  /\ seq \in [Proc -> Nat]
  /\ off \in [Proc -> Offset]
  /\ stamp \in [Proc -> Stamp]
  /\ taken \in [Proc -> Stamp]
  /\ active \in [Proc -> BOOLEAN]
  /\ locked \in [Proc -> BOOLEAN]
  /\ issued \in SUBSET Op
  /\ acked \in SUBSET Op
  /\ retried \in SUBSET Op

-----------------------------------------------------------------------------
\* The graph g after each op of S is applied to it once more (_apply).
Apply(g, S) == [o \in Op |-> g[o] + IF o \in S THEN 1 ELSE 0]

\* Mutant: replay forgets the marker of graph.pkl.
ReplayAll(g, segs, n, base) ==
  [o \in Op |-> g[o] + Cardinality({i \in DOMAIN segs : i > n /\ o \in segs[i].ops})]

\* iter_segments + _replay_journal: the segments of segs after the first n
\* whose seq is above base, applied to g.  A torn tail is not read.
Replay(g, segs, n, base) ==
  [o \in Op |-> g[o] + Cardinality({i \in DOMAIN segs :
                                i > n /\ segs[i].seq > base /\ o \in segs[i].ops})]

\* Mutant: numbering does not continue from the tail of the file.
TailIgnored(segs, n, base) == base

\* The largest sequence number among base and the segments after the first n.
TailSeq(segs, n, base) ==
  CHOOSE m \in {base} \cup {segs[i].seq : i \in {k \in DOMAIN segs : k > n}} :
    /\ m >= base
    /\ \A i \in DOMAIN segs : i > n => m >= segs[i].seq

\* os.path.getsize of the journal: a torn tail counts, a missing file is 0.
Size(j) == Len(j.segs) + IF j.torn THEN 1 ELSE 0

\* What stat() tells of graph.pkl at version v and of the journal j; _full_stamp.
StampOf(v, j) ==
  [pkl |-> v,
   jnl |-> [present |-> j.present, gen |-> j.gen, len |-> Len(j.segs), torn |-> j.torn]]

FullStamp == StampOf(pkl.ver, jnl)

NoJournal(g) == [present |-> FALSE, segs |-> <<>>, torn |-> FALSE, gen |-> g]
NoStamp == StampOf(0, NoJournal(0))
NoOffset == [at |-> 0, gen |-> 0]

\* The offset of the end of the last whole segment of j.
EndOf(j) == [at |-> Len(j.segs), gen |-> j.gen]

InSync(p) == stamp[p] = FullStamp

\* Mutant: the cut also takes the last whole segment.
TrimmedTooFar(j) ==
  [j EXCEPT !.torn = FALSE, !.segs = IF j.torn THEN SubSeq(@, 1, Len(@) - 1) ELSE @]

\* The journal with a record half written at its end.
Torn(j) == [j EXCEPT !.present = TRUE, !.torn = TRUE]

\* The journal with its torn tail cut off (truncate_to).
Trimmed(j) == [j EXCEPT !.torn = FALSE]

Init ==
  /\ pkl = [graph |-> EmptyGraph, marker |-> 0, ver |-> 0]
  /\ jnl = NoJournal(0)
  /\ lock = None
  /\ lease = None
  /\ pc = [p \in Proc |-> "down"]
  /\ graph = [p \in Proc |-> EmptyGraph]
  /\ pending = [p \in Proc |-> {}]
  /\ overflow = [p \in Proc |-> FALSE]
  /\ seq = [p \in Proc |-> 0]
  /\ off = [p \in Proc |-> NoOffset]
  /\ stamp = [p \in Proc |-> NoStamp]
  /\ taken = [p \in Proc |-> NoStamp]
  /\ active = [p \in Proc |-> FALSE]
  /\ locked = [p \in Proc |-> FALSE]
  /\ issued = {}
  /\ acked = {}
  /\ retried = {}

-----------------------------------------------------------------------------
(* Loading.  _load() takes the stamp, reads graph.pkl, then replays the    *)
(* journal.  The constructor and reload_if_changed() run it without the    *)
(* lock, so other instances may act between its steps.  (save() runs it    *)
(* holding store_lock, when nobody can: see SaveBegin.)                    *)

\* The beginning of _load(): stamp first, old graph and old lock dropped.
BeginLoad(p) ==
  /\ pc' = [pc EXCEPT ![p] = "load"]
  /\ taken' = [taken EXCEPT ![p] = FullStamp]
  /\ graph' = [graph EXCEPT ![p] = EmptyGraph]
  /\ locked' = [locked EXCEPT ![p] = FALSE]
  /\ UNCHANGED <<diskVars, lockVars, opVars, seq, off, stamp, active, history>>

\* KnowledgeGraph(): a fresh instance begins its first _load().
Start(p) == pc[p] = "down" /\ BeginLoad(p)

\* _load_base(): read graph.pkl; sequence numbers resume from its marker.
LoadBase(p) ==
  /\ pc[p] = "load"
  /\ graph' = [graph EXCEPT ![p] = pkl.graph]
  /\ seq' = [seq EXCEPT ![p] = pkl.marker]
  /\ off' = [off EXCEPT ![p] = NoOffset]
  /\ pc' = [pc EXCEPT ![p] = "replay"]
  /\ UNCHANGED <<diskVars, lockVars, opVars, stamp, taken, active, locked, history>>

\* The stamp taken before reading becomes the baseline, and the call returns.
EndLoad(p) ==
  /\ stamp' = [stamp EXCEPT ![p] = taken[p]]
  /\ taken' = [taken EXCEPT ![p] = NoStamp]
  /\ pc' = [pc EXCEPT ![p] = "idle"]
  /\ UNCHANGED <<diskVars, lockVars, opVars, active, history>>

\* Mutant: the unsynced ops are not re-applied.
LoadJournalOnly(p) ==
  /\ pc[p] = "replay"
  /\ graph' = [graph EXCEPT ![p] = Replay(@, jnl.segs, 0, seq[p])]
  /\ seq' = [seq EXCEPT ![p] = TailSeq(jnl.segs, 0, @)]
  /\ off' = [off EXCEPT ![p] = EndOf(jnl)]
  /\ UNCHANGED locked
  /\ EndLoad(p)

\* _replay_journal() from the start of the file; then _rebase() re-applies the
\* instance's own unsynced ops.
LoadJournal(p) ==
  /\ pc[p] = "replay"
  /\ graph' = [graph EXCEPT ![p] = Apply(Replay(@, jnl.segs, 0, seq[p]), pending[p])]
  /\ seq' = [seq EXCEPT ![p] = TailSeq(jnl.segs, 0, @)]
  /\ off' = [off EXCEPT ![p] = EndOf(jnl)]
  /\ UNCHANGED locked
  /\ EndLoad(p)

\* _try_incremental_replay() applies: same graph.pkl, the journal only grew.
CanReplayTail(p) ==
  /\ ~locked[p]
  /\ stamp[p].pkl = pkl.ver
  /\ jnl.present /\ stamp[p].jnl.present
  /\ off[p].at > 0
  /\ Size(jnl) >= off[p].at

\* reload_if_changed(), when only the tail of the journal has to be read.
ReloadTail(p) ==
  /\ pc[p] = "idle"
  /\ ~active[p] /\ ~InSync(p)
  /\ CanReplayTail(p)
  /\ taken' = [taken EXCEPT ![p] = FullStamp]
  /\ pc' = [pc EXCEPT ![p] = "tail"]
  /\ UNCHANGED <<diskVars, lockVars, graph, opVars, seq, off, stamp, active, locked, history>>

\* reload_if_changed() otherwise: _rebase().
ReloadAll(p) ==
  /\ pc[p] = "idle"
  /\ ~active[p] /\ ~InSync(p)
  /\ ~CanReplayTail(p)
  /\ ~overflow[p]
  /\ BeginLoad(p)

\* _rebase() after an overflow: the instance keeps its own graph.
KeepOwn(p) ==
  /\ pc[p] = "idle"
  /\ ~active[p] /\ ~InSync(p)
  /\ ~CanReplayTail(p)
  /\ overflow[p]
  /\ stamp' = [stamp EXCEPT ![p] = FullStamp]
  /\ UNCHANGED <<diskVars, lockVars, pc, graph, opVars, seq, off, taken, active, locked, history>>

\* _replay_journal(start = _journal_bytes).  At a record boundary the rest of
\* the file is replayed; an offset at or past the end reads nothing.
ReplayTail(p) ==
  /\ pc[p] = "tail"
  /\ graph' = [graph EXCEPT ![p] = Replay(@, jnl.segs, off[p].at, seq[p])]
  /\ seq' = [seq EXCEPT ![p] = TailSeq(jnl.segs, off[p].at, @)]
  /\ off' = [off EXCEPT ![p] = IF Len(jnl.segs) > @.at THEN EndOf(jnl) ELSE @]
  /\ UNCHANGED locked
  /\ EndLoad(p)

\* The same when the journal was compacted and has regrown beyond the offset:
\* in another file the offset may also fall in garbage, which either looks
\* like a torn tail (nothing is read) or raises JournalUnreadable.
ReplayGarbage(p) ==
  /\ pc[p] = "tail"
  /\ jnl.gen # off[p].gen /\ Len(jnl.segs) > off[p].at
  /\ UNCHANGED <<graph, seq, off>>
  /\ \/ UNCHANGED locked /\ EndLoad(p)
     \/ /\ locked' = [locked EXCEPT ![p] = TRUE]
        /\ taken' = [taken EXCEPT ![p] = NoStamp]
        /\ pc' = [pc EXCEPT ![p] = "idle"]
        /\ UNCHANGED <<diskVars, lockVars, opVars, stamp, active, history>>

-----------------------------------------------------------------------------
(* Mutation and journaling.                                                *)

\* _do(): apply an op and remember it.  While journaling, an op that fills the
\* segment is followed by maybe_flush() before the next one.
Do(p, o) ==
  /\ pc[p] = "idle"
  /\ p \in Writers
  /\ o \notin issued
  /\ active[p] => Cardinality(pending[p]) < FlushOps
  /\ graph' = [graph EXCEPT ![p] = Apply(@, {o})]
  /\ issued' = issued \cup {o}
  /\ IF active[p] \/ Cardinality(pending[p]) < Cap
       THEN /\ pending' = [pending EXCEPT ![p] = @ \cup {o}]
            /\ UNCHANGED overflow
       ELSE /\ overflow' = [overflow EXCEPT ![p] = TRUE]
            /\ UNCHANGED pending
  /\ UNCHANGED <<diskVars, lockVars, pc, syncVars, active, locked, acked, retried>>

\* begin_journal(): take the lease; under store_lock cut a dead writer's torn
\* tail and continue numbering from the on-disk tail.
BeginJournal(p) ==
  /\ pc[p] = "idle"
  /\ p \in Indexers
  /\ ~active[p] /\ ~locked[p]
  /\ lease = None
  /\ lease' = p
  /\ active' = [active EXCEPT ![p] = TRUE]
  /\ IF jnl.present
       THEN /\ lock = None
            /\ jnl' = Trimmed(jnl)
            /\ off' = [off EXCEPT ![p] = EndOf(jnl)]
            /\ seq' = [seq EXCEPT ![p] = TailSeq(jnl.segs, 0, @)]
            /\ stamp' = [stamp EXCEPT ![p] = IF InSync(p) THEN StampOf(pkl.ver, Trimmed(jnl)) ELSE @]
       ELSE UNCHANGED <<jnl, off, seq, stamp>>
  /\ UNCHANGED <<pkl, lock, pc, graph, opVars, taken, locked, history>>

\* The number flush_journal() gives its segment: one above what this instance
\* knows, after a rescan when the file is not the size it remembers.
FlushSeq(p) == 1 + IF Size(jnl) # off[p].at THEN TailSeq(jnl.segs, 0, seq[p]) ELSE seq[p]

\* The journal with the pending ops of p appended as one segment.
Flushed(p) ==
  [jnl EXCEPT !.present = TRUE,
              !.torn = FALSE,
              !.segs = Append(@, [seq |-> FlushSeq(p), ops |-> pending[p]])]

\* flush_journal(), called by maybe_flush() and end_journal().
FlushJournal(p) ==
  /\ pc[p] = "idle"
  /\ active[p] /\ ~locked[p]
  /\ pending[p] # {}
  /\ lock = None
  /\ jnl' = Flushed(p)
  /\ off' = [off EXCEPT ![p] = EndOf(Flushed(p))]
  /\ seq' = [seq EXCEPT ![p] = FlushSeq(p)]
  /\ stamp' = [stamp EXCEPT ![p] = IF InSync(p) THEN StampOf(pkl.ver, Flushed(p)) ELSE @]
  /\ acked' = acked \cup pending[p]
  /\ pending' = [pending EXCEPT ![p] = {}]
  /\ UNCHANGED <<pkl, lockVars, pc, graph, overflow, taken, active, locked, issued, retried>>

\* What a failed append leaves in the file: nothing, a torn record, or (when
\* the fsync raises) the whole record.  The last is bounded: once per behaviour.
FailedAppend(p) ==
  {jnl, Torn(jnl)}
    \cup (IF retried = {} THEN {Flushed(p)} ELSE {})

\* Mutant: a failed flush drops its ops.
FlushFailsForgets(p) ==
  /\ pc[p] = "idle"
  /\ active[p]
  /\ pending[p] # {}
  /\ acked' = acked \cup pending[p]
  /\ pending' = [pending EXCEPT ![p] = {}]
  /\ active' = [active EXCEPT ![p] = FALSE]
  /\ lease' = IF lease = p THEN None ELSE lease
  /\ UNCHANGED <<diskVars, lock, pc, graph, overflow, syncVars, locked, issued, retried>>

\* flush_journal() raises: maybe_flush() and end_journal() stop journaling,
\* release the lease and keep the ops pending.  A StoreBusy leaves jnl alone.
FlushFails(p) ==
  /\ pc[p] = "idle"
  /\ active[p]
  /\ pending[p] # {}
  /\ jnl' \in IF lock = None THEN FailedAppend(p) ELSE {jnl}
  /\ retried' = IF Len(jnl'.segs) > Len(jnl.segs) THEN retried \cup pending[p] ELSE retried
  /\ active' = [active EXCEPT ![p] = FALSE]
  /\ lease' = IF lease = p THEN None ELSE lease
  /\ UNCHANGED <<pkl, lock, pc, graph, opVars, syncVars, locked, issued, acked>>

\* end_journal() once its flush is done.
EndJournal(p) ==
  /\ pc[p] = "idle"
  /\ active[p]
  /\ pending[p] = {}
  /\ active' = [active EXCEPT ![p] = FALSE]
  /\ lease' = IF lease = p THEN None ELSE lease
  /\ UNCHANGED <<diskVars, lock, pc, graph, opVars, syncVars, locked, history>>

-----------------------------------------------------------------------------
(* Saving.  store_lock is held from SaveBegin to SaveCompact; the fields   *)
(* are reset and the stamp is taken by SaveResync, after its release.      *)

\* save() up to the compare-and-swap.  A stale instance rebases: it loads
\* the files and re-applies its unsynced ops, or keeps its own graph after an
\* overflow.  Nobody else changes the files while p holds the lock.
SaveBegin(p) ==
  /\ pc[p] = "idle"
  /\ p \in Writers
  /\ ~locked[p]
  /\ lock = None
  /\ pkl.ver < MaxSaves
  /\ lock' = p
  /\ pc' = [pc EXCEPT ![p] = "promote"]
  /\ stamp' = [stamp EXCEPT ![p] = FullStamp]
  /\ IF InSync(p) \/ overflow[p]
       THEN UNCHANGED <<graph, seq, off>>
       ELSE /\ graph' = [graph EXCEPT ![p] =
                 Apply(Replay(pkl.graph, jnl.segs, 0, pkl.marker), pending[p])]
            /\ seq' = [seq EXCEPT ![p] = TailSeq(jnl.segs, 0, pkl.marker)]
            /\ off' = [off EXCEPT ![p] = EndOf(jnl)]
  /\ UNCHANGED <<diskVars, lease, opVars, taken, active, locked, history>>

\* Mutant: the marker is one too high.
SavePromoteAhead(p) ==
  /\ pc[p] = "promote"
  /\ pkl' = [graph |-> graph[p], marker |-> seq[p] + 1, ver |-> pkl.ver + 1]
  /\ pc' = [pc EXCEPT ![p] = "compact"]
  /\ UNCHANGED <<jnl, lockVars, graph, opVars, syncVars, active, locked, history>>

\* os.replace(tmp, graph.pkl), with the journal_seq marker inside.
SavePromote(p) ==
  /\ pc[p] = "promote"
  /\ pkl' = [graph |-> graph[p], marker |-> seq[p], ver |-> pkl.ver + 1]
  /\ pc' = [pc EXCEPT ![p] = "compact"]
  /\ UNCHANGED <<jnl, lockVars, graph, opVars, syncVars, active, locked, history>>

\* Writing the scratch file raises: it is removed, graph.pkl is untouched.
SaveFails(p) ==
  /\ pc[p] = "promote"
  /\ pc' = [pc EXCEPT ![p] = "idle"]
  /\ lock' = None
  /\ UNCHANGED <<diskVars, lease, graph, opVars, syncVars, active, locked, history>>

\* _compact_journal_locked(): drop the journal when it is exactly what this
\* instance applied; then leave the `with store_lock()` block.
SaveCompact(p) ==
  /\ pc[p] = "compact"
  /\ IF jnl.present /\ Size(jnl) = off[p].at
       THEN /\ jnl' = NoJournal(pkl.ver)
            /\ off' = [off EXCEPT ![p] = NoOffset]
       ELSE UNCHANGED <<jnl, off>>
  /\ lock' = None
  /\ pc' = [pc EXCEPT ![p] = "resync"]
  /\ UNCHANGED <<pkl, lease, graph, opVars, seq, stamp, taken, active, locked, history>>

\* The tail of save(), outside the lock: forget the pending ops and take
\* whatever is on disk now as the baseline of this instance.
SaveResync(p) ==
  /\ pc[p] = "resync"
  /\ acked' = acked \cup pending[p]
  /\ pending' = [pending EXCEPT ![p] = {}]
  /\ overflow' = [overflow EXCEPT ![p] = FALSE]
  /\ stamp' = [stamp EXCEPT ![p] = FullStamp]
  /\ pc' = [pc EXCEPT ![p] = "idle"]
  /\ UNCHANGED <<diskVars, lockVars, graph, seq, off, taken, active, locked, issued, retried>>

-----------------------------------------------------------------------------
(* Crashes.  The kernel releases the lock and the lease of a dead process; *)
(* its memory is gone.                                                     *)

Forget(p) ==
  /\ pc' = [pc EXCEPT ![p] = "down"]
  /\ lock' = IF lock = p THEN None ELSE lock
  /\ lease' = IF lease = p THEN None ELSE lease
  /\ graph' = [graph EXCEPT ![p] = EmptyGraph]
  /\ pending' = [pending EXCEPT ![p] = {}]
  /\ overflow' = [overflow EXCEPT ![p] = FALSE]
  /\ seq' = [seq EXCEPT ![p] = 0]
  /\ off' = [off EXCEPT ![p] = NoOffset]
  /\ active' = [active EXCEPT ![p] = FALSE]
  /\ stamp' = [stamp EXCEPT ![p] = NoStamp]
  /\ taken' = [taken EXCEPT ![p] = NoStamp]
  /\ locked' = [locked EXCEPT ![p] = FALSE]
  /\ UNCHANGED <<pkl, history>>

Crash(p) ==
  /\ pc[p] # "down"
  /\ Forget(p)
  /\ UNCHANGED jnl

\* Killed in the middle of append_segment(): a torn tail stays behind.
CrashInAppend(p) ==
  /\ pc[p] = "idle"
  /\ active[p] /\ ~locked[p]
  /\ pending[p] # {}
  /\ lock = None
  /\ Forget(p)
  /\ jnl' = Torn(jnl)

-----------------------------------------------------------------------------
Load(p) == Start(p) \/ LoadBase(p) \/ LoadJournal(p)
Refresh(p) ==
  ReloadTail(p) \/ ReloadAll(p) \/ KeepOwn(p) \/ ReplayTail(p) \/ ReplayGarbage(p)
Journal(p) == BeginJournal(p) \/ FlushJournal(p) \/ FlushFails(p) \/ EndJournal(p)
Save(p) ==
  \/ SaveBegin(p) \/ SavePromote(p) \/ SaveFails(p) \/ SaveCompact(p) \/ SaveResync(p)
Fault(p) == Crash(p) \/ CrashInAppend(p)

Next ==
  \E p \in Proc :
    \/ Load(p)
    \/ Refresh(p)
    \/ \E o \in Op : Do(p, o)
    \/ Journal(p)
    \/ Save(p)
    \/ Fault(p)

Spec == Init /\ [][Next]_vars

-----------------------------------------------------------------------------
(* Properties.                                                             *)

\* What a fresh load would build from the files now on disk.
DiskGraph == Replay(pkl.graph, jnl.segs, 0, pkl.marker)
Support(g) == {o \in Op : g[o] > 0}
OnDisk == Support(DiskGraph)

\* An instance is journaling only while it holds the writer lease, and is
\* between the compare-and-swap and the compaction of a save only while it
\* holds store_lock (WriterLease, `with store_lock()` in save()).
HolderOnly ==
  \A p \in Proc :
    /\ active[p] => lease = p
    /\ pc[p] \in {"promote", "compact"} => lock = p

\* Along the journal the segment numbers rise strictly, whoever appended,
\* compacted, crashed or truncated in between (flush_journal, begin_journal).
Ordered(segs) == \A i, j \in DOMAIN segs : i < j => segs[i].seq < segs[j].seq
JournalOrdered == Ordered(jnl.segs)

\* Why: when the journaling instance finds the file at the size it remembers,
\* and so numbers from memory, its memory covers every segment in the file.
MemoryCoversFile ==
  \A p \in Proc :
    active[p] /\ Size(jnl) = off[p].at =>
      \A i \in DOMAIN jnl.segs : jnl.segs[i].seq <= seq[p]

\* The inductive invariant of the journal.
JournalInv ==
  /\ TypeOK
  /\ HolderOnly
  /\ JournalOrdered
  /\ MemoryCoversFile
  /\ ~jnl.present => jnl.segs = <<>>
  /\ \A p \in Proc : active[p] => pc[p] \in {"idle", "promote", "compact", "resync"}

\* No op is applied twice, to the files as a load replays them or to the graph
\* of an instance between calls: not by a crash between os.replace and the
\* unlink of the journal, not by a rebase of ops that are already on disk.
\* The ops whose append raised after the record was written are excepted.
AppliedOnce ==
  \A o \in Op \ retried :
    /\ DiskGraph[o] <= 1
    /\ \A p \in Proc : pc[p] = "idle" => graph[p][o] <= 1

\* An op that left _pending as being on disk is found there by every later
\* load, until the end (flush_journal, save: nothing acknowledged is lost).
AckedOnDisk == acked \subseteq OnDisk

\* Between calls, when the stamp of an instance matches the files, it sees
\* exactly what they hold, plus its own unsynced ops.
SameAsDisk(p) ==
  pc[p] = "idle" /\ InSync(p) /\ ~locked[p] /\ ~overflow[p]
    => Support(graph[p]) = OnDisk \cup pending[p]

\* So it is for the writers, whatever they do (flush_journal and save keep the
\* stamp in step with what they wrote); and for the readers while nobody
\* replaces graph.pkl: reload_if_changed() never takes for unchanged a journal
\* it has not read to the end, appended to, torn or trimmed while it reads.
Fresh ==
  /\ \A p \in Writers : SameAsDisk(p)
  /\ pkl.ver = 0 => \A p \in Proc \ Writers : SameAsDisk(p)

\* A reader between calls never shows an op that no load of the files would
\* find: no dirty, torn or withdrawn segment is ever applied.
NoPhantom == \A p \in Proc \ Writers : pc[p] = "idle" => Support(graph[p]) \subseteq OnDisk

\* A segment that replay skips, because its number is not above the marker of
\* graph.pkl, is contained in graph.pkl (GRAPH_CONCURRENCY.md, rule 2).
SkippedIsFolded ==
  \A i \in DOMAIN jnl.segs :
    jnl.segs[i].seq <= pkl.marker => jnl.segs[i].ops \subseteq Support(pkl.graph)

\* Why, while one instance writes: from its load on it holds what is on disk and
\* its own unsynced ops, and numbers above the marker.
Loaded(p) == pc[p] \notin {"down", "load", "replay"}

WriterHolds(p) ==
  /\ pc[p] \notin {"down", "load"} => pkl.marker <= seq[p]
  /\ pc[p] = "replay" => graph[p] = pkl.graph /\ seq[p] = pkl.marker
  /\ pc[p] \in {"compact", "resync"} => graph[p] = pkl.graph
  /\ overflow[p] => Loaded(p)
  /\ Loaded(p) =>
       /\ OnDisk \cup pending[p] \subseteq Support(graph[p])
       /\ overflow[p] \/ Support(graph[p]) \subseteq OnDisk \cup pending[p]

\* A reader has no ops of its own and holds part of what is on disk.
ReaderBehind(p) ==
  /\ pc[p] \notin {"promote", "compact", "resync"}
  /\ pending[p] = {} /\ ~overflow[p] /\ ~active[p]
  /\ Support(graph[p]) \subseteq OnDisk

IssuedOnly ==
  /\ \A p \in Proc : pending[p] \cup Support(graph[p]) \subseteq issued
  /\ OnDisk \cup retried \subseteq issued

\* An op is on disk once: in one segment, and in graph.pkl if that is skipped.
OnceOnDisk(o) ==
  /\ pkl.graph[o] <= 1
  /\ \A i \in DOMAIN jnl.segs : o \in jnl.segs[i].ops =>
       /\ \A j \in DOMAIN jnl.segs : o \in jnl.segs[j].ops => i = j
       /\ jnl.segs[i].seq > pkl.marker => pkl.graph[o] = 0

\* Whoever would apply a segment, or write its own ops, does so for the first time.
OnceIn(p, o) ==
  /\ graph[p][o] <= 1
  /\ p \in Writers /\ Loaded(p) =>
       \A i \in DOMAIN jnl.segs : o \in jnl.segs[i].ops => jnl.segs[i].seq <= seq[p]
  /\ p \in Writers /\ pc[p] \notin {"compact", "resync"} /\ o \in pending[p] => o \notin OnDisk
  /\ p \notin Writers =>
       \A i \in DOMAIN jnl.segs :
         o \in jnl.segs[i].ops /\ jnl.segs[i].seq > seq[p] => graph[p][o] = 0

\* What a reader knows of a journal that was never compacted.
NeverSaved ==
  /\ pkl.graph = EmptyGraph /\ pkl.marker = 0 /\ jnl.gen = 0
  /\ \A i \in DOMAIN jnl.segs : jnl.segs[i].seq > 0
  /\ \A p \in Proc : pc[p] # "compact"

Follows(p) ==
  /\ off[p].gen = 0 /\ off[p].at <= Len(jnl.segs)
  /\ taken[p].jnl.len <= Len(jnl.segs)
  /\ pc[p] = "replay" => seq[p] = 0
  /\ pc[p] \in {"idle", "tail"} =>
       /\ stamp[p].jnl.len <= off[p].at
       /\ \A i \in 1 .. off[p].at : jnl.segs[i].ops \subseteq Support(graph[p])
       /\ seq[p] = 0 \/ \E i \in 1 .. off[p].at : jnl.segs[i].seq = seq[p]

\* The inductive invariant of the contents, with that of the journal.
ContentsInv ==
  /\ SkippedIsFolded
  /\ \A p \in Writers : WriterHolds(p)
  /\ \A p \in Proc \ Writers : ReaderBehind(p)
  /\ IssuedOnly
  /\ \A o \in Op \ retried : OnceOnDisk(o) /\ \A p \in Proc : OnceIn(p, o)
  /\ pkl.ver = 0 => NeverSaved /\ \A p \in Proc \ Writers : Follows(p)

\* With one writer the store implements the abstract DurableGraph: batches
\* reach the disk whole, no step takes them off it again (a save never
\* overwrites newer state, GRAPH_CONCURRENCY.md, rule 3), and they are
\* acknowledged only once there.
Durable == INSTANCE DurableGraph WITH durable <- OnDisk, open <- pending
Implements == Durable!Spec
=============================================================================
