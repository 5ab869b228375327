------------------------------- MODULE Watcher -------------------------------
(***************************************************************************)
(* The file watcher of one process: RepoFileHandler, whose events arrive   *)
(* on the thread of the watchdog observer, are gathered in _pending, and   *)
(* are flushed by threading.Timer threads and, at shutdown, by the main    *)
(* thread.  A flush changes the AST index and the graph in memory and then *)
(* saves both, each of which may fail.  Source:                            *)
(* intelligence/indexer/file_watcher.py and _flush_and_stop_observer() of  *)
(* interface/cli/main.py.                                                  *)
(*                                                                         *)
(* Data abstraction.  The content of a file is a version, 0 when the file  *)
(* does not exist; an index or a graph holds the version it describes of   *)
(* each file, 0 for none.  index_file() reads a file in one step.  What a  *)
(* save does on disk is GraphStore's and AstIndex's, what the invalidation *)
(* of the query cache does is Server's.                                    *)
(***************************************************************************)
EXTENDS Integers, Sequences

CONSTANTS
  File,       \* source files
  Seeds,      \* those that exist, and are indexed, at the beginning
  Versions,   \* contents of a file
  Timer,      \* bound of the model: Timer threads alive at once
  Main,       \* the thread that stops the observer
  Emitter,    \* the observer's thread
  None,       \* no thread
  Touching,   \* whether a file may be reported without a change of content
  MaxEdits,   \* bound of the model: changes of the sources
  MaxFails    \* bound of the model: failures

ASSUME VersionsAssumption == Versions \subseteq Nat \ {0} /\ 1 \in Versions
ASSUME SeedsAssumption == Seeds \subseteq File
ASSUME ThreadAssumption ==
  /\ Main # Emitter /\ Main # None /\ Emitter # None
  /\ Timer \cap {Main, Emitter, None} = {}
ASSUME BoundAssumption ==
  Touching \in BOOLEAN /\ MaxEdits \in Nat /\ MaxFails \in Nat

VARIABLES
  src,        \* the source tree
  calls,      \* the _queue() calls the observer has yet to make
  debounced,  \* debounce_ms > 0
  pending,    \* self._pending
  timer,      \* the state of each Timer thread; the armed one is self._timer
  holder,     \* the thread that holds self._flush_lock
  pc,         \* where the flush in progress is
  batch,      \* its local `pending`, less what it has handled
  removed,    \* its removed_rel_paths
  err,        \* what its saves failed on; kept until the next flush
  mem,        \* self.indexer.index_data and self.graph
  disk,       \* the same on disk
  baseOk,     \* graph.incremental_base_status()
  trail,      \* whether last_watcher_reindex.json holds an error
  stale,      \* the files whose episodes mark_stale() has tagged
  main,       \* where the main thread is
  edits, fails,  \* changes and failures so far
  unread,     \* history: files whose last index_file() raised
  late        \* history: files queued since the flush of the shutdown began

world == <<src, edits>>
queue == <<calls, debounced, pending, timer>>
body == <<holder, pc, batch, removed, err>>
stores == <<mem, disk, baseOk, trail, stale>>
vars == <<world, queue, body, stores, main, fails, unread, late>>

-----------------------------------------------------------------------------
Content == Versions \cup {0}
Nothing == [f \in File |-> "none"]
Actions == {"none", "reindex", "remove"}
Stores == [index : [File -> Content], graph : [File -> Content]]

TypeOK ==
  /\ src \in [File -> Content]
  /\ calls \in Seq({"reindex", "remove"} \X File)
  /\ debounced \in BOOLEAN /\ baseOk \in BOOLEAN /\ trail \in BOOLEAN
  /\ pending \in [File -> Actions] /\ batch \in [File -> Actions]
  /\ timer \in [Timer -> {"idle", "armed", "fired"}]
  /\ \A t, u \in Timer : timer[t] = "armed" /\ timer[u] = "armed" => t = u
  /\ holder \in Timer \cup {Main, Emitter, None}
  /\ pc \in {"idle", "mutate", "saveIndex", "saveGraph", "cooling", "trail",
             "stale"}
  /\ holder = None <=> pc = "idle"
  /\ removed \subseteq File /\ stale \subseteq File /\ late \subseteq File
  /\ err \subseteq {"index", "graph"}
  /\ mem \in Stores /\ disk \in Stores
  /\ main \in {"watching", "stopping", "stopObserver", "exited"}
  /\ edits \in 0 .. MaxEdits /\ fails \in 0 .. MaxFails
  /\ unread \subseteq File

-----------------------------------------------------------------------------
(* The source tree, and the events of the observer.                        *)

Running == main # "exited"

Changed(tree, news) ==
  /\ Running /\ edits < MaxEdits
  /\ edits' = edits + 1
  /\ src' = tree
  /\ calls' = calls \o news
  /\ UNCHANGED <<debounced, pending, timer, body, stores, main, fails, unread,
                 late>>

Write(f) ==
  \E v \in Versions \ {src[f]} :
    Changed([src EXCEPT ![f] = v], <<<<"reindex", f>>>>)
Touch(f) == Touching /\ src[f] # 0 /\ Changed(src, <<<<"reindex", f>>>>)
Delete(f) ==
  src[f] # 0 /\ Changed([src EXCEPT ![f] = 0], <<<<"remove", f>>>>)

\* on_moved(): two calls, between which a flush may begin.
Move(f, g) ==
  /\ src[f] # 0 /\ src[g] = 0 /\ f # g
  /\ Changed([src EXCEPT ![f] = 0, ![g] = src[f]],
             <<<<"remove", f>>, <<"reindex", g>>>>)

-----------------------------------------------------------------------------
(* _queue().                                                               *)

\* Mutant: the first action for a path wins.
GatheredFirst(p, f, action) ==
  IF p[f] = "none" THEN [p EXCEPT ![f] = action] ELSE p
Gathered(p, f, action) == [p EXCEPT ![f] = action]

\* The armed timer, if any, is cancelled.
Cancelled == [t \in Timer |-> IF timer[t] = "armed" THEN "idle" ELSE timer[t]]

\* Mutant: no timer is armed during a flush.
ArmedUnlessBusy(t) ==
  IF holder = None THEN [Cancelled EXCEPT ![t] = "armed"] ELSE Cancelled
Armed(t) == [Cancelled EXCEPT ![t] = "armed"]

Queue ==
  /\ Running /\ debounced /\ calls # <<>>
  /\ \E t \in Timer : Cancelled[t] = "idle" /\ timer' = Armed(t)
  /\ LET call == Head(calls) IN
       /\ pending' = Gathered(pending, call[2], call[1])
       /\ late' = IF main = "stopObserver" \/ holder = Main
                  THEN late \cup {call[2]} ELSE late \ {call[2]}
  /\ calls' = Tail(calls)
  /\ UNCHANGED <<world, debounced, body, stores, main, fails, unread>>

\* debounce_ms <= 0: one event, handled on the observer's thread.
QueueNow ==
  /\ Running /\ ~debounced /\ calls # <<>> /\ holder = None
  /\ holder' = Emitter
  /\ pc' = "mutate"
  /\ batch' = [Nothing EXCEPT ![Head(calls)[2]] = Head(calls)[1]]
  /\ calls' = Tail(calls)
  /\ removed' = {} /\ err' = {}
  /\ UNCHANGED <<world, debounced, pending, timer, stores, main, fails, unread,
                 late>>

-----------------------------------------------------------------------------
(* flush().                                                                *)

\* The timer expires; from now on cancel() does nothing to it.
Fire(t) ==
  /\ Running /\ timer[t] = "armed"
  /\ timer' = [timer EXCEPT ![t] = "fired"]
  /\ UNCHANGED <<world, calls, debounced, pending, body, stores, main, fails,
                 unread, late>>

\* The thread takes the lock and the batch; without events it is done.  Its
\* Timer is free for the model to use again.
Begin(thread) ==
  /\ Running /\ holder = None
  /\ thread \in Timer => timer[thread] = "fired"
  /\ thread = Main => main = "stopping"
  /\ timer' = [t \in Timer |-> IF t = thread THEN "idle" ELSE Cancelled[t]]
  /\ pending' = Nothing
  /\ IF pending = Nothing
     THEN /\ main' = IF thread = Main THEN "stopObserver" ELSE main
          /\ UNCHANGED body
     ELSE /\ holder' = thread
          /\ pc' = "mutate"
          /\ batch' = pending
          /\ removed' = {} /\ err' = {}
          /\ UNCHANGED main
  /\ UNCHANGED <<world, calls, debounced, stores, fails, unread, late>>

\* Mutant: the stores keep what they say of a removed file.
WithoutIndexOnly(m, f) == [m EXCEPT !.index[f] = 0]
Without(m, f) == [m EXCEPT !.index[f] = 0, !.graph[f] = 0]

\* remove_file_nodes(), then index_file(), which returns at once when the
\* content is the one it has recorded.
Indexed(m, f, v) ==
  [m EXCEPT !.index[f] = v, !.graph[f] = IF m.index[f] = v THEN 0 ELSE v]

Handled(f) ==
  /\ batch' = [batch EXCEPT ![f] = "none"]
  /\ UNCHANGED <<world, queue, holder, err, disk, baseOk, trail, stale, main,
                 late>>

\* The batch goes on after a file that raised; a single event ends.
Raised == pc' = IF debounced THEN pc ELSE "stale"

\* _reindex_mutate()
Reindex(f) ==
  /\ Running /\ pc = "mutate" /\ batch[f] = "reindex" /\ src[f] # 0
  /\ mem' = Indexed(mem, f, src[f])
  /\ unread' = unread \ {f}
  /\ Handled(f)
  /\ UNCHANGED <<pc, removed, fails>>

\* The file is gone again: the graph has lost it, the index has not.
ReindexMissing(f) ==
  /\ Running /\ pc = "mutate" /\ batch[f] = "reindex" /\ src[f] = 0
  /\ mem' = [mem EXCEPT !.graph[f] = 0]
  /\ Handled(f) /\ Raised
  /\ UNCHANGED <<removed, fails, unread>>

\* index_file() raises while it parses or embeds, before or after it has added
\* nodes.
ReindexFails(f) ==
  /\ Running /\ pc = "mutate" /\ batch[f] = "reindex" /\ src[f] # 0
  /\ src[f] # mem.index[f]
  /\ fails < MaxFails /\ fails' = fails + 1
  /\ \E v \in {0, src[f]} : mem' = [mem EXCEPT !.graph[f] = v]
  /\ unread' = unread \cup {f}
  /\ Handled(f) /\ Raised
  /\ UNCHANGED removed

\* _remove_mutate()
Remove(f) ==
  /\ Running /\ pc = "mutate" /\ batch[f] = "remove"
  /\ mem' = Without(mem, f)
  /\ removed' = removed \cup {f}
  /\ unread' = unread \ {f}
  /\ Handled(f)
  /\ UNCHANGED <<pc, fails>>

\* The reverse index is rebuilt and the saves begin.
Mutated ==
  /\ Running /\ pc = "mutate" /\ batch = Nothing
  /\ pc' = "saveIndex"
  /\ UNCHANGED <<world, queue, holder, batch, removed, err, stores, main, fails,
                 unread, late>>

\* The errors a flush reports when the graph was saved.
AfterGraph(e) == e

\* What follows a failed save: the next step of a flush, and the end of
\* _reindex() and _remove(), whose steps share one handler.
Onward(next) == IF debounced THEN next ELSE "stale"

SaveIndex ==
  /\ Running /\ pc = "saveIndex"
  /\ disk' = [disk EXCEPT !.index = mem.index]
  /\ pc' = "saveGraph"
  /\ UNCHANGED <<world, queue, holder, batch, removed, err, mem, baseOk, trail,
                 stale, main, fails, unread, late>>

SaveIndexFails ==
  /\ Running /\ pc = "saveIndex"
  /\ fails < MaxFails /\ fails' = fails + 1
  /\ err' = err \cup {"index"}
  /\ pc' = Onward("saveGraph")
  /\ UNCHANGED <<world, queue, holder, batch, removed, stores, main, unread,
                 late>>

\* _save_graph(): nothing is published over an incomplete base.
Skipped ==
  /\ Running /\ pc = "saveGraph" /\ ~baseOk
  /\ pc' = "trail"
  /\ UNCHANGED <<world, queue, holder, batch, removed, err, stores, main, fails,
                 unread, late>>

SaveGraph ==
  /\ Running /\ baseOk /\ pc \in {"saveGraph", "cooling"}
  /\ disk' = [disk EXCEPT !.graph = mem.graph]
  /\ err' = AfterGraph(err)
  /\ pc' = "trail"
  /\ UNCHANGED <<world, queue, holder, batch, removed, mem, baseOk, trail, stale,
                 main, fails, unread, late>>

\* The breaker is open: the model is evicted and the thread sleeps, with the
\* flush lock, before its only retry.
SaveGraphShed ==
  /\ Running /\ pc = "saveGraph" /\ baseOk
  /\ fails < MaxFails /\ fails' = fails + 1
  /\ pc' = "cooling"
  /\ UNCHANGED <<world, queue, holder, batch, removed, err, stores, main, unread,
                 late>>

SaveGraphFails ==
  /\ Running /\ baseOk /\ pc \in {"saveGraph", "cooling"}
  /\ fails < MaxFails /\ fails' = fails + 1
  /\ err' = err \cup {"graph"}
  /\ pc' = Onward("trail")
  /\ UNCHANGED <<world, queue, holder, batch, removed, stores, main, unread,
                 late>>

\* _write_last_watcher_reindex(), which _reindex() and _remove() do not call.
WriteTrail ==
  /\ Running /\ pc = "trail"
  /\ trail' = IF debounced THEN err # {} ELSE trail
  /\ pc' = "stale"
  /\ UNCHANGED <<world, queue, holder, batch, removed, err, mem, disk, baseOk,
                 stale, main, fails, unread, late>>

\* Mutant: a flush that met an error keeps the lock.
LeftHolderKept == IF err = {} THEN None ELSE holder
LeftHolder == None

\* mark_stale() and the end of the flush: the lock is released.
Finish ==
  /\ Running /\ pc = "stale"
  /\ stale' = IF debounced \/ err = {} THEN stale \cup removed ELSE stale
  /\ holder' = LeftHolder
  /\ pc' = "idle"
  /\ main' = IF holder = Main THEN "stopObserver" ELSE main
  /\ UNCHANGED <<world, queue, batch, removed, err, mem, disk, baseOk, trail,
                 fails, unread, late>>

-----------------------------------------------------------------------------
(* The shutdown: _flush_and_stop_observer().                               *)

RequestStop ==
  /\ main = "watching"
  /\ main' = "stopping"
  /\ UNCHANGED <<world, queue, body, stores, fails, unread, late>>

MayStop == main = "stopObserver"

\* stop() and join(): the observer finishes the event it is handling; then the
\* process ends, and with it the Timer threads, which are daemons.
StopObserver ==
  /\ MayStop /\ holder # Emitter
  /\ main' = "exited"
  /\ UNCHANGED <<world, queue, body, stores, fails, unread, late>>

-----------------------------------------------------------------------------
Init ==
  /\ src = [f \in File |-> IF f \in Seeds THEN 1 ELSE 0]
  /\ mem = [index |-> src, graph |-> src] /\ disk = mem
  /\ debounced \in BOOLEAN /\ baseOk \in BOOLEAN
  /\ calls = <<>> /\ pending = Nothing /\ batch = Nothing
  /\ timer = [t \in Timer |-> "idle"]
  /\ holder = None /\ pc = "idle" /\ main = "watching"
  /\ removed = {} /\ err = {} /\ stale = {} /\ unread = {} /\ late = {}
  /\ trail = FALSE /\ edits = 0 /\ fails = 0

Change == \E f \in File :
  Write(f) \/ Touch(f) \/ Delete(f) \/ \E g \in File : Move(f, g)
Observe == Queue \/ QueueNow
Mutate == \E f \in File :
  Reindex(f) \/ ReindexMissing(f) \/ ReindexFails(f) \/ Remove(f)
Persist ==
  \/ Mutated \/ SaveIndex \/ SaveIndexFails \/ Skipped \/ SaveGraph
  \/ SaveGraphShed \/ SaveGraphFails \/ WriteTrail \/ Finish
BeginAny == \E thread \in Timer \cup {Main} : Begin(thread)
FireAny == \E t \in Timer : Fire(t)

Next ==
  \/ Change \/ Observe \/ FireAny \/ BeginAny \/ Mutate \/ Persist
  \/ RequestStop \/ StopObserver

\* The threads run: the observer delivers, timers expire, a waiting flush gets
\* the lock, and a flush does not stop half way.
Fairness ==
  /\ WF_vars(Observe) /\ WF_vars(Mutate) /\ WF_vars(Persist)
  /\ \A t \in Timer : WF_vars(Fire(t)) /\ WF_vars(Begin(t))
  /\ WF_vars(Begin(Main)) /\ WF_vars(StopObserver)

Spec == Init /\ [][Next]_vars
FairSpec == Spec /\ Fairness

-----------------------------------------------------------------------------
\* The last thing the watcher has been told of f and has not yet acted on: a
\* call that is still to come, or else what is pending, or else in the batch.
LastCall(f, i) ==
  calls[i][2] = f /\ \A j \in DOMAIN calls : j > i => calls[j][2] # f
Unheard(f) == \A i \in DOMAIN calls : calls[i][2] # f
OnItsWay(f) == IF pending[f] # "none" THEN pending[f] ELSE batch[f]
RightKind(f, action) == action = "remove" <=> src[f] = 0

\* No change is lost between the observer, the pending events and the flushes
\* of several threads: a file that the index in memory does not describe as it
\* is has an event on its way, of the right kind, unless index_file() raised
\* on it (_queue() and _flush_locked()).
ChangeTracked ==
  \A f \in File :
    /\ \A i \in DOMAIN calls : LastCall(f, i) => RightKind(f, calls[i][1])
    /\ Unheard(f) =>
         IF OnItsWay(f) # "none" THEN RightKind(f, OnItsWay(f))
         ELSE f \in unread \/ mem.index[f] = src[f]

\* Between flushes, a trail without an error means that the index and the
\* graph on disk are those of the watcher: a batch of which a save failed is
\* never reported as a success (_flush_locked(): each save guarded on its own).
CleanTrailSaved ==
  debounced /\ holder = None /\ ~trail =>
    disk.index = mem.index /\ (baseOk => disk.graph = mem.graph)

\* Between flushes without an error the graph on disk describes no other
\* version of a file than the index on disk does; only nodes may be missing
\* (_reindex_mutate(), _remove_mutate() and the saves, in any order of events).
StoresAgree ==
  debounced /\ holder = None /\ ~trail /\ baseOk =>
    \A f \in File \ unread : disk.graph[f] \in {0, disk.index[f]}

\* An event the handler had when the flush of the shutdown began is in the
\* stores when the process ends: what is still pending, or in a batch of a
\* timer that is killed with the process, was queued after that
\* (_flush_and_stop_observer()).
StopFlushes ==
  main = "exited" =>
    \A f \in File : pending[f] # "none" \/ batch[f] # "none" => f \in late

\* A changed file reaches the index on disk, or a failure was met, or the
\* watcher is being stopped (Timer threads, flush lock and saves together).
Reflected ==
  \A f \in File :
    disk.index[f] # src[f] ~>
      (disk.index[f] = src[f] \/ unread # {} \/ err # {} \/ main # "watching")

\* A stop request ends the process: no flush keeps the lock from the main
\* thread for ever (flush() under an RLock, _save_graph() with one retry).
Stops == main = "stopping" ~> main = "exited"

\* Why: what each step still needs of the steps before it.

\* Only a flush that is changing the stores has a batch, of one file when there
\* is no debounce; then nothing is pending either.
BatchOwned ==
  /\ pc # "mutate" => batch = Nothing
  /\ ~debounced => pending = Nothing
  /\ ~debounced =>
       \A f, g \in File : batch[f] # "none" /\ batch[g] # "none" => f = g

\* From the flush of the shutdown on, all that is gathered is late; a batch is
\* too, unless the observer's thread has it, which the stop waits for.
StopTracked ==
  /\ main \in {"stopObserver", "exited"} \/ holder = Main =>
       \A f \in File : pending[f] # "none" => f \in late
  /\ main \in {"stopObserver", "exited"} /\ holder # Emitter =>
       \A f \in File : batch[f] # "none" => f \in late

\* A flush knows which of its saves have failed.
IndexSaved == disk.index = mem.index
GraphSaved == baseOk => disk.graph = mem.graph
SavesReported ==
  debounced =>
    /\ pc \in {"saveGraph", "cooling", "trail"} => "index" \in err \/ IndexSaved
    /\ pc = "trail" => "graph" \in err \/ GraphSaved
    /\ pc = "stale" /\ ~trail => IndexSaved /\ GraphSaved

\* In memory the graph describes the version of a file that the index describes.
GraphFollows ==
  \A f \in File \ unread : mem.graph[f] \in {0, mem.index[f]}

\* The events between observer, timers, flushes and shutdown, with the types of
\* all state: none is lost, none is left behind, and a trail that reports a batch
\* done is true (_queue(), flush(), _flush_locked()).
EventsInv ==
  /\ TypeOK /\ ChangeTracked /\ StopFlushes /\ CleanTrailSaved
  /\ BatchOwned /\ StopTracked /\ SavesReported /\ GraphFollows
=============================================================================
