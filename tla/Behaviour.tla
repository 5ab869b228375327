------------------------------ MODULE Behaviour ------------------------------
(***************************************************************************)
(* The behaviour tracker: behaviour.json, the trackers that short requests *)
(* load, change and save, and the one that the file watcher keeps for as   *)
(* long as it runs.  A save reads the file again under the file's own      *)
(* lock, merges it into the copy in memory, prunes the result and writes   *)
(* it.  Source: data/graph/behaviour_tracker.py; its users are             *)
(* interface/server/mcp_server.py, interface/tools/behaviour_hook.py,      *)
(* intelligence/retrieval/hybrid.py and file_watcher.py.                   *)
(*                                                                         *)
(* Data abstraction.  A query that is asked is a recording, numbered in    *)
(* the order of their timestamps; its id is a Query.  All queries retrieve *)
(* the same symbol, whose hit count is hits.  Of the interaction style     *)
(* the ring buffer and last_summarized are kept, 0 for None.  The sections *)
(* that _merge_from_disk() leaves alone (preferences, rewrites, errors,    *)
(* sessions, co-occurrence) are left out: the copy of whoever saves wins.  *)
(***************************************************************************)
EXTENDS Integers, FiniteSets, Sequences, SequencesExt

CONSTANTS
  Request,       \* the threads and processes that serve requests
  Watcher,       \* the file watcher
  Query,         \* query ids
  Repeated,      \* those that hash the query text and may be recorded again
  MaxHistory,    \* max_query_history
  Every,         \* _STYLE_SUMMARIZE_EVERY
  Cap,           \* the size of the ring buffer
  MaxRecordings, \* bound of the model: queries asked
  MaxAdoptions   \* bound of the model: times the watcher adopts a style

ASSUME RoleAssumption == IsFiniteSet(Request) /\ Watcher \notin Request
ASSUME QueryAssumption == IsFiniteSet(Query) /\ Repeated \subseteq Query
ASSUME LimitAssumption ==
  /\ {MaxHistory, Every, Cap} \subseteq Nat \ {0}
  /\ {MaxRecordings, MaxAdoptions} \subseteq Nat

VARIABLES
  file,     \* behaviour.json
  stage,       \* where each tracker is
  mem,      \* self.data
  base,     \* what the tracker remembers of the style as it was loaded
  asked,    \* the number of recordings
  summed,   \* the number of summaries
  gone,     \* history: ids whose entry was pruned from the file
  filed,    \* history: the recordings whose marks are in the hits of the file
  counted,  \* history: those whose marks are in the hits of each tracker
  consumed, \* history: recordings in each summary
  spliced,  \* history: queries put behind a buffer that was summarized meanwhile
  reverted, \* history: whether a save put an older recording of an id back
  unmarked, \* history: whether a save took a useful mark back
  echoed    \* history: whether a tracker adopted summaries twice

trackers == <<stage, mem, base>>
history ==
  <<gone, filed, counted, consumed, spliced, reverted, unmarked, echoed>>
behaviourVars == <<file, trackers, asked, summed, history>>

-----------------------------------------------------------------------------
Tracker == Request \cup {Watcher}
Recording == 1 .. MaxRecordings
Entry == [at : Recording \cup {0}, useful : BOOLEAN]
Data ==
  [history : [Query -> Entry], hits : Nat,
   patterns : Seq(Recording), summary : Nat]
Absent == [at |-> 0, useful |-> FALSE]
Empty ==
  [history |-> [q \in Query |-> Absent], hits |-> 0, patterns |-> <<>>,
   summary |-> 0]

NoBase == [length |-> 0, summary |-> 0, adopted |-> 0]

Kept(x) == {q \in Query : x.history[q].at # 0}

BehaviourTypeOK ==
  /\ file \in Data /\ Cardinality(Kept(file)) <= MaxHistory
  /\ stage \in [Tracker -> {"none", "loaded", "recorded"}]
  /\ mem \in [Tracker -> Data]
  /\ base \in [Tracker -> [length : Nat, summary : Nat, adopted : Nat]]
  /\ asked \in 0 .. MaxRecordings /\ summed \in 0 .. MaxRecordings
  /\ gone \subseteq Query /\ filed \subseteq Recording
  /\ counted \in [Tracker -> SUBSET Recording] /\ spliced \in Nat
  /\ consumed \in [Recording -> SUBSET Recording]
  /\ {reverted, unmarked, echoed} \subseteq BOOLEAN

\* The entries newer than recording n, and whether they push it out.
Newer(x, n) == {q \in Query : x.history[q].at > n}
Outdated(x, n) == Cardinality(Newer(x, n)) >= MaxHistory

\* prune(): the newest entries stay.
Pruned(x) ==
  [x EXCEPT !.history = [q \in Query |->
    IF Outdated(x, x.history[q].at) THEN Absent ELSE x.history[q]]]

-----------------------------------------------------------------------------
(* Merging.                                                                  *)

\* query_history: the union, in which the own entry of an id wins.
United(mine) ==
  [q \in Query |->
     IF q \in Kept(mine) THEN mine.history[q] ELSE file.history[q]]

\* Mutant: the counts are added.
WeightAdded(mine) == file.hits + mine.hits
\* symbol_weights: the higher count.
Weight(mine) == IF file.hits > mine.hits THEN file.hits ELSE mine.hits

\* Whether the file was summarized since the tracker was loaded.
Summarized(p) == file.summary # 0 /\ file.summary # base[p].summary

\* The queries that the tracker appended to the buffer it had loaded.
Appended(p, mine) == SubSeq(mine.patterns, base[p].length + 1, Len(mine.patterns))

\* Mutant: the own style always wins.
StyledOwn(p, mine) == [patterns |-> mine.patterns, summary |-> mine.summary]

\* interaction_style: that of the file if it was summarized meanwhile, with the
\* own queries behind; otherwise the own.
Styled(p, mine) ==
  IF Summarized(p)
  THEN [patterns |-> file.patterns \o Appended(p, mine), summary |-> file.summary]
  ELSE [patterns |-> mine.patterns, summary |-> mine.summary]

\* _merge_from_disk()
Merged(p, mine) ==
  [history |-> United(mine), hits |-> Weight(mine),
   patterns |-> Styled(p, mine).patterns, summary |-> Styled(p, mine).summary]

\* Mutant: pruned before the merge.
WrittenUnpruned(p) == Merged(p, Pruned(mem[p]))

\* What save() writes, and keeps in memory.
Written(p) == Pruned(Merged(p, mem[p]))

-----------------------------------------------------------------------------
(* A tracker.                                                                *)

\* BehaviourTracker()
Open(p) ==
  /\ stage[p] = "none"
  /\ stage' = [stage EXCEPT ![p] = "loaded"]
  /\ mem' = [mem EXCEPT ![p] = Pruned(file)]
  /\ counted' = [counted EXCEPT ![p] = filed]
  /\ base' = [base EXCEPT ![p] =
       [length |-> Len(file.patterns), summary |-> file.summary,
        adopted |-> 0]]
  /\ UNCHANGED <<file, asked, summed, gone, filed, consumed, spliced, reverted,
                 unmarked, echoed>>

\* The buffer with one more query: the oldest goes when it is full.
Buffered(s, n) ==
  LET t == Append(s, n) IN IF Len(t) > Cap THEN Tail(t) ELSE t

\* summarize_interaction_style(), which only a tracker with a store_fn does.
Summarizes(s, storing) == storing /\ Len(s) >= Every /\ Len(s) % Every = 0

\* record_feedback() of a useful query: the mark.
Marked(e) == [e EXCEPT !.useful = TRUE]

\* record_query(), and record_feedback() when the results are good enough.
RecordQuery(p, q, good, storing) ==
  LET n == asked + 1
      s == Buffered(mem[p].patterns, n)
      sum == Summarizes(s, storing)
      e == [at |-> n, useful |-> FALSE]
  IN
  /\ p \in Request /\ stage[p] = "loaded"
  /\ asked < MaxRecordings /\ asked' = n
  /\ q \in Repeated
       \/ \A t \in Tracker : q \notin Kept(mem[t]) \cup Kept(file) \cup gone
  /\ mem' = [mem EXCEPT ![p] =
       [history |-> [@.history EXCEPT ![q] = IF good THEN Marked(e) ELSE e],
        hits |-> IF good THEN @.hits + 1 ELSE @.hits,
        patterns |-> IF sum THEN <<>> ELSE s,
        summary |-> IF sum THEN summed + 1 ELSE @.summary]]
  /\ counted' = [counted EXCEPT ![p] = IF good THEN @ \cup {n} ELSE @]
  /\ IF sum
     THEN /\ summed' = summed + 1
          /\ consumed' = [consumed EXCEPT ![summed + 1] = ToSet(s)]
     ELSE UNCHANGED <<summed, consumed>>
  /\ stage' = [stage EXCEPT ![p] = "recorded"]
  /\ UNCHANGED <<file, base, gone, filed, spliced, reverted, unmarked, echoed>>

\* The entries without a mark that are no older than recording n.
Recent(n) ==
  {q \in Kept(mem[Watcher]) :
     ~mem[Watcher].history[q].useful /\ mem[Watcher].history[q].at >= n}

\* record_file_edit(): the queries of the last minutes were useful.
RecordFileEdit(n) ==
  /\ stage[Watcher] = "loaded"
  /\ Recent(n) # {}
  /\ mem' = [mem EXCEPT
       ![Watcher].history = [q \in Query |-> IF q \in Recent(n) THEN Marked(@[q]) ELSE @[q]],
       ![Watcher].hits = @ + Cardinality(Recent(n))]
  /\ counted' = [counted EXCEPT ![Watcher] =
       @ \cup {mem[Watcher].history[q].at : q \in Recent(n)}]
  /\ UNCHANGED <<file, stage, base, asked, summed, gone, filed, consumed, spliced,
                 reverted, unmarked, echoed>>

\* save(), under the lock of the file.
Save(p) ==
  /\ stage[p] = IF p = Watcher THEN "loaded" ELSE "recorded"
  /\ file' = Written(p)
  /\ mem' = [mem EXCEPT ![p] = IF p = Watcher THEN Written(p) ELSE Empty]
  /\ Summarized(p) => base[p].adopted < MaxAdoptions
  /\ base' =
       IF p # Watcher THEN [base EXCEPT ![p] = NoBase]
       ELSE IF Summarized(p) THEN [base EXCEPT ![p].adopted = @ + 1] ELSE base
  /\ stage' = [stage EXCEPT ![p] = IF p = Watcher THEN "loaded" ELSE "none"]
  /\ filed' = IF file.hits > mem[p].hits THEN filed ELSE counted[p]
  /\ counted' = [counted EXCEPT ![p] = IF p = Watcher THEN filed' ELSE {}]
  /\ spliced' = IF Summarized(p) THEN spliced + Len(Appended(p, mem[p])) ELSE spliced
  /\ gone' = gone \cup (Kept(file) \ Kept(file'))
  /\ reverted' = (reverted \/ \E q \in Kept(file) :
       mem[p].history[q].at \notin {0} /\ mem[p].history[q].at < file.history[q].at)
  /\ unmarked' = (unmarked \/ \E q \in Kept(mem[p]) :
       file.history[q].useful /\ ~mem[p].history[q].useful)
  /\ echoed' = (echoed \/ (base[p].adopted > 0 /\ Summarized(p)))
  /\ UNCHANGED <<asked, summed, consumed>>

\* The process ends, or its save() raises StoreBusy and the request drops it.
Drop(p) ==
  /\ stage[p] = IF p = Watcher THEN "loaded" ELSE "recorded"
  /\ stage' = [stage EXCEPT ![p] = "none"]
  /\ mem' = [mem EXCEPT ![p] = Empty]
  /\ base' = [base EXCEPT ![p] = NoBase]
  /\ counted' = [counted EXCEPT ![p] = {}]
  /\ UNCHANGED <<file, asked, summed, gone, filed, consumed, spliced, reverted,
                 unmarked, echoed>>

BehaviourInit ==
  /\ file = Empty
  /\ stage = [p \in Tracker |-> "none"]
  /\ mem = [p \in Tracker |-> Empty]
  /\ base = [p \in Tracker |-> NoBase]
  /\ asked = 0 /\ summed = 0
  /\ gone = {} /\ filed = {} /\ spliced = 0
  /\ counted = [p \in Tracker |-> {}] /\ consumed = [n \in Recording |-> {}]
  /\ reverted = FALSE /\ unmarked = FALSE /\ echoed = FALSE

BehaviourNext ==
  \/ \E p \in Tracker : Open(p) \/ Save(p) \/ Drop(p)
  \/ \E p \in Request, q \in Query, good, storing \in BOOLEAN :
       RecordQuery(p, q, good, storing)
  \/ \E n \in Recording : RecordFileEdit(n)

BehaviourSpec == BehaviourInit /\ [][BehaviourNext]_behaviourVars

-----------------------------------------------------------------------------
\* The file loses an entry only to MaxHistory newer ones: no save of a tracker
\* loaded long ago drops a query that others recorded meanwhile.
OnlyOldestPruned ==
  \A q \in Kept(file) \ Kept(file') :
    q \in Repeated \/ Outdated(file', file.history[q].at)

\* No save of any tracker takes from the file what another has recorded in it: a
\* query that is not among the oldest, a hit of a symbol, or a summary
\* (_merge_from_disk(); COGNIREPO-D09 of the summaries).
NothingTakenBack ==
  [][/\ OnlyOldestPruned
     /\ file'.hits >= file.hits
     /\ file'.summary >= file.summary]_behaviourVars

\* A tracker loaded long ago does not bring a pruned entry back (save(): "a
\* stale writer must not bring pruned entries back"), unless an id that hashes
\* the query was put back to an older recording.
PrunedStaysOut ==
  ~reverted => \A q \in gone \ Repeated : q \notin Kept(file)

\* The buffer outgrows its bound ("capped at 50") by no more than the queries that
\* were put behind a buffer which another had summarized, until the watcher's
\* tracker merges a summary into its copy for the second time.
RingBounded == ~echoed => Len(file.patterns) <= Cap + spliced

\* No recording is in the hits twice, by two trackers, two edits or two merges,
\* unless a save took its mark, or a newer recording of its id, back.
MarksOnce == ~unmarked /\ ~reverted => file.hits = Cardinality(filed)

\* No query is in the buffer that a summary has consumed, unless the watcher has
\* merged summaries into its copy twice.
SummedOnce ==
  ~echoed /\ file.summary # 0 => ToSet(file.patterns) \cap consumed[file.summary] = {}

\* Why: what the copies in memory have of the file and of each other.

Copy == {file} \cup {mem[p] : p \in Tracker}

\* A tracker that is not at work holds nothing.
AtRest ==
  \A p \in Tracker :
    /\ stage[p] = "none" => mem[p] = Empty /\ base[p] = NoBase /\ counted[p] = {}
    /\ stage[p] = "recorded" => p \in Request
    /\ p \in Request => base[p].adopted = 0

\* Recordings, summaries and counts are of the past.
Past ==
  /\ \A x \in Copy :
       /\ \A q \in Query : x.history[q].at <= asked
       /\ ToSet(x.patterns) \subseteq 1 .. asked
       /\ x.summary <= summed
  /\ \A p \in Tracker : counted[p] \subseteq 1 .. asked
  /\ filed \subseteq 1 .. asked /\ summed <= asked
  /\ \A n \in Recording : consumed[n] \subseteq 1 .. asked

\* A recording is of one query, and a query that is no repetition has one.
OneQuery ==
  \A x, y \in Copy : \A q \in Kept(x), r \in Query :
    x.history[q].at = y.history[r].at => q = r
OneRecording ==
  \A x, y \in Copy : \A q \in (Kept(x) \cap Kept(y)) \ Repeated :
    x.history[q].at = y.history[q].at

\* A pruned entry that a tracker still holds is outdated by the file.
GoneOutdated ==
  ~reverted => \A p \in Tracker : \A q \in (gone \cap Kept(mem[p])) \ Repeated :
    Outdated(file, mem[p].history[q].at)

\* The hits of copy x are those of C, once each: what x has of C is marked, and
\* what others have of it x has too, newer, or has no room for.
CountSound(x, C) ==
  /\ x.hits = Cardinality(C)
  /\ \A q \in Query : x.history[q].at \in C => x.history[q].useful
  /\ \A y \in Copy : \A q \in Query : y.history[q].at \in C =>
       x.history[q].at >= y.history[q].at \/ Outdated(x, y.history[q].at)
CountsSound ==
  ~unmarked /\ ~reverted =>
    CountSound(file, filed) /\ \A p \in Tracker : CountSound(mem[p], counted[p])

\* Summaries only follow each other.
SummariesRise ==
  \A p \in Tracker : base[p].summary <= file.summary /\ base[p].summary <= mem[p].summary

\* What a tracker appended to the buffer it loaded is at most its own query, and
\* nobody else has that.
AppendedOwn ==
  \A p \in Tracker :
    /\ stage[p] = "loaded" /\ base[p].adopted = 0 => Len(mem[p].patterns) = base[p].length
    /\ stage[p] = "recorded" =>
         /\ Len(Appended(p, mem[p])) <= 1
         /\ \A n \in ToSet(Appended(p, mem[p])) :
              /\ n \notin ToSet(file.patterns)
              /\ \A t \in Tracker \ {p} : n \notin ToSet(mem[t].patterns)
              /\ \A k \in Recording : n \notin consumed[k]

\* The buffers in memory are as those of the file.
BuffersSound ==
  ~echoed => \A x \in Copy :
    /\ Len(x.patterns) <= Cap + spliced
    /\ x.summary # 0 => ToSet(x.patterns) \cap consumed[x.summary] = {}

\* What is bounded stays so in every interleaving of saves, with the types of
\* all state: the history, the buffer (prune(), record_query()).
BoundedInv ==
  /\ BehaviourTypeOK /\ AtRest /\ Past /\ OneQuery /\ OneRecording
  /\ PrunedStaysOut /\ GoneOutdated
  /\ RingBounded /\ SummariesRise /\ AppendedOwn

\* No recording counts twice, neither as a hit nor as an example of the style, by
\* two trackers, two edits or two merges, but for the exceptions named in the parts.
CountedOnce == MarksOnce /\ CountsSound /\ SummedOnce /\ BuffersSound
=============================================================================
