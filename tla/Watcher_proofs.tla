---------------------------- MODULE Watcher_proofs ----------------------------
(***************************************************************************)
(* Proofs about the watchers.  About Watcher, for any source tree, any     *)
(* number of timers and any number of changes and failures: no event is    *)
(* lost between the observer, the timers, the flushes and the shutdown,    *)
(* and a trail without an error means that both stores are saved and       *)
(* agree.  About WatcherLease, for any number of processes and signals:    *)
(* who holds the lease, who is registered and what a clean-up leaves       *)
(* behind.                                                                 *)
(***************************************************************************)
EXTENDS Watcher, WatcherLease, TLAPS

Call == {"reindex", "remove"} \X File

-----------------------------------------------------------------------------
\* The observer has more to tell: of the files it tells of, how they are now.
LEMMA Told ==
  ASSUME EventsInv, NEW q \in Seq(Call), calls' = calls \o q,
         \A k \in DOMAIN q : RightKind(q[k][2], q[k][1])',
         \A h \in File : (\A k \in DOMAIN q : q[k][2] # h) => src'[h] = src[h],
         UNCHANGED <<pending, batch, unread, mem>>
  PROVE  ChangeTracked'
<1> USE DEF Call
<1>1. calls \in Seq(Call)
  BY DEF EventsInv, TypeOK
<1>2. /\ DOMAIN calls = 1 .. Len(calls) /\ DOMAIN q = 1 .. Len(q)
      /\ Len(calls) \in Nat /\ Len(q) \in Nat
      /\ DOMAIN calls' = 1 .. Len(calls) + Len(q)
      /\ \A i \in DOMAIN calls : calls'[i] = calls[i]
      /\ \A k \in DOMAIN q : calls'[Len(calls) + k] = q[k]
  BY <1>1
<1>3. \A i \in DOMAIN calls' \ DOMAIN calls :
        i - Len(calls) \in DOMAIN q /\ calls'[i] = q[i - Len(calls)]
  BY <1>2
<1> SUFFICES ASSUME NEW h \in File
             PROVE  /\ \A i \in DOMAIN calls' : LastCall(h, i)' => RightKind(h, calls[i][1])'
                    /\ Unheard(h)' =>
                         IF OnItsWay(h)' # "none" THEN RightKind(h, OnItsWay(h))'
                         ELSE h \in unread' \/ mem'.index[h] = src'[h]
  BY DEF ChangeTracked
<1>4. CASE \E k \in DOMAIN q : q[k][2] = h
  <2>1. PICK k \in DOMAIN q : q[k][2] = h
    BY <1>4
  <2>2. Len(calls) + k \in DOMAIN calls' /\ calls'[Len(calls) + k][2] = h
    BY <1>2, <2>1
  <2>3. \A i \in DOMAIN calls : i < Len(calls) + k
    BY <1>2
  <2>4. \A i \in DOMAIN calls' : LastCall(h, i)' => i \notin DOMAIN calls
    BY <2>2, <2>3 DEF LastCall
  <2>5. \A i \in DOMAIN calls' : LastCall(h, i)' => RightKind(h, calls[i][1])'
    BY <1>3, <2>4 DEF LastCall, RightKind
  <2>6. ~Unheard(h)'
    BY <2>2 DEF Unheard
  <2> QED BY <2>5, <2>6
<1>5. CASE \A k \in DOMAIN q : q[k][2] # h
  <2>1. src'[h] = src[h]
    BY <1>5
  <2>2. \A i \in DOMAIN calls' : LastCall(h, i)' => i \in DOMAIN calls /\ LastCall(h, i)
    BY <1>2, <1>3, <1>5 DEF LastCall
  <2>3. \A i \in DOMAIN calls' : LastCall(h, i)' => RightKind(h, calls[i][1])'
    BY <1>2, <2>1, <2>2 DEF EventsInv, ChangeTracked, RightKind
  <2>4. Unheard(h)' => Unheard(h)
    BY <1>2 DEF Unheard
  <2> QED BY <2>1, <2>3, <2>4 DEF EventsInv, ChangeTracked, RightKind, OnItsWay
<1> QED BY <1>4, <1>5

\* The observer has made the first of its calls: what it told is on its way.
LEMMA Taken ==
  ASSUME EventsInv, calls # <<>>, calls' = Tail(calls), UNCHANGED <<src, mem, unread>>,
         \A h \in File :
           OnItsWay(h)' = IF h = Head(calls)[2] THEN Head(calls)[1] ELSE OnItsWay(h)
  PROVE  ChangeTracked'
<1> USE DEF Call
<1>1. calls \in Seq(Call)
  BY DEF EventsInv, TypeOK
<1>2. /\ DOMAIN calls = 1 .. Len(calls) /\ Len(calls) \in Nat /\ 1 \in DOMAIN calls
      /\ DOMAIN calls' = 1 .. Len(calls) - 1
      /\ \A i \in DOMAIN calls' : i + 1 \in DOMAIN calls /\ calls'[i] = calls[i + 1]
      /\ Head(calls) = calls[1] /\ calls[1] \in Call
  BY <1>1
<1>3. \A i \in DOMAIN calls : i # 1 => i - 1 \in DOMAIN calls' /\ calls[i] = calls'[i - 1]
  BY <1>2
<1> SUFFICES ASSUME NEW h \in File
             PROVE  /\ \A i \in DOMAIN calls' : LastCall(h, i)' => RightKind(h, calls[i][1])'
                    /\ Unheard(h)' =>
                         IF OnItsWay(h)' # "none" THEN RightKind(h, OnItsWay(h))'
                         ELSE h \in unread' \/ mem'.index[h] = src'[h]
  BY DEF ChangeTracked
<1>4. \A i \in DOMAIN calls' : LastCall(h, i)' => RightKind(h, calls[i][1])'
  <2> SUFFICES ASSUME NEW i \in DOMAIN calls', LastCall(h, i)'
               PROVE  RightKind(h, calls[i][1])'
    OBVIOUS
  <2>1. \A j \in DOMAIN calls : j > i + 1 => calls[j][2] # h
    <3> SUFFICES ASSUME NEW j \in DOMAIN calls, j > i + 1 PROVE calls[j][2] # h
      OBVIOUS
    <3>1. j - 1 \in DOMAIN calls' /\ calls[j] = calls'[j - 1] /\ j - 1 > i
      BY <1>2, <1>3
    <3> QED BY <3>1 DEF LastCall
  <2>2. LastCall(h, i + 1) /\ i + 1 \in DOMAIN calls
    BY <1>2, <2>1 DEF LastCall
  <2>3. RightKind(h, calls[i + 1][1])
    BY <2>2 DEF EventsInv, ChangeTracked
  <2> QED BY <1>2, <2>3 DEF RightKind
<1>5. CASE Unheard(h)' /\ h = Head(calls)[2]
  <2>1. LastCall(h, 1)
    <3>1. \A j \in DOMAIN calls : j > 1 => calls[j][2] # h
      BY <1>3, <1>5 DEF Unheard
    <3> QED BY <1>2, <1>5, <3>1 DEF LastCall
  <2>2. RightKind(h, calls[1][1])
    BY <1>2, <2>1 DEF EventsInv, ChangeTracked
  <2>3. OnItsWay(h)' = calls[1][1] /\ calls[1][1] # "none"
    BY <1>2, <1>5
  <2> QED BY <1>4, <2>2, <2>3 DEF RightKind
<1>6. CASE Unheard(h)' /\ h # Head(calls)[2]
  <2>1. Unheard(h)
    <3>1. \A i \in DOMAIN calls : i # 1 => calls[i][2] # h
      BY <1>3, <1>6 DEF Unheard
    <3> QED BY <1>2, <1>6, <3>1 DEF Unheard
  <2>2. OnItsWay(h)' = OnItsWay(h)
    BY <1>6
  <2> QED BY <1>4, <2>1, <2>2 DEF EventsInv, ChangeTracked, RightKind
<1> QED BY <1>4, <1>5, <1>6

\* Every step keeps the types, one armed timer and one holder of the flush lock.
LEMMA TypeStep == EventsInv /\ [Next]_vars => TypeOK'
<1> SUFFICES ASSUME EventsInv, [Next]_vars PROVE TypeOK'
  OBVIOUS
<1> USE VersionsAssumption, SeedsAssumption, ThreadAssumption, BoundAssumption DEF
          EventsInv, TypeOK, Content, Nothing, Actions, Stores, world, queue, body,
          stores
<1>0. CASE UNCHANGED vars
  BY <1>0 DEF vars
<1>1. ASSUME NEW f \in File, Write(f) PROVE TypeOK'
  BY <1>1 DEF Write, Changed
<1>2. ASSUME NEW f \in File, Touch(f) PROVE TypeOK'
  BY <1>2 DEF Touch, Changed
<1>3. ASSUME NEW f \in File, Delete(f) PROVE TypeOK'
  BY <1>3 DEF Delete, Changed
<1>4. ASSUME NEW f \in File, NEW g \in File, Move(f, g) PROVE TypeOK'
  <2>1. calls' = calls \o <<<<"remove", f>>, <<"reindex", g>>>> /\ edits' \in 0 .. MaxEdits
    BY <1>4 DEF Move, Changed
  <2>2. calls' \in Seq(Call)
    BY <2>1 DEF Call
  <2>3. src' \in [File -> Content]
    BY <1>4 DEF Move, Changed
  <2> QED BY <1>4, <2>1, <2>2, <2>3 DEF Move, Changed, Call
<1>5. CASE Queue
  BY <1>5 DEF Queue, Armed, Cancelled, Gathered
<1>6. CASE QueueNow
  BY <1>6 DEF QueueNow
<1>7. ASSUME NEW t \in Timer, Fire(t) PROVE TypeOK'
  BY <1>7 DEF Fire
<1>8. ASSUME NEW thread \in Timer \cup {Main}, Begin(thread) PROVE TypeOK'
  BY <1>8 DEF Begin, Cancelled
<1>9. ASSUME NEW f \in File, Reindex(f) PROVE TypeOK'
  BY <1>9 DEF Reindex, Handled, Indexed
<1>10. ASSUME NEW f \in File, ReindexMissing(f) PROVE TypeOK'
  BY <1>10 DEF ReindexMissing, Handled, Raised
<1>11. ASSUME NEW f \in File, ReindexFails(f) PROVE TypeOK'
  <2>1. PICK v \in {0, src[f]} : mem' = [mem EXCEPT !.graph[f] = v]
    BY <1>11 DEF ReindexFails
  <2>2. mem' \in Stores
    BY <2>1
  <2>3. /\ batch' = [batch EXCEPT ![f] = "none"] /\ unread' = unread \cup {f}
        /\ fails' = fails + 1
    BY <1>11 DEF ReindexFails, Handled
  <2>4. batch' \in [File -> Actions] /\ unread' \subseteq File /\ fails' \in 0 .. MaxFails
    BY <1>11, <2>3 DEF ReindexFails
  <2>5. pc' \in {pc, "stale"} /\ pc = "mutate"
    BY <1>11 DEF ReindexFails, Raised
  <2> QED BY <1>11, <2>2, <2>4, <2>5 DEF ReindexFails, Handled
<1>12. ASSUME NEW f \in File, Remove(f) PROVE TypeOK'
  BY <1>12 DEF Remove, Handled, Without
<1>13. CASE Mutated
  BY <1>13 DEF Mutated
<1>14. CASE SaveIndex
  BY <1>14 DEF SaveIndex
<1>15. CASE SaveIndexFails
  BY <1>15 DEF SaveIndexFails, Onward
<1>16. CASE Skipped
  BY <1>16 DEF Skipped
<1>17. CASE SaveGraph
  BY <1>17 DEF SaveGraph, AfterGraph
<1>18. CASE SaveGraphShed
  BY <1>18 DEF SaveGraphShed
<1>19. CASE SaveGraphFails
  BY <1>19 DEF SaveGraphFails, Onward
<1>20. CASE WriteTrail
  BY <1>20 DEF WriteTrail
<1>21. CASE Finish
  BY <1>21 DEF Finish, LeftHolder
<1>22. CASE RequestStop
  BY <1>22 DEF RequestStop
<1>23. CASE StopObserver
  BY <1>23 DEF StopObserver
<1> QED
  BY <1>0, <1>1, <1>2, <1>3, <1>4, <1>5, <1>6, <1>7, <1>8, <1>9, <1>10, <1>11,
     <1>12, <1>13, <1>14, <1>15, <1>16, <1>17, <1>18, <1>19, <1>20, <1>21,
     <1>22, <1>23 DEF Next, Change, Observe, FireAny, BeginAny, Mutate,
     Persist

\* The batch belongs to the flush that changes the stores.
LEMMA BatchStep == EventsInv /\ [Next]_vars => BatchOwned'
<1> SUFFICES ASSUME EventsInv, [Next]_vars PROVE BatchOwned'
  OBVIOUS
<1> USE ThreadAssumption DEF EventsInv, TypeOK, BatchOwned, Content, Nothing, Actions,
          world, queue, body, stores
<1>0. CASE UNCHANGED vars
  BY <1>0 DEF vars
<1>1. ASSUME NEW f \in File, Write(f) PROVE BatchOwned'
  BY <1>1 DEF Write, Changed
<1>2. ASSUME NEW f \in File, Touch(f) PROVE BatchOwned'
  BY <1>2 DEF Touch, Changed
<1>3. ASSUME NEW f \in File, Delete(f) PROVE BatchOwned'
  BY <1>3 DEF Delete, Changed
<1>4. ASSUME NEW f \in File, NEW g \in File, Move(f, g) PROVE BatchOwned'
  BY <1>4 DEF Move, Changed
<1>5. CASE Queue
  BY <1>5 DEF Queue, Armed, Cancelled, Gathered
<1>6. CASE QueueNow
  BY <1>6 DEF QueueNow
<1>7. ASSUME NEW t \in Timer, Fire(t) PROVE BatchOwned'
  BY <1>7 DEF Fire
<1>8. ASSUME NEW thread \in Timer \cup {Main}, Begin(thread) PROVE BatchOwned'
  BY <1>8 DEF Begin, Cancelled
<1>9. ASSUME NEW f \in File, Reindex(f) PROVE BatchOwned'
  BY <1>9 DEF Reindex, Handled, Indexed
<1>10. ASSUME NEW f \in File, ReindexMissing(f) PROVE BatchOwned'
  BY <1>10 DEF ReindexMissing, Handled, Raised
<1>11. ASSUME NEW f \in File, ReindexFails(f) PROVE BatchOwned'
  BY <1>11 DEF ReindexFails, Handled, Raised
<1>12. ASSUME NEW f \in File, Remove(f) PROVE BatchOwned'
  BY <1>12 DEF Remove, Handled, Without
<1>13. CASE Mutated
  BY <1>13 DEF Mutated
<1>14. CASE SaveIndex
  BY <1>14 DEF SaveIndex
<1>15. CASE SaveIndexFails
  BY <1>15 DEF SaveIndexFails, Onward
<1>16. CASE Skipped
  BY <1>16 DEF Skipped
<1>17. CASE SaveGraph
  BY <1>17 DEF SaveGraph, AfterGraph
<1>18. CASE SaveGraphShed
  BY <1>18 DEF SaveGraphShed
<1>19. CASE SaveGraphFails
  BY <1>19 DEF SaveGraphFails, Onward
<1>20. CASE WriteTrail
  BY <1>20 DEF WriteTrail
<1>21. CASE Finish
  BY <1>21 DEF Finish, LeftHolder
<1>22. CASE RequestStop
  BY <1>22 DEF RequestStop
<1>23. CASE StopObserver
  BY <1>23 DEF StopObserver
<1> QED
  BY <1>0, <1>1, <1>2, <1>3, <1>4, <1>5, <1>6, <1>7, <1>8, <1>9, <1>10, <1>11,
     <1>12, <1>13, <1>14, <1>15, <1>16, <1>17, <1>18, <1>19, <1>20, <1>21,
     <1>22, <1>23 DEF Next, Change, Observe, FireAny, BeginAny, Mutate,
     Persist

\* The shutdown leaves behind only what came after its flush had begun.
LEMMA StopStep == EventsInv /\ [Next]_vars => (StopTracked /\ StopFlushes)'
<1> SUFFICES ASSUME EventsInv, [Next]_vars PROVE (StopTracked /\ StopFlushes)'
  OBVIOUS
<1> USE ThreadAssumption DEF EventsInv, TypeOK, BatchOwned, StopTracked, StopFlushes,
          Content, Nothing, Running, world, queue, body, stores
<1>0. CASE UNCHANGED vars
  BY <1>0 DEF vars
<1>1. ASSUME NEW f \in File, Write(f) PROVE (StopTracked /\ StopFlushes)'
  BY <1>1 DEF Write, Changed
<1>2. ASSUME NEW f \in File, Touch(f) PROVE (StopTracked /\ StopFlushes)'
  BY <1>2 DEF Touch, Changed
<1>3. ASSUME NEW f \in File, Delete(f) PROVE (StopTracked /\ StopFlushes)'
  BY <1>3 DEF Delete, Changed
<1>4. ASSUME NEW f \in File, NEW g \in File, Move(f, g) PROVE (StopTracked /\ StopFlushes)'
  BY <1>4 DEF Move, Changed
<1>5. CASE Queue
  BY <1>5 DEF Queue, Armed, Cancelled, Gathered
<1>6. CASE QueueNow
  BY <1>6 DEF QueueNow
<1>7. ASSUME NEW t \in Timer, Fire(t) PROVE (StopTracked /\ StopFlushes)'
  BY <1>7 DEF Fire
<1>8. ASSUME NEW thread \in Timer \cup {Main}, Begin(thread) PROVE (StopTracked /\ StopFlushes)'
  BY <1>8 DEF Begin, Cancelled
<1>9. ASSUME NEW f \in File, Reindex(f) PROVE (StopTracked /\ StopFlushes)'
  BY <1>9 DEF Reindex, Handled, Indexed
<1>10. ASSUME NEW f \in File, ReindexMissing(f) PROVE (StopTracked /\ StopFlushes)'
  BY <1>10 DEF ReindexMissing, Handled, Raised
<1>11. ASSUME NEW f \in File, ReindexFails(f) PROVE (StopTracked /\ StopFlushes)'
  BY <1>11 DEF ReindexFails, Handled, Raised
<1>12. ASSUME NEW f \in File, Remove(f) PROVE (StopTracked /\ StopFlushes)'
  BY <1>12 DEF Remove, Handled, Without
<1>13. CASE Mutated
  BY <1>13 DEF Mutated
<1>14. CASE SaveIndex
  BY <1>14 DEF SaveIndex
<1>15. CASE SaveIndexFails
  BY <1>15 DEF SaveIndexFails, Onward
<1>16. CASE Skipped
  BY <1>16 DEF Skipped
<1>17. CASE SaveGraph
  BY <1>17 DEF SaveGraph, AfterGraph
<1>18. CASE SaveGraphShed
  BY <1>18 DEF SaveGraphShed
<1>19. CASE SaveGraphFails
  BY <1>19 DEF SaveGraphFails, Onward
<1>20. CASE WriteTrail
  BY <1>20 DEF WriteTrail
<1>21. CASE Finish
  BY <1>21 DEF Finish, LeftHolder
<1>22. CASE RequestStop
  BY <1>22 DEF RequestStop
<1>23. CASE StopObserver
  <2>1. /\ main = "stopObserver" /\ main' = "exited" /\ holder # Emitter
        /\ UNCHANGED <<holder, pending, batch, late>>
    BY <1>23 DEF StopObserver, MayStop
  <2>2. \A f \in File : (pending[f] # "none" => f \in late) /\ (batch[f] # "none" => f \in late)
    BY <2>1
  <2> QED BY <2>1, <2>2
<1> QED
  BY <1>0, <1>1, <1>2, <1>3, <1>4, <1>5, <1>6, <1>7, <1>8, <1>9, <1>10, <1>11,
     <1>12, <1>13, <1>14, <1>15, <1>16, <1>17, <1>18, <1>19, <1>20, <1>21,
     <1>22, <1>23 DEF Next, Change, Observe, FireAny, BeginAny, Mutate,
     Persist

\* A flush reports what it has not saved.
LEMMA SavesStep == EventsInv /\ [Next]_vars => (SavesReported /\ CleanTrailSaved)'
<1> SUFFICES ASSUME EventsInv, [Next]_vars PROVE (SavesReported /\ CleanTrailSaved)'
  OBVIOUS
<1> USE ThreadAssumption DEF EventsInv, TypeOK, SavesReported, CleanTrailSaved,
          IndexSaved, GraphSaved, world, queue, body, stores
<1>0. CASE UNCHANGED vars
  BY <1>0 DEF vars
<1>1. ASSUME NEW f \in File, Write(f) PROVE (SavesReported /\ CleanTrailSaved)'
  BY <1>1 DEF Write, Changed
<1>2. ASSUME NEW f \in File, Touch(f) PROVE (SavesReported /\ CleanTrailSaved)'
  BY <1>2 DEF Touch, Changed
<1>3. ASSUME NEW f \in File, Delete(f) PROVE (SavesReported /\ CleanTrailSaved)'
  BY <1>3 DEF Delete, Changed
<1>4. ASSUME NEW f \in File, NEW g \in File, Move(f, g) PROVE (SavesReported /\ CleanTrailSaved)'
  BY <1>4 DEF Move, Changed
<1>5. CASE Queue
  BY <1>5 DEF Queue, Armed, Cancelled, Gathered
<1>6. CASE QueueNow
  BY <1>6 DEF QueueNow
<1>7. ASSUME NEW t \in Timer, Fire(t) PROVE (SavesReported /\ CleanTrailSaved)'
  BY <1>7 DEF Fire
<1>8. ASSUME NEW thread \in Timer \cup {Main}, Begin(thread) PROVE (SavesReported /\ CleanTrailSaved)'
  BY <1>8 DEF Begin, Cancelled
<1>9. ASSUME NEW f \in File, Reindex(f) PROVE (SavesReported /\ CleanTrailSaved)'
  BY <1>9 DEF Reindex, Handled, Indexed
<1>10. ASSUME NEW f \in File, ReindexMissing(f) PROVE (SavesReported /\ CleanTrailSaved)'
  BY <1>10 DEF ReindexMissing, Handled, Raised
<1>11. ASSUME NEW f \in File, ReindexFails(f) PROVE (SavesReported /\ CleanTrailSaved)'
  BY <1>11 DEF ReindexFails, Handled, Raised
<1>12. ASSUME NEW f \in File, Remove(f) PROVE (SavesReported /\ CleanTrailSaved)'
  BY <1>12 DEF Remove, Handled, Without
<1>13. CASE Mutated
  BY <1>13 DEF Mutated
<1>14. CASE SaveIndex
  BY <1>14 DEF SaveIndex
<1>15. CASE SaveIndexFails
  BY <1>15 DEF SaveIndexFails, Onward
<1>16. CASE Skipped
  BY <1>16 DEF Skipped
<1>17. CASE SaveGraph
  BY <1>17 DEF SaveGraph, AfterGraph
<1>18. CASE SaveGraphShed
  BY <1>18 DEF SaveGraphShed
<1>19. CASE SaveGraphFails
  BY <1>19 DEF SaveGraphFails, Onward
<1>20. CASE WriteTrail
  BY <1>20 DEF WriteTrail
<1>21. CASE Finish
  BY <1>21 DEF Finish, LeftHolder
<1>22. CASE RequestStop
  BY <1>22 DEF RequestStop
<1>23. CASE StopObserver
  BY <1>23 DEF StopObserver
<1> QED
  BY <1>0, <1>1, <1>2, <1>3, <1>4, <1>5, <1>6, <1>7, <1>8, <1>9, <1>10, <1>11,
     <1>12, <1>13, <1>14, <1>15, <1>16, <1>17, <1>18, <1>19, <1>20, <1>21,
     <1>22, <1>23 DEF Next, Change, Observe, FireAny, BeginAny, Mutate,
     Persist

\* In memory the graph follows the index.
LEMMA FollowsStep == EventsInv /\ [Next]_vars => GraphFollows'
<1> SUFFICES ASSUME EventsInv, [Next]_vars PROVE GraphFollows'
  OBVIOUS
<1> USE VersionsAssumption DEF EventsInv, TypeOK, GraphFollows, Stores, Content,
          world, queue, body, stores
<1>0. CASE UNCHANGED vars
  BY <1>0 DEF vars
<1>1. ASSUME NEW f \in File, Write(f) PROVE GraphFollows'
  BY <1>1 DEF Write, Changed
<1>2. ASSUME NEW f \in File, Touch(f) PROVE GraphFollows'
  BY <1>2 DEF Touch, Changed
<1>3. ASSUME NEW f \in File, Delete(f) PROVE GraphFollows'
  BY <1>3 DEF Delete, Changed
<1>4. ASSUME NEW f \in File, NEW g \in File, Move(f, g) PROVE GraphFollows'
  BY <1>4 DEF Move, Changed
<1>5. CASE Queue
  BY <1>5 DEF Queue, Armed, Cancelled, Gathered
<1>6. CASE QueueNow
  BY <1>6 DEF QueueNow
<1>7. ASSUME NEW t \in Timer, Fire(t) PROVE GraphFollows'
  BY <1>7 DEF Fire
<1>8. ASSUME NEW thread \in Timer \cup {Main}, Begin(thread) PROVE GraphFollows'
  BY <1>8 DEF Begin, Cancelled
<1>9. ASSUME NEW f \in File, Reindex(f) PROVE GraphFollows'
  BY <1>9 DEF Reindex, Handled, Indexed
<1>10. ASSUME NEW f \in File, ReindexMissing(f) PROVE GraphFollows'
  BY <1>10 DEF ReindexMissing, Handled, Raised
<1>11. ASSUME NEW f \in File, ReindexFails(f) PROVE GraphFollows'
  BY <1>11 DEF ReindexFails, Handled, Raised
<1>12. ASSUME NEW f \in File, Remove(f) PROVE GraphFollows'
  BY <1>12 DEF Remove, Handled, Without
<1>13. CASE Mutated
  BY <1>13 DEF Mutated
<1>14. CASE SaveIndex
  BY <1>14 DEF SaveIndex
<1>15. CASE SaveIndexFails
  BY <1>15 DEF SaveIndexFails, Onward
<1>16. CASE Skipped
  BY <1>16 DEF Skipped
<1>17. CASE SaveGraph
  BY <1>17 DEF SaveGraph, AfterGraph
<1>18. CASE SaveGraphShed
  BY <1>18 DEF SaveGraphShed
<1>19. CASE SaveGraphFails
  BY <1>19 DEF SaveGraphFails, Onward
<1>20. CASE WriteTrail
  BY <1>20 DEF WriteTrail
<1>21. CASE Finish
  BY <1>21 DEF Finish, LeftHolder
<1>22. CASE RequestStop
  BY <1>22 DEF RequestStop
<1>23. CASE StopObserver
  BY <1>23 DEF StopObserver
<1> QED
  BY <1>0, <1>1, <1>2, <1>3, <1>4, <1>5, <1>6, <1>7, <1>8, <1>9, <1>10, <1>11,
     <1>12, <1>13, <1>14, <1>15, <1>16, <1>17, <1>18, <1>19, <1>20, <1>21,
     <1>22, <1>23 DEF Next, Change, Observe, FireAny, BeginAny, Mutate,
     Persist

\* No change is lost.
LEMMA TrackedStep == EventsInv /\ [Next]_vars => ChangeTracked'
<1> SUFFICES ASSUME EventsInv, [Next]_vars PROVE ChangeTracked'
  OBVIOUS
<1> USE VersionsAssumption, ThreadAssumption DEF EventsInv, TypeOK, BatchOwned,
          ChangeTracked, LastCall, Unheard, OnItsWay, RightKind, Stores, Content,
          Nothing, Actions, world, queue, body, stores
<1>0. CASE UNCHANGED vars
  BY <1>0 DEF vars
<1>1. ASSUME NEW f \in File, Write(f) PROVE ChangeTracked'
  <2> DEFINE q == <<<<"reindex", f>>>>
  <2>1. calls' = calls \o q /\ UNCHANGED <<pending, batch, unread, mem>>
    BY <1>1 DEF Write, Changed
  <2>2. q \in Seq(Call)
    BY DEF Call
  <2>3. \A k \in DOMAIN q : RightKind(q[k][2], q[k][1])'
    BY <1>1 DEF Write, Changed
  <2>4. \A h \in File : (\A k \in DOMAIN q : q[k][2] # h) => src'[h] = src[h]
    BY <1>1 DEF Write, Changed
  <2> HIDE DEF q, EventsInv, RightKind
  <2> QED BY <2>1, <2>2, <2>3, <2>4, Told
<1>2. ASSUME NEW f \in File, Touch(f) PROVE ChangeTracked'
  <2> DEFINE q == <<<<"reindex", f>>>>
  <2>1. calls' = calls \o q /\ UNCHANGED <<pending, batch, unread, mem>>
    BY <1>2 DEF Touch, Changed
  <2>2. q \in Seq(Call)
    BY DEF Call
  <2>3. \A k \in DOMAIN q : RightKind(q[k][2], q[k][1])'
    BY <1>2 DEF Touch, Changed
  <2>4. \A h \in File : (\A k \in DOMAIN q : q[k][2] # h) => src'[h] = src[h]
    BY <1>2 DEF Touch, Changed
  <2> HIDE DEF q, EventsInv, RightKind
  <2> QED BY <2>1, <2>2, <2>3, <2>4, Told
<1>3. ASSUME NEW f \in File, Delete(f) PROVE ChangeTracked'
  <2> DEFINE q == <<<<"remove", f>>>>
  <2>1. calls' = calls \o q /\ UNCHANGED <<pending, batch, unread, mem>>
    BY <1>3 DEF Delete, Changed
  <2>2. q \in Seq(Call)
    BY DEF Call
  <2>3. \A k \in DOMAIN q : RightKind(q[k][2], q[k][1])'
    BY <1>3 DEF Delete, Changed
  <2>4. \A h \in File : (\A k \in DOMAIN q : q[k][2] # h) => src'[h] = src[h]
    BY <1>3 DEF Delete, Changed
  <2> HIDE DEF q, EventsInv, RightKind
  <2> QED BY <2>1, <2>2, <2>3, <2>4, Told
<1>4. ASSUME NEW f \in File, NEW g \in File, Move(f, g) PROVE ChangeTracked'
  <2> DEFINE q == <<<<"remove", f>>, <<"reindex", g>>>>
  <2>1. calls' = calls \o q /\ UNCHANGED <<pending, batch, unread, mem>>
    BY <1>4 DEF Move, Changed
  <2>2. q \in Seq(Call)
    BY DEF Call
  <2>3. \A k \in DOMAIN q : RightKind(q[k][2], q[k][1])'
    BY <1>4 DEF Move, Changed
  <2>4. \A h \in File : (\A k \in DOMAIN q : q[k][2] # h) => src'[h] = src[h]
    BY <1>4 DEF Move, Changed
  <2> HIDE DEF q, EventsInv, RightKind
  <2> QED BY <2>1, <2>2, <2>3, <2>4, Told
<1>5. CASE Queue
  <2>1. calls # <<>> /\ calls' = Tail(calls) /\ UNCHANGED <<src, mem, unread>>
    BY <1>5 DEF Queue
  <2>2. pending' = [pending EXCEPT ![Head(calls)[2]] = Head(calls)[1]] /\ batch' = batch
    BY <1>5 DEF Queue, Gathered
  <2>3. Head(calls) \in Call
    BY <2>1 DEF Call
  <2>4. ASSUME NEW h \in File
        PROVE  OnItsWay(h)' = IF h = Head(calls)[2] THEN Head(calls)[1] ELSE OnItsWay(h)
    BY <2>2, <2>3 DEF Call
  <2> QED BY <2>1, <2>4, Taken
<1>6. CASE QueueNow
  <2>1. calls # <<>> /\ calls' = Tail(calls) /\ UNCHANGED <<src, mem, unread>>
    BY <1>6 DEF QueueNow
  <2>2. /\ batch' = [Nothing EXCEPT ![Head(calls)[2]] = Head(calls)[1]]
        /\ pending' = pending /\ pending = Nothing /\ batch = Nothing
    BY <1>6 DEF QueueNow
  <2>3. Head(calls) \in Call
    BY <2>1 DEF Call
  <2>4. ASSUME NEW h \in File
        PROVE  OnItsWay(h)' = IF h = Head(calls)[2] THEN Head(calls)[1] ELSE OnItsWay(h)
    BY <2>2, <2>3 DEF Call
  <2> QED BY <2>1, <2>4, Taken
<1>7. ASSUME NEW t \in Timer, Fire(t) PROVE ChangeTracked'
  BY <1>7 DEF Fire
<1>8. ASSUME NEW thread \in Timer \cup {Main}, Begin(thread) PROVE ChangeTracked'
  BY <1>8 DEF Begin, Cancelled
<1>9. ASSUME NEW f \in File, Reindex(f) PROVE ChangeTracked'
  BY <1>9 DEF Reindex, Handled, Indexed
<1>10. ASSUME NEW f \in File, ReindexMissing(f) PROVE ChangeTracked'
  BY <1>10 DEF ReindexMissing, Handled, Raised
<1>11. ASSUME NEW f \in File, ReindexFails(f) PROVE ChangeTracked'
  BY <1>11 DEF ReindexFails, Handled, Raised
<1>12. ASSUME NEW f \in File, Remove(f) PROVE ChangeTracked'
  BY <1>12 DEF Remove, Handled, Without
<1>13. CASE Mutated
  BY <1>13 DEF Mutated
<1>14. CASE SaveIndex
  BY <1>14 DEF SaveIndex
<1>15. CASE SaveIndexFails
  BY <1>15 DEF SaveIndexFails, Onward
<1>16. CASE Skipped
  BY <1>16 DEF Skipped
<1>17. CASE SaveGraph
  BY <1>17 DEF SaveGraph, AfterGraph
<1>18. CASE SaveGraphShed
  BY <1>18 DEF SaveGraphShed
<1>19. CASE SaveGraphFails
  BY <1>19 DEF SaveGraphFails, Onward
<1>20. CASE WriteTrail
  BY <1>20 DEF WriteTrail
<1>21. CASE Finish
  BY <1>21 DEF Finish, LeftHolder
<1>22. CASE RequestStop
  BY <1>22 DEF RequestStop
<1>23. CASE StopObserver
  BY <1>23 DEF StopObserver
<1> QED
  BY <1>0, <1>1, <1>2, <1>3, <1>4, <1>5, <1>6, <1>7, <1>8, <1>9, <1>10, <1>11,
     <1>12, <1>13, <1>14, <1>15, <1>16, <1>17, <1>18, <1>19, <1>20, <1>21,
     <1>22, <1>23 DEF Next, Change, Observe, FireAny, BeginAny, Mutate,
     Persist

-----------------------------------------------------------------------------
\* A watcher that has just started satisfies the invariant.
LEMMA InitInv == Init => EventsInv
<1> SUFFICES ASSUME Init PROVE EventsInv
  OBVIOUS
<1>1. TypeOK
  <2>1. src \in [File -> Content]
    BY VersionsAssumption DEF Init, Content
  <2>2. mem \in Stores /\ disk \in Stores
    BY <2>1 DEF Init, Stores
  <2>3. /\ calls \in Seq({"reindex", "remove"} \X File)
        /\ pending \in [File -> Actions] /\ batch \in [File -> Actions]
        /\ timer \in [Timer -> {"idle", "armed", "fired"}]
    BY DEF Init, Nothing, Actions
  <2>4. edits \in 0 .. MaxEdits /\ fails \in 0 .. MaxFails
    BY BoundAssumption DEF Init
  <2> QED BY <2>1, <2>2, <2>3, <2>4 DEF Init, TypeOK
<1>2. ChangeTracked
  <2>1. \A f \in File : OnItsWay(f) = "none" /\ mem.index[f] = src[f]
    BY DEF Init, OnItsWay, Nothing
  <2>2. DOMAIN calls = {}
    BY DEF Init
  <2> QED BY <2>1, <2>2 DEF ChangeTracked
<1>3. StopFlushes /\ StopTracked
  BY ThreadAssumption DEF Init, StopFlushes, StopTracked
<1>4. CleanTrailSaved /\ SavesReported
  BY DEF Init, CleanTrailSaved, SavesReported
<1>5. BatchOwned /\ GraphFollows
  BY DEF Init, BatchOwned, GraphFollows, Nothing
<1> QED BY <1>1, <1>2, <1>3, <1>4, <1>5 DEF EventsInv

\* Every step keeps it.
LEMMA StepInv == EventsInv /\ [Next]_vars => EventsInv'
BY TypeStep, BatchStep, StopStep, SavesStep, FollowsStep, TrackedStep DEF EventsInv

\* No event is lost between the observer, the timers, the flushes and the shutdown,
\* and a trail without an error means that the saves were done, however many timers,
\* changes and failures there are (_queue(), flush(), _flush_locked(),
\* _flush_and_stop_observer()).
THEOREM EventsSafe == Spec => []EventsInv
BY InitInv, StepInv, PTL DEF Spec

\* Between flushes without an error the graph on disk describes no other version of
\* a file than the index on disk does (_reindex_mutate(), _remove_mutate(), the saves).
THEOREM StoresSafe == Spec => []StoresAgree
<1>1. EventsInv => StoresAgree
  BY DEF EventsInv, CleanTrailSaved, GraphFollows, StoresAgree
<1> QED BY <1>1, EventsSafe, PTL

-----------------------------------------------------------------------------
(* WatcherLease: who holds the lease, who is registered and what is left.  *)

\* Every step keeps the types, and the lock in the hands of a live process.
LEMMA LeaseTypeStep == IInv /\ [LeaseNext]_leaseVars => LeaseTypeOK'
<1> SUFFICES ASSUME IInv, [LeaseNext]_leaseVars PROVE LeaseTypeOK'
  OBVIOUS
<1> USE ProcAssumption, SignalAssumption DEF IInv, LeaseTypeOK, LeaseInv, ThreadInv, RegInv, Holding, Late, Starting, Guarded, Cleaning, Alive, Goto
<1>1. CASE UNCHANGED leaseVars
  BY <1>1 DEF leaseVars, files, threads, client
<1>2. ASSUME NEW p \in Proc, Start(p) \/ Beat(p) \/ Loop(p) PROVE LeaseTypeOK'
  <2>1. CASE StartDaemon(p)
    BY <2>1 DEF StartDaemon, files, threads, client
  <2>2. CASE StartServer(p)
    BY <2>2 DEF StartServer, files, threads, client
  <2>3. CASE Check(p)
    BY <2>3 DEF Check, Purged, files, threads, client
  <2>4. CASE Acquire(p)
    BY <2>4 DEF Acquire, MayAcquire, files, threads, client
  <2>5. CASE Busy(p)
    BY <2>5 DEF Busy, MayAcquire, files, threads, client
  <2>6. CASE Register(p)
    BY <2>6 DEF Register, files, threads, client
  <2>7. CASE Guard(p)
    BY <2>7 DEF Guard, files, threads, client
  <2>8. CASE BeatBegin(p)
    BY <2>8 DEF BeatBegin, BeatDue, files, threads, client
  <2>9. CASE BeatWrite(p)
    BY <2>9 DEF BeatWrite, files, threads, client
  <2>10. CASE Create(p)
    BY <2>10 DEF Create, files, threads, client
  <2>11. CASE CreateFails(p)
    BY <2>11 DEF CreateFails, files, threads, client
  <2>12. CASE Restart(p)
    <3>1. Leave(p) \/ (Goto(p, "create") /\ UNCHANGED <<watchdog, exit>>)
      BY <2>12 DEF Restart
    <3>2. guard[p] = "restart" /\ UNCHANGED <<force, lease, files, beat, beatStop, stopReq, observer, client>>
      BY <2>12 DEF Restart
    <3>3. CASE Leave(p)
      BY <3>2, <3>3 DEF Leave, files, client
    <3>4. CASE Goto(p, "create") /\ UNCHANGED <<watchdog, exit>>
      BY <3>2, <3>4 DEF files, client
    <3> QED BY <3>1, <3>3, <3>4
  <2>13. CASE ObserverDies(p)
    BY <2>13 DEF ObserverDies, Leave, files, threads, client
  <2>14. CASE DirectoryGone(p)
    BY <2>14 DEF DirectoryGone, files, threads, client
  <2>15. CASE Stop(p)
    BY <2>15 DEF Stop, Leave, files, threads, client
  <2>16. CASE StopFails(p)
    BY <2>16 DEF StopFails, Leave, files, threads, client
  <2>17. CASE StopHangs(p)
    BY <2>17 DEF StopHangs, files, threads, client
  <2> QED BY <1>2, <2>1, <2>2, <2>3, <2>4, <2>5, <2>6, <2>7, <2>8, <2>9, <2>10, <2>11, <2>12, <2>13, <2>14, <2>15, <2>16, <2>17 DEF Start, Beat, Loop
<1>3. ASSUME NEW p \in Proc, NEW w \in {"main", "force"}, Clean(p, w) PROVE LeaseTypeOK'
  <2>1. CASE StopBeat(p, w)
    BY <2>1 DEF StopBeat, At, Advance, files, threads, client
  <2>2. CASE JoinBeat(p, w)
    BY <2>2 DEF JoinBeat, Joined, At, Advance, files, threads, client
  <2>3. CASE Unregister(p, w)
    BY <2>3 DEF Unregister, At, Advance, files, threads, client
  <2>4. CASE ReadBeat(p, w)
    BY <2>4 DEF ReadBeat, At, Advance, files, threads, client
  <2>5. CASE ClearBeat(p, w)
    BY <2>5 DEF ClearBeat, At, Advance, files, threads, client
  <2>6. CASE Release(p, w)
    BY <2>6 DEF Release, At, Advance, files, threads, client
  <2> QED BY <1>3, <2>1, <2>2, <2>3, <2>4, <2>5, <2>6 DEF Clean
<1>4. ASSUME NEW p \in Proc, Exit(p) PROVE LeaseTypeOK'
  BY <1>4 DEF Exit, Ended, Freed, files, threads, client
<1>5. ASSUME NEW p \in Proc, ForceExit(p) PROVE LeaseTypeOK'
  BY <1>5 DEF ForceExit, Ended, Freed, files, threads, client
<1>6. ASSUME NEW p \in Proc, WatchdogFires(p) PROVE LeaseTypeOK'
  BY <1>6 DEF WatchdogFires, WatchdogDue, files, threads, client
<1>7. ASSUME NEW p \in Proc, Kill(p) PROVE LeaseTypeOK'
  BY <1>7 DEF Kill, Ended, Freed, files, threads, client
<1>8. ASSUME NEW p \in Proc, Signal(p) \/ CliStop(p) PROVE LeaseTypeOK'
  <2> USE DEF Signal, CliStop, Sigterm, Purged, files, threads, client
  <2>1. CASE guard[p] \in Starting /\ lease = p
    BY <1>8, <2>1 DEF HandleEarly
  <2>2. CASE guard[p] \in Starting /\ lease # p
    BY <1>8, <2>2 DEF HandleEarly
  <2>3. CASE guard[p] \notin Starting /\ stopReq[p]
    BY <1>8, <2>3 DEF Handle
  <2>4. CASE ~stopReq[p] /\ guard[p] = "running"
    <3>1. /\ reg' \subseteq reg /\ UNCHANGED <<force, lease, hb, beat, beatStop, observer>>
          /\ signals' \in 0 .. MaxSignals
          /\ target' \in Proc \cup {Nobody} /\ cli' \in {"wait", cli}
      BY <1>8, <2>4 DEF Handle
    <3>2. stopReq' = [stopReq EXCEPT ![p] = TRUE] /\ watchdog' = [watchdog EXCEPT ![p] = TRUE]
      BY <1>8, <2>4 DEF Handle
    <3>3. guard' = [guard EXCEPT ![p] = "stopping"] /\ exit' = exit
      BY <1>8, <2>4 DEF Handle
    <3>4. stopReq' \in [Proc -> BOOLEAN] /\ watchdog' \in [Proc -> BOOLEAN]
      BY <3>2
    <3>5. Alive(p)
      BY <1>8
    <3>6. guard' \in [Proc -> {"off", "gone", "exiting", "served", "forced"}
                             \cup Starting \cup Guarded \cup Cleaning]
      BY <3>3
    <3>7. lease' \in Proc \cup {Nobody} /\ (lease' # Nobody => Alive(lease)')
      BY <3>1, <3>3, <3>5
    <3>8. exit' \in [Proc -> {"no", "clean", "early", "forced", "killed"}]
      BY <3>3
    <3> HIDE DEF Signal, CliStop, Sigterm
    <3> QED BY <3>1, <3>4, <3>6, <3>7, <3>8
  <2>5. CASE ~stopReq[p] /\ guard[p] \in {"create", "restart"}
    <3>1. /\ reg' \subseteq reg /\ UNCHANGED <<force, lease, hb, beat, beatStop, observer>>
          /\ signals' \in 0 .. MaxSignals
          /\ target' \in Proc \cup {Nobody} /\ cli' \in {"wait", cli}
      BY <1>8, <2>5 DEF Handle
    <3>2. stopReq' = [stopReq EXCEPT ![p] = TRUE] /\ watchdog' = [watchdog EXCEPT ![p] = TRUE]
      BY <1>8, <2>5 DEF Handle
    <3>3. guard' = [guard EXCEPT ![p] = "restart"] /\ exit' = exit
      BY <1>8, <2>5 DEF Handle
    <3>4. stopReq' \in [Proc -> BOOLEAN] /\ watchdog' \in [Proc -> BOOLEAN]
      BY <3>2
    <3>5. Alive(p)
      BY <1>8
    <3>6. guard' \in [Proc -> {"off", "gone", "exiting", "served", "forced"}
                             \cup Starting \cup Guarded \cup Cleaning]
      BY <3>3
    <3>7. lease' \in Proc \cup {Nobody} /\ (lease' # Nobody => Alive(lease)')
      BY <3>1, <3>3, <3>5
    <3>8. exit' \in [Proc -> {"no", "clean", "early", "forced", "killed"}]
      BY <3>3
    <3> HIDE DEF Signal, CliStop, Sigterm
    <3> QED BY <3>1, <3>4, <3>6, <3>7, <3>8
  <2>6. CASE ~stopReq[p] /\ guard[p] \in Cleaning
    <3>1. /\ reg' \subseteq reg /\ UNCHANGED <<force, lease, hb, beat, beatStop, observer>>
          /\ signals' \in 0 .. MaxSignals
          /\ target' \in Proc \cup {Nobody} /\ cli' \in {"wait", cli}
      BY <1>8, <2>6 DEF Handle
    <3>2. stopReq' = [stopReq EXCEPT ![p] = TRUE] /\ watchdog' = [watchdog EXCEPT ![p] = TRUE]
      BY <1>8, <2>6 DEF Handle
    <3>3. guard' = [guard EXCEPT ![p] = "release"] /\ exit' = [exit EXCEPT ![p] = "early"]
      BY <1>8, <2>6 DEF Handle
    <3>4. stopReq' \in [Proc -> BOOLEAN] /\ watchdog' \in [Proc -> BOOLEAN]
      BY <3>2
    <3>5. Alive(p)
      BY <1>8
    <3>6. guard' \in [Proc -> {"off", "gone", "exiting", "served", "forced"}
                             \cup Starting \cup Guarded \cup Cleaning]
      BY <3>3
    <3>7. lease' \in Proc \cup {Nobody} /\ (lease' # Nobody => Alive(lease)')
      BY <3>1, <3>3, <3>5
    <3>8. exit' \in [Proc -> {"no", "clean", "early", "forced", "killed"}]
      BY <3>3
    <3> HIDE DEF Signal, CliStop, Sigterm
    <3> QED BY <3>1, <3>4, <3>6, <3>7, <3>8
  <2>7. CASE ~stopReq[p] /\ guard[p] \notin {"running", "create", "restart"} \cup Starting \cup Cleaning
    <3>1. /\ reg' \subseteq reg /\ UNCHANGED <<force, lease, hb, beat, beatStop, observer>>
          /\ signals' \in 0 .. MaxSignals
          /\ target' \in Proc \cup {Nobody} /\ cli' \in {"wait", cli}
      BY <1>8, <2>7 DEF Handle
    <3>2. stopReq' = [stopReq EXCEPT ![p] = TRUE] /\ watchdog' = [watchdog EXCEPT ![p] = TRUE]
      BY <1>8, <2>7 DEF Handle
    <3>3. guard' = guard /\ exit' = exit
      BY <1>8, <2>7 DEF Handle
    <3>4. stopReq' \in [Proc -> BOOLEAN] /\ watchdog' \in [Proc -> BOOLEAN]
      BY <3>2
    <3>5. Alive(p)
      BY <1>8
    <3>6. guard' \in [Proc -> {"off", "gone", "exiting", "served", "forced"}
                             \cup Starting \cup Guarded \cup Cleaning]
      BY <3>3
    <3>7. lease' \in Proc \cup {Nobody} /\ (lease' # Nobody => Alive(lease)')
      BY <3>1, <3>3, <3>5
    <3>8. exit' \in [Proc -> {"no", "clean", "early", "forced", "killed"}]
      BY <3>3
    <3> HIDE DEF Signal, CliStop, Sigterm
    <3> QED BY <3>1, <3>4, <3>6, <3>7, <3>8
  <2> QED BY <2>1, <2>2, <2>3, <2>4, <2>5, <2>6, <2>7
<1>9. CASE CliGone
  BY <1>9 DEF CliGone, CliSeesEnd, files, threads, client
<1>10. CASE CliKills
  BY <1>10 DEF CliKills, Ended, Freed, files, threads, client
<1>11. CASE CliUnlinks
  BY <1>11 DEF CliUnlinks, files, threads, client
<1>12. CASE CliReadsBeat
  BY <1>12 DEF CliReadsBeat, files, threads, client
<1>13. CASE CliClearsBeat
  BY <1>13 DEF CliClearsBeat, files, threads, client
<1> QED
  BY <1>1, <1>2, <1>3, <1>4, <1>5, <1>6, <1>7, <1>8, <1>9, <1>10, <1>11, <1>12, <1>13 DEF LeaseNext, Cleanup, Cli

\* Every step keeps the lease where it belongs.
LEMMA LeaseStep == IInv /\ [LeaseNext]_leaseVars => LeaseInv'
<1> SUFFICES ASSUME IInv, [LeaseNext]_leaseVars PROVE LeaseInv'
  OBVIOUS
<1> USE ProcAssumption, SignalAssumption DEF IInv, LeaseTypeOK, LeaseInv, ThreadInv, Holding, Late, Starting, Guarded, Cleaning, Alive, Goto
<1>1. CASE UNCHANGED leaseVars
  BY <1>1 DEF leaseVars, files, threads, client
<1>2. ASSUME NEW p \in Proc, Start(p) \/ Beat(p) \/ Loop(p) PROVE LeaseInv'
  <2>1. CASE StartDaemon(p)
    BY <2>1 DEF StartDaemon, files, threads, client
  <2>2. CASE StartServer(p)
    BY <2>2 DEF StartServer, files, threads, client
  <2>3. CASE Check(p)
    BY <2>3 DEF Check, Purged, files, threads, client
  <2>4. CASE Acquire(p)
    BY <2>4 DEF Acquire, MayAcquire, files, threads, client
  <2>5. CASE Busy(p)
    BY <2>5 DEF Busy, MayAcquire, files, threads, client
  <2>6. CASE Register(p)
    BY <2>6 DEF Register, files, threads, client
  <2>7. CASE Guard(p)
    BY <2>7 DEF Guard, files, threads, client
  <2>8. CASE BeatBegin(p)
    BY <2>8 DEF BeatBegin, BeatDue, files, threads, client
  <2>9. CASE BeatWrite(p)
    BY <2>9 DEF BeatWrite, files, threads, client
  <2>10. CASE Create(p)
    BY <2>10 DEF Create, files, threads, client
  <2>11. CASE CreateFails(p)
    BY <2>11 DEF CreateFails, files, threads, client
  <2>12. CASE Restart(p)
    <3>1. CASE stopReq[p]
      BY <2>12, <3>1 DEF Restart, Leave, files, threads, client
    <3>2. CASE ~stopReq[p]
      BY <2>12, <3>2 DEF Restart, files, threads, client
    <3> QED BY <3>1, <3>2
  <2>13. CASE ObserverDies(p)
    BY <2>13 DEF ObserverDies, Leave, files, threads, client
  <2>14. CASE DirectoryGone(p)
    BY <2>14 DEF DirectoryGone, files, threads, client
  <2>15. CASE Stop(p)
    BY <2>15 DEF Stop, Leave, files, threads, client
  <2>16. CASE StopFails(p)
    BY <2>16 DEF StopFails, Leave, files, threads, client
  <2>17. CASE StopHangs(p)
    BY <2>17 DEF StopHangs, files, threads, client
  <2> QED BY <1>2, <2>1, <2>2, <2>3, <2>4, <2>5, <2>6, <2>7, <2>8, <2>9, <2>10, <2>11, <2>12, <2>13, <2>14, <2>15, <2>16, <2>17 DEF Start, Beat, Loop
<1>3. ASSUME NEW p \in Proc, NEW w \in {"main", "force"}, Clean(p, w) PROVE LeaseInv'
  <2>1. CASE StopBeat(p, w)
    <3>1. CASE w = "main"
      BY <2>1, <3>1 DEF StopBeat, At, Advance, files, threads, client
    <3>2. CASE w = "force"
      BY <2>1, <3>2 DEF StopBeat, At, Advance, files, threads, client
    <3> QED BY <3>1, <3>2
  <2>2. CASE JoinBeat(p, w)
    <3>1. CASE w = "main"
      BY <2>2, <3>1 DEF JoinBeat, Joined, At, Advance, files, threads, client
    <3>2. CASE w = "force"
      BY <2>2, <3>2 DEF JoinBeat, Joined, At, Advance, files, threads, client
    <3> QED BY <3>1, <3>2
  <2>3. CASE Unregister(p, w)
    <3>1. CASE w = "main"
      BY <2>3, <3>1 DEF Unregister, At, Advance, files, threads, client
    <3>2. CASE w = "force"
      BY <2>3, <3>2 DEF Unregister, At, Advance, files, threads, client
    <3> QED BY <3>1, <3>2
  <2>4. CASE ReadBeat(p, w)
    <3>1. CASE w = "main"
      BY <2>4, <3>1 DEF ReadBeat, At, Advance, files, threads, client
    <3>2. CASE w = "force"
      BY <2>4, <3>2 DEF ReadBeat, At, Advance, files, threads, client
    <3> QED BY <3>1, <3>2
  <2>5. CASE ClearBeat(p, w)
    <3>1. CASE w = "main"
      BY <2>5, <3>1 DEF ClearBeat, At, Advance, files, threads, client
    <3>2. CASE w = "force"
      BY <2>5, <3>2 DEF ClearBeat, At, Advance, files, threads, client
    <3> QED BY <3>1, <3>2
  <2>6. CASE Release(p, w)
    <3>1. CASE w = "main"
      BY <2>6, <3>1 DEF Release, At, Advance, files, threads, client
    <3>2. CASE w = "force"
      BY <2>6, <3>2 DEF Release, At, Advance, files, threads, client
    <3> QED BY <3>1, <3>2
  <2> QED BY <1>3, <2>1, <2>2, <2>3, <2>4, <2>5, <2>6 DEF Clean
<1>4. ASSUME NEW p \in Proc, Exit(p) PROVE LeaseInv'
  BY <1>4 DEF Exit, Ended, Freed, files, threads, client
<1>5. ASSUME NEW p \in Proc, ForceExit(p) PROVE LeaseInv'
  BY <1>5 DEF ForceExit, Ended, Freed, files, threads, client
<1>6. ASSUME NEW p \in Proc, WatchdogFires(p) PROVE LeaseInv'
  BY <1>6 DEF WatchdogFires, WatchdogDue, files, threads, client
<1>7. ASSUME NEW p \in Proc, Kill(p) PROVE LeaseInv'
  BY <1>7 DEF Kill, Ended, Freed, files, threads, client
<1>8. ASSUME NEW p \in Proc, Signal(p) \/ CliStop(p) PROVE LeaseInv'
  <2> USE DEF Signal, CliStop, Sigterm, Purged, files, threads, client
  <2>1. CASE guard[p] \in Starting /\ lease = p
    BY <1>8, <2>1 DEF HandleEarly
  <2>2. CASE guard[p] \in Starting /\ lease # p
    BY <1>8, <2>2 DEF HandleEarly
  <2>3. CASE guard[p] \notin Starting /\ stopReq[p]
    BY <1>8, <2>3 DEF Handle
  <2>4. CASE ~stopReq[p] /\ guard[p] = "running"
    BY <1>8, <2>4 DEF Handle
  <2>5. CASE ~stopReq[p] /\ guard[p] \in {"create", "restart"}
    BY <1>8, <2>5 DEF Handle
  <2>6. CASE ~stopReq[p] /\ guard[p] \in Cleaning
    BY <1>8, <2>6 DEF Handle
  <2>7. CASE ~stopReq[p] /\ guard[p] \notin {"running", "create", "restart"} \cup Starting \cup Cleaning
    BY <1>8, <2>7 DEF Handle
  <2> QED BY <2>1, <2>2, <2>3, <2>4, <2>5, <2>6, <2>7
<1>9. CASE CliGone
  BY <1>9 DEF CliGone, CliSeesEnd, files, threads, client
<1>10. CASE CliKills
  BY <1>10 DEF CliKills, Ended, Freed, files, threads, client
<1>11. CASE CliUnlinks
  BY <1>11 DEF CliUnlinks, files, threads, client
<1>12. CASE CliReadsBeat
  BY <1>12 DEF CliReadsBeat, files, threads, client
<1>13. CASE CliClearsBeat
  BY <1>13 DEF CliClearsBeat, files, threads, client
<1> QED
  BY <1>1, <1>2, <1>3, <1>4, <1>5, <1>6, <1>7, <1>8, <1>9, <1>10, <1>11, <1>12, <1>13 DEF LeaseNext, Cleanup, Cli

\* Only a guard that was entered has threads, a watchdog and an observer.
LEMMA ThreadStep == IInv /\ [LeaseNext]_leaseVars => ThreadInv'
<1> SUFFICES ASSUME IInv, [LeaseNext]_leaseVars PROVE ThreadInv'
  OBVIOUS
<1> USE ProcAssumption, SignalAssumption DEF IInv, LeaseTypeOK, ThreadInv, Holding, Late, Starting, Guarded, Cleaning, Alive, Goto
<1>1. CASE UNCHANGED leaseVars
  BY <1>1 DEF leaseVars, files, threads, client
<1>2. ASSUME NEW p \in Proc, Start(p) \/ Beat(p) \/ Loop(p) PROVE ThreadInv'
  <2>1. CASE StartDaemon(p)
    BY <2>1 DEF StartDaemon, files, threads, client
  <2>2. CASE StartServer(p)
    BY <2>2 DEF StartServer, files, threads, client
  <2>3. CASE Check(p)
    BY <2>3 DEF Check, Purged, files, threads, client
  <2>4. CASE Acquire(p)
    BY <2>4 DEF Acquire, MayAcquire, files, threads, client
  <2>5. CASE Busy(p)
    BY <2>5 DEF Busy, MayAcquire, files, threads, client
  <2>6. CASE Register(p)
    BY <2>6 DEF Register, files, threads, client
  <2>7. CASE Guard(p)
    BY <2>7 DEF Guard, files, threads, client
  <2>8. CASE BeatBegin(p)
    BY <2>8 DEF BeatBegin, BeatDue, files, threads, client
  <2>9. CASE BeatWrite(p)
    BY <2>9 DEF BeatWrite, files, threads, client
  <2>10. CASE Create(p)
    BY <2>10 DEF Create, files, threads, client
  <2>11. CASE CreateFails(p)
    BY <2>11 DEF CreateFails, files, threads, client
  <2>12. CASE Restart(p)
    <3>1. CASE stopReq[p]
      BY <2>12, <3>1 DEF Restart, Leave, files, threads, client
    <3>2. CASE ~stopReq[p]
      BY <2>12, <3>2 DEF Restart, files, threads, client
    <3> QED BY <3>1, <3>2
  <2>13. CASE ObserverDies(p)
    BY <2>13 DEF ObserverDies, Leave, files, threads, client
  <2>14. CASE DirectoryGone(p)
    BY <2>14 DEF DirectoryGone, files, threads, client
  <2>15. CASE Stop(p)
    BY <2>15 DEF Stop, Leave, files, threads, client
  <2>16. CASE StopFails(p)
    BY <2>16 DEF StopFails, Leave, files, threads, client
  <2>17. CASE StopHangs(p)
    BY <2>17 DEF StopHangs, files, threads, client
  <2> QED BY <1>2, <2>1, <2>2, <2>3, <2>4, <2>5, <2>6, <2>7, <2>8, <2>9, <2>10, <2>11, <2>12, <2>13, <2>14, <2>15, <2>16, <2>17 DEF Start, Beat, Loop
<1>3. ASSUME NEW p \in Proc, NEW w \in {"main", "force"}, Clean(p, w) PROVE ThreadInv'
  <2>1. CASE StopBeat(p, w)
    BY <2>1 DEF StopBeat, At, Advance, files, threads, client
  <2>2. CASE JoinBeat(p, w)
    BY <2>2 DEF JoinBeat, Joined, At, Advance, files, threads, client
  <2>3. CASE Unregister(p, w)
    BY <2>3 DEF Unregister, At, Advance, files, threads, client
  <2>4. CASE ReadBeat(p, w)
    BY <2>4 DEF ReadBeat, At, Advance, files, threads, client
  <2>5. CASE ClearBeat(p, w)
    BY <2>5 DEF ClearBeat, At, Advance, files, threads, client
  <2>6. CASE Release(p, w)
    BY <2>6 DEF Release, At, Advance, files, threads, client
  <2> QED BY <1>3, <2>1, <2>2, <2>3, <2>4, <2>5, <2>6 DEF Clean
<1>4. ASSUME NEW p \in Proc, Exit(p) PROVE ThreadInv'
  BY <1>4 DEF Exit, Ended, Freed, files, threads, client
<1>5. ASSUME NEW p \in Proc, ForceExit(p) PROVE ThreadInv'
  BY <1>5 DEF ForceExit, Ended, Freed, files, threads, client
<1>6. ASSUME NEW p \in Proc, WatchdogFires(p) PROVE ThreadInv'
  BY <1>6 DEF WatchdogFires, WatchdogDue, files, threads, client
<1>7. ASSUME NEW p \in Proc, Kill(p) PROVE ThreadInv'
  BY <1>7 DEF Kill, Ended, Freed, files, threads, client
<1>8. ASSUME NEW p \in Proc, Signal(p) \/ CliStop(p) PROVE ThreadInv'
  <2> USE DEF Signal, CliStop, Sigterm, Purged, files, threads, client
  <2>1. CASE guard[p] \in Starting /\ lease = p
    BY <1>8, <2>1 DEF HandleEarly
  <2>2. CASE guard[p] \in Starting /\ lease # p
    BY <1>8, <2>2 DEF HandleEarly
  <2>3. CASE guard[p] \notin Starting /\ stopReq[p]
    BY <1>8, <2>3 DEF Handle
  <2>4. CASE ~stopReq[p] /\ guard[p] = "running"
    BY <1>8, <2>4 DEF Handle
  <2>5. CASE ~stopReq[p] /\ guard[p] \in {"create", "restart"}
    BY <1>8, <2>5 DEF Handle
  <2>6. CASE ~stopReq[p] /\ guard[p] \in Cleaning
    BY <1>8, <2>6 DEF Handle
  <2>7. CASE ~stopReq[p] /\ guard[p] \notin {"running", "create", "restart"} \cup Starting \cup Cleaning
    BY <1>8, <2>7 DEF Handle
  <2> QED BY <2>1, <2>2, <2>3, <2>4, <2>5, <2>6, <2>7
<1>9. CASE CliGone
  BY <1>9 DEF CliGone, CliSeesEnd, files, threads, client
<1>10. CASE CliKills
  BY <1>10 DEF CliKills, Ended, Freed, files, threads, client
<1>11. CASE CliUnlinks
  BY <1>11 DEF CliUnlinks, files, threads, client
<1>12. CASE CliReadsBeat
  BY <1>12 DEF CliReadsBeat, files, threads, client
<1>13. CASE CliClearsBeat
  BY <1>13 DEF CliClearsBeat, files, threads, client
<1> QED
  BY <1>1, <1>2, <1>3, <1>4, <1>5, <1>6, <1>7, <1>8, <1>9, <1>10, <1>11, <1>12, <1>13 DEF LeaseNext, Cleanup, Cli

\* Every step keeps the registration of a watcher that watches.
LEMMA RegStep == IInv /\ [LeaseNext]_leaseVars => RegInv'
<1> SUFFICES ASSUME IInv, [LeaseNext]_leaseVars PROVE RegInv'
  OBVIOUS
<1> USE ProcAssumption, SignalAssumption DEF IInv, LeaseTypeOK, ThreadInv, RegInv, Holding, Late, Starting, Guarded, Cleaning, Alive, Goto
<1>1. CASE UNCHANGED leaseVars
  BY <1>1 DEF leaseVars, files, threads, client
<1>2. ASSUME NEW p \in Proc, Start(p) \/ Beat(p) \/ Loop(p) PROVE RegInv'
  <2>1. CASE StartDaemon(p)
    BY <2>1 DEF StartDaemon, files, threads, client
  <2>2. CASE StartServer(p)
    BY <2>2 DEF StartServer, files, threads, client
  <2>3. CASE Check(p)
    BY <2>3 DEF Check, Purged, files, threads, client
  <2>4. CASE Acquire(p)
    BY <2>4 DEF Acquire, MayAcquire, files, threads, client
  <2>5. CASE Busy(p)
    BY <2>5 DEF Busy, MayAcquire, files, threads, client
  <2>6. CASE Register(p)
    BY <2>6 DEF Register, files, threads, client
  <2>7. CASE Guard(p)
    BY <2>7 DEF Guard, files, threads, client
  <2>8. CASE BeatBegin(p)
    BY <2>8 DEF BeatBegin, BeatDue, files, threads, client
  <2>9. CASE BeatWrite(p)
    BY <2>9 DEF BeatWrite, files, threads, client
  <2>10. CASE Create(p)
    BY <2>10 DEF Create, files, threads, client
  <2>11. CASE CreateFails(p)
    BY <2>11 DEF CreateFails, files, threads, client
  <2>12. CASE Restart(p)
    <3>1. CASE stopReq[p]
      BY <2>12, <3>1 DEF Restart, Leave, files, threads, client
    <3>2. CASE ~stopReq[p]
      BY <2>12, <3>2 DEF Restart, files, threads, client
    <3> QED BY <3>1, <3>2
  <2>13. CASE ObserverDies(p)
    BY <2>13 DEF ObserverDies, Leave, files, threads, client
  <2>14. CASE DirectoryGone(p)
    BY <2>14 DEF DirectoryGone, files, threads, client
  <2>15. CASE Stop(p)
    BY <2>15 DEF Stop, Leave, files, threads, client
  <2>16. CASE StopFails(p)
    BY <2>16 DEF StopFails, Leave, files, threads, client
  <2>17. CASE StopHangs(p)
    BY <2>17 DEF StopHangs, files, threads, client
  <2> QED BY <1>2, <2>1, <2>2, <2>3, <2>4, <2>5, <2>6, <2>7, <2>8, <2>9, <2>10, <2>11, <2>12, <2>13, <2>14, <2>15, <2>16, <2>17 DEF Start, Beat, Loop
<1>3. ASSUME NEW p \in Proc, NEW w \in {"main", "force"}, Clean(p, w) PROVE RegInv'
  <2>1. CASE StopBeat(p, w)
    BY <2>1 DEF StopBeat, At, Advance, files, threads, client
  <2>2. CASE JoinBeat(p, w)
    BY <2>2 DEF JoinBeat, Joined, At, Advance, files, threads, client
  <2>3. CASE Unregister(p, w)
    BY <2>3 DEF Unregister, At, Advance, files, threads, client
  <2>4. CASE ReadBeat(p, w)
    BY <2>4 DEF ReadBeat, At, Advance, files, threads, client
  <2>5. CASE ClearBeat(p, w)
    BY <2>5 DEF ClearBeat, At, Advance, files, threads, client
  <2>6. CASE Release(p, w)
    BY <2>6 DEF Release, At, Advance, files, threads, client
  <2> QED BY <1>3, <2>1, <2>2, <2>3, <2>4, <2>5, <2>6 DEF Clean
<1>4. ASSUME NEW p \in Proc, Exit(p) PROVE RegInv'
  BY <1>4 DEF Exit, Ended, Freed, files, threads, client
<1>5. ASSUME NEW p \in Proc, ForceExit(p) PROVE RegInv'
  BY <1>5 DEF ForceExit, Ended, Freed, files, threads, client
<1>6. ASSUME NEW p \in Proc, WatchdogFires(p) PROVE RegInv'
  BY <1>6 DEF WatchdogFires, WatchdogDue, files, threads, client
<1>7. ASSUME NEW p \in Proc, Kill(p) PROVE RegInv'
  BY <1>7 DEF Kill, Ended, Freed, files, threads, client
<1>8. ASSUME NEW p \in Proc, Signal(p) \/ CliStop(p) PROVE RegInv'
  <2> USE DEF Signal, CliStop, Sigterm, Purged, files, threads, client
  <2>1. CASE guard[p] \in Starting /\ lease = p
    BY <1>8, <2>1 DEF HandleEarly
  <2>2. CASE guard[p] \in Starting /\ lease # p
    BY <1>8, <2>2 DEF HandleEarly
  <2>3. CASE guard[p] \notin Starting /\ stopReq[p]
    BY <1>8, <2>3 DEF Handle
  <2>4. CASE ~stopReq[p] /\ guard[p] = "running"
    BY <1>8, <2>4 DEF Handle
  <2>5. CASE ~stopReq[p] /\ guard[p] \in {"create", "restart"}
    BY <1>8, <2>5 DEF Handle
  <2>6. CASE ~stopReq[p] /\ guard[p] \in Cleaning
    BY <1>8, <2>6 DEF Handle
  <2>7. CASE ~stopReq[p] /\ guard[p] \notin {"running", "create", "restart"} \cup Starting \cup Cleaning
    BY <1>8, <2>7 DEF Handle
  <2> QED BY <2>1, <2>2, <2>3, <2>4, <2>5, <2>6, <2>7
<1>9. CASE CliGone
  BY <1>9 DEF CliGone, CliSeesEnd, files, threads, client
<1>10. CASE CliKills
  BY <1>10 DEF CliKills, Ended, Freed, files, threads, client
<1>11. CASE CliUnlinks
  BY <1>11 DEF CliUnlinks, files, threads, client
<1>12. CASE CliReadsBeat
  BY <1>12 DEF CliReadsBeat, files, threads, client
<1>13. CASE CliClearsBeat
  BY <1>13 DEF CliClearsBeat, files, threads, client
<1> QED
  BY <1>1, <1>2, <1>3, <1>4, <1>5, <1>6, <1>7, <1>8, <1>9, <1>10, <1>11, <1>12, <1>13 DEF LeaseNext, Cleanup, Cli

\* Every step keeps what the clean-ups have done.
LEMMA CleanStep == IInv /\ [LeaseNext]_leaseVars => CleanInv'
<1> SUFFICES ASSUME IInv, [LeaseNext]_leaseVars PROVE CleanInv'
  OBVIOUS
<1> USE ProcAssumption, SignalAssumption DEF IInv, LeaseTypeOK, ThreadInv, CleanInv, Done, Silent, Holding, Late, Starting, Guarded, Cleaning, Alive, Goto
<1>1. CASE UNCHANGED leaseVars
  BY <1>1 DEF leaseVars, files, threads, client
<1>2. ASSUME NEW p \in Proc, Start(p) \/ Beat(p) \/ Loop(p) PROVE CleanInv'
  <2>1. CASE StartDaemon(p)
    BY <2>1 DEF StartDaemon, files, threads, client
  <2>2. CASE StartServer(p)
    BY <2>2 DEF StartServer, files, threads, client
  <2>3. CASE Check(p)
    BY <2>3 DEF Check, Purged, files, threads, client
  <2>4. CASE Acquire(p)
    BY <2>4 DEF Acquire, MayAcquire, files, threads, client
  <2>5. CASE Busy(p)
    BY <2>5 DEF Busy, MayAcquire, files, threads, client
  <2>6. CASE Register(p)
    BY <2>6 DEF Register, files, threads, client
  <2>7. CASE Guard(p)
    BY <2>7 DEF Guard, files, threads, client
  <2>8. CASE BeatBegin(p)
    BY <2>8 DEF BeatBegin, BeatDue, files, threads, client
  <2>9. CASE BeatWrite(p)
    BY <2>9 DEF BeatWrite, files, threads, client
  <2>10. CASE Create(p)
    BY <2>10 DEF Create, files, threads, client
  <2>11. CASE CreateFails(p)
    BY <2>11 DEF CreateFails, files, threads, client
  <2>12. CASE Restart(p)
    <3>1. CASE stopReq[p]
      BY <2>12, <3>1 DEF Restart, Leave, files, threads, client
    <3>2. CASE ~stopReq[p]
      BY <2>12, <3>2 DEF Restart, files, threads, client
    <3> QED BY <3>1, <3>2
  <2>13. CASE ObserverDies(p)
    BY <2>13 DEF ObserverDies, Leave, files, threads, client
  <2>14. CASE DirectoryGone(p)
    BY <2>14 DEF DirectoryGone, files, threads, client
  <2>15. CASE Stop(p)
    BY <2>15 DEF Stop, Leave, files, threads, client
  <2>16. CASE StopFails(p)
    BY <2>16 DEF StopFails, Leave, files, threads, client
  <2>17. CASE StopHangs(p)
    BY <2>17 DEF StopHangs, files, threads, client
  <2> QED BY <1>2, <2>1, <2>2, <2>3, <2>4, <2>5, <2>6, <2>7, <2>8, <2>9, <2>10, <2>11, <2>12, <2>13, <2>14, <2>15, <2>16, <2>17 DEF Start, Beat, Loop
<1>3. ASSUME NEW p \in Proc, NEW w \in {"main", "force"}, Clean(p, w) PROVE CleanInv'
  <2>1. CASE StopBeat(p, w)
    BY <2>1 DEF StopBeat, At, Advance, files, threads, client
  <2>2. CASE JoinBeat(p, w)
    BY <2>2 DEF JoinBeat, Joined, At, Advance, files, threads, client
  <2>3. CASE Unregister(p, w)
    BY <2>3 DEF Unregister, At, Advance, files, threads, client
  <2>4. CASE ReadBeat(p, w)
    BY <2>4 DEF ReadBeat, At, Advance, files, threads, client
  <2>5. CASE ClearBeat(p, w)
    BY <2>5 DEF ClearBeat, At, Advance, files, threads, client
  <2>6. CASE Release(p, w)
    BY <2>6 DEF Release, At, Advance, files, threads, client
  <2> QED BY <1>3, <2>1, <2>2, <2>3, <2>4, <2>5, <2>6 DEF Clean
<1>4. ASSUME NEW p \in Proc, Exit(p) PROVE CleanInv'
  BY <1>4 DEF Exit, Ended, Freed, files, threads, client
<1>5. ASSUME NEW p \in Proc, ForceExit(p) PROVE CleanInv'
  BY <1>5 DEF ForceExit, Ended, Freed, files, threads, client
<1>6. ASSUME NEW p \in Proc, WatchdogFires(p) PROVE CleanInv'
  BY <1>6 DEF WatchdogFires, WatchdogDue, files, threads, client
<1>7. ASSUME NEW p \in Proc, Kill(p) PROVE CleanInv'
  BY <1>7 DEF Kill, Ended, Freed, files, threads, client
<1>8. ASSUME NEW p \in Proc, Signal(p) \/ CliStop(p) PROVE CleanInv'
  <2> USE DEF Signal, CliStop, Sigterm, Purged, files, threads, client
  <2>1. CASE guard[p] \in Starting /\ lease = p
    BY <1>8, <2>1 DEF HandleEarly
  <2>2. CASE guard[p] \in Starting /\ lease # p
    BY <1>8, <2>2 DEF HandleEarly
  <2>3. CASE guard[p] \notin Starting /\ stopReq[p]
    BY <1>8, <2>3 DEF Handle
  <2>4. CASE ~stopReq[p] /\ guard[p] = "running"
    BY <1>8, <2>4 DEF Handle
  <2>5. CASE ~stopReq[p] /\ guard[p] \in {"create", "restart"}
    BY <1>8, <2>5 DEF Handle
  <2>6. CASE ~stopReq[p] /\ guard[p] \in Cleaning
    BY <1>8, <2>6 DEF Handle
  <2>7. CASE ~stopReq[p] /\ guard[p] \notin {"running", "create", "restart"} \cup Starting \cup Cleaning
    BY <1>8, <2>7 DEF Handle
  <2> QED BY <2>1, <2>2, <2>3, <2>4, <2>5, <2>6, <2>7
<1>9. CASE CliGone
  BY <1>9 DEF CliGone, CliSeesEnd, files, threads, client
<1>10. CASE CliKills
  BY <1>10 DEF CliKills, Ended, Freed, files, threads, client
<1>11. CASE CliUnlinks
  BY <1>11 DEF CliUnlinks, files, threads, client
<1>12. CASE CliReadsBeat
  BY <1>12 DEF CliReadsBeat, files, threads, client
<1>13. CASE CliClearsBeat
  BY <1>13 DEF CliClearsBeat, files, threads, client
<1> QED
  BY <1>1, <1>2, <1>3, <1>4, <1>5, <1>6, <1>7, <1>8, <1>9, <1>10, <1>11, <1>12, <1>13 DEF LeaseNext, Cleanup, Cli

\* Initially nothing runs.
LEMMA LeaseInitInv == LeaseInit => IInv
<1> SUFFICES ASSUME LeaseInit PROVE IInv
  OBVIOUS
<1> USE ProcAssumption, SignalAssumption DEF LeaseInit
<1>1. LeaseTypeOK
  BY DEF LeaseTypeOK, Starting, Guarded, Cleaning, Alive
<1>2. LeaseInv /\ RegInv
  BY DEF LeaseInv, RegInv, Holding, Guarded, Cleaning
<1>3. ThreadInv
  BY DEF ThreadInv, Late, Starting, Guarded, Cleaning
<1>4. CleanInv
  BY DEF CleanInv, Done
<1> QED BY <1>1, <1>2, <1>3, <1>4 DEF IInv

\* The invariant is inductive.
THEOREM Invariant == LeaseSpec => []IInv
<1>1. LeaseInit => IInv
  BY LeaseInitInv
<1>2. IInv /\ [LeaseNext]_leaseVars => IInv'
  BY LeaseTypeStep, LeaseStep, ThreadStep, RegStep, CleanStep DEF IInv
<1> QED BY <1>1, <1>2, PTL DEF LeaseSpec

\* The state of the watchers has its type, and no lock outlives its holder
\* (acquire_watcher_lease(), an OS lock).
THEOREM TypeSafe == LeaseSpec => []LeaseTypeOK
<1>1. IInv => LeaseTypeOK
  BY DEF IInv
<1> QED BY <1>1, Invariant, PTL

\* An observer runs under the lease, whatever the number of processes: two
\* never observe one repository together, except as ObserverHoldsLease says
\* (run_watcher_with_crash_guard()).
THEOREM ObserverSafe == LeaseSpec => []ObserverHoldsLease
<1>1. IInv => ObserverHoldsLease
  BY DEF IInv, LeaseTypeOK, LeaseInv, ThreadInv, ObserverHoldsLease, Late, Holding,
         Guarded, Cleaning
<1> QED BY <1>1, Invariant, PTL

\* A watcher that watches is registered, whatever purges and clean-ups run in
\* other processes (list_watchers(), stop_watcher_and_wait()).
THEOREM RegistrationSafe == LeaseSpec => []WatcherRegistered
<1>1. IInv => WatcherRegistered
  BY DEF IInv, RegInv, WatcherRegistered
<1> QED BY <1>1, Invariant, PTL

\* A watcher that cleaned up leaves no registration and no heartbeat behind
\* (_cleanup_registration(), stop_heartbeat_thread()).
THEOREM GhostFree == LeaseSpec => []NoGhost
<1>1. IInv => NoGhost
  <2> SUFFICES ASSUME IInv, NEW p \in Proc,
                      (guard[p] = "gone" /\ exit[p] \in {"clean", "forced"})
                        \/ guard[p] = "served"
               PROVE p \notin reg /\ hb # p
    BY DEF NoGhost
  <2>1. CASE guard[p] = "served"
    BY <2>1 DEF IInv, ThreadInv, CleanInv, Done
  <2>2. CASE guard[p] = "gone" /\ exit[p] \in {"clean", "forced"}
    BY <2>2 DEF IInv, CleanInv
  <2> QED BY <2>1, <2>2
<1> QED BY <1>1, Invariant, PTL

\* Only the watcher itself, or its end, removes its registration, in every step
\* (list_watchers(), stop_watcher_and_wait(), _cleanup_registration()).
THEOREM RemovalSafe == LeaseSpec => RemovedWhenGone
<1> DEFINE Kept == \A p \in reg \ reg' :
              ~Alive(p) \/ guard[p] = "unregister" \/ force[p] = "unregister"
<1>1. IInv /\ [LeaseNext]_leaseVars => [Kept]_leaseVars
  <2> SUFFICES ASSUME IInv, LeaseNext, NEW p \in reg, p \notin reg', Alive(p)
               PROVE guard[p] = "unregister" \/ force[p] = "unregister"
    OBVIOUS
  <2> USE DEF files, threads, client
  <2>1. ASSUME NEW q \in Proc, Start(q) \/ Beat(q) \/ Loop(q) PROVE FALSE
    BY <2>1 DEF Start, Beat, Loop, StartDaemon, StartServer, Check, Acquire,
       Busy, Register, Guard, BeatBegin, BeatWrite, Create, CreateFails, Restart,
       ObserverDies, DirectoryGone, Stop, StopFails, StopHangs, Purged
  <2>2. ASSUME NEW q \in Proc, NEW w \in {"main", "force"}, Clean(q, w)
        PROVE guard[p] = "unregister" \/ force[p] = "unregister"
    BY <2>2 DEF Clean, StopBeat, JoinBeat, Unregister, ReadBeat, ClearBeat,
       Release, At
  <2>3. ASSUME NEW q \in Proc,
               Exit(q) \/ ForceExit(q) \/ Kill(q) \/ WatchdogFires(q)
        PROVE FALSE
    BY <2>3 DEF Exit, ForceExit, Kill, WatchdogFires
  <2>4. ASSUME NEW q \in Proc, Signal(q) \/ CliStop(q) PROVE FALSE
    BY <2>4 DEF Signal, Sigterm, CliStop, Purged
  <2>5. CASE Cli
    <3>1. CASE CliUnlinks
      BY <3>1, <2>5 DEF CliUnlinks, IInv, RegInv, Alive
    <3>2. CASE CliGone \/ CliKills \/ CliReadsBeat \/ CliClearsBeat
      BY <3>2 DEF CliGone, CliKills, CliReadsBeat, CliClearsBeat
    <3> QED BY <3>1, <3>2, <2>5 DEF Cli
  <2> QED BY <2>1, <2>2, <2>3, <2>4, <2>5 DEF LeaseNext, Cleanup
<1> QED BY <1>1, Invariant, PTL DEF LeaseSpec, RemovedWhenGone
=============================================================================
