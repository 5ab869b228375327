---------------------------- MODULE WatcherLease ----------------------------
(***************************************************************************)
(* One observer per repository: the processes that watch it (a `watch`     *)
(* process, or a thread of `serve` that stands by), the lease they take,   *)
(* the registry and the heartbeat that name the watcher, its shutdown by   *)
(* SIGTERM with a time limit, and `list --stop`.  Source:                  *)
(* interface/cli/daemon.py, the start of both kinds of watcher in          *)
(* interface/cli/main.py and WriterLease of data/graph/journal.py.         *)
(*                                                                         *)
(* A process is started once, so that its pid names it.  What the watcher  *)
(* does between start and stop is module Watcher.                          *)
(***************************************************************************)
EXTENDS Integers, FiniteSets

CONSTANTS
  Daemon,     \* processes of `cognirepo watch`
  Server,     \* processes of `cognirepo serve`
  Nobody,     \* no process
  MaxSignals  \* bound of the model: SIGTERMs sent

Proc == Daemon \cup Server

ASSUME ProcAssumption == Daemon \cap Server = {} /\ Nobody \notin Proc
ASSUME SignalAssumption == MaxSignals \in Nat

VARIABLES
  guard,      \* where the thread that runs the crash guard is
  force,      \* where _force_exit() is
  lease,      \* the holder of watchers/watcher.writer
  reg,        \* the processes that watchers/<pid>.json names
  hb,         \* the pid in watchers/heartbeat
  beat,       \* the heartbeat thread
  beatStop,   \* its stop event
  stopReq,    \* _STOP_REQUESTED
  watchdog,   \* the timer armed by the first SIGTERM
  observer,   \* the processes whose observer runs
  exit,       \* history: how a process ended, or how it is ending
  cli,        \* where stop_watcher_and_wait() is
  target,     \* the process it stops
  signals     \* SIGTERMs sent so far

files == <<reg, hb>>
threads == <<beat, beatStop, watchdog>>
client == <<cli, target, signals>>
leaseVars == <<guard, force, lease, files, threads, stopReq, observer, exit, client>>

-----------------------------------------------------------------------------
Cleaning == {"join", "joining", "unregister", "readBeat", "clearBeat", "release"}
Starting == {"check", "trying", "standby", "registering", "registered"}
Guarded == {"create", "running", "stopping", "hung", "restart"}

\* The process exists.
Alive(p) == guard[p] \notin {"off", "gone"}

LeaseTypeOK ==
  /\ guard \in [Proc -> {"off", "gone", "exiting", "served", "forced"}
                     \cup Starting \cup Guarded \cup Cleaning]
  /\ force \in [Proc -> {"no", "exit"} \cup Cleaning]
  /\ lease \in Proc \cup {Nobody}
  /\ lease # Nobody => Alive(lease)
  /\ reg \subseteq Proc /\ hb \in Proc \cup {Nobody}
  /\ beat \in [Proc -> {"off", "on", "writing"}]
  /\ beatStop \in [Proc -> BOOLEAN] /\ stopReq \in [Proc -> BOOLEAN]
  /\ watchdog \in [Proc -> BOOLEAN]
  /\ observer \subseteq Proc
  /\ exit \in [Proc -> {"no", "clean", "early", "forced", "killed"}]
  /\ cli \in {"idle", "wait", "unlink", "readBeat", "clearBeat"}
  /\ target \in Proc \cup {Nobody}
  /\ signals \in 0 .. MaxSignals

Goto(p, where) == guard' = [guard EXCEPT ![p] = where]

\* What the kernel leaves of the lock.
Freed(p) == IF lease = p THEN Nobody ELSE lease

\* The process ends: the kernel frees its lock and its threads die with it.
Ended(p, how) ==
  /\ Goto(p, "gone")
  /\ force' = [force EXCEPT ![p] = "no"]
  /\ lease' = Freed(p)
  /\ beat' = [beat EXCEPT ![p] = "off"]
  /\ watchdog' = [watchdog EXCEPT ![p] = FALSE]
  /\ observer' = observer \ {p}
  /\ exit' = [exit EXCEPT ![p] = how]
  /\ UNCHANGED <<beatStop, stopReq>>

-----------------------------------------------------------------------------
(* Starting.                                                               *)

\* The registrations of processes that are no more are removed on sight.
Purged == {p \in reg : Alive(p)}

StartDaemon(p) ==
  /\ p \in Daemon /\ guard[p] = "off"
  /\ Goto(p, "check")
  /\ UNCHANGED <<force, lease, files, threads, stopReq, observer, exit, client>>

StartServer(p) ==
  /\ p \in Server /\ guard[p] = "off"
  /\ Goto(p, "standby")
  /\ UNCHANGED <<force, lease, files, threads, stopReq, observer, exit, client>>

\* is_watcher_running_for_path(), which stops at a live one.
Check(p) ==
  /\ guard[p] = "check"
  /\ \E left \in SUBSET (reg \ Purged) :
       /\ Purged = {} => left = {}
       /\ reg' = Purged \cup left
  /\ Goto(p, IF Purged # {} THEN "gone" ELSE "trying")
  /\ UNCHANGED <<force, lease, hb, threads, stopReq, observer, exit, client>>

\* Mutant: the registry is trusted.
MayAcquireUnregistered(p) == lease = Nobody /\ reg = {}
MayAcquire(p) == lease = Nobody

\* acquire_watcher_lease(), wait_for_watcher_lease()
Acquire(p) ==
  /\ guard[p] \in {"trying", "standby"} /\ MayAcquire(p)
  /\ lease' = p
  /\ Goto(p, "registering")
  /\ UNCHANGED <<force, files, threads, stopReq, observer, exit, client>>

\* A `watch` process does not wait.
Busy(p) ==
  /\ guard[p] = "trying" /\ ~MayAcquire(p)
  /\ Goto(p, "gone")
  /\ UNCHANGED <<force, lease, files, threads, stopReq, observer, exit, client>>

Register(p) ==
  /\ guard[p] = "registering"
  /\ reg' = reg \cup {p}
  /\ Goto(p, "registered")
  /\ UNCHANGED <<force, lease, hb, threads, stopReq, observer, exit, client>>

\* _guarded_run(): the heartbeat thread, the flag and the signal handler.
Guard(p) ==
  /\ guard[p] = "registered"
  /\ beat' = [beat EXCEPT ![p] = "on"]
  /\ stopReq' = [stopReq EXCEPT ![p] = FALSE]
  /\ Goto(p, "create")
  /\ UNCHANGED <<force, lease, files, beatStop, watchdog, observer, exit, client>>

-----------------------------------------------------------------------------
(* The heartbeat thread.                                                   *)

\* Mutant: the heartbeat is written where there is none.
BeatDueIfNone(p) == ~beatStop[p] /\ hb = Nobody
BeatDue(p) == ~beatStop[p]

BeatBegin(p) ==
  /\ beat[p] = "on" /\ BeatDue(p)
  /\ beat' = [beat EXCEPT ![p] = "writing"]
  /\ UNCHANGED <<guard, force, lease, files, beatStop, watchdog, stopReq, observer,
                 exit, client>>

BeatWrite(p) ==
  /\ beat[p] = "writing"
  /\ beat' = [beat EXCEPT ![p] = "on"]
  /\ hb' = p
  /\ UNCHANGED <<guard, force, lease, reg, beatStop, watchdog, stopReq, observer,
                 exit, client>>

-----------------------------------------------------------------------------
(* _run_watcher_loop().                                                    *)

Create(p) ==
  /\ guard[p] = "create"
  /\ observer' = observer \cup {p}
  /\ Goto(p, "running")
  /\ UNCHANGED <<force, lease, files, threads, stopReq, exit, client>>

\* create_fn() raises: the guard sleeps and starts over, unless asked to stop.
CreateFails(p) ==
  /\ guard[p] = "create"
  /\ Goto(p, "restart")
  /\ UNCHANGED <<force, lease, files, threads, stopReq, observer, exit, client>>

Leave(p) ==
  /\ Goto(p, "join")
  /\ watchdog' = [watchdog EXCEPT ![p] = FALSE]
  /\ exit' = [exit EXCEPT ![p] = "clean"]

Restart(p) ==
  /\ guard[p] = "restart"
  /\ IF stopReq[p]
     THEN Leave(p)
     ELSE Goto(p, "create") /\ UNCHANGED <<watchdog, exit>>
  /\ UNCHANGED <<force, lease, files, beat, beatStop, stopReq, observer, client>>

\* The observer's thread is dead: "exited cleanly", without stop_fn().
ObserverDies(p) ==
  /\ guard[p] = "running" /\ ~stopReq[p]
  /\ observer' = observer \ {p}
  /\ Leave(p)
  /\ UNCHANGED <<force, lease, files, beat, beatStop, stopReq, client>>

\* The watched directory is gone.
DirectoryGone(p) ==
  /\ guard[p] = "running" /\ ~stopReq[p]
  /\ stopReq' = [stopReq EXCEPT ![p] = TRUE]
  /\ Goto(p, "stopping")
  /\ UNCHANGED <<force, lease, files, threads, observer, exit, client>>

\* stop_fn(): the last flush, then the observer is stopped and joined.
Stop(p) ==
  /\ guard[p] = "stopping"
  /\ observer' = observer \ {p}
  /\ Leave(p)
  /\ UNCHANGED <<force, lease, files, beat, beatStop, stopReq, client>>

\* The last flush raises: nobody stops the observer.
StopFails(p) ==
  /\ guard[p] = "stopping"
  /\ Leave(p)
  /\ UNCHANGED <<force, lease, files, beat, beatStop, stopReq, observer, client>>

\* Or it does not come back.
StopHangs(p) ==
  /\ guard[p] = "stopping"
  /\ Goto(p, "hung")
  /\ UNCHANGED <<force, lease, files, threads, stopReq, observer, exit, client>>

-----------------------------------------------------------------------------
(* _cleanup_registration(), run by the guard and by _force_exit(), and the  *)
(* end of the process.                                                      *)

\* Where the guard (w = "main") or _force_exit() (w = "force") of p is.
At(p, w, where) == IF w = "main" THEN guard[p] = where ELSE force[p] = where
Advance(p, w, where) ==
  IF w = "main"
  THEN Goto(p, where) /\ UNCHANGED force
  ELSE force' = [force EXCEPT ![p] = where] /\ UNCHANGED guard

\* stop_heartbeat_thread(): the stop event, and the join.
StopBeat(p, w) ==
  /\ At(p, w, "join")
  /\ beatStop' = [beatStop EXCEPT ![p] = TRUE]
  /\ Advance(p, w, "joining")
  /\ UNCHANGED <<lease, files, beat, watchdog, stopReq, observer, exit, client>>

\* Mutant: the thread is not waited for.
JoinedAtOnce(p) == TRUE
Joined(p) == beat[p] # "writing"

JoinBeat(p, w) ==
  /\ At(p, w, "joining") /\ Joined(p)
  /\ Advance(p, w, "unregister")
  /\ UNCHANGED <<lease, files, threads, stopReq, observer, exit, client>>

Unregister(p, w) ==
  /\ At(p, w, "unregister")
  /\ reg' = reg \ {p}
  /\ Advance(p, w, "readBeat")
  /\ UNCHANGED <<lease, hb, threads, stopReq, observer, exit, client>>

\* clear_heartbeat_if_owned(): read, compare, and then remove.
ReadBeat(p, w) ==
  /\ At(p, w, "readBeat")
  /\ Advance(p, w, IF hb = p THEN "clearBeat" ELSE "release")
  /\ UNCHANGED <<lease, files, threads, stopReq, observer, exit, client>>

ClearBeat(p, w) ==
  /\ At(p, w, "clearBeat")
  /\ hb' = Nobody
  /\ Advance(p, w, "release")
  /\ UNCHANGED <<lease, reg, threads, stopReq, observer, exit, client>>

Release(p, w) ==
  /\ At(p, w, "release")
  /\ lease' = IF lease = p THEN Nobody ELSE lease
  /\ Advance(p, w, IF w = "force" THEN "exit"
                   ELSE IF p \in Server THEN "served" ELSE "exiting")
  /\ UNCHANGED <<files, threads, stopReq, observer, exit, client>>

Exit(p) ==
  /\ guard[p] = "exiting"
  /\ Ended(p, exit[p])
  /\ UNCHANGED <<files, client>>

\* os._exit(1)
ForceExit(p) ==
  /\ force[p] = "exit"
  /\ Ended(p, "forced")
  /\ UNCHANGED <<files, client>>

\* SIGKILL, an out-of-memory kill, or the end of a `serve` session.
Kill(p) ==
  /\ Alive(p)
  /\ Ended(p, "killed")
  /\ UNCHANGED <<files, client>>

-----------------------------------------------------------------------------
(* SIGTERM.  A server is never signalled as a watcher.                      *)

\* The handler of a process whose guard is installed.  Once it forces the exit
\* the guard, on the same thread, does not go on.
Handle(p) ==
  IF stopReq[p]
  THEN /\ force' = [force EXCEPT ![p] = IF @ = "no" THEN "join" ELSE @]
       /\ Goto(p, "forced")
       /\ UNCHANGED <<stopReq, watchdog, exit>>
  ELSE /\ stopReq' = [stopReq EXCEPT ![p] = TRUE]
       /\ watchdog' = [watchdog EXCEPT ![p] = TRUE]
       /\ UNCHANGED force
       /\ CASE guard[p] = "running" -> Goto(p, "stopping") /\ UNCHANGED exit
            [] guard[p] \in {"create", "restart"} ->
                 Goto(p, "restart") /\ UNCHANGED exit
            [] guard[p] \in Cleaning ->   \* the clean-up is interrupted half way
                 Goto(p, "release") /\ exit' = [exit EXCEPT ![p] = "early"]
            [] OTHER -> UNCHANGED <<guard, exit>>

\* Before that, the interrupt leaves through the release of the lease.
HandleEarly(p) ==
  /\ IF lease = p
     THEN Goto(p, "release") /\ exit' = [exit EXCEPT ![p] = "early"]
     ELSE Goto(p, "gone") /\ UNCHANGED exit
  /\ UNCHANGED <<force, stopReq, watchdog>>

Sigterm(p) ==
  /\ IF guard[p] \in Starting THEN HandleEarly(p) ELSE Handle(p)
  /\ UNCHANGED <<lease, files, beat, beatStop, observer>>

Signal(p) ==
  /\ p \in Daemon /\ Alive(p) /\ guard[p] # "exiting"
  /\ signals < MaxSignals /\ signals' = signals + 1
  /\ Sigterm(p)
  /\ UNCHANGED <<cli, target>>

\* Mutant: the watchdog is never armed.
WatchdogDueNever(p) == FALSE
WatchdogDue(p) == watchdog[p]

\* GRACEFUL_STOP_SECS are over.
WatchdogFires(p) ==
  /\ WatchdogDue(p) /\ force[p] = "no"
  /\ watchdog' = [watchdog EXCEPT ![p] = FALSE]
  /\ force' = [force EXCEPT ![p] = "join"]
  /\ UNCHANGED <<guard, lease, files, beat, beatStop, stopReq, observer, exit,
                 client>>

-----------------------------------------------------------------------------
(* stop_watcher_and_wait()                                                  *)

\* find_watcher(), which purges the registry, and SIGTERM.
CliStop(p) ==
  /\ cli = "idle" /\ p \in Purged
  /\ p \in Daemon /\ guard[p] # "exiting"
  /\ signals < MaxSignals /\ signals' = signals + 1
  /\ target' = p /\ cli' = "wait"
  /\ reg' = Purged
  /\ IF guard[p] \in Starting THEN HandleEarly(p) ELSE Handle(p)
  /\ UNCHANGED <<lease, hb, beat, beatStop, observer>>

CliSeesEnd == ~Alive(target)

CliGone ==
  /\ cli = "wait" /\ CliSeesEnd
  /\ cli' = "unlink"
  /\ UNCHANGED <<guard, force, lease, files, threads, stopReq, observer, exit,
                 target, signals>>

\* CLI_STOP_WAIT_SECS are over.
CliKills ==
  /\ cli = "wait" /\ Alive(target)
  /\ Ended(target, "killed")
  /\ cli' = "unlink"
  /\ UNCHANGED <<files, target, signals>>

CliUnlinks ==
  /\ cli = "unlink"
  /\ reg' = reg \ {target}
  /\ cli' = "readBeat"
  /\ UNCHANGED <<guard, force, lease, hb, threads, stopReq, observer, exit, target,
                 signals>>

CliReadsBeat ==
  /\ cli = "readBeat"
  /\ cli' = IF hb = target THEN "clearBeat" ELSE "idle"
  /\ UNCHANGED <<guard, force, lease, files, threads, stopReq, observer, exit,
                 target, signals>>

CliClearsBeat ==
  /\ cli = "clearBeat"
  /\ hb' = Nobody
  /\ cli' = "idle"
  /\ UNCHANGED <<guard, force, lease, reg, threads, stopReq, observer, exit, target,
                 signals>>

-----------------------------------------------------------------------------
LeaseInit ==
  /\ guard = [p \in Proc |-> "off"] /\ force = [p \in Proc |-> "no"]
  /\ lease = Nobody /\ reg = {} /\ hb = Nobody /\ observer = {}
  /\ beat = [p \in Proc |-> "off"]
  /\ beatStop = [p \in Proc |-> FALSE] /\ stopReq = [p \in Proc |-> FALSE]
  /\ watchdog = [p \in Proc |-> FALSE] /\ exit = [p \in Proc |-> "no"]
  /\ cli = "idle" /\ target = Nobody /\ signals = 0

Start(p) ==
  \/ StartDaemon(p) \/ StartServer(p) \/ Check(p) \/ Acquire(p) \/ Busy(p)
  \/ Register(p) \/ Guard(p)
Beat(p) == BeatBegin(p) \/ BeatWrite(p)
Loop(p) ==
  \/ Create(p) \/ CreateFails(p) \/ Restart(p) \/ ObserverDies(p)
  \/ DirectoryGone(p) \/ Stop(p) \/ StopFails(p) \/ StopHangs(p)
Clean(p, w) ==
  \/ StopBeat(p, w) \/ JoinBeat(p, w) \/ Unregister(p, w) \/ ReadBeat(p, w) \/ ClearBeat(p, w)
  \/ Release(p, w)
Cleanup(p) == \/ \E w \in {"main", "force"} : Clean(p, w)
              \/ Exit(p) \/ ForceExit(p)
Cli ==
  \/ CliGone \/ CliKills \/ CliUnlinks \/ CliReadsBeat \/ CliClearsBeat

LeaseNext ==
  \/ \E p \in Proc :
       \/ Start(p) \/ Beat(p) \/ Loop(p) \/ Cleanup(p) \/ WatchdogFires(p)
       \/ Kill(p) \/ Signal(p) \/ CliStop(p)
  \/ Cli

\* Threads run, polls poll, time-outs expire.
LeaseFairness ==
  /\ \A p \in Proc :
       /\ WF_leaseVars(BeatBegin(p)) /\ WF_leaseVars(BeatWrite(p))
       /\ WF_leaseVars(Acquire(p)) /\ WF_leaseVars(Register(p)) /\ WF_leaseVars(Guard(p))
       /\ WF_leaseVars(Create(p)) /\ WF_leaseVars(Restart(p))
       /\ WF_leaseVars(Stop(p) \/ StopFails(p) \/ StopHangs(p))
       /\ \A w \in {"main", "force"} : WF_leaseVars(Clean(p, w))
       /\ WF_leaseVars(Exit(p)) /\ WF_leaseVars(ForceExit(p)) /\ WF_leaseVars(WatchdogFires(p))
  /\ WF_leaseVars(Cli)

LeaseSpec == LeaseInit /\ [][LeaseNext]_leaseVars
LeaseFairSpec == LeaseSpec /\ LeaseFairness

-----------------------------------------------------------------------------
\* An observer runs under the lease until its process is about to end, or, in a
\* session, was not stopped because the last flush raised: otherwise no two
\* processes observe one repository together
\* (run_watcher_with_crash_guard(), the order of _cleanup_registration()).
ObserverHoldsLease ==
  \A p \in observer :
    lease = p \/ guard[p] \in {"exiting", "served"} \/ force[p] = "exit"

\* A watcher that ended by its own clean-up, forced or not, has left neither a
\* registration nor a heartbeat: no write of the heartbeat thread lands after
\* the clean-up (stop_heartbeat_thread()).
NoGhost ==
  \A p \in Proc :
    (guard[p] = "gone" /\ exit[p] \in {"clean", "forced"}) \/ guard[p] = "served" =>
      p \notin reg /\ hb # p

\* While a watcher watches and is not being forced out it is registered, so
\* that no purge, clean-up or `list --stop` makes it look stopped.
WatcherRegistered ==
  \A p \in Proc : guard[p] \in Guarded /\ force[p] = "no" => p \in reg

\* Only the watcher itself, or the end of its process, removes its
\* registration (stop_watcher_and_wait(), _cleanup_registration()).
RemovedWhenGone ==
  [][\A p \in reg \ reg' :
       ~Alive(p) \/ guard[p] = "unregister" \/ force[p] = "unregister"]_leaseVars

\* SIGTERM ends a watcher, even when its last flush hangs, and `list --stop`
\* returns when the process it names is gone (the watchdog of _on_sigterm(),
\* stop_watcher_and_wait()).
StopBounded ==
  \A p \in Daemon :
    watchdog[p] \/ (cli # "idle" /\ target = p) ~> ~Alive(p) /\ cli = "idle"

\* A running watcher has its heartbeat in the file again and again, whoever
\* removed or replaced it (start_heartbeat_thread()).
HeartbeatReturns ==
  \A p \in Proc : guard[p] = "running" ~> (hb = p \/ guard[p] # "running")

\* When the watcher is gone, however it ended, a session on standby watches or
\* at least tries to (wait_for_watcher_lease(), the lock freed by the kernel).
Takeover ==
  \A s \in Server :
    guard[s] = "standby" /\ lease = Nobody ~>
      (guard[s] # "standby" \/ lease # Nobody)

-----------------------------------------------------------------------------
\* Where a process has the lease, unless its forced exit has just released it.
Holding == {"registering", "registered", "forced"} \cup Guarded \cup Cleaning
\* Where the guard has been entered.
Late == {"forced", "exiting", "served"} \cup Guarded \cup Cleaning

\* The lease and the threads, told from where a process is.
LeaseInv ==
  /\ \A p \in Proc : guard[p] \in Holding => lease = p \/ force[p] = "exit"
  /\ lease # Nobody => guard[lease] \in Holding \cup {"exiting", "served"}
ThreadInv ==
  \A p \in Proc :
    /\ force[p] # "no" \/ watchdog[p] \/ p \in observer \/ beat[p] # "off"
         => guard[p] \in Late
    /\ guard[p] \in {"off"} \cup Starting => exit[p] = "no"
    /\ p \in Server => exit[p] # "early"
    /\ guard[p] = "served" => p \in Server

\* A registration stays until its process cleans up, or is gone.
RegInv ==
  /\ \A p \in Proc :
       guard[p] \in {"registered"} \cup Guarded /\ force[p] = "no" => p \in reg
  /\ cli # "idle" => target \in Proc /\ guard[target] # "off"
  /\ cli = "unlink" => guard[target] = "gone"

\* The heartbeat thread has written for the last time.
Silent(p) == beatStop[p] /\ beat[p] # "writing"
\* What a clean-up that has come as far as `where` has done.
Done(p, where) ==
  /\ where \in {"joining", "unregister", "readBeat", "clearBeat", "release",
                "exiting", "served", "exit"} => beatStop[p]
  /\ where \in {"unregister", "readBeat", "clearBeat", "release", "exiting",
                "served", "exit"} => Silent(p)
  /\ where \in {"readBeat", "clearBeat", "release", "exiting", "served", "exit"}
       => p \notin reg
  /\ where \in {"release", "exiting", "served", "exit"} => hb # p
CleanInv ==
  \A p \in Proc :
    /\ exit[p] # "early" => Done(p, guard[p])
    /\ Done(p, force[p])
    /\ guard[p] = "gone" /\ exit[p] \in {"clean", "forced"} => p \notin reg /\ hb # p

\* The inductive invariant: how far each session has come decides who holds the
\* lease, whose threads live, whose registration and heartbeat may be there.
\* ObserverHoldsLease, WatcherRegistered and NoGhost follow from it
\* (Watcher_proofs), whatever is killed, signalled or cleaned up.
IInv == LeaseTypeOK /\ LeaseInv /\ ThreadInv /\ RegInv /\ CleanInv
=============================================================================
