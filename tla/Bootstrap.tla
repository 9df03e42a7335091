----------------------------- MODULE Bootstrap -----------------------------
(***************************************************************************)
(* One process of the shipped program: startRuntimeBootstrap creates a     *)
(* WorkerRuntime for every queue it finds, at start and again at every     *)
(* scheduler tick, and stops them at shutdown.                             *)
(*                                                                         *)
(* An action is what JavaScript runs between two awaits, or the database   *)
(* statement that is awaited.  setInterval does not wait for the tick      *)
(* before, so ticks overlap.  What the jobs go through is JobLifecycle's   *)
(* matter: here a runtime has a poll loop and a number of handlers.        *)
(***************************************************************************)
EXTENDS Integers, FiniteSets

CONSTANTS
  Queues,       \* the queues that may exist
  Ticks,        \* ticks that may be under way together
  BootTick,     \* the one that stands for ensureRuntimeWorkers at start
  None,         \* no runtime
  Concurrency,  \* workerConcurrency
  MaxFailures   \* bound of the model: failing awaits and late heartbeats

ASSUME TicksAssumption   == BootTick \in Ticks
ASSUME NumbersAssumption == Concurrency \in Nat \ {0} /\ MaxFailures \in Nat
ASSUME NoneAssumption    == None \notin Queues \X Ticks

VARIABLES
  phase,           \* of the process: "closed" when the database is disconnected
  queues,          \* the rows of Queue
  row,             \* Worker.status of the queue's worker, also from earlier processes
  runtimeWorkers,  \* the Map from queues to runtimes
  rt,              \* the runtimes, by queue and by the tick that made them
  tick,            \* the ticks under way
  stopping,        \* the runtimes shutdown found in the Map
  failures

vars == << phase, queues, row, runtimeWorkers, rt, tick, stopping, failures >>

Runtimes == Queues \X Ticks

RowStatus == {"none", "ONLINE", "OFFLINE", "DRAINING", "STOPPED"}

NoTick     == [pc |-> "idle", todo |-> {}, queue |-> None]
NotStarted == [loop |-> "none", active |-> 0, stop |-> "no"]
Started    == [NotStarted EXCEPT !.loop = "top"]

alive == phase # "closed"

(* A runtime of q was started and its stop() not called: its timer runs. *)
heartbeatTimer(q) == \E t \in Ticks : rt[<<q, t>>].loop # "none" /\ rt[<<q, t>>].stop = "no"

fail == failures < MaxFailures /\ failures' = failures + 1

Init ==
  /\ phase = "boot"
  /\ queues \in SUBSET Queues
  /\ row \in [Queues -> RowStatus] /\ \A q \in Queues \ queues : row[q] = "none"
  /\ runtimeWorkers = [q \in Queues |-> None]
  /\ rt = [r \in Runtimes |-> NotStarted]
  /\ tick = [t \in Ticks |-> IF t = BootTick THEN [NoTick EXCEPT !.pc = "list"] ELSE NoTick]
  /\ stopping = {}
  /\ failures = 0

-----------------------------------------------------------------------------
(* The tick: recovery, ensureRuntimeWorkers, and the walk over the queues. *)

(* It starts with recoverStaleWorkers: the ONLINE rows that look stale go
   OFFLINE.  A row whose runtime has its heartbeat timer is among them only
   if its heartbeats are late. *)
startTick(t) ==
  /\ phase = "serving" /\ tick[t] = NoTick
  /\ \E S \in SUBSET { q \in Queues : row[q] = "ONLINE" } :
       /\ IF \E q \in S : heartbeatTimer(q) THEN fail ELSE UNCHANGED failures
       /\ row' = [q \in Queues |-> IF q \in S THEN "OFFLINE" ELSE row[q]]
  /\ tick' = [tick EXCEPT ![t].pc = "list"]
  /\ UNCHANGED << phase, queues, runtimeWorkers, rt, stopping >>

listQueues(t) ==
  /\ alive /\ tick[t].pc = "list"
  /\ tick' = [tick EXCEPT ![t].pc = "ensure", ![t].todo = queues]
  /\ UNCHANGED << phase, queues, row, runtimeWorkers, rt, stopping, failures >>

(* runtimeWorkers.has(queue.id). *)
has_row(q) == row[q] # "none"                                \* mutant: the table, not the Map
has(q) == runtimeWorkers[q] # None

(* The next queue of the list; the loop goes on to the upsert, which it
   awaits, for one that has no runtime at this moment. *)
nextQueue(t) ==
  /\ alive /\ tick[t].pc = "ensure"
  /\ \E q \in tick[t].todo :
       tick' = [tick EXCEPT ![t] = [pc    |-> IF has(q) THEN "ensure" ELSE "upsert",
                                    todo  |-> @.todo \ {q},
                                    queue |-> IF has(q) THEN None ELSE q]]
  /\ UNCHANGED << phase, queues, row, runtimeWorkers, rt, stopping, failures >>

ensureQueueWorker(t) ==
  LET q == tick[t].queue IN
  /\ alive /\ tick[t].pc = "upsert"
  /\ row' = [row EXCEPT ![q] = "ONLINE"]
  /\ tick' = [tick EXCEPT ![t].pc = "start"]
  /\ UNCHANGED << phase, queues, runtimeWorkers, rt, stopping, failures >>

(* After the await: new WorkerRuntime, start() and set(), whatever the Map
   holds by now and whether or not shutdown was requested. *)
startRuntime(t) ==
  LET q == tick[t].queue IN
  /\ alive /\ tick[t].pc = "start"
  /\ rt' = [rt EXCEPT ![<<q, t>>] = Started]
  /\ runtimeWorkers' = [runtimeWorkers EXCEPT ![q] = <<q, t>>]
  /\ tick' = [tick EXCEPT ![t].pc = "ensure", ![t].queue = None]
  /\ UNCHANGED << phase, queues, row, stopping, failures >>

(* The list is done.  At start the interval and the signal handlers follow; a
   tick goes on to the promotions (module Scheduler), where it looks at
   shutdownRequested between any two calls. *)
ensured(t) ==
  /\ alive /\ tick[t].pc = "ensure" /\ tick[t].todo = {}
  /\ phase' = IF phase = "boot" THEN "serving" ELSE phase
  /\ tick' = [tick EXCEPT ![t] = NoTick]
  /\ UNCHANGED << queues, row, runtimeWorkers, rt, stopping, failures >>

(* A database call of the tick rejects; its catch ends it. *)
abortTick(t) ==
  /\ alive /\ phase # "boot" /\ fail
  /\ tick[t].pc \in {"list", "upsert"}
  /\ tick' = [tick EXCEPT ![t] = NoTick]
  /\ UNCHANGED << phase, queues, row, runtimeWorkers, rt, stopping >>

-----------------------------------------------------------------------------
(* WorkerRuntime: the poll loop, the handlers and stop(). *)

mustStop_forgotten(r) == FALSE                               \* mutant
mustStop(r) == rt[r].stop # "no"

free(r) == rt[r].active < Concurrency

(* The head of the while loop; with all places taken it sleeps. *)
poll(r) ==
  /\ alive /\ rt[r].loop = "top"
  /\ \/ mustStop(r) /\ rt' = [rt EXCEPT ![r].loop = "done"]
     \/ ~mustStop(r) /\ free(r) /\ rt' = [rt EXCEPT ![r].loop = "claim"]
  /\ UNCHANGED << phase, queues, row, runtimeWorkers, tick, stopping, failures >>

(* claimNextJob returns a job, whose executeJob is started although stop() may
   have been called meanwhile, or none, or it throws. *)
claimReturns_uncaught(r) ==                                  \* mutant: a throw ends the loop
  /\ alive /\ rt[r].loop = "claim"
  /\ \E to \in {"top", "done"} : rt' = [rt EXCEPT ![r].loop = to]
  /\ UNCHANGED << phase, queues, row, runtimeWorkers, tick, stopping, failures >>
claimReturns(r) ==
  /\ alive /\ rt[r].loop = "claim"
  /\ \E n \in {0, 1} : rt' = [rt EXCEPT ![r].loop = "top", ![r].active = @ + n]
  /\ UNCHANGED << phase, queues, row, runtimeWorkers, tick, stopping, failures >>

handlerReturns(r) ==
  /\ alive /\ rt[r].active > 0
  /\ rt' = [rt EXCEPT ![r].active = @ - 1]
  /\ UNCHANGED << phase, queues, row, runtimeWorkers, tick, stopping, failures >>

(* The UPDATE of recordWorkerHeartbeat: it sets the status ONLINE, where it is
   ONLINE, and lastHeartbeatAt, which is no variable of this model. *)
beats(q) == row[q] = "ONLINE"

recordWorkerHeartbeat(q) ==
  /\ alive /\ heartbeatTimer(q) /\ beats(q)
  /\ row' = [row EXCEPT ![q] = "ONLINE"]
  /\ UNCHANGED << phase, queues, runtimeWorkers, rt, tick, stopping, failures >>

(* stop() awaits updateWorkerStatus(DRAINING), the loop, the handlers and
   updateWorkerStatus(STOPPED). *)
writeDraining(r) ==
  /\ alive /\ rt[r].stop = "asked"
  /\ row' = [row EXCEPT ![r[1]] = "DRAINING"]
  /\ rt' = [rt EXCEPT ![r].stop = "draining"]
  /\ UNCHANGED << phase, queues, runtimeWorkers, tick, stopping, failures >>

drained_handlersOnly(r) == rt[r].active = 0                  \* mutant
drained(r) == rt[r].loop = "done" /\ rt[r].active = 0

writeStopped(r) ==
  /\ alive /\ rt[r].stop = "draining" /\ drained(r)
  /\ row' = [row EXCEPT ![r[1]] = "STOPPED"]
  /\ rt' = [rt EXCEPT ![r].stop = "stopped"]
  /\ UNCHANGED << phase, queues, runtimeWorkers, tick, stopping, failures >>

(* One of the two updates throws, and stop() rejects. *)
rejectStop(r) ==
  /\ alive /\ fail
  /\ \/ rt[r].stop = "asked"
     \/ rt[r].stop = "draining" /\ drained(r)
  /\ rt' = [rt EXCEPT ![r].stop = "rejected"]
  /\ UNCHANGED << phase, queues, row, runtimeWorkers, tick, stopping >>

-----------------------------------------------------------------------------
(* Shutdown. *)

(* shutdownRequested is set, the interval cleared, and stop() called for what
   the Map holds now. *)
shutdown ==
  /\ phase = "serving"
  /\ phase' = "stopping"
  /\ stopping' = { runtimeWorkers[q] : q \in Queues } \ {None}
  /\ rt' = [r \in Runtimes |-> IF r \in stopping' THEN [rt[r] EXCEPT !.stop = "asked"] ELSE rt[r]]
  /\ UNCHANGED << queues, row, runtimeWorkers, tick, failures >>

(* Promise.allSettled. *)
settled == \A r \in stopping : rt[r].stop \in {"stopped", "rejected"}

awaitRuntimes ==
  /\ phase = "stopping" /\ settled
  /\ phase' = "waiting"
  /\ UNCHANGED << queues, row, runtimeWorkers, rt, tick, stopping, failures >>

ticksEnded_ignored == TRUE                                   \* mutant
ticksEnded == \A t \in Ticks : tick[t] = NoTick

(* Sockets, server, Redis and the database are closed, and the signal handler
   exits. *)
disconnect ==
  /\ phase = "waiting" /\ ticksEnded
  /\ phase' = "closed"
  /\ UNCHANGED << queues, row, runtimeWorkers, rt, tick, stopping, failures >>

-----------------------------------------------------------------------------
(* The API. *)

createQueue(q) ==
  /\ alive /\ q \notin queues
  /\ queues' = queues \cup {q}
  /\ UNCHANGED << phase, row, runtimeWorkers, rt, tick, stopping, failures >>

TickStep(t) == \/ startTick(t) \/ listQueues(t) \/ nextQueue(t)
               \/ ensureQueueWorker(t) \/ startRuntime(t) \/ ensured(t)

Stop(r) == writeDraining(r) \/ writeStopped(r)

Next == \/ \E t \in Ticks : TickStep(t) \/ abortTick(t)
        \/ \E r \in Runtimes : \/ poll(r) \/ claimReturns(r) \/ handlerReturns(r)
                               \/ Stop(r) \/ rejectStop(r)
        \/ shutdown \/ awaitRuntimes \/ disconnect
        \/ \E q \in Queues : createQueue(q) \/ recordWorkerHeartbeat(q)

Spec == Init /\ [][Next]_vars

(* The interval fires and a tick goes on; a loop polls and its claim and its
   handlers return; stop() and shutdown go on.  Nobody has to ask for a
   shutdown, and nothing has to fail. *)
Fairness ==
  /\ \A t \in Ticks : WF_vars(TickStep(t))
  /\ \A r \in Runtimes : /\ WF_vars(poll(r) \/ claimReturns(r))
                         /\ WF_vars(handlerReturns(r))
                         /\ WF_vars(Stop(r))
  /\ WF_vars(awaitRuntimes) /\ WF_vars(disconnect)

FairSpec == Spec /\ Fairness

-----------------------------------------------------------------------------
(* Every variable has its type; a runtime never has more handlers than
   places. *)
TypeOK ==
  /\ phase \in {"boot", "serving", "stopping", "waiting", "closed"}
  /\ queues \subseteq Queues
  /\ row \in [Queues -> RowStatus]
  /\ runtimeWorkers \in [Queues -> Runtimes \cup {None}]
  /\ rt \in [Runtimes -> [loop   : {"none", "top", "claim", "done"},
                          active : 0 .. Concurrency,
                          stop   : {"no", "asked", "draining", "stopped", "rejected"}]]
  /\ tick \in [Ticks -> [pc    : {"idle", "list", "ensure", "upsert", "start"},
                         todo  : SUBSET Queues,
                         queue : Queues \cup {None}]]
  /\ stopping \subseteq Runtimes
  /\ failures \in 0 .. MaxFailures

(* A runtime whose stop() resolved is quiet for good: no handler runs and no
   claim is in flight that could still start one, although a claim may have
   been in flight when stop() was called. *)
StoppedIsDrained ==
  \A r \in Runtimes : rt[r].stop = "stopped" => rt[r].loop = "done" /\ rt[r].active = 0

(* A queue that has a runtime in the Map, and that no tick will therefore give
   another one, is polled: until the shutdown its loop runs, whatever overlapping
   ticks put in its place and whatever its claims throw. *)
ServedQueueIsPolled ==
  phase \in {"boot", "serving"} =>
    \A q \in {p \in Queues : has(p)} :
      LET r == runtimeWorkers[q] IN
      r[1] = q /\ rt[r].loop \in {"top", "claim"} /\ ~mustStop(r)

(* A clean shutdown leaves nothing for recovery to find: if every runtime ever
   started was in the Map when shutdown came, and its stop() did not throw,
   then at the end no handler runs and the row of every queue that had a
   runtime is STOPPED, whatever the ticks under way were doing. *)
CleanShutdown ==
  LET started == { r \in Runtimes : rt[r].loop # "none" } IN
  phase = "closed" /\ (\A r \in started : r \in stopping /\ rt[r].stop = "stopped")
    => \A r \in started : rt[r].active = 0 /\ row[r[1]] = "STOPPED"

(* A shutdown ends, whatever the loops, handlers and ticks were doing, as long
   as handlers return. *)
ShutdownTerminates == phase = "stopping" ~> phase = "closed"

(* Every queue, also one created while the process runs, gets a runtime unless
   the process is shut down first. *)
EveryQueueServed ==
  \A q \in Queues : q \in queues ~> (runtimeWorkers[q] # None \/ phase \notin {"boot", "serving"})
=============================================================================
