-------------------------- MODULE BootstrapProofs --------------------------
(***************************************************************************)
(* Proofs about Bootstrap, for any queues, ticks, concurrency and number   *)
(* of failures.                                                            *)
(***************************************************************************)
EXTENDS Bootstrap, TLAPS

(* The types TypeOK gives a tick and a runtime. *)
TickPC      == {"idle", "list", "ensure", "upsert", "start"}
TickType    == [pc    : TickPC,
                todo  : SUBSET Queues,
                queue : Queues \cup {None}]
RuntimeType == [loop   : {"none", "top", "claim", "done"},
                active : 0 .. Concurrency,
                stop   : {"no", "asked", "draining", "stopped", "rejected"}]

(* A claim in flight has a place waiting for its job: pollLoop looked at the
   number of active jobs before, and only it starts more. *)
ClaimHasPlace == \A r \in Runtimes : rt[r].loop = "claim" => rt[r].active < Concurrency

TypeInv == TypeOK /\ ClaimHasPlace

-----------------------------------------------------------------------------
(* The initial states are well typed. *)
LEMMA InitTypeInv == Init => TypeInv
  BY TicksAssumption, NumbersAssumption
  DEF Init, TypeInv, TypeOK, ClaimHasPlace, NoTick, NotStarted, Runtimes, RowStatus

(* A tick that gets another pc and other queues to do is still a tick. *)
LEMMA TickEdit ==
  ASSUME NEW k \in TickType, NEW pc \in TickPC,
         NEW todo \in SUBSET Queues, NEW q \in Queues \cup {None}
  PROVE  /\ [k EXCEPT !.pc = pc] \in TickType
         /\ [k EXCEPT !.pc = pc, !.todo = todo] \in TickType
         /\ [k EXCEPT !.pc = pc, !.queue = q] \in TickType
<1>1. [k EXCEPT !.pc = pc] \in TickType
  BY DEF TickType
<1>2. [k EXCEPT !.pc = pc, !.todo = todo] \in TickType
  BY DEF TickType
<1>3. [k EXCEPT !.pc = pc, !.queue = q] \in TickType
  BY DEF TickType
<1> QED
  BY <1>1, <1>2, <1>3

(* One tick changes and stays a tick. *)
LEMMA TickChange ==
  ASSUME tick \in [Ticks -> TickType], NEW t \in Ticks, NEW k \in TickType,
         tick' = [tick EXCEPT ![t] = k]
  PROVE  tick' \in [Ticks -> TickType]
OBVIOUS

(* The steps of a tick keep the types. *)
LEMMA TickTypeInv ==
  ASSUME TypeInv, NEW t \in Ticks, TickStep(t) \/ abortTick(t)
  PROVE  TypeInv'
<1> USE NumbersAssumption DEF TypeInv, TypeOK, Runtimes, RowStatus, fail
<1>0. tick \in [Ticks -> TickType] /\ queues \in SUBSET Queues
  BY DEF TickType, TickPC
<1>1. CASE startTick(t)
  <2>1. PICK S \in SUBSET { q \in Queues : row[q] = "ONLINE" } :
          /\ IF \E q \in S : heartbeatTimer(q) THEN fail ELSE UNCHANGED failures
          /\ row' = [q \in Queues |-> IF q \in S THEN "OFFLINE" ELSE row[q]]
    BY <1>1 DEF startTick
  <2>2. failures' \in 0 .. MaxFailures
    BY <2>1
  <2>3. row' \in [Queues -> RowStatus]
    BY <2>1
  <2>4. tick' \in [Ticks -> TickType]
    <3>1. [tick[t] EXCEPT !.pc = "list"] \in TickType
      BY <1>0, TickEdit DEF TickPC
    <3>2. tick' = [tick EXCEPT ![t] = [tick[t] EXCEPT !.pc = "list"]]
      BY <1>1 DEF startTick
    <3> QED
      BY <1>0, <3>1, <3>2, TickChange
  <2> QED
    BY <1>1, <2>2, <2>3, <2>4 DEF startTick, ClaimHasPlace, TickType, TickPC
<1>2. CASE listQueues(t)
  <2>1. tick' \in [Ticks -> TickType]
    <3>1. [tick[t] EXCEPT !.pc = "ensure", !.todo = queues] \in TickType
      BY <1>0, TickEdit DEF TickPC
    <3>2. tick' = [tick EXCEPT ![t] = [tick[t] EXCEPT !.pc = "ensure", !.todo = queues]]
      BY <1>2 DEF listQueues
    <3> QED
      BY <1>0, <3>1, <3>2, TickChange
  <2> QED
    BY <1>2, <2>1 DEF listQueues, ClaimHasPlace, TickType, TickPC
<1>3. CASE nextQueue(t)
  BY <1>3 DEF nextQueue, ClaimHasPlace
<1>4. CASE ensureQueueWorker(t)
  BY <1>4 DEF ensureQueueWorker, ClaimHasPlace
<1>5. CASE startRuntime(t)
  <2> DEFINE q == tick[t].queue
  <2>1. Started \in RuntimeType /\ Started.loop = "top"
    BY DEF Started, NotStarted, RuntimeType
  <2>2. tick' \in [Ticks -> TickType]
    <3>1. [tick[t] EXCEPT !.pc = "ensure", !.queue = None] \in TickType
      BY <1>0, TickEdit DEF TickPC
    <3>2. tick' = [tick EXCEPT ![t] = [tick[t] EXCEPT !.pc = "ensure", !.queue = None]]
      BY <1>5 DEF startRuntime
    <3> QED
      BY <1>0, <3>1, <3>2, TickChange
  <2>3. runtimeWorkers' \in [Queues -> Runtimes \cup {None}]
    BY <1>5 DEF startRuntime
  <2>4. rt' \in [Runtimes -> RuntimeType] /\ ClaimHasPlace'
    <3> HIDE DEF q
    <3>1. rt' = [rt EXCEPT ![<<q, t>>] = Started] /\ rt \in [Runtimes -> RuntimeType]
      BY <1>5 DEF startRuntime, RuntimeType, q
    <3>2. \A r \in Runtimes : rt'[r] = Started \/ rt'[r] = rt[r]
      BY <3>1
    <3>3. ClaimHasPlace'
      BY <2>1, <3>2 DEF ClaimHasPlace
    <3> QED
      BY <2>1, <3>1, <3>3
  <2> QED
    BY <1>5, <2>2, <2>3, <2>4 DEF startRuntime, TickType, TickPC, RuntimeType
<1>6. CASE ensured(t)
  BY <1>6 DEF ensured, NoTick, ClaimHasPlace
<1>7. CASE abortTick(t)
  BY <1>7 DEF abortTick, NoTick, ClaimHasPlace
<1> QED
  BY <1>1, <1>2, <1>3, <1>4, <1>5, <1>6, <1>7 DEF TickStep

(* The steps of a runtime keep the types: the number of handlers stays within
   the concurrency because of ClaimHasPlace. *)
LEMMA RuntimeTypeInv ==
  ASSUME TypeInv, NEW r \in Runtimes,
         poll(r) \/ claimReturns(r) \/ handlerReturns(r) \/ Stop(r) \/ rejectStop(r)
  PROVE  TypeInv'
<1> USE NumbersAssumption DEF TypeInv, TypeOK
<1>1. CASE poll(r)
  BY <1>1 DEF poll, free, ClaimHasPlace
<1>2. CASE claimReturns(r)
  <2>1. PICK n \in {0, 1} : rt' = [rt EXCEPT ![r].loop = "top", ![r].active = @ + n]
    BY <1>2 DEF claimReturns
  <2>2. rt[r].active + n \in 0 .. Concurrency
    BY <1>2 DEF claimReturns, ClaimHasPlace
  <2> QED
    BY <1>2, <2>1, <2>2 DEF claimReturns, ClaimHasPlace
<1>3. CASE handlerReturns(r)
  BY <1>3 DEF handlerReturns, ClaimHasPlace
<1>4. CASE Stop(r)
  <2>1. \E st \in {"draining", "stopped"} : rt' = [rt EXCEPT ![r].stop = st]
    BY <1>4 DEF Stop, writeDraining, writeStopped
  <2>2. rt' \in [Runtimes -> RuntimeType] /\ ClaimHasPlace'
    BY <2>1 DEF ClaimHasPlace, RuntimeType
  <2>3. row' \in [Queues -> RowStatus]
    BY <1>4 DEF Stop, writeDraining, writeStopped, RowStatus
  <2> QED
    BY <1>4, <2>2, <2>3 DEF Stop, writeDraining, writeStopped, RuntimeType
<1>5. CASE rejectStop(r)
  BY <1>5 DEF rejectStop, fail, ClaimHasPlace
<1> QED
  BY <1>1, <1>2, <1>3, <1>4, <1>5

(* Every step keeps the types. *)
LEMMA NextTypeInv == TypeInv /\ [Next]_vars => TypeInv'
<1> SUFFICES ASSUME TypeInv, [Next]_vars PROVE TypeInv'
  OBVIOUS
<1> USE DEF TypeInv, TypeOK
<1>1. CASE \E t \in Ticks : TickStep(t) \/ abortTick(t)
  BY <1>1, TickTypeInv
<1>2. CASE \E r \in Runtimes : \/ poll(r) \/ claimReturns(r) \/ handlerReturns(r)
                               \/ Stop(r) \/ rejectStop(r)
  BY <1>2, RuntimeTypeInv
<1>3. CASE shutdown
  <2>1. stopping' \subseteq Runtimes
    BY <1>3 DEF shutdown
  <2> QED
    BY <1>3, <2>1 DEF shutdown, ClaimHasPlace
<1>4. CASE awaitRuntimes
  BY <1>4 DEF awaitRuntimes, ClaimHasPlace
<1>5. CASE disconnect
  BY <1>5 DEF disconnect, ClaimHasPlace
<1>6. CASE \E q \in Queues : createQueue(q)
  BY <1>6 DEF createQueue, ClaimHasPlace
<1>7. CASE \E q \in Queues : recordWorkerHeartbeat(q)
  BY <1>7 DEF recordWorkerHeartbeat, RowStatus, ClaimHasPlace
<1>8. CASE UNCHANGED vars
  BY <1>8 DEF vars, ClaimHasPlace
<1> QED
  BY <1>1, <1>2, <1>3, <1>4, <1>5, <1>6, <1>7, <1>8 DEF Next

(* Type correctness: in particular a runtime never runs more handlers than its
   concurrency allows. *)
THEOREM TypeCorrect == Spec => []TypeOK
<1>1. TypeInv => TypeOK
  BY DEF TypeInv
<1> QED
  BY <1>1, InitTypeInv, NextTypeInv, PTL DEF Spec

-----------------------------------------------------------------------------
(* A step leaves a stopped and drained runtime as it is, and stop() resolves
   only when the loop has ended and no handler is left. *)
LEMMA NextDrained == TypeOK /\ StoppedIsDrained /\ [Next]_vars => StoppedIsDrained'
<1> SUFFICES ASSUME TypeOK, StoppedIsDrained, [Next]_vars PROVE StoppedIsDrained'
  OBVIOUS
<1> USE DEF TypeOK, StoppedIsDrained
<1>1. CASE UNCHANGED rt
  BY <1>1
<1>2. ASSUME NEW t \in Ticks, startRuntime(t) PROVE StoppedIsDrained'
  <2>1. Started.stop = "no"
    BY DEF Started, NotStarted
  <2> QED
    BY <1>2, <2>1 DEF startRuntime
<1>3. ASSUME NEW r \in Runtimes, poll(r) PROVE StoppedIsDrained'
  BY <1>3 DEF poll
<1>4. ASSUME NEW r \in Runtimes, claimReturns(r) PROVE StoppedIsDrained'
  BY <1>4 DEF claimReturns
<1>5. ASSUME NEW r \in Runtimes, handlerReturns(r) PROVE StoppedIsDrained'
  BY <1>5 DEF handlerReturns
<1>6. ASSUME NEW r \in Runtimes, Stop(r) \/ rejectStop(r) PROVE StoppedIsDrained'
  BY <1>6 DEF Stop, writeDraining, writeStopped, drained, rejectStop
<1>7. CASE shutdown
  BY <1>7 DEF shutdown
<1> QED
  BY <1>1, <1>2, <1>3, <1>4, <1>5, <1>6, <1>7
  DEF Next, vars, TickStep, startTick, listQueues, nextQueue, ensureQueueWorker, ensured,
      abortTick, awaitRuntimes, disconnect, createQueue, recordWorkerHeartbeat

(* A runtime whose stop() resolved has no handler and no claim in flight, for
   any interleaving of its loop, its handlers, the ticks and the shutdown. *)
THEOREM StopDrains == Spec => []StoppedIsDrained
<1>1. Init => StoppedIsDrained
  BY DEF Init, StoppedIsDrained, NotStarted
<1> QED
  BY <1>1, TypeCorrect, NextDrained, PTL DEF Spec

-----------------------------------------------------------------------------
(* What makes a shutdown clean.  A tick that is about to start a runtime is the
   one that has not (TicksOwn), and every runtime that was started left a
   runtime in the Map (MapInv).  stop() is called for one runtime of a queue at
   most, and never for one that starts later (StoppingInv).  So once it has
   written STOPPED, only a tick that is about to start another runtime of the
   queue, which shutdown will not find, writes the row again (RowInv). *)
started(r) == rt[r].loop # "none"

TicksOwn ==
  \A t \in Ticks : tick[t].pc \in {"upsert", "start"} =>
    tick[t].queue \in Queues /\ ~started(<< tick[t].queue, t >>)

MapInv ==
  /\ \A r \in Runtimes : started(r) => runtimeWorkers[r[1]] # None
  /\ \A q \in Queues : runtimeWorkers[q] # None =>
       runtimeWorkers[q][1] = q /\ started(runtimeWorkers[q])

StoppingInv ==
  /\ \A r \in Runtimes : rt[r].stop # "no" => r \in stopping
  /\ \A r \in stopping : started(r)
  /\ \A r, s \in stopping : r[1] = s[1] => r = s
  /\ phase \in {"boot", "serving"} => stopping = {}

Overwritten(q) ==
  \/ \E t \in Ticks : tick[t].pc = "start" /\ tick[t].queue = q
  \/ \E r \in Runtimes : r[1] = q /\ started(r) /\ r \notin stopping

RowInv ==
  \A r \in Runtimes : rt[r].stop = "stopped" =>
    row[r[1]] = "STOPPED" \/ Overwritten(r[1])

ClosedInv == phase = "closed" => ticksEnded

ShutdownInv == TicksOwn /\ MapInv /\ StoppingInv /\ RowInv /\ ClosedInv

LEMMA InitShutdownInv == Init => ShutdownInv
<1> SUFFICES ASSUME Init PROVE ShutdownInv
  OBVIOUS
<1>1. \A r \in Runtimes : rt[r].loop = "none" /\ rt[r].stop = "no"
  BY DEF Init, NotStarted
<1>2. \A t \in Ticks : tick[t].pc \in {"idle", "list"}
  BY DEF Init, NoTick
<1>3. stopping = {} /\ phase = "boot" /\ \A q \in Queues : runtimeWorkers[q] = None
  BY DEF Init
<1> QED
  BY <1>1, <1>2, <1>3
  DEF ShutdownInv, TicksOwn, MapInv, StoppingInv, RowInv, ClosedInv, started

(* The runtimes' states that count here: which are started, asked, stopped. *)
LEMMA SameRuntimes ==
  ASSUME ShutdownInv, UNCHANGED << runtimeWorkers, stopping >>,
         \A r \in Runtimes : (rt'[r].loop = "none") = (rt[r].loop = "none"),
         \A r \in Runtimes : rt'[r].stop # "no" => rt[r].stop # "no",
         phase' \in {"boot", "serving"} => phase \in {"boot", "serving"},
         TypeOK, TypeOK'
  PROVE  MapInv' /\ StoppingInv'
<1>1. \A q \in Queues : runtimeWorkers[q] # None => runtimeWorkers[q] \in Runtimes
  BY DEF TypeOK
<1>2. \A r \in stopping : r \in Runtimes
  BY DEF TypeOK
<1> QED
  BY <1>1, <1>2 DEF ShutdownInv, MapInv, StoppingInv, started

(* The steps of a tick.  The only ones that change a runtime or the Map are
   startRuntime's; a tick that gives up or ends is about to start nothing. *)
LEMMA TickShutdownInv ==
  ASSUME TypeOK, TypeOK', ShutdownInv, NEW t \in Ticks, TickStep(t) \/ abortTick(t)
  PROVE  ShutdownInv'
<1>0. /\ tick \in [Ticks -> TickType] /\ row \in [Queues -> RowStatus]
      /\ rt \in [Runtimes -> RuntimeType] /\ stopping \subseteq Runtimes
      /\ runtimeWorkers \in [Queues -> Runtimes \cup {None}]
  BY DEF TypeOK, TickType, TickPC, RuntimeType
<1>1. \A q \in Queues, s \in Ticks : << q, s >> \in Runtimes /\ << q, s >>[1] = q
  BY DEF Runtimes
<1>2. CASE startTick(t)
  <2>1. phase = "serving" /\ stopping = {}
        /\ UNCHANGED << phase, runtimeWorkers, rt, stopping >>
    BY <1>2 DEF startTick, ShutdownInv, StoppingInv
  <2>2. \A s \in Ticks : tick'[s].pc # tick[s].pc => tick'[s].pc = "list"
    BY <1>0, <1>2 DEF startTick, TickType
  <2>3. \A s \in Ticks : tick'[s].queue = tick[s].queue
    BY <1>0, <1>2 DEF startTick, TickType
  <2>4. TicksOwn'
    BY <2>1, <2>2, <2>3 DEF ShutdownInv, TicksOwn, started
  <2>5. RowInv' /\ ClosedInv'
    BY <2>1 DEF ShutdownInv, RowInv, StoppingInv, ClosedInv
  <2> QED BY <2>1, <2>4, <2>5, SameRuntimes DEF ShutdownInv
<1>3. CASE listQueues(t) \/ ensured(t) \/ abortTick(t) \/ nextQueue(t)
  <2>1. /\ UNCHANGED << row, runtimeWorkers, rt, stopping >>
        /\ phase' = phase \/ (phase = "boot" /\ phase' = "serving")
        /\ alive
    BY <1>3 DEF listQueues, ensured, abortTick, nextQueue, alive
  <2>2. \A s \in Ticks : s # t => tick'[s] = tick[s]
    BY <1>0, <1>3 DEF listQueues, ensured, abortTick, nextQueue
  <2>3. tick[t].pc # "start" /\ tick'[t].pc # "start"
    BY <1>0, <1>3 DEF listQueues, ensured, abortTick, nextQueue, NoTick, TickType
  <2>4. tick'[t].pc = "upsert" => tick'[t].queue \in Queues
                                  /\ runtimeWorkers[tick'[t].queue] = None
    BY <1>0, <1>3 DEF listQueues, ensured, abortTick, nextQueue, NoTick, TickType, has
  <2>5. TicksOwn'
    BY <1>1, <2>1, <2>2, <2>3, <2>4 DEF ShutdownInv, TicksOwn, MapInv, started
  <2>6. RowInv'
    BY <2>1, <2>2, <2>3 DEF ShutdownInv, RowInv, Overwritten, started
  <2>7. ClosedInv'
    BY <2>1 DEF ClosedInv, alive
  <2> QED BY <2>1, <2>5, <2>6, <2>7, SameRuntimes DEF ShutdownInv
<1>4. CASE ensureQueueWorker(t)
  <2> DEFINE q == tick[t].queue
  <2>1. /\ UNCHANGED << phase, runtimeWorkers, rt, stopping >> /\ alive
        /\ row' = [row EXCEPT ![q] = "ONLINE"] /\ tick[t].pc = "upsert"
    BY <1>4 DEF ensureQueueWorker
  <2>2. /\ tick'[t].pc = "start" /\ tick'[t].queue = q
        /\ \A s \in Ticks : s # t => tick'[s] = tick[s]
    BY <1>0, <1>4 DEF ensureQueueWorker, TickType
  <2> HIDE DEF q
  <2>3. TicksOwn'
    BY <2>1, <2>2 DEF ShutdownInv, TicksOwn, started, q
  <2>4. RowInv'
    <3> SUFFICES ASSUME NEW r \in Runtimes, rt[r].stop = "stopped",
                        row'[r[1]] # "STOPPED"
                 PROVE  Overwritten(r[1])'
      BY <2>1 DEF RowInv
    <3>1. CASE r[1] = q
      BY <2>2, <3>1 DEF Overwritten
    <3>2. CASE r[1] # q
      <4>1. row'[r[1]] = row[r[1]]
        BY <1>0, <2>1, <3>2 DEF Runtimes
      <4>2. Overwritten(r[1])
        BY <4>1 DEF ShutdownInv, RowInv
      <4> QED BY <2>1, <2>2, <4>2 DEF Overwritten, started
    <3> QED BY <3>1, <3>2
  <2>5. ClosedInv'
    BY <2>1 DEF ClosedInv, alive
  <2> QED BY <2>1, <2>3, <2>4, <2>5, SameRuntimes DEF ShutdownInv
<1>5. CASE startRuntime(t)
  <2> DEFINE q == tick[t].queue
             new == << q, t >>
  <2>1. /\ rt' = [rt EXCEPT ![new] = Started] /\ UNCHANGED << phase, row, stopping >>
        /\ runtimeWorkers' = [runtimeWorkers EXCEPT ![q] = new] /\ alive
        /\ tick[t].pc = "start"
    BY <1>5 DEF startRuntime
  <2>2. /\ tick'[t].pc = "ensure"
        /\ \A s \in Ticks : s # t => tick'[s] = tick[s]
    BY <1>0, <1>5 DEF startRuntime, TickType
  <2>3. q \in Queues /\ new \in Runtimes /\ new[1] = q /\ new[2] = t /\ ~started(new)
    BY <1>1, <2>1 DEF ShutdownInv, TicksOwn
  <2> HIDE DEF q, new
  <2>4. Started.loop = "top" /\ Started.stop = "no"
    BY DEF Started, NotStarted
  <2>5. /\ rt'[new] = Started /\ rt'[new].loop # "none"
        /\ \A r \in Runtimes : r # new => rt'[r] = rt[r]
    BY <1>0, <2>1, <2>3, <2>4
  <2>6. new \notin stopping
    BY <2>3 DEF ShutdownInv, StoppingInv
  <2>7. TicksOwn'
    <3> SUFFICES ASSUME NEW s \in Ticks, tick'[s].pc \in {"upsert", "start"}
                 PROVE  tick'[s].queue \in Queues /\ ~started(<< tick[s].queue, s >>)'
      BY <2>2 DEF TicksOwn
    <3>1. s # t /\ tick'[s] = tick[s]
      BY <2>2
    <3>2. tick[s].queue \in Queues /\ ~started(<< tick[s].queue, s >>)
      BY <3>1 DEF ShutdownInv, TicksOwn
    <3>3. << tick[s].queue, s >> # new
      BY <2>3, <3>1
    <3> QED BY <1>1, <2>5, <3>1, <3>2, <3>3 DEF started
  <2>8. MapInv'
    <3>1. runtimeWorkers'[q] = new /\ new # None
          /\ \A p \in Queues : p # q => runtimeWorkers'[p] = runtimeWorkers[p]
      BY <1>0, <2>1, <2>3, NoneAssumption DEF Runtimes
    <3>2. \A r \in Runtimes : r[1] \in Queues
      BY DEF Runtimes
    <3>3. \A r \in Runtimes : rt'[r].loop # "none" => runtimeWorkers'[r[1]] # None
      BY <2>3, <2>5, <3>1, <3>2 DEF ShutdownInv, MapInv, started
    <3>4. ASSUME NEW p \in Queues, runtimeWorkers'[p] # None
          PROVE  runtimeWorkers'[p][1] = p /\ rt'[runtimeWorkers'[p]].loop # "none"
      <4>1. CASE p = q
        BY <2>3, <2>4, <2>5, <3>1, <4>1
      <4>2. CASE p # q
        <5>1. runtimeWorkers[p] \in Runtimes /\ runtimeWorkers[p][1] = p
              /\ started(runtimeWorkers[p])
          BY <1>0, <3>1, <3>4, <4>2 DEF ShutdownInv, MapInv
        <5> QED BY <2>3, <2>5, <3>1, <4>2, <5>1 DEF started
      <4> QED BY <4>1, <4>2
    <3> QED BY <3>3, <3>4 DEF MapInv, started
  <2>9. StoppingInv'
    BY <1>0, <2>1, <2>4, <2>5, <2>6 DEF ShutdownInv, StoppingInv, started
  <2>10. RowInv'
    <3> SUFFICES ASSUME NEW r \in Runtimes, rt'[r].stop = "stopped",
                        row[r[1]] # "STOPPED"
                 PROVE  Overwritten(r[1])'
      BY <2>1 DEF RowInv
    <3>1. r # new /\ rt'[r] = rt[r]
      BY <2>4, <2>5
    <3>2. Overwritten(r[1])
      BY <3>1 DEF ShutdownInv, RowInv
    <3>3. CASE r[1] = q
      BY <2>1, <2>3, <2>5, <2>6, <3>3 DEF Overwritten, started
    <3>4. CASE \E s \in Ticks : tick[s].pc = "start" /\ tick[s].queue = r[1] /\ r[1] # q
      BY <2>2, <3>4 DEF Overwritten, q
    <3>5. CASE \E s \in Runtimes : s[1] = r[1] /\ started(s) /\ s \notin stopping
      BY <2>1, <2>3, <2>5, <3>5 DEF Overwritten, started
    <3> QED BY <3>2, <3>3, <3>4, <3>5 DEF Overwritten
  <2>11. ClosedInv'
    BY <2>1 DEF ClosedInv, alive
  <2> QED BY <2>7, <2>8, <2>9, <2>10, <2>11 DEF ShutdownInv
<1> QED
  BY <1>2, <1>3, <1>4, <1>5 DEF TickStep

(* The steps of a runtime. *)
LEMMA RuntimeShutdownInv ==
  ASSUME TypeOK, TypeOK', ShutdownInv, NEW r \in Runtimes,
         poll(r) \/ claimReturns(r) \/ handlerReturns(r) \/ Stop(r) \/ rejectStop(r)
  PROVE  ShutdownInv'
<1>1. /\ rt \in [Runtimes -> RuntimeType] /\ row \in [Queues -> RowStatus]
      /\ r[1] \in Queues /\ UNCHANGED << phase, runtimeWorkers, stopping, tick >> /\ alive
  BY DEF TypeOK, RuntimeType, Runtimes, poll, claimReturns, handlerReturns, Stop,
         writeDraining, writeStopped, rejectStop
<1>2. \A s \in Runtimes : s # r => rt'[s] = rt[s]
  BY <1>1 DEF poll, claimReturns, handlerReturns, Stop, writeDraining, writeStopped,
              rejectStop
<1>3. (rt'[r].loop = "none") = (rt[r].loop = "none")
  BY <1>1 DEF poll, claimReturns, handlerReturns, Stop, writeDraining, writeStopped,
              rejectStop, RuntimeType
<1>4. rt'[r].stop # rt[r].stop =>
        rt[r].stop \in {"asked", "draining"} /\ (Stop(r) \/ rejectStop(r))
  BY <1>1 DEF poll, claimReturns, handlerReturns, Stop, writeDraining, writeStopped,
              rejectStop, RuntimeType
<1>5. \A s \in Runtimes : (rt'[s].loop = "none") = (rt[s].loop = "none")
  BY <1>2, <1>3
<1>6. MapInv' /\ StoppingInv'
  BY <1>1, <1>2, <1>4, <1>5, SameRuntimes
<1>7. TicksOwn'
  <2>1. \A q \in Queues, t \in Ticks : << q, t >> \in Runtimes
    BY DEF Runtimes
  <2> QED BY <1>1, <1>5, <2>1 DEF ShutdownInv, TicksOwn, started
<1>8. \A q \in Queues : Overwritten(q) => Overwritten(q)'
  BY <1>1, <1>5 DEF Overwritten, started
<1>9. RowInv'
  <2> SUFFICES ASSUME NEW s \in Runtimes, rt'[s].stop = "stopped",
                      row'[s[1]] # "STOPPED"
               PROVE  Overwritten(s[1])'
    BY DEF RowInv
  <2>0. s[1] \in Queues
    BY DEF Runtimes
  <2>1. CASE row' = row /\ rt[s].stop = "stopped"
    BY <1>8, <2>0, <2>1 DEF ShutdownInv, RowInv
  <2>2. CASE writeDraining(r)
    <3>1. rt[r].stop = "asked" /\ rt'[r].stop = "draining"
          /\ row' = [row EXCEPT ![r[1]] = "DRAINING"]
      BY <1>1, <2>2 DEF writeDraining, RuntimeType
    <3>2. s # r /\ rt[s].stop = "stopped"
      BY <1>2, <3>1
    <3>3. s[1] # r[1]
      BY <3>1, <3>2 DEF ShutdownInv, StoppingInv
    <3>4. row'[s[1]] = row[s[1]]
      BY <1>1, <2>0, <3>1, <3>3
    <3> QED BY <1>8, <2>0, <3>2, <3>4 DEF ShutdownInv, RowInv
  <2>3. CASE writeStopped(r)
    <3>1. row' = [row EXCEPT ![r[1]] = "STOPPED"]
      BY <2>3 DEF writeStopped
    <3>2. s[1] # r[1] /\ row'[s[1]] = row[s[1]]
      BY <1>1, <2>0, <3>1
    <3>3. rt[s].stop = "stopped"
      BY <1>2, <3>2
    <3> QED BY <1>8, <2>0, <3>2, <3>3 DEF ShutdownInv, RowInv
  <2>4. CASE rejectStop(r)
    <3>1. rt'[r].stop = "rejected" /\ row' = row
      BY <1>1, <2>4 DEF rejectStop, RuntimeType
    <3> QED BY <1>2, <2>1, <3>1
  <2>5. CASE poll(r) \/ claimReturns(r) \/ handlerReturns(r)
    <3>1. row' = row /\ rt'[r].stop = rt[r].stop
      BY <1>1, <2>5 DEF poll, claimReturns, handlerReturns, RuntimeType
    <3> QED BY <1>2, <2>1, <3>1
  <2> QED BY <2>2, <2>3, <2>4, <2>5 DEF Stop
<1>10. ClosedInv'
  BY <1>1 DEF ClosedInv, alive
<1> QED BY <1>6, <1>7, <1>9, <1>10 DEF ShutdownInv

(* shutdown asks what the Map holds, one runtime of each queue. *)
LEMMA AskShutdownInv == TypeOK /\ ShutdownInv /\ shutdown => ShutdownInv'
<1> SUFFICES ASSUME TypeOK, ShutdownInv, shutdown PROVE ShutdownInv'
  OBVIOUS
<1>1. /\ stopping = {} /\ stopping' = { runtimeWorkers[q] : q \in Queues } \ {None}
      /\ phase' = "stopping" /\ UNCHANGED << runtimeWorkers, row, tick >>
  BY DEF shutdown, ShutdownInv, StoppingInv
<1>2. \A r \in Runtimes : rt[r].stop = "no"
  BY <1>1 DEF ShutdownInv, StoppingInv
<1>3. \A r \in Runtimes :
        rt'[r] = IF r \in stopping' THEN [rt[r] EXCEPT !.stop = "asked"] ELSE rt[r]
  BY DEF shutdown
<1>4. rt \in [Runtimes -> RuntimeType]
  BY DEF TypeOK, RuntimeType
<1>5. \A r \in Runtimes : /\ rt'[r].loop = rt[r].loop
                          /\ rt'[r].stop = IF r \in stopping' THEN "asked" ELSE "no"
  <2> SUFFICES ASSUME NEW r \in Runtimes
               PROVE  /\ rt'[r].loop = rt[r].loop
                      /\ rt'[r].stop = IF r \in stopping' THEN "asked" ELSE "no"
    OBVIOUS
  <2>1. rt[r] \in RuntimeType
    BY <1>4
  <2> QED BY <1>2, <1>3, <2>1 DEF RuntimeType
<1>6. \A r \in stopping' : r \in Runtimes /\ started(r) /\ runtimeWorkers[r[1]] = r
  <2> SUFFICES ASSUME NEW q \in Queues, runtimeWorkers[q] # None
               PROVE  /\ runtimeWorkers[q] \in Runtimes /\ started(runtimeWorkers[q])
                      /\ runtimeWorkers[q][1] = q
    BY <1>1
  <2> QED BY DEF TypeOK, ShutdownInv, MapInv
<1>7. \A q \in Queues : runtimeWorkers[q] # None => runtimeWorkers[q] \in Runtimes
  BY DEF TypeOK
<1>8. TicksOwn'
  <2>1. \A q \in Queues, t \in Ticks : << q, t >> \in Runtimes
    BY DEF Runtimes
  <2> QED BY <1>1, <1>5, <2>1 DEF ShutdownInv, TicksOwn, started
<1>9. MapInv'
  BY <1>1, <1>5, <1>7 DEF ShutdownInv, MapInv, started
<1>10. StoppingInv'
  BY <1>1, <1>5, <1>6 DEF StoppingInv, started
<1>11. RowInv'
  BY <1>5 DEF RowInv
<1>12. ClosedInv'
  BY <1>1 DEF ClosedInv
<1> QED BY <1>8, <1>9, <1>10, <1>11, <1>12 DEF ShutdownInv

LEMMA NextShutdownInv ==
  TypeOK /\ TypeOK' /\ ShutdownInv /\ [Next]_vars => ShutdownInv'
<1> SUFFICES ASSUME TypeOK, TypeOK', ShutdownInv, [Next]_vars PROVE ShutdownInv'
  OBVIOUS
<1>1. CASE \E t \in Ticks : TickStep(t) \/ abortTick(t)
  BY <1>1, TickShutdownInv
<1>2. CASE \E r \in Runtimes : \/ poll(r) \/ claimReturns(r) \/ handlerReturns(r)
                               \/ Stop(r) \/ rejectStop(r)
  BY <1>2, RuntimeShutdownInv
<1>3. CASE shutdown
  BY <1>3, AskShutdownInv
<1>4. CASE \/ awaitRuntimes \/ disconnect \/ UNCHANGED vars
           \/ \E q \in Queues : createQueue(q) \/ recordWorkerHeartbeat(q)
  <2>1. UNCHANGED << runtimeWorkers, rt, tick, stopping, row >>
    BY <1>4 DEF awaitRuntimes, disconnect, vars, createQueue, recordWorkerHeartbeat,
                beats, TypeOK
  <2>2. phase' \in {"boot", "serving"} => phase \in {"boot", "serving"}
    BY <1>4 DEF awaitRuntimes, disconnect, vars, createQueue, recordWorkerHeartbeat
  <2>3. ClosedInv'
    BY <1>4, <2>1 DEF ShutdownInv, ClosedInv, ticksEnded, awaitRuntimes, disconnect,
                      vars, createQueue, recordWorkerHeartbeat
  <2> QED BY <2>1, <2>2, <2>3
          DEF ShutdownInv, TicksOwn, MapInv, StoppingInv, RowInv, Overwritten, started
<1> QED BY <1>1, <1>2, <1>3, <1>4 DEF Next

(* server.ts:208-246: when every runtime was found and stopped, the
   process ends with no handler running and the Worker row of every queue that
   had a runtime STOPPED, whatever the ticks under way wrote meanwhile. *)
THEOREM ShutdownIsClean == Spec => []CleanShutdown
<1>1. StoppedIsDrained /\ ShutdownInv => CleanShutdown
  <2> SUFFICES ASSUME StoppedIsDrained, ShutdownInv, phase = "closed",
                      \A s \in Runtimes : started(s) => s \in stopping /\ rt[s].stop = "stopped",
                      NEW r \in Runtimes, started(r)
               PROVE  rt[r].active = 0 /\ row[r[1]] = "STOPPED"
    BY DEF CleanShutdown, started
  <2>1. \A t \in Ticks : tick[t].pc = "idle"
    BY DEF ShutdownInv, ClosedInv, ticksEnded, NoTick
  <2>2. ~Overwritten(r[1])
    BY <2>1 DEF Overwritten
  <2> QED BY <2>2 DEF StoppedIsDrained, ShutdownInv, RowInv
<1> QED
  BY <1>1, InitShutdownInv, NextShutdownInv, TypeCorrect, StopDrains, PTL DEF Spec

-----------------------------------------------------------------------------
(* Only stop() ends a loop. *)
LoopInv == \A r \in Runtimes : rt[r].loop = "done" => rt[r].stop # "no"

LEMMA NextLoop == TypeOK /\ LoopInv /\ [Next]_vars => LoopInv'
<1> SUFFICES ASSUME TypeOK, LoopInv, [Next]_vars PROVE LoopInv'
  OBVIOUS
<1>0. rt \in [Runtimes -> RuntimeType]
  BY DEF TypeOK, RuntimeType
<1>1. CASE UNCHANGED rt
  BY <1>1 DEF LoopInv
<1>2. ASSUME NEW t \in Ticks, startRuntime(t) PROVE LoopInv'
  <2>1. Started.loop = "top"
    BY DEF Started, NotStarted
  <2> QED BY <1>0, <1>2, <2>1 DEF startRuntime, LoopInv
<1>3. ASSUME NEW r \in Runtimes, poll(r) PROVE LoopInv'
  BY <1>0, <1>3 DEF poll, mustStop, LoopInv, RuntimeType
<1>4. ASSUME NEW r \in Runtimes, claimReturns(r) PROVE LoopInv'
  <2>1. PICK n \in {0, 1} : rt' = [rt EXCEPT ![r].loop = "top", ![r].active = @ + n]
    BY <1>4 DEF claimReturns
  <2> QED BY <1>0, <2>1 DEF LoopInv, RuntimeType
<1>5. ASSUME NEW r \in Runtimes, handlerReturns(r) PROVE LoopInv'
  BY <1>0, <1>5 DEF handlerReturns, LoopInv, RuntimeType
<1>6. ASSUME NEW r \in Runtimes, Stop(r) \/ rejectStop(r) PROVE LoopInv'
  BY <1>0, <1>6 DEF Stop, writeDraining, writeStopped, rejectStop, LoopInv, RuntimeType
<1>7. CASE shutdown
  BY <1>0, <1>7 DEF shutdown, LoopInv, RuntimeType
<1>8. ASSUME NEW t \in Ticks,
             \/ startTick(t) \/ listQueues(t) \/ nextQueue(t) \/ ensureQueueWorker(t)
             \/ ensured(t) \/ abortTick(t)
      PROVE  UNCHANGED rt
  BY <1>8 DEF startTick, listQueues, nextQueue, ensureQueueWorker, ensured, abortTick
<1>9. CASE \/ awaitRuntimes \/ disconnect \/ UNCHANGED vars
           \/ \E q \in Queues : createQueue(q) \/ recordWorkerHeartbeat(q)
  BY <1>1, <1>9 DEF awaitRuntimes, disconnect, vars, createQueue, recordWorkerHeartbeat
<1> QED BY <1>1, <1>2, <1>3, <1>4, <1>5, <1>6, <1>7, <1>8, <1>9 DEF Next, TickStep

(* server.ts:115-131, core/workerRuntime.ts:134-158: ensureRuntimeWorkers passes
   over a queue that the Map has; the runtime it finds there polls that queue,
   for stop() is not called before the shutdown and nothing else ends a loop. *)
THEOREM MappedRuntimePolls == Spec => []ServedQueueIsPolled
<1>1. Init => LoopInv
  BY DEF Init, NotStarted, LoopInv
<1>2. TypeOK /\ ShutdownInv /\ LoopInv => ServedQueueIsPolled
  <2> SUFFICES ASSUME TypeOK, ShutdownInv, LoopInv, phase \in {"boot", "serving"},
                      NEW q \in Queues, runtimeWorkers[q] # None
               PROVE  LET r == runtimeWorkers[q] IN
                      r[1] = q /\ rt[r].loop \in {"top", "claim"} /\ ~mustStop(r)
    BY DEF ServedQueueIsPolled, has
  <2> DEFINE r == runtimeWorkers[q]
  <2>1. r \in Runtimes /\ rt[r].loop \in {"none", "top", "claim", "done"}
    BY DEF TypeOK
  <2>2. r[1] = q /\ rt[r].loop # "none"
    BY DEF ShutdownInv, MapInv, started
  <2>3. rt[r].stop = "no"
    BY <2>1 DEF ShutdownInv, StoppingInv
  <2> QED BY <2>1, <2>2, <2>3 DEF LoopInv, mustStop
<1> QED
  BY <1>1, <1>2, NextLoop, InitShutdownInv, NextShutdownInv, TypeCorrect, PTL DEF Spec
=============================================================================
