-------------------------- MODULE SchedulerProofs --------------------------
(***************************************************************************)
(* Proofs about Scheduler, for any queues, definitions, schedules, ticks   *)
(* and horizon.                                                            *)
(***************************************************************************)
EXTENDS Scheduler, WellFoundedInduction, TLAPS

(* The types TypeOK gives a tick. *)
TickPC   == {"idle", "promote", "read", "next", "open"}
TickType == [pc : TickPC, queue : Nat, todo : SUBSET Definitions, asOf : 0 .. Horizon]

(* A tick decides by a time that was the clock's at some moment before. *)
TimesArePast == \A t \in Ticks : tick[t].asOf <= now

TypeInv == TypeOK /\ TimesArePast

(* A tick as it may be: with work if its pc needs some, and a time that has
   come. *)
FineTick(k) == /\ k \in TickType
               /\ k.pc \in {"next", "open"} => k.todo # {}
               /\ k.asOf <= now

(* TypeInv in two parts: what it says of the ticks, and of the rest. *)
TicksOK ==
  /\ tick \in [Ticks -> TickType]
  /\ \A t \in Ticks : FineTick(tick[t])
TablesOK ==
  /\ now \in 0 .. Horizon
  /\ nextRunAt \in [Definitions -> Nat]
  /\ enabled \in [Definitions -> BOOLEAN]
  /\ row \in [Definitions -> { "unborn", "live", "deleted" }]
  /\ isPaused \in [Queues -> BOOLEAN]
  /\ scheduled \subseteq Jobs
  /\ promoted \subseteq Jobs
  /\ events \in 0 .. MaxEvents

LEMMA TypeInvParts == TypeInv <=> TicksOK /\ TablesOK
  BY DEF TypeInv, TypeOK, TimesArePast, TicksOK, TablesOK, FineTick, TickType, TickPC

LEMMA TypeInvPartsPrime == TypeInv' <=> TicksOK' /\ TablesOK'
  BY TypeInvParts, PTL

-----------------------------------------------------------------------------
(* Facts about the operators the actions are built from. *)

(* A set of numbers that is not empty has a smallest one. *)
LEMMA SmallestIsMember ==
  ASSUME NEW S \in SUBSET Nat, S # {}
  PROVE  Min(S) \in S
<1>1. PICK R : IsWellFoundedOn(R, Nat) /\ \A x, y \in Nat : x < y => << x, y >> \in R
  <2>1. IsWellFoundedOn(OpToRel(<, Nat), Nat)
    BY NatLessThanWellFounded
  <2>2. \A x, y \in Nat : x < y => << x, y >> \in OpToRel(<, Nat)
    BY DEF OpToRel
  <2> QED
    BY <2>1, <2>2, Zenon
<1>0. S \subseteq Nat
  OBVIOUS
<1>2. PICK x \in S : \A y \in S : ~ (<< y, x >> \in R)
  <2>1. IsWellFoundedOn(R, Nat)
    BY <1>1
  <2> QED
    BY <2>1, <1>0, WFMin
<1>3. ASSUME NEW y \in S PROVE x <= y
  <2>1. ~ (y < x)
    BY <1>1, <1>2, <1>0, Zenon
  <2>2. x \in Nat /\ y \in Nat
    OBVIOUS
  <2> QED
    BY <2>1, <2>2
<1> QED
  BY <1>3 DEF Min

(* The loop over the queues goes to another queue or ends. *)
LEMMA NextQueueType ==
  ASSUME NEW q \in Nat
  PROVE  /\ nextQueue(q) \in TickType
         /\ nextQueue(q).pc \in {"idle", "promote"} /\ nextQueue(q).asOf = 0
<1> DEFINE later == { r \in Queues : r > q }
<1>1. CASE later = {}
  BY <1>1, BoundsAssumption DEF nextQueue, NoTick, TickType, TickPC
<1>2. CASE later # {}
  <2>1. Min(later) \in Nat
    BY <1>2, SmallestIsMember, QueuesAssumption
  <2> QED
    BY <1>2, <2>1, BoundsAssumption DEF nextQueue, AtQueue, TickType, TickPC
<1> QED
  BY <1>1, <1>2

(* The pointer of a due definition moves behind the occurrence it has and
   behind the time of the transaction. *)
LEMMA FollowingRun ==
  ASSUME nextRunAt \in [Definitions -> Nat], NEW d \in Definitions,
         NEW at \in 0 .. Horizon, nextRunAt[d] <= at
  PROVE  /\ followingRun(d, at) \in Nat
         /\ followingRun(d, at) > nextRunAt[d]
         /\ followingRun(d, at) > at
<1> DEFINE next == NextRun[d][nextRunAt[d]]
<1>1. nextRunAt[d] \in 0 .. Horizon /\ Horizon \in Nat
  BY BoundsAssumption
<1>2. next \in Nat /\ next > nextRunAt[d]
  BY <1>1, CronAssumption
<1>3. NextRun[d][at] \in Nat /\ NextRun[d][at] > at
  BY CronAssumption
<1>4. followingRun(d, at) = IF next <= at THEN NextRun[d][at] ELSE next
  BY DEF followingRun, calculateNextRunAt
<1> HIDE DEF next
<1> QED
  BY <1>1, <1>2, <1>3, <1>4

(* A step that changes one tick into a fine one. *)
LEMMA TickChange ==
  ASSUME TypeInv, NEW t \in Ticks, NEW k, FineTick(k),
         tick' = [tick EXCEPT ![t] = k], now' = now
  PROVE  TicksOK'
<1>1. tick \in [Ticks -> TickType] /\ k \in TickType
  BY TypeInvParts DEF TicksOK, FineTick
<1>2. tick' \in [Ticks -> TickType]
  BY <1>1
<1>3. ASSUME NEW u \in Ticks PROVE FineTick(tick[u])'
  <2>1. FineTick(tick[u])
    BY TypeInvParts DEF TicksOK
  <2>2. tick'[u] = k \/ tick'[u] = tick[u]
    BY <1>1
  <2> QED
    BY <2>1, <2>2 DEF FineTick
<1> QED
  BY <1>2, <1>3 DEF TicksOK

(* The tick after the transaction for d. *)
LEMMA DoneType ==
  ASSUME TypeInv, NEW t \in Ticks, NEW d \in tick[t].todo, done(t, d), now' = now
  PROVE  TicksOK'
<1>1. tick[t] \in TickType /\ tick[t].asOf <= now /\ now \in Nat
  BY BoundsAssumption DEF TypeInv, TypeOK, TimesArePast, TickType, TickPC
<1>2. tick[t].queue \in Nat
  BY <1>1 DEF TickType
<1> DEFINE rest == tick[t].todo \ {d}
           k == IF rest = {} THEN nextQueue(tick[t].queue)
                ELSE [tick[t] EXCEPT !.pc = "next", !.todo = rest]
<1>3. tick' = [tick EXCEPT ![t] = k]
  BY DEF done
<1>4. "next" \in TickPC /\ rest \in SUBSET Definitions
  BY <1>1 DEF TickType, TickPC
<1>5. FineTick(k)
  <2> HIDE DEF rest
  <2>1. CASE rest = {}
    BY <1>1, <1>2, <2>1, NextQueueType DEF FineTick
  <2>2. CASE rest # {}
    <3>1. k = [tick[t] EXCEPT !.pc = "next", !.todo = rest]
      BY <2>2
    <3> HIDE DEF k
    <3>2. k \in TickType
      BY <1>1, <1>4, <3>1 DEF TickType
    <3>3. k.todo = rest /\ k.asOf = tick[t].asOf
      BY <1>1, <3>1 DEF TickType
    <3> QED
      BY <1>1, <2>2, <3>2, <3>3 DEF FineTick
  <2> QED
    BY <2>1, <2>2
<1> HIDE DEF k
<1> QED
  BY <1>3, <1>5, TickChange

-----------------------------------------------------------------------------
(* Type correctness. *)

LEMMA InitTypeInv == Init => TypeInv
  BY BoundsAssumption, CronAssumption, DefinitionsAssumption
  DEF Init, TypeInv, TypeOK, TimesArePast, NoTick

(* Every step keeps the types and the times of the ticks. *)
LEMMA NextTypeInv == TypeInv /\ [Next]_vars => TypeInv'
<1> SUFFICES ASSUME TypeInv, [Next]_vars PROVE TypeInv'
  OBVIOUS
<1> USE BoundsAssumption
<1>0. /\ now \in 0 .. Horizon /\ now \in Nat
      /\ tick \in [Ticks -> TickType]
      /\ \A t \in Ticks : tick[t].asOf <= now
  BY TypeInvParts DEF TicksOK, TablesOK, FineTick
<1>1. ASSUME NEW t \in Ticks, startTick(t) PROVE TypeInv'
  <2>1. Min(Queues) \in Nat
    BY QueuesAssumption, SmallestIsMember
  <2>2. FineTick(AtQueue(Min(Queues)))
    BY <1>0, <2>1 DEF FineTick, AtQueue, TickType, TickPC
  <2>3. tick' = [tick EXCEPT ![t] = AtQueue(Min(Queues))] /\ now' = now
    BY <1>1 DEF startTick
  <2>4. TicksOK'
    BY <2>2, <2>3, TickChange
  <2> QED
    BY <1>1, <2>4, TypeInvParts, TypeInvPartsPrime DEF startTick, tables, TablesOK
<1>2. ASSUME NEW t \in Ticks, promoteDueScheduledJobs(t) PROVE TypeInv'
  <2> DEFINE k == [tick[t] EXCEPT !.pc = "read"]
  <2>1. k \in TickType /\ k.pc = "read" /\ k.asOf = tick[t].asOf
    BY <1>0 DEF TickType, TickPC
  <2>2. tick' = [tick EXCEPT ![t] = k] /\ now' = now
    BY <1>2 DEF promoteDueScheduledJobs
  <2> HIDE DEF k
  <2>3. TicksOK'
    <3>1. FineTick(k)
      BY <1>0, <2>1 DEF FineTick
    <3> QED
      BY <2>2, <3>1, TickChange
  <2>4. scheduled' \subseteq Jobs /\ promoted' \subseteq Jobs
    BY <1>2 DEF promoteDueScheduledJobs, promotable, TypeInv, TypeOK
  <2> QED
    BY <1>2, <2>3, <2>4, TypeInvParts, TypeInvPartsPrime DEF promoteDueScheduledJobs, TablesOK
<1>3. ASSUME NEW t \in Ticks, readDueDefinitions(t) PROVE TypeInv'
  <2> DEFINE q == tick[t].queue
             D == { d \in Definitions : QueueOf[d] = q /\ isDue(d, now) }
             listed == [pc |-> "next", queue |-> q, todo |-> D, asOf |-> 0]
             k == IF D = {} THEN nextQueue(q) ELSE listed
  <2>1. tick' = [tick EXCEPT ![t] = k] /\ now' = now
    BY <1>3 DEF readDueDefinitions
  <2>2. q \in Nat
    BY <1>0 DEF TickType
  <2>3. nextQueue(q) \in TickType /\ nextQueue(q).pc \in {"idle", "promote"}
        /\ nextQueue(q).asOf = 0
    BY <2>2, NextQueueType
  <2>4. listed \in TickType
    BY <2>2 DEF TickType, TickPC
  <2>5. k \in TickType /\ (k.pc \in {"next", "open"} => k.todo # {}) /\ k.asOf = 0
    BY <2>3, <2>4
  <2> HIDE DEF k
  <2>6. TicksOK'
    <3>1. FineTick(k)
      BY <1>0, <2>5 DEF FineTick
    <3> QED
      BY <2>1, <3>1, TickChange
  <2> QED
    BY <1>3, <2>6, TypeInvParts, TypeInvPartsPrime DEF readDueDefinitions, tables, TablesOK
<1>4. ASSUME NEW t \in Ticks, beginMaterialization(t) PROVE TypeInv'
  <2> DEFINE k == [tick[t] EXCEPT !.pc = "open", !.asOf = now]
  <2>1. "open" \in TickPC /\ now \in 0 .. Horizon
    BY <1>0 DEF TickPC
  <2>2. k \in TickType
    BY <1>0, <2>1 DEF TickType
  <2>3. k.pc = "open" /\ k.todo = tick[t].todo /\ k.asOf = now
    BY <1>0 DEF TickType
  <2>4. tick' = [tick EXCEPT ![t] = k] /\ now' = now /\ tick[t].todo # {}
    BY <1>4 DEF beginMaterialization, TypeInv, TypeOK
  <2> HIDE DEF k
  <2>5. TicksOK'
    <3>1. FineTick(k)
      BY <1>0, <2>2, <2>3, <2>4 DEF FineTick
    <3> QED
      BY <2>4, <3>1, TickChange
  <2> QED
    BY <1>4, <2>5, TypeInvParts, TypeInvPartsPrime DEF beginMaterialization, tables, TablesOK
<1>5. ASSUME NEW t \in Ticks, NEW d \in Definitions, materializeDueScheduledJob(t, d)
      PROVE  TypeInv'
  <2>1. d \in tick[t].todo /\ now' = now
    BY <1>5 DEF materializeDueScheduledJob
  <2>2. TicksOK'
    <3>1. CASE done(t, d)
      BY <2>1, <3>1, DoneType
    <3>2. CASE tick' = [tick EXCEPT ![t] = NoTick]
      <4>1. FineTick(NoTick)
        BY <1>0 DEF FineTick, NoTick, TickType, TickPC
      <4> QED
        BY <2>1, <3>2, <4>1, TickChange
    <3> QED
      BY <1>5, <3>1, <3>2 DEF materializeDueScheduledJob
  <2>3. /\ scheduled' \subseteq Jobs
        /\ nextRunAt' \in [Definitions -> Nat]
    <3>1. nextRunAt \in [Definitions -> Nat] /\ tick[t].asOf \in 0 .. Horizon
      BY <1>0 DEF TypeInv, TypeOK, TickType
    <3>2. CASE UNCHANGED << scheduled, nextRunAt >>
      BY <3>1, <3>2 DEF TypeInv, TypeOK
    <3>3. CASE /\ isDue(d, tick[t].asOf)
               /\ scheduled' = scheduled \cup {<< d, nextRunAt[d] >>}
               /\ nextRunAt' = [nextRunAt EXCEPT ![d] = followingRun(d, tick[t].asOf)]
      <4>1. nextRunAt[d] \in 0 .. Horizon
        BY <3>1, <3>3 DEF isDue
      <4>2. followingRun(d, tick[t].asOf) \in Nat
        BY <3>1, <3>3, FollowingRun DEF isDue
      <4> QED
        BY <3>1, <3>3, <4>1, <4>2 DEF Jobs, TypeInv, TypeOK
    <3> QED
      BY <1>5, <3>2, <3>3 DEF materializeDueScheduledJob
  <2> QED
    BY <1>5, <2>2, <2>3, TypeInvParts, TypeInvPartsPrime DEF materializeDueScheduledJob, TablesOK
<1>6. ASSUME NEW t \in Ticks, abortTick(t) PROVE TypeInv'
  <2>1. FineTick(NoTick)
    BY <1>0 DEF FineTick, NoTick, TickType, TickPC
  <2>2. TicksOK'
    BY <1>6, <2>1, TickChange DEF abortTick
  <2> QED
    BY <1>6, <2>2, TypeInvParts, TypeInvPartsPrime DEF abortTick, outside, tables, TablesOK
<1>7. ASSUME NEW d \in Definitions, setEnabled(d) PROVE TypeInv'
  BY <1>7 DEF setEnabled, outside, TypeInv, TypeOK, TimesArePast
<1>8. ASSUME NEW d \in Definitions, setNextRunAt(d) PROVE TypeInv'
  BY <1>8 DEF setNextRunAt, outside, TypeInv, TypeOK, TimesArePast
<1>9. ASSUME NEW q \in Queues, setPaused(q) PROVE TypeInv'
  BY <1>9 DEF setPaused, outside, TypeInv, TypeOK, TimesArePast
<1>10. CASE advanceClock
  <2>1. now' \in 0 .. Horizon /\ TimesArePast'
    <3>1. \A t \in Ticks : tick[t].asOf \in Nat
      BY <1>0 DEF TickType
    <3> QED
      BY <1>0, <1>10, <3>1 DEF advanceClock, TimesArePast
  <2> QED
    BY <1>10, <2>1 DEF advanceClock, tables, TypeInv, TypeOK
<1>11. ASSUME NEW d \in Definitions, postScheduledJob(d) PROVE TypeInv'
  BY <1>11 DEF postScheduledJob, createScheduledJob, outside, TypeInv, TypeOK, TimesArePast
<1>12. ASSUME NEW d \in Definitions, deleteScheduledJob(d) PROVE TypeInv'
  BY <1>12 DEF deleteScheduledJob, outside, TypeInv, TypeOK, TimesArePast
<1>13. CASE UNCHANGED vars
  BY <1>13 DEF vars, tables, TypeInv, TypeOK, TimesArePast
<1> QED
  BY <1>1, <1>2, <1>3, <1>4, <1>5, <1>6, <1>7, <1>8, <1>9, <1>10, <1>11, <1>12, <1>13
  DEF Next, Work

(* Type correctness of every behaviour. *)
LEMMA AlwaysTypeInv == Spec => []TypeInv
  BY InitTypeInv, NextTypeInv, PTL DEF Spec

(* The variables have their types; in particular a tick that is to open a
   transaction has a definition to open it for. *)
THEOREM TypeCorrect == Spec => []TypeOK
<1>1. TypeInv => TypeOK
  BY DEF TypeInv
<1> QED
  BY <1>1, AlwaysTypeInv, PTL

-----------------------------------------------------------------------------
(* What a transaction of a tick does to the jobs and the pointer: nothing, or
   one new job for the occurrence that was due, behind which the pointer
   moves. *)
LEMMA Materialization ==
  ASSUME TypeInv, NEW t \in Ticks, NEW d \in Definitions, materializeDueScheduledJob(t, d)
  PROVE  \/ UNCHANGED << scheduled, promoted, nextRunAt >>
         \/ /\ ~isPaused[QueueOf[d]]
            /\ row[d] = "live" /\ row' = row
            /\ nextRunAt[d] \in Nat /\ nextRunAt[d] <= tick[t].asOf
            /\ tick[t].asOf \in Nat /\ tick[t].asOf <= now
            /\ tick[t].pc = "open"
            /\ scheduled' = scheduled \cup {<< d, nextRunAt[d] >>}
            /\ promoted' = promoted
            /\ nextRunAt' \in [Definitions -> Nat]
            /\ \A e \in Definitions \ {d} : nextRunAt'[e] = nextRunAt[e]
            /\ nextRunAt'[d] > nextRunAt[d] /\ nextRunAt'[d] > tick[t].asOf
<1> DEFINE at == tick[t].asOf
<1>1. /\ nextRunAt \in [Definitions -> Nat]
      /\ at \in 0 .. Horizon /\ at \in Nat /\ at <= now
  BY BoundsAssumption DEF TypeInv, TypeOK, TimesArePast
<1>2. promoted' = promoted /\ row' = row /\ tick[t].pc = "open"
  BY DEF materializeDueScheduledJob
<1>3. CASE UNCHANGED << scheduled, nextRunAt >>
  BY <1>2, <1>3
<1>4. CASE /\ ~isPaused[QueueOf[d]] /\ isDue(d, at)
           /\ scheduled' = scheduled \cup {<< d, nextRunAt[d] >>}
           /\ nextRunAt' = [nextRunAt EXCEPT ![d] = followingRun(d, at)]
  <2> HIDE DEF at
  <2>1. nextRunAt[d] <= at /\ row[d] = "live"
    BY <1>4 DEF isDue
  <2>2. followingRun(d, at) \in Nat /\ followingRun(d, at) > nextRunAt[d]
        /\ followingRun(d, at) > at
    BY <1>1, <2>1, FollowingRun
  <2>3. /\ nextRunAt' \in [Definitions -> Nat]
        /\ nextRunAt'[d] = followingRun(d, at)
        /\ \A e \in Definitions \ {d} : nextRunAt'[e] = nextRunAt[e]
    BY <1>1, <1>4, <2>2
  <2> QED
    BY <1>1, <1>2, <1>4, <2>1, <2>2, <2>3 DEF at
<1> QED
  BY <1>3, <1>4 DEF materializeDueScheduledJob

(* What any other step does to them: a promotion moves jobs of a queue that
   is not paused, an edit of the schedule sets the pointer of a definition,
   and a definition that is created had none. *)
LEMMA OtherSteps ==
  ASSUME TypeInv, [Next]_vars,
         ~ \E t \in Ticks, d \in Definitions : materializeDueScheduledJob(t, d)
  PROVE  /\ materialized' = materialized
         /\ scheduled' \subseteq scheduled
         /\ \A j \in promoted' \ promoted : ~isPaused[QueueOf[j[1]]]
         /\ \/ nextRunAt' = nextRunAt
            \/ \E d \in Definitions : setNextRunAt(d) \/ postScheduledJob(d)
         /\ \A d \in Definitions : row[d] # "unborn" => row'[d] # "unborn"
<1> USE DEF materialized
<1>1. ASSUME NEW t \in Ticks, promoteDueScheduledJobs(t)
      PROVE  /\ materialized' = materialized /\ scheduled' \subseteq scheduled
             /\ \A j \in promoted' \ promoted : ~isPaused[QueueOf[j[1]]]
             /\ nextRunAt' = nextRunAt /\ row' = row
  BY <1>1 DEF promoteDueScheduledJobs, promotable
<1>2. ASSUME NEW d \in Definitions, setNextRunAt(d)
      PROVE  UNCHANGED << scheduled, promoted, row >>
  BY <1>2 DEF setNextRunAt
<1>3. ASSUME NEW d \in Definitions, postScheduledJob(d) \/ deleteScheduledJob(d)
      PROVE  /\ UNCHANGED << scheduled, promoted >>
             /\ nextRunAt' = nextRunAt \/ postScheduledJob(d)
             /\ \A e \in Definitions : row[e] # "unborn" => row'[e] # "unborn"
  BY <1>3 DEF postScheduledJob, createScheduledJob, deleteScheduledJob, TypeInv, TypeOK
<1> QED
  BY <1>1, <1>2, <1>3
  DEF Next, Work, vars, tables, startTick, readDueDefinitions, beginMaterialization,
      abortTick, setEnabled, setPaused, advanceClock

-----------------------------------------------------------------------------
(* Every step keeps the jobs of the future away, because a tick's transaction
   time is never ahead of the clock. *)
LEMMA NextNothingEarly == TypeInv /\ NothingEarly /\ [Next]_vars => NothingEarly'
<1> SUFFICES ASSUME TypeInv, NothingEarly, [Next]_vars PROVE NothingEarly'
  OBVIOUS
<1>1. /\ now \in Nat /\ now' \in Nat /\ now <= now'
      /\ \A j \in materialized : j[2] \in Nat
  <2>1. TypeInv'
    BY NextTypeInv
  <2>2. now' = now \/ now' = now + 1
    BY DEF Next, vars, Work, startTick, promoteDueScheduledJobs, readDueDefinitions,
           beginMaterialization, materializeDueScheduledJob, abortTick, setEnabled,
           setNextRunAt, postScheduledJob, createScheduledJob, deleteScheduledJob, setPaused,
           advanceClock
  <2> QED
    BY <2>1, <2>2, BoundsAssumption DEF TypeInv, TypeOK, Jobs, materialized
<1>2. ASSUME NEW t \in Ticks, NEW d \in Definitions, materializeDueScheduledJob(t, d)
      PROVE  NothingEarly'
  BY <1>1, <1>2, Materialization DEF NothingEarly, materialized
<1>3. CASE ~ \E t \in Ticks, d \in Definitions : materializeDueScheduledJob(t, d)
  BY <1>1, <1>3, OtherSteps DEF NothingEarly
<1> QED
  BY <1>2, <1>3

(* No occurrence becomes a job before its time, however many ticks overlap. *)
THEOREM NotEarly == Spec => []NothingEarly
<1>1. Init => NothingEarly
  BY DEF Init, NothingEarly, materialized
<1> QED
  BY <1>1, AlwaysTypeInv, NextNothingEarly, PTL DEF Spec

(* A definition that is still to be created has no job, so its nextRunAt may
   become any. *)
NoneUnborn == \A j \in materialized : row[j[1]] # "unborn"

LEMMA NextNoneUnborn == TypeInv /\ NoneUnborn /\ [Next]_vars => NoneUnborn'
<1> SUFFICES ASSUME TypeInv, NoneUnborn, [Next]_vars PROVE NoneUnborn'
  OBVIOUS
<1>1. ASSUME NEW t \in Ticks, NEW d \in Definitions, materializeDueScheduledJob(t, d)
      PROVE  NoneUnborn'
  <2>1. row' = row
    BY <1>1 DEF materializeDueScheduledJob
  <2> QED
    BY <1>1, <2>1, Materialization DEF NoneUnborn, materialized
<1>2. CASE ~ \E t \in Ticks, d \in Definitions : materializeDueScheduledJob(t, d)
  <2>1. \A j \in materialized : j[1] \in Definitions
    BY DEF TypeInv, TypeOK, Jobs, materialized
  <2> QED
    BY <1>2, <2>1, OtherSteps DEF NoneUnborn
<1> QED
  BY <1>1, <1>2

(* If nobody sets nextRunAt back, every step leaves the pointers behind the
   jobs that exist. *)
LEMMA NextPointerIsAhead ==
  "rewind" \notin ApiOps =>
    (TypeInv /\ NoneUnborn /\ PointerIsAhead /\ [Next]_vars => PointerIsAhead')
<1> SUFFICES ASSUME "rewind" \notin ApiOps, TypeInv, NoneUnborn, PointerIsAhead, [Next]_vars
             PROVE  PointerIsAhead'
  OBVIOUS
<1>1. /\ nextRunAt \in [Definitions -> Nat]
      /\ \A j \in materialized : j[1] \in Definitions /\ j[2] \in Nat
  BY BoundsAssumption DEF TypeInv, TypeOK, Jobs, materialized
<1>2. ASSUME NEW t \in Ticks, NEW d \in Definitions, materializeDueScheduledJob(t, d)
      PROVE  PointerIsAhead'
  <2>1. CASE UNCHANGED << scheduled, promoted, nextRunAt >>
    BY <2>1 DEF PointerIsAhead, materialized
  <2>2. CASE /\ scheduled' = scheduled \cup {<< d, nextRunAt[d] >>}
             /\ promoted' = promoted
             /\ nextRunAt' \in [Definitions -> Nat]
             /\ \A e \in Definitions \ {d} : nextRunAt'[e] = nextRunAt[e]
             /\ nextRunAt'[d] > nextRunAt[d]
    <3>1. ASSUME NEW j \in materialized PROVE j[2] < nextRunAt'[j[1]]
      <4>1. j[2] < nextRunAt[j[1]]
        BY <3>1 DEF PointerIsAhead
      <4>2. nextRunAt'[j[1]] >= nextRunAt[j[1]]
        BY <1>1, <2>2
      <4> QED
        BY <1>1, <2>2, <4>1, <4>2
    <3>2. \A j \in materialized' : j \in materialized \/ j = << d, nextRunAt[d] >>
      BY <2>2 DEF materialized
    <3> QED
      BY <2>2, <3>1, <3>2 DEF PointerIsAhead
  <2> QED
    BY <1>2, <2>1, <2>2, Materialization
<1>3. CASE ~ \E t \in Ticks, d \in Definitions : materializeDueScheduledJob(t, d)
  <2>1. materialized' = materialized
    BY <1>3, OtherSteps
  <2>2. ASSUME NEW d \in Definitions, setNextRunAt(d), NEW j \in materialized
        PROVE  j[2] < nextRunAt'[j[1]]
    <3>1. PICK r \in 0 .. Horizon : /\ r > nextRunAt[d]
                                    /\ nextRunAt' = [nextRunAt EXCEPT ![d] = r]
      BY <2>2 DEF setNextRunAt
    <3>2. nextRunAt'[j[1]] \in Nat /\ nextRunAt'[j[1]] >= nextRunAt[j[1]]
      BY <1>1, <3>1, BoundsAssumption
    <3> QED
      BY <1>1, <3>2 DEF PointerIsAhead
  <2>3. ASSUME NEW d \in Definitions, postScheduledJob(d), NEW j \in materialized
        PROVE  j[2] < nextRunAt'[j[1]]
    <3>1. j[1] # d
      BY <2>3 DEF postScheduledJob, createScheduledJob, NoneUnborn
    <3>2. nextRunAt'[j[1]] = nextRunAt[j[1]]
      BY <1>1, <2>3, <3>1 DEF postScheduledJob, createScheduledJob
    <3> QED
      BY <3>2 DEF PointerIsAhead
  <2>4. CASE nextRunAt' = nextRunAt
    BY <2>1, <2>4 DEF PointerIsAhead
  <2> QED
    BY <1>3, <2>1, <2>2, <2>3, <2>4, OtherSteps DEF PointerIsAhead
<1> QED
  BY <1>2, <1>3

(* If nobody sets nextRunAt back, it is always behind every occurrence that has
   a job, so that no transaction ever meets the key of an existing job. *)
THEOREM PointerAhead == "rewind" \notin ApiOps => (Spec => []PointerIsAhead)
<1> SUFFICES ASSUME "rewind" \notin ApiOps PROVE Spec => []PointerIsAhead
  OBVIOUS
<1>1. Init => NoneUnborn /\ PointerIsAhead
  BY DEF Init, NoneUnborn, PointerIsAhead, materialized
<1>2. TypeInv /\ NoneUnborn /\ PointerIsAhead /\ [Next]_vars => NoneUnborn' /\ PointerIsAhead'
  BY NextNoneUnborn, NextPointerIsAhead
<1> QED
  BY <1>1, <1>2, AlwaysTypeInv, PTL DEF Spec

-----------------------------------------------------------------------------
(* The refinement of the timetable.  A transaction fires the occurrence its
   definition points to, which is due and, for the pointer is ahead, later than
   all that were fired; a promotion releases; every other step of a tick or of
   the API leaves the jobs alone. *)
LEMMA StepKeepsTimetable ==
  ASSUME TypeInv, PointerIsAhead, [Next]_vars
  PROVE  [Promise!Next]_<< now, scheduled, promoted >>
<1> USE DEF Promise!Next, Promise!Pass, Promise!Release, Promise!Fire
<1>1. ASSUME NEW t \in Ticks, NEW d \in Definitions, materializeDueScheduledJob(t, d)
      PROVE  [Promise!Next]_<< now, scheduled, promoted >>
  <2>1. now' = now
    BY <1>1 DEF materializeDueScheduledJob
  <2>2. CASE UNCHANGED << scheduled, promoted, nextRunAt >>
    BY <2>1, <2>2
  <2>3. CASE /\ nextRunAt[d] \in Nat /\ nextRunAt[d] <= tick[t].asOf
             /\ tick[t].asOf \in Nat /\ tick[t].asOf <= now
             /\ scheduled' = scheduled \cup {<< d, nextRunAt[d] >>}
             /\ promoted' = promoted
    <3>1. now \in Nat
      BY BoundsAssumption DEF TypeInv, TypeOK
    <3>2. nextRunAt[d] \in 0 .. now
      BY <2>3, <3>1
    <3>3. \A j \in scheduled \cup promoted : j[1] = d => j[2] < nextRunAt[d]
      BY DEF PointerIsAhead, materialized
    <3>4. Promise!Fire(d, nextRunAt[d])
      BY <2>1, <2>3, <3>3
    <3> QED
      BY <3>2, <3>4
  <2> QED
    BY <1>1, <2>2, <2>3, Materialization
<1>2. ASSUME NEW t \in Ticks, promoteDueScheduledJobs(t)
      PROVE  Promise!Release
  BY <1>2 DEF promoteDueScheduledJobs, promotable
<1>3. CASE advanceClock
  BY <1>3 DEF advanceClock, tables
<1>4. ASSUME NEW t \in Ticks,
             startTick(t) \/ readDueDefinitions(t) \/ beginMaterialization(t) \/ abortTick(t)
      PROVE  UNCHANGED << now, scheduled, promoted >>
  BY <1>4 DEF startTick, readDueDefinitions, beginMaterialization, abortTick, tables
<1>5. ASSUME NEW d \in Definitions,
             postScheduledJob(d) \/ deleteScheduledJob(d) \/ setEnabled(d) \/ setNextRunAt(d)
      PROVE  UNCHANGED << now, scheduled, promoted >>
  BY <1>5 DEF postScheduledJob, deleteScheduledJob, setEnabled, setNextRunAt
<1>6. ASSUME NEW q \in Queues, setPaused(q)
      PROVE  UNCHANGED << now, scheduled, promoted >>
  BY <1>6 DEF setPaused
<1>7. CASE UNCHANGED vars
  BY <1>7 DEF vars, tables
<1> QED
  BY <1>1, <1>2, <1>3, <1>4, <1>5, <1>6, <1>7 DEF Next, Work

(* core/scheduler.ts:71-148: whatever ticks overlap, fail or are late, and
   whatever the API does except to set nextRunAt back, the schedule keeps the
   promise of the timetable. *)
THEOREM TimetableImplemented == "rewind" \notin ApiOps => (Spec => ImplementsTimetable)
<1> SUFFICES ASSUME "rewind" \notin ApiOps PROVE Spec => ImplementsTimetable
  OBVIOUS
<1>1. Init => Promise!Init
  BY DEF Init, Promise!Init
<1>2. TypeInv /\ PointerIsAhead /\ [Next]_vars
        => [Promise!Next]_<< now, scheduled, promoted >>
  BY StepKeepsTimetable
<1> QED
  BY <1>1, <1>2, AlwaysTypeInv, PointerAhead, PTL DEF Spec, ImplementsTimetable, Promise!Spec

(* core/scheduler.ts:62-82, 136-151: nobody is given an occurrence twice.  This
   part of the promise rests on the idempotency key alone and survives a
   nextRunAt that was set back. *)
THEOREM OccurrencesRunOnce == Spec => []Promise!ReleasedOnce
<1>1. Init => Promise!ReleasedOnce
  BY DEF Init, Promise!ReleasedOnce
<1>2. Promise!ReleasedOnce /\ [Next]_vars => Promise!ReleasedOnce'
  <2> SUFFICES ASSUME Promise!ReleasedOnce, [Next]_vars PROVE Promise!ReleasedOnce'
    OBVIOUS
  <2>1. ASSUME NEW t \in Ticks, NEW d \in Definitions, materializeDueScheduledJob(t, d)
        PROVE  Promise!ReleasedOnce'
    BY <2>1 DEF materializeDueScheduledJob, materialized, Promise!ReleasedOnce
  <2>2. ASSUME NEW t \in Ticks, promoteDueScheduledJobs(t)
        PROVE  Promise!ReleasedOnce'
    BY <2>2 DEF promoteDueScheduledJobs, Promise!ReleasedOnce
  <2>3. CASE UNCHANGED << scheduled, promoted >>
    BY <2>3 DEF Promise!ReleasedOnce
  <2>4. ASSUME NEW t \in Ticks,
               startTick(t) \/ readDueDefinitions(t) \/ beginMaterialization(t) \/ abortTick(t)
        PROVE  UNCHANGED << scheduled, promoted >>
    BY <2>4 DEF startTick, readDueDefinitions, beginMaterialization, abortTick, tables
  <2>5. ASSUME NEW d \in Definitions,
               postScheduledJob(d) \/ deleteScheduledJob(d) \/ setEnabled(d) \/ setNextRunAt(d)
        PROVE  UNCHANGED << scheduled, promoted >>
    BY <2>5 DEF postScheduledJob, deleteScheduledJob, setEnabled, setNextRunAt
  <2>6. CASE advanceClock \/ (\E q \in Queues : setPaused(q)) \/ UNCHANGED vars
    BY <2>3, <2>6 DEF advanceClock, setPaused, tables, vars
  <2> QED
    BY <2>1, <2>2, <2>3, <2>4, <2>5, <2>6 DEF Next, Work
<1> QED
  BY <1>1, <1>2, PTL DEF Spec

-----------------------------------------------------------------------------
(* A new job means that the pointer moved behind it and behind the time of the
   transaction that made it: a backlog of occurrences yields one job. *)
THEOREM BacklogIsSkipped == Spec => NoBacklog
<1> DEFINE A == \A j \in materialized' \ materialized :
                  /\ nextRunAt'[j[1]] > j[2]
                  /\ \E t \in Ticks : tick[t].pc = "open" /\ nextRunAt'[j[1]] > tick[t].asOf
<1>1. ASSUME TypeInv, [Next]_vars PROVE A
  <2>1. ASSUME NEW t \in Ticks, NEW d \in Definitions, materializeDueScheduledJob(t, d)
        PROVE  A
    BY <1>1, <2>1, Materialization DEF materialized
  <2>2. CASE ~ \E t \in Ticks, d \in Definitions : materializeDueScheduledJob(t, d)
    BY <1>1, <2>2, OtherSteps
  <2> QED
    BY <2>1, <2>2
<1>2. TypeInv /\ [Next]_vars => [A]_vars
  BY <1>1
<1> HIDE DEF A
<1>3. Spec => [][A]_vars
  BY <1>2, AlwaysTypeInv, PTL DEF Spec
<1> QED
  BY <1>3 DEF NoBacklog, A

(* No step, of a tick under way or of a new one, creates or promotes a job of
   a queue that is paused. *)
THEOREM PauseHolds == Spec => PausedQueueRests
<1> DEFINE A == \A j \in (scheduled' \ scheduled) \cup (promoted' \ promoted) :
                  ~isPaused[QueueOf[j[1]]]
<1>1. ASSUME TypeInv, [Next]_vars PROVE A
  <2>1. ASSUME NEW t \in Ticks, NEW d \in Definitions, materializeDueScheduledJob(t, d)
        PROVE  A
    BY <1>1, <2>1, Materialization
  <2>2. CASE ~ \E t \in Ticks, d \in Definitions : materializeDueScheduledJob(t, d)
    BY <1>1, <2>2, OtherSteps
  <2> QED
    BY <2>1, <2>2
<1>2. TypeInv /\ [Next]_vars => [A]_vars
  BY <1>1
<1> HIDE DEF A
<1>3. Spec => [][A]_vars
  BY <1>2, AlwaysTypeInv, PTL DEF Spec
<1> QED
  BY <1>3 DEF PausedQueueRests, A
=============================================================================
