--------------------------- MODULE CatalogProofs ---------------------------
(* What a step of a request of the Catalog leaves intact, for any requests and
   names: the rows refer to rows that exist, and a request goes where its kind
   of operation goes. *)
EXTENDS Catalog, TLAPS

CatalogStages ==
  {"requireProjectAdmin", "countQueues", "countPolicies", "seedPolicies", "countUses",
   "findProject", "findPolicy", "findName", "updateProject", "updateQueue",
   "createProject", "createPolicy", "createQueue", "deleteProject", "patchPolicy",
   "deletePolicy", "insertJobType", "findJobType", "renameJobType", "deleteJobType"}

Codes == {0, 200, 201, 204, 400, 404, 409, 500}

(* The statements of the handler of each kind of operation. *)
StageOf(kind, s) ==
  \/ kind = "createProject" /\ s = "createProject"
  \/ kind = "renameProject" /\ s \in {"requireProjectAdmin", "updateProject"}
  \/ kind = "deleteProject" /\ s \in {"requireProjectAdmin", "countQueues", "deleteProject"}
  \/ kind = "createJobType" /\ s \in {"requireProjectAdmin", "insertJobType"}
  \/ kind = "renameJobType" /\ s \in {"requireProjectAdmin", "findJobType", "renameJobType"}
  \/ kind = "deleteJobType" /\ s \in {"requireProjectAdmin", "findJobType", "deleteJobType"}
  \/ kind = "createPolicy" /\ s = "createPolicy"
  \/ kind = "listPolicies" /\ s \in {"countPolicies", "seedPolicies"}
  \/ kind = "patchPolicy" /\ s = "patchPolicy"
  \/ kind = "deletePolicy" /\ s \in {"countUses", "deletePolicy"}
  \/ kind = "createQueue" /\ s \in {"findProject", "findPolicy", "findName", "createQueue"}
  \/ kind = "patchQueue" /\ s \in {"findPolicy", "updateQueue"}

OpsOK ==
  /\ op \in [Requests -> Operations \cup {None}]
  /\ at = [r \in Requests |-> at[r]]
  /\ status \in [Requests -> Codes]

RowsOK ==
  /\ project \in [Ids -> Names \cup {"unborn", "gone"}]
  /\ policy \in [Ids -> {"unborn", "live", "gone"}]
  /\ queue \in [Ids -> QueueRow \cup {None}]
  /\ jobType \in [Ids -> JobTypeRow \cup {None}] /\ custom \subseteq Names

(* Where a request of the catalog is, and that the queue it patches is there. *)
Placed(r) ==
  at[r] \in CatalogStages =>
    /\ op[r] \in Operations
    /\ StageOf(op[r].kind, at[r])
    /\ op[r].kind = "patchQueue" => queue[op[r].on] # None

CatalogInv == OpsOK /\ RowsOK /\ ReferencesHold

Moves(r) ==
  /\ op' = op
  /\ \E x \in CatalogStages \cup {"done"} :
       at' = [at EXCEPT ![r] = x] /\ (x # "done" => StageOf(op[r].kind, x))
  /\ \E s \in Codes : status' = [status EXCEPT ![r] = s]

(* A queue once created stays. *)
QueuesStay == \A q \in Ids : queue[q] # None => queue'[q] # None

Effect(r) == Moves(r) /\ RowsOK' /\ ReferencesHold' /\ QueuesStay

LEMMA AnswerMoves ==
  ASSUME NEW r \in Requests, CatalogInv, op' = op, NEW s \in Codes, answer(r, s)
  PROVE  Moves(r)
BY DEF Moves, answer

LEMMA ProceedMoves ==
  ASSUME NEW r \in Requests, CatalogInv, op' = op,
         NEW x \in CatalogStages, StageOf(op[r].kind, x), proceed(r, x)
  PROVE  Moves(r)
BY DEF Moves, proceed, CatalogInv, OpsOK

LEMMA RowsStay == ASSUME CatalogInv, UNCHANGED rows
                  PROVE  RowsOK' /\ ReferencesHold' /\ QueuesStay
BY DEF CatalogInv, RowsOK, ReferencesHold, QueuesStay, rows, Queues, JobTypes, referred, Live

LEMMA ReadsEffect ==
  ASSUME NEW r \in Requests, CatalogInv, NEW stage, NEW found \in BOOLEAN, NEW s \in Codes,
         NEW next \in CatalogStages, StageOf(op[r].kind, next),
         reads(r, stage, found, s, next)
  PROVE  Effect(r)
<1>1. op' = op /\ UNCHANGED rows
  BY DEF reads
<1>2. CASE found
  <2>1. proceed(r, next)
    BY <1>2 DEF reads
  <2> QED BY <1>1, <2>1, ProceedMoves, RowsStay DEF Effect
<1>3. CASE ~found
  <2>1. answer(r, s)
    BY <1>3 DEF reads
  <2> QED BY <1>1, <2>1, AnswerMoves, RowsStay DEF Effect
<1> QED BY <1>2, <1>3

LEMMA ReadingEffect ==
  ASSUME NEW r \in Requests, CatalogInv, Placed(r),
         \/ requireProjectAdmin(r) \/ countQueues(r) \/ findJobType(r)
         \/ ensureDefaultRetryPolicies(r) \/ countUses(r)
         \/ findProject(r) \/ findPolicy(r) \/ findName(r)
  PROVE  Effect(r)
<1>0. {200, 404, 409} \subseteq Codes
  BY DEF Codes
<1>1. CASE requireProjectAdmin(r)
  <2>1. /\ at[r] = "requireProjectAdmin" /\ StageOf(op[r].kind, at[r])
        /\ reads(r, "requireProjectAdmin", Live(op[r].on), 404, AfterAdmin[op[r].kind])
    BY <1>1 DEF requireProjectAdmin, Placed, CatalogStages
  <2>2. AfterAdmin[op[r].kind] \in CatalogStages /\ StageOf(op[r].kind, AfterAdmin[op[r].kind])
    BY <2>1 DEF StageOf, AfterAdmin, CatalogStages
  <2>3. Live(op[r].on) \in BOOLEAN
    BY DEF Live
  <2> QED BY <1>0, <2>1, <2>2, <2>3, ReadsEffect
<1>2. CASE countQueues(r)
  <2>1. at[r] = "countQueues" /\ StageOf(op[r].kind, "deleteProject")
    BY <1>2 DEF countQueues, reads, Placed, CatalogStages, StageOf
  <2>2. "deleteProject" \in CatalogStages
    BY DEF CatalogStages
  <2> DEFINE found == \A q \in Queues : queue[q].project # op[r].on
  <2>3. reads(r, "countQueues", found, 409, "deleteProject") /\ found \in BOOLEAN
    BY <1>2 DEF countQueues
  <2> HIDE DEF found
  <2> QED BY <1>0, <2>1, <2>2, <2>3, ReadsEffect
<1>3. CASE findJobType(r)
  <2>1. StageOf(op[r].kind, op[r].kind) /\ op[r].kind \in CatalogStages
    BY <1>3 DEF findJobType, Placed, CatalogStages, StageOf
  <2> DEFINE found == op[r].ref \in JobTypes /\ jobType[op[r].ref].project = op[r].on
  <2>2. reads(r, "findJobType", found, 404, op[r].kind) /\ found \in BOOLEAN
    BY <1>3 DEF findJobType
  <2> HIDE DEF found
  <2> QED BY <1>0, <2>1, <2>2, ReadsEffect
<1>4. CASE ensureDefaultRetryPolicies(r)
  <2>1. StageOf(op[r].kind, "seedPolicies") /\ "seedPolicies" \in CatalogStages
    BY <1>4 DEF ensureDefaultRetryPolicies, reads, Placed, CatalogStages, StageOf
  <2> DEFINE found == \A p \in Ids : policy[p] # "live"
  <2>2. reads(r, "countPolicies", found, 200, "seedPolicies") /\ found \in BOOLEAN
    BY <1>4 DEF ensureDefaultRetryPolicies
  <2> HIDE DEF found
  <2> QED BY <1>0, <2>1, <2>2, ReadsEffect
<1>5. CASE countUses(r)
  <2>1. StageOf(op[r].kind, "deletePolicy") /\ "deletePolicy" \in CatalogStages
    BY <1>5 DEF countUses, reads, Placed, CatalogStages, StageOf
  <2> DEFINE found == \A q \in Queues : queue[q].policy # op[r].on
  <2>2. reads(r, "countUses", found, 409, "deletePolicy") /\ found \in BOOLEAN
    BY <1>5 DEF countUses
  <2> HIDE DEF found
  <2> QED BY <1>0, <2>1, <2>2, ReadsEffect
<1>6. CASE findProject(r)
  <2>1. StageOf(op[r].kind, "findPolicy") /\ "findPolicy" \in CatalogStages
    BY <1>6 DEF findProject, reads, Placed, CatalogStages, StageOf
  <2>2. Live(op[r].on) \in BOOLEAN
    BY DEF Live
  <2> QED BY <1>0, <1>6, <2>1, <2>2, ReadsEffect DEF findProject
<1>7. CASE findPolicy(r)
  <2> DEFINE next == IF op[r].kind = "createQueue" THEN "findName" ELSE "updateQueue"
  <2>1. StageOf(op[r].kind, next) /\ next \in CatalogStages
    BY <1>7 DEF findPolicy, reads, Placed, CatalogStages, StageOf
  <2> DEFINE found == op[r].ref # None => policy[op[r].ref] = "live"
  <2>2. reads(r, "findPolicy", found, 404, next) /\ found \in BOOLEAN
    BY <1>7 DEF findPolicy
  <2> HIDE DEF found
  <2> QED BY <1>0, <2>1, <2>2, ReadsEffect
<1>8. CASE findName(r)
  <2>1. StageOf(op[r].kind, "createQueue") /\ "createQueue" \in CatalogStages
    BY <1>8 DEF findName, reads, Placed, CatalogStages, StageOf
  <2> DEFINE found == \A q \in Queues : queue[q].project # op[r].on
  <2>2. reads(r, "findName", found, 409, "createQueue") /\ found \in BOOLEAN
    BY <1>8 DEF findName
  <2> HIDE DEF found
  <2> QED BY <1>0, <2>1, <2>2, ReadsEffect
<1> QED BY <1>1, <1>2, <1>3, <1>4, <1>5, <1>6, <1>7, <1>8

-----------------------------------------------------------------------------
(* The parts of the catalog, one statement of the goal for each table. *)
LEMMA RowsByTable ==
  ASSUME CatalogInv, op' = op,
         project' \in [Ids -> Names \cup {"unborn", "gone"}],
         policy' \in [Ids -> {"unborn", "live", "gone"}],
         queue' \in [Ids -> QueueRow \cup {None}],
         jobType' \in [Ids -> JobTypeRow \cup {None}], custom' \subseteq Names,
         \A q \in Ids : queue'[q] # None =>
           project'[queue'[q].project] \in Names /\ policy'[queue'[q].policy] = "live",
         \A t \in Ids : jobType'[t] # None => project'[jobType'[t].project] \in Names,
         \A q \in Ids : queue[q] # None => queue'[q] # None
  PROVE  RowsOK' /\ ReferencesHold' /\ QueuesStay
<1>1. RowsOK' /\ QueuesStay
  BY DEF RowsOK, QueuesStay
<1>2. ReferencesHold'
  BY DEF ReferencesHold, Queues, JobTypes, referred, Live
<1> QED BY <1>1, <1>2

LEMMA RowFields ==
  ASSUME CatalogInv
  PROVE  /\ project \in [Ids -> Names \cup {"unborn", "gone"}]
         /\ policy \in [Ids -> {"unborn", "live", "gone"}]
         /\ queue \in [Ids -> QueueRow \cup {None}]
         /\ jobType \in [Ids -> JobTypeRow \cup {None}] /\ custom \subseteq Names
         /\ \A q \in Ids : queue[q] # None =>
              /\ queue[q] \in QueueRow /\ queue[q].project \in Ids /\ queue[q].policy \in Ids
              /\ project[queue[q].project] \in Names /\ policy[queue[q].policy] = "live"
         /\ \A t \in Ids : jobType[t] # None =>
              /\ jobType[t] \in JobTypeRow /\ jobType[t].project \in Ids
              /\ project[jobType[t].project] \in Names
BY DEF CatalogInv, RowsOK, ReferencesHold, Queues, JobTypes, referred, Live, QueueRow, JobTypeRow

LEMMA RequestsAreIds == Requests \subseteq Ids
BY DEF Ids

LEMMA SomeCodes == {200, 201, 204, 404, 409, 500} \subseteq Codes
BY DEF Codes

(* A project's row: a new name, or gone when neither queues nor, after the
   cascade, job types refer to it. *)
LEMMA ProjectEffect ==
  ASSUME NEW r \in Requests, CatalogInv, Placed(r),
         createProject(r) \/ renameProject(r) \/ deleteProject(r)
  PROVE  Effect(r)
<1> USE RequestsAreIds
<1>1. CASE createProject(r)
  <2>1. op[r].name \in Names
    BY <1>1, OperationsAssumption DEF createProject, Placed, CatalogStages, StageOf
  <2>2. op' = op /\ UNCHANGED << policy, queue, jobType, custom >>
        /\ (project' = project \/ project' = [project EXCEPT ![r] = op[r].name])
    BY <1>1 DEF createProject
  <2>3. answer(r, 500) \/ answer(r, 201)
    BY <1>1 DEF createProject
  <2>4. Moves(r)
    BY <2>2, <2>3, AnswerMoves, SomeCodes
  <2>5. RowsOK' /\ ReferencesHold' /\ QueuesStay
    BY <2>1, <2>2, RowFields, RowsByTable
  <2> QED BY <2>4, <2>5 DEF Effect
<1>2. CASE renameProject(r)
  <2>1. op[r].name \in Names
    BY <1>2, OperationsAssumption DEF renameProject, Placed, CatalogStages, StageOf
  <2>2. op' = op /\ UNCHANGED << policy, queue, jobType, custom >>
        /\ (project' = project \/ project' = [project EXCEPT ![op[r].on] = op[r].name])
    BY <1>2 DEF renameProject
  <2>3. answer(r, 500) \/ answer(r, 200)
    BY <1>2 DEF renameProject
  <2>4. Moves(r)
    BY <2>2, <2>3, AnswerMoves, SomeCodes
  <2>5. RowsOK' /\ ReferencesHold' /\ QueuesStay
    BY <2>1, <2>2, RowFields, RowsByTable
  <2> QED BY <2>4, <2>5 DEF Effect
<1>3. CASE deleteProject(r)
  <2> DEFINE p == op[r].on
  <2>1. op' = op /\ UNCHANGED << policy, queue, custom >>
    BY <1>3 DEF deleteProject
  <2>2. answer(r, 204) \/ answer(r, 409) \/ answer(r, 500)
    BY <1>3 DEF deleteProject
  <2>3. Moves(r)
    BY <2>1, <2>2, AnswerMoves, SomeCodes
  <2>4. CASE Live(p) /\ ~restricted(p)
    <3>1. project' = [project EXCEPT ![p] = "gone"] /\ jobType' = cascaded(p)
      BY <1>3, <2>4 DEF deleteProject
    <3>2. \A q \in Ids : queue[q] # None => queue[q].project # p
      BY <2>4 DEF restricted, restricts, Queues
    <3>3. \A q \in Ids : queue'[q] # None =>
            project'[queue'[q].project] \in Names /\ policy'[queue'[q].policy] = "live"
      BY <2>1, <3>1, <3>2, RowFields
    <3>4. /\ jobType' \in [Ids -> JobTypeRow \cup {None}]
          /\ \A t \in Ids : jobType'[t] # None =>
               jobType'[t] = jobType[t] /\ jobType[t].project # p
      BY <3>1, RowFields DEF cascaded, JobTypes
    <3>5. \A t \in Ids : jobType'[t] # None => project'[jobType'[t].project] \in Names
      BY <3>1, <3>4, RowFields
    <3> QED BY <2>1, <2>3, <3>1, <3>3, <3>4, <3>5, RowFields, RowsByTable DEF Effect
  <2>5. CASE ~(Live(p) /\ ~restricted(p))
    <3>1. UNCHANGED rows
      BY <1>3, <2>5 DEF deleteProject, rows
    <3> QED BY <2>3, <3>1, RowsStay DEF Effect
  <2> QED BY <2>4, <2>5
<1> QED BY <1>1, <1>2, <1>3

LEMMA WriteJobTypeEffect ==
  ASSUME NEW r \in Requests, CatalogInv, op' = op, UNCHANGED << project, policy, queue >>,
         NEW t \in Ids, NEW row \in JobTypeRow, NEW s \in Codes,
         writeJobType(r, t, row, s)
  PROVE  Effect(r)
<1>1. answer(r, s) \/ answer(r, 409) \/ answer(r, 500)
  BY DEF writeJobType
<1>2. Moves(r)
  BY <1>1, AnswerMoves, SomeCodes
<1>3. row.project \in Ids /\ row.name \in Names
  BY DEF JobTypeRow
<1>4. CASE ~twin(t, row) /\ Live(row.project)
  <2>1. jobType' = [jobType EXCEPT ![t] = row] /\ custom' = custom \cup {row.name}
    BY <1>4 DEF writeJobType
  <2>2. project[row.project] \in Names
    BY <1>4 DEF Live
  <2>3. \A o \in Ids : jobType'[o] # None => project'[jobType'[o].project] \in Names
    BY <2>1, <2>2, RowFields
  <2>4. jobType' \in [Ids -> JobTypeRow \cup {None}] /\ custom' \subseteq Names
    BY <1>3, <2>1, RowFields
  <2> QED BY <1>2, <2>3, <2>4, RowFields, RowsByTable DEF Effect
<1>5. CASE ~(~twin(t, row) /\ Live(row.project))
  <2>1. UNCHANGED rows
    BY <1>5 DEF writeJobType, rows
  <2> QED BY <1>2, <2>1, RowsStay DEF Effect
<1> QED BY <1>4, <1>5

LEMMA JobTypeEffect ==
  ASSUME NEW r \in Requests, CatalogInv, Placed(r),
         createJobType(r) \/ updateJobType(r) \/ deleteJobType(r)
  PROVE  Effect(r)
<1> USE RequestsAreIds
<1>1. CASE createJobType(r)
  <2> DEFINE row == [project |-> op[r].on, name |-> op[r].name]
  <2>1. /\ writeJobType(r, r, row, 201) /\ UNCHANGED << op, project, policy, queue >>
        /\ at[r] = "insertJobType"
    BY <1>1 DEF createJobType
  <2>2. op[r] \in Operations /\ op[r].kind = "createJobType"
    BY <2>1 DEF Placed, CatalogStages, StageOf
  <2>3. op[r].name \in Names /\ op[r].on \in Ids
    BY <2>2, OperationsAssumption
  <2>4. row \in JobTypeRow
    BY <2>3 DEF JobTypeRow
  <2> QED BY <2>1, <2>4, SomeCodes, WriteJobTypeEffect
<1>2. CASE updateJobType(r)
  <2> DEFINE t == op[r].ref
             row == [jobType[t] EXCEPT !.name = op[r].name]
  <2>1. at[r] = "renameJobType" /\ UNCHANGED << op, project, policy, queue >>
    BY <1>2 DEF updateJobType
  <2>2. op[r].name \in Names
    BY <2>1, OperationsAssumption DEF Placed, CatalogStages, StageOf
  <2>3. CASE t \in JobTypes
    <3>1. writeJobType(r, t, row, 200)
      BY <1>2, <2>3 DEF updateJobType
    <3>2. t \in Ids /\ jobType[t] \in JobTypeRow
      BY <2>3, RowFields DEF JobTypes
    <3>3. row \in JobTypeRow
      BY <2>2, <3>2 DEF JobTypeRow
    <3> QED BY <2>1, <3>1, <3>2, <3>3, SomeCodes, WriteJobTypeEffect
  <2>4. CASE t \notin JobTypes
    <3>1. answer(r, 500) /\ UNCHANGED rows
      BY <1>2, <2>1, <2>4 DEF updateJobType, rows
    <3> QED BY <2>1, <3>1, AnswerMoves, SomeCodes, RowsStay DEF Effect
  <2> QED BY <2>3, <2>4
<1>3. CASE deleteJobType(r)
  <2>1. /\ jobType' = [jobType EXCEPT ![op[r].ref] = None]
        /\ UNCHANGED << op, project, policy, queue, custom >>
        /\ (answer(r, 204) \/ answer(r, 500))
    BY <1>3 DEF deleteJobType
  <2>2. Moves(r)
    BY <2>1, AnswerMoves, SomeCodes
  <2>3. /\ jobType' \in [Ids -> JobTypeRow \cup {None}]
        /\ \A t \in Ids : jobType'[t] # None => jobType'[t] = jobType[t]
    BY <2>1, RowFields
  <2> QED BY <2>1, <2>2, <2>3, RowFields, RowsByTable DEF Effect
<1> QED BY <1>1, <1>2, <1>3

LEMMA PolicyEffect ==
  ASSUME NEW r \in Requests, CatalogInv, Placed(r),
         createPolicy(r) \/ patchPolicy(r) \/ deletePolicy(r)
  PROVE  Effect(r)
<1> USE RequestsAreIds
<1>1. CASE createPolicy(r)
  <2>1. /\ policy' = [policy EXCEPT ![r] = "live"]
        /\ UNCHANGED << op, project, queue, jobType, custom >>
        /\ (answer(r, 201) \/ answer(r, 200))
    BY <1>1 DEF createPolicy
  <2>2. Moves(r)
    BY <2>1, AnswerMoves, SomeCodes
  <2> QED BY <2>1, <2>2, RowFields, RowsByTable DEF Effect
<1>2. CASE deletePolicy(r)
  <2> DEFINE p == op[r].on
             used == \E q \in Queues : queue[q].policy = p
  <2>1. /\ UNCHANGED << op, project, queue, jobType, custom >>
        /\ (answer(r, 500) \/ answer(r, 204))
    BY <1>2 DEF deletePolicy
  <2>2. Moves(r)
    BY <2>1, AnswerMoves, SomeCodes
  <2>3. CASE policy[p] # "live" \/ used
    <3>1. UNCHANGED rows
      BY <1>2, <2>1, <2>3 DEF deletePolicy, rows
    <3> QED BY <2>2, <3>1, RowsStay DEF Effect
  <2>4. CASE policy[p] = "live" /\ ~used
    <3>1. policy' = [policy EXCEPT ![p] = "gone"]
      BY <1>2, <2>4 DEF deletePolicy
    <3>2. \A q \in Ids : queue[q] # None => queue[q].policy # p
      BY <2>4 DEF Queues
    <3> QED BY <2>1, <2>2, <3>1, <3>2, RowFields, RowsByTable DEF Effect
  <2> QED BY <2>3, <2>4
<1>3. CASE patchPolicy(r)
  <2>1. op' = op /\ UNCHANGED rows /\ (answer(r, 200) \/ answer(r, 500))
    BY <1>3 DEF patchPolicy
  <2> QED BY <2>1, AnswerMoves, SomeCodes, RowsStay DEF Effect
<1> QED BY <1>1, <1>2, <1>3

LEMMA WriteQueueEffect ==
  ASSUME NEW r \in Requests, CatalogInv, UNCHANGED << op, project, policy, jobType, custom >>,
         NEW q \in Ids, NEW row \in QueueRow, referred(row) \/ queue' = queue,
         NEW s \in Codes, answer(r, s),
         queue' = queue \/ queue' = [queue EXCEPT ![q] = row]
  PROVE  Effect(r)
<1>1. Moves(r)
  BY AnswerMoves
<1>2. CASE queue' = queue
  <2>1. UNCHANGED rows
    BY <1>2 DEF rows
  <2> QED BY <1>1, <2>1, RowsStay DEF Effect
<1>3. CASE queue' = [queue EXCEPT ![q] = row] /\ referred(row)
  <2>1. project[row.project] \in Names /\ policy[row.policy] = "live"
    BY <1>3 DEF referred, Live
  <2>2. row # None
    BY CatalogAssumption
  <2>3. \A o \in Ids : queue'[o] # None =>
          project'[queue'[o].project] \in Names /\ policy'[queue'[o].policy] = "live"
    BY <1>3, <2>1, RowFields
  <2>4. queue' \in [Ids -> QueueRow \cup {None}]
        /\ \A o \in Ids : queue[o] # None => queue'[o] # None
    BY <1>3, <2>2, RowFields
  <2> QED BY <1>1, <2>3, <2>4, RowFields, RowsByTable DEF Effect
<1> QED BY <1>2, <1>3

LEMMA QueueEffect ==
  ASSUME NEW r \in Requests, CatalogInv, Placed(r), createQueue(r) \/ patchQueue(r)
  PROVE  Effect(r)
<1> USE RequestsAreIds
<1>1. CASE createQueue(r)
  <2> DEFINE row == [project |-> op[r].on, name |-> op[r].name, policy |-> op[r].ref]
  <2>1. at[r] = "createQueue" /\ UNCHANGED << op, project, policy, jobType, custom >>
    BY <1>1 DEF createQueue
  <2>2. op[r] \in Operations /\ op[r].kind = "createQueue"
    BY <2>1 DEF Placed, CatalogStages, StageOf
  <2>3. row \in QueueRow
    BY <2>2, OperationsAssumption DEF QueueRow
  <2>4. CASE referred(row) /\ ~duplicate(r, row)
    <3>1. answer(r, 201) /\ queue' = [queue EXCEPT ![r] = row]
      BY <1>1, <2>4 DEF createQueue
    <3> QED BY <2>1, <2>3, <2>4, <3>1, SomeCodes, WriteQueueEffect
  <2>5. CASE ~(referred(row) /\ ~duplicate(r, row))
    <3>1. (answer(r, 409) \/ answer(r, 500)) /\ queue' = queue
      BY <1>1, <2>5 DEF createQueue
    <3> QED BY <2>1, <2>3, <3>1, SomeCodes, WriteQueueEffect
  <2> QED BY <2>4, <2>5
<1>2. CASE patchQueue(r)
  <2> DEFINE q == op[r].on
             row == patched(op[r])
  <2>1. at[r] = "updateQueue" /\ UNCHANGED << op, project, policy, jobType, custom >>
    BY <1>2 DEF patchQueue
  <2>2. op[r] \in Operations /\ op[r].kind = "patchQueue" /\ queue[q] # None
    BY <2>1 DEF Placed, CatalogStages, StageOf
  <2>3. q \in Ids
    BY <2>2, OperationsAssumption
  <2>4. queue[q] \in QueueRow /\ op[r] \in Operation
    BY <2>2, <2>3, RowFields, OperationsAssumption
  <2>5. row \in QueueRow
    BY <2>4 DEF patched, QueueRow, Operation
  <2>6. CASE referred(row) /\ ~duplicate(q, row)
    <3>1. answer(r, 200) /\ queue' = [queue EXCEPT ![q] = row]
      BY <1>2, <2>6 DEF patchQueue
    <3> QED BY <2>1, <2>3, <2>5, <2>6, <3>1, SomeCodes, WriteQueueEffect
  <2>7. CASE ~(referred(row) /\ ~duplicate(q, row))
    <3>1. answer(r, 500) /\ queue' = queue
      BY <1>2, <2>7 DEF patchQueue
    <3> QED BY <2>1, <2>3, <2>5, <3>1, SomeCodes, WriteQueueEffect
  <2> QED BY <2>6, <2>7
<1> QED BY <1>1, <1>2

-----------------------------------------------------------------------------
LEMMA CatalogEffect ==
  ASSUME NEW r \in Requests, CatalogInv, Placed(r), CatalogStep(r)
  PROVE  Effect(r)
BY ReadingEffect, ProjectEffect, JobTypeEffect, PolicyEffect, QueueEffect DEF CatalogStep

(* Only a statement of the catalog's own is taken by its steps. *)
LEMMA CatalogStepStage ==
  ASSUME NEW r \in Requests, CatalogStep(r)
  PROVE  at[r] \in CatalogStages
<1>1. CASE requireProjectAdmin(r) \/ countQueues(r) \/ findJobType(r) \/ countUses(r)
           \/ ensureDefaultRetryPolicies(r)
  BY <1>1 DEF requireProjectAdmin, countQueues, findJobType, countUses,
              ensureDefaultRetryPolicies, reads, CatalogStages
<1>2. CASE findProject(r) \/ findPolicy(r) \/ findName(r)
  BY <1>2 DEF findProject, findPolicy, findName, reads, CatalogStages
<1>3. CASE createProject(r) \/ renameProject(r) \/ deleteProject(r)
           \/ createJobType(r) \/ updateJobType(r) \/ deleteJobType(r)
  BY <1>3 DEF createProject, renameProject, deleteProject, createJobType, updateJobType,
              deleteJobType, CatalogStages
<1>4. CASE createPolicy(r) \/ patchPolicy(r) \/ deletePolicy(r) \/ createQueue(r) \/ patchQueue(r)
  BY <1>4 DEF createPolicy, patchPolicy, deletePolicy, createQueue, patchQueue, CatalogStages
<1> QED BY <1>1, <1>2, <1>3, <1>4 DEF CatalogStep

(* A request that arrives goes to the first statement of its handler. *)
LEMMA ReceivePlaces ==
  ASSUME NEW r \in Requests, CatalogInv, NEW o \in Operations, receive(r, o)
  PROVE  /\ op' = [op EXCEPT ![r] = o] /\ op'[r] = o
         /\ at' = [at EXCEPT ![r] = First(o.kind)] /\ at'[r] = First(o.kind)
         /\ UNCHANGED << status, rows >>
         /\ o.kind \in {"createJob", "createBatch"} =>
              First(o.kind) = "findQueue" /\ queue[o.on] # None
         /\ o.kind \notin {"createJob", "createBatch"} =>
              First(o.kind) \in CatalogStages /\ StageOf(o.kind, First(o.kind))
         /\ o.kind = "patchQueue" => queue[o.on] # None
<1>1. /\ op' = [op EXCEPT ![r] = o] /\ op'[r] = o
      /\ at' = [at EXCEPT ![r] = First(o.kind)] /\ at'[r] = First(o.kind)
      /\ UNCHANGED << status, rows >>
  BY DEF receive, CatalogInv, OpsOK
<1>2. o.kind \in {"createJob", "createBatch"} =>
        First(o.kind) = "findQueue" /\ queue[o.on] # None
  BY DEF receive, Known, First, AfterAdmin
<1>3. o.kind = "patchQueue" => queue[o.on] # None
  BY DEF receive, Known
<1>4. o.kind \notin {"createJob", "createBatch"} =>
        First(o.kind) \in CatalogStages /\ StageOf(o.kind, First(o.kind))
  <2>1. o.kind \in {"createProject", "renameProject", "deleteProject",
                    "createJobType", "renameJobType", "deleteJobType",
                    "createPolicy", "listPolicies", "patchPolicy", "deletePolicy",
                    "createQueue", "patchQueue", "createJob", "createBatch"}
    BY OperationsAssumption DEF Operation
  <2> QED BY <2>1 DEF First, AfterAdmin, CatalogStages, StageOf
<1> QED BY <1>1, <1>2, <1>3, <1>4
=============================================================================
