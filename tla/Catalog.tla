------------------------------ MODULE Catalog ------------------------------
(* What an organisation's owner sets up through the API: projects and their job
   types (routes/projects.ts), retry policies and queues (routes/queues.ts).

   A handler reads, decides, and writes in a later statement of another
   transaction: other requests come between.  What the write meets there is
   decided by the keys and the restrictive foreign keys of schema.prisma. *)
EXTENDS Naturals, Sequences

CONSTANTS
  Requests,    \* HTTP requests; the rows one creates are named after it
  Seed,        \* names the project, the policy and the queue that may exist before
  Names,       \* spellings of one name that differ in upper and lower case,
               \* of projects, queues and job types
  Keys,        \* idempotency keys
  Operations,  \* what clients ask for
  None

Ids == Requests \cup {Seed}

VARIABLES
  op,       \* per request: what it asks for, None before it is sent
  at,       \* per request: the next statement of its handler
  status,   \* per request: the HTTP status of its answer, 0 before it
  project,  \* per project: its name, "unborn" or "gone"
  policy,   \* per retry policy: "unborn", "live" or "gone"
  queue,    \* per queue: its row, None if there is none
  jobType,  \* per job type: its row, None if there is none
  custom    \* the names whose handler is the custom one in this process

rows == << project, policy, queue, jobType, custom >>

\* `on` is the row that the request's path names, `ref` the retry policy in its
\* body or the job type in its path.
Operation == [kind : {"createProject", "renameProject", "deleteProject",
                      "createJobType", "renameJobType", "deleteJobType",
                      "createPolicy", "listPolicies", "patchPolicy", "deletePolicy",
                      "createQueue", "patchQueue", "createJob", "createBatch"},
              on : Ids \cup {None}, ref : Ids \cup {None},
              name : Names \cup {None}, keys : Seq(Keys \cup {None})]

QueueRow == [project : Ids, name : Names, policy : Ids]
JobTypeRow == [project : Ids, name : Names]

ASSUME CatalogAssumption ==
  /\ Seed \notin Requests /\ Names # {}
  /\ None \notin Operations \cup Ids \cup Names \cup Keys \cup QueueRow \cup JobTypeRow
  /\ Names \cap {"unborn", "gone"} = {}

(* What the routes' schemas and paths guarantee of a request that is well-formed. *)
ASSUME OperationsAssumption ==
  /\ Operations \subseteq Operation
  /\ \A o \in Operations :
       /\ o.kind \in {"createProject", "renameProject", "createJobType", "renameJobType",
                     "createQueue"} => o.name \in Names
       /\ o.kind \in {"createJobType", "createQueue", "patchQueue", "createJob", "createBatch"}
            => o.on \in Ids
       /\ o.kind = "createQueue" => o.ref \in Ids
       /\ o.kind = "createJob" => Len(o.keys) = 1

Live(p) == project[p] \in Names
Queues == {q \in Ids : queue[q] # None}
JobTypes == {t \in Ids : jobType[t] # None}

SeedName == CHOOSE n \in Names : TRUE

CatalogInit ==
  /\ op = [r \in Requests |-> None]
  /\ at = [r \in Requests |-> "idle"]
  /\ status = [r \in Requests |-> 0]
  /\ project = [p \in Ids |-> IF p = Seed THEN SeedName ELSE "unborn"]
  /\ policy = [p \in Ids |-> IF p = Seed THEN "live" ELSE "unborn"]
  /\ \E row \in {None, [project |-> Seed, name |-> SeedName, policy |-> Seed]} :
       queue = [q \in Ids |-> IF q = Seed THEN row ELSE None]
  /\ jobType = [t \in Ids |-> None]
  /\ custom = {}

-----------------------------------------------------------------------------
(* A request arrives, authenticated and well-formed.  The client learned the
   identifiers in it from an earlier answer. *)
Created(r, kind) == op[r] # None /\ op[r].kind = kind /\ status[r] = 201

Known(o) ==
  CASE o.kind \in {"createJob", "createBatch"} -> queue[o.on] # None
    [] o.kind = "patchQueue" ->
         queue[o.on] # None /\ (o.ref # None => policy[o.ref] # "unborn")
    [] o.kind = "createQueue" -> project[o.on] # "unborn" /\ policy[o.ref] # "unborn"
    [] o.kind \in {"patchPolicy", "deletePolicy"} -> policy[o.on] # "unborn"
    [] o.kind \in {"renameJobType", "deleteJobType"} ->
         project[o.on] # "unborn" /\ Created(o.ref, "createJobType")
    [] o.kind \in {"renameProject", "deleteProject", "createJobType"} ->
         project[o.on] # "unborn"
    [] OTHER -> TRUE

\* Where requests go that need the owner or an administrator of the project.
AfterAdmin == [renameProject |-> "updateProject", deleteProject |-> "countQueues",
               createJobType |-> "insertJobType",
               renameJobType |-> "findJobType", deleteJobType |-> "findJobType"]

First(kind) ==
  CASE kind \in DOMAIN AfterAdmin -> "requireProjectAdmin"
    [] kind = "listPolicies" -> "countPolicies"
    [] kind = "deletePolicy" -> "countUses"
    [] kind = "createQueue" -> "findProject"
    [] kind = "patchQueue" -> "findPolicy"
    [] kind \in {"createJob", "createBatch"} -> "findQueue"
    [] OTHER -> kind

receive(r, o) ==
  /\ op[r] = None /\ Known(o)
  /\ op' = [op EXCEPT ![r] = o]
  /\ at' = [at EXCEPT ![r] = First(o.kind)]
  /\ UNCHANGED << status, rows >>

answer(r, s) ==
  /\ at' = [at EXCEPT ![r] = "done"]
  /\ status' = [status EXCEPT ![r] = s]

proceed(r, stage) == at' = [at EXCEPT ![r] = stage] /\ UNCHANGED status

\* The statement `stage` of r's handler goes on to `next`, or is refused.
reads(r, stage, found, s, next) ==
  /\ at[r] = stage
  /\ IF found THEN proceed(r, next) ELSE answer(r, s)
  /\ UNCHANGED << op, rows >>

-----------------------------------------------------------------------------
(* Projects.  A duplicate name is caught by nothing but the constraint. *)
nameTaken(p, n) == \E o \in Ids \ {p} : project[o] = n

createProject(r) ==
  /\ at[r] = "createProject"
  /\ IF nameTaken(r, op[r].name) THEN answer(r, 500) /\ UNCHANGED project
     ELSE answer(r, 201) /\ project' = [project EXCEPT ![r] = op[r].name]
  /\ UNCHANGED << op, policy, queue, jobType, custom >>

requireProjectAdmin(r) ==
  at[r] = "requireProjectAdmin" /\
  reads(r, "requireProjectAdmin", Live(op[r].on), 404, AfterAdmin[op[r].kind])

renameProject(r) ==
  /\ at[r] = "updateProject"
  /\ IF ~Live(op[r].on) \/ nameTaken(op[r].on, op[r].name)
       THEN answer(r, 500) /\ UNCHANGED project
       ELSE answer(r, 200) /\ project' = [project EXCEPT ![op[r].on] = op[r].name]
  /\ UNCHANGED << op, policy, queue, jobType, custom >>

countQueues(r) ==
  reads(r, "countQueues", \A q \in Queues : queue[q].project # op[r].on, 409,
        "deleteProject")

(* The delete is restricted by the queues that came after the count, and takes
   the job types with it; P2003 is answered as a conflict, a project that is gone
   (P2025) as an error. *)
restricts_counted(q, p) == FALSE                                   \* mutant
restricts(q, p) == queue[q].project = p
restricted(p) == \E q \in Queues : restricts(q, p)
cascaded(p) == [t \in Ids |-> IF t \in JobTypes /\ jobType[t].project = p
                                THEN None ELSE jobType[t]]

deleteProject(r) ==
  LET p == op[r].on IN
  /\ at[r] = "deleteProject"
  /\ IF Live(p) /\ ~restricted(p)
       THEN /\ answer(r, 204)
            /\ project' = [project EXCEPT ![p] = "gone"]
            /\ jobType' = cascaded(p)
       ELSE answer(r, IF Live(p) THEN 409 ELSE 500) /\ UNCHANGED << project, jobType >>
  /\ UNCHANGED << op, policy, queue, custom >>

-----------------------------------------------------------------------------
(* Job types.  A name registered for one project, a built-in one too, runs the
   custom handler in every project from then on (registerCustomJobType). *)
twin(t, row) == \E o \in JobTypes \ {t} : jobType[o] = row

writeJobType(r, t, row, s) ==
  IF ~twin(t, row) /\ Live(row.project)
    THEN /\ answer(r, s)
         /\ jobType' = [jobType EXCEPT ![t] = row]
         /\ custom' = custom \cup {row.name}
    ELSE answer(r, IF twin(t, row) THEN 409 ELSE 500) /\ UNCHANGED << jobType, custom >>

createJobType(r) ==
  /\ at[r] = "insertJobType"
  /\ writeJobType(r, r, [project |-> op[r].on, name |-> op[r].name], 201)
  /\ UNCHANGED << op, project, policy, queue >>

findJobType(r) ==
  at[r] = "findJobType" /\
  reads(r, "findJobType",
        op[r].ref \in JobTypes /\ jobType[op[r].ref].project = op[r].on, 404, op[r].kind)

updateJobType(r) ==
  LET t == op[r].ref IN
  /\ at[r] = "renameJobType"
  /\ IF t \in JobTypes
       THEN writeJobType(r, t, [jobType[t] EXCEPT !.name = op[r].name], 200)
       ELSE answer(r, 500) /\ UNCHANGED << jobType, custom >>
  /\ UNCHANGED << op, project, policy, queue >>

deleteJobType(r) ==
  LET t == op[r].ref IN
  /\ at[r] = "deleteJobType"
  /\ answer(r, IF t \in JobTypes THEN 204 ELSE 500)
  /\ jobType' = [jobType EXCEPT ![t] = None]
  /\ UNCHANGED << op, project, policy, queue, custom >>

-----------------------------------------------------------------------------
(* Retry policies.  ensureDefaultRetryPolicies counts and then creates the three
   defaults, one row here. *)
createPolicy(r) ==
  /\ at[r] \in {"createPolicy", "seedPolicies"}
  /\ policy' = [policy EXCEPT ![r] = "live"]
  /\ answer(r, IF at[r] = "createPolicy" THEN 201 ELSE 200)
  /\ UNCHANGED << op, project, queue, jobType, custom >>

ensureDefaultRetryPolicies(r) ==
  reads(r, "countPolicies", \A p \in Ids : policy[p] # "live", 200, "seedPolicies")

(* PATCH: what a policy says of delays and attempts is not this module's. *)
patchPolicy(r) ==
  /\ at[r] = "patchPolicy"
  /\ answer(r, IF policy[op[r].on] = "live" THEN 200 ELSE 500)
  /\ UNCHANGED << op, rows >>

countUses(r) ==
  reads(r, "countUses", \A q \in Queues : queue[q].policy # op[r].on, 409,
        "deletePolicy")

(* Here P2003 and P2025 are not caught. *)
deletePolicy(r) ==
  LET p == op[r].on IN
  /\ at[r] = "deletePolicy"
  /\ IF policy[p] # "live" \/ \E q \in Queues : queue[q].policy = p
       THEN answer(r, 500) /\ UNCHANGED policy
       ELSE answer(r, 204) /\ policy' = [policy EXCEPT ![p] = "gone"]
  /\ UNCHANGED << op, project, queue, jobType, custom >>

-----------------------------------------------------------------------------
(* Queues.  The name is looked up in any case, the constraint compares it as
   it is written. *)
findProject(r) == reads(r, "findProject", Live(op[r].on), 404, "findPolicy")

findPolicy(r) ==
  reads(r, "findPolicy", op[r].ref # None => policy[op[r].ref] = "live", 404,
        IF op[r].kind = "createQueue" THEN "findName" ELSE "updateQueue")

findName(r) ==
  reads(r, "findName", \A q \in Queues : queue[q].project # op[r].on, 409,
        "createQueue")

(* The foreign keys and the unique (projectId, name) of a row. *)
referred(row) == Live(row.project) /\ policy[row.policy] = "live"
duplicate(q, row) == \E o \in Queues \ {q} :
  queue[o].project = row.project /\ queue[o].name = row.name

createQueue(r) ==
  LET row == [project |-> op[r].on, name |-> op[r].name, policy |-> op[r].ref] IN
  /\ at[r] = "createQueue"
  /\ IF referred(row) /\ ~duplicate(r, row)
       THEN answer(r, 201) /\ queue' = [queue EXCEPT ![r] = row]
       ELSE answer(r, IF duplicate(r, row) THEN 409 ELSE 500) /\ UNCHANGED queue
  /\ UNCHANGED << op, project, policy, jobType, custom >>

(* PATCH looks up no name. *)
patched(o) ==
  [project |-> queue[o.on].project,
   name |-> IF o.name = None THEN queue[o.on].name ELSE o.name,
   policy |-> IF o.ref = None THEN queue[o.on].policy ELSE o.ref]

patchQueue(r) ==
  LET q == op[r].on
      row == patched(op[r]) IN
  /\ at[r] = "updateQueue"
  /\ IF referred(row) /\ ~duplicate(q, row)
       THEN answer(r, 200) /\ queue' = [queue EXCEPT ![q] = row]
       ELSE answer(r, 500) /\ UNCHANGED queue
  /\ UNCHANGED << op, project, policy, jobType, custom >>

-----------------------------------------------------------------------------
CatalogStep(r) ==
  \/ createProject(r) \/ requireProjectAdmin(r) \/ renameProject(r)
  \/ countQueues(r) \/ deleteProject(r)
  \/ createJobType(r) \/ findJobType(r) \/ updateJobType(r) \/ deleteJobType(r)
  \/ createPolicy(r) \/ ensureDefaultRetryPolicies(r) \/ patchPolicy(r)
  \/ countUses(r) \/ deletePolicy(r)
  \/ findProject(r) \/ findPolicy(r) \/ findName(r) \/ createQueue(r) \/ patchQueue(r)

(* Every queue belongs to a project and has a policy that exist, and every job
   type belongs to a project that exists, whatever deletions come between
   another request's reads and its write. *)
ReferencesHold ==
  /\ \A q \in Queues : referred(queue[q])
  /\ \A t \in JobTypes : Live(jobType[t].project)
=============================================================================
