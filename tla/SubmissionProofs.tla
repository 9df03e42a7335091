-------------------------- MODULE SubmissionProofs --------------------------
(* Submission implements the store of idempotency keys, and its rows stay
   whole, for any requests, operations, keys and failures.

   The inductive invariant says, beyond what the runs check, that the unique
   index covers the rows of open transactions too (UniqueKeys): an insert that
   would conflict with one waits, so that what a transaction commits conflicts
   with nothing. *)
EXTENDS Submission, CatalogProofs, FiniteSetTheorems

OwnStages == {"findQueue", "createJob", "findExisting", "createBatch", "publish"}
Submits(r) == op[r] \in Operations /\ op[r].kind \in {"createJob", "createBatch"}

(* A row that is there for the index: committed, or in an open transaction. *)
Present(row) == row \in jobs \/ \E s \in Requests : row \in inTransaction(s)

UniqueKeys ==
  \A a, b : Present(a) /\ Present(b) /\ Keyed(a) /\ Keyed(b) /\ Key(a) = Key(b) => a = b

JobOK(row) ==
  /\ row.by \in Requests /\ Submits(row.by)
  /\ row.item \in 1 .. Size(row.by) /\ row = Row(row.by, row.item)

TablesOK ==
  /\ inserted = [r \in Requests |-> inserted[r]]
  /\ reply = [r \in Requests |-> reply[r]]
  /\ \A row \in jobs : JobOK(row)
  /\ batches \subseteq [by : Requests, totalJobs : Nat, pendingJobs : Nat]
  /\ \A b \in batches : op[b.by] # None
  /\ failures \in 0 .. MaxFailures

(* Where a request is and what it asks for. *)
HandlerOK(r) ==
  /\ at[r] \in {"idle", "done"} \cup OwnStages \cup CatalogStages
  /\ op[r] = None => at[r] = "idle"
  /\ at[r] \in OwnStages => Submits(r)
  /\ at[r] \in {"createJob", "findExisting"} => op[r].kind = "createJob"
  /\ at[r] = "createBatch" => op[r].kind = "createBatch"
  /\ at[r] = "publish" /\ op[r].kind = "createJob" => Row(r, 1) \in jobs
  /\ Submits(r) => queue[op[r].on] # None

TransactionOK(r) ==
  /\ inserted[r] \in Nat
  /\ inserted[r] > 0 => at[r] = "createBatch" /\ inserted[r] <= Size(r)

ReplyOK(r) ==
  reply[r] # None =>
    /\ at[r] = "done" /\ Submits(r) /\ reply[r] \in jobs
    /\ Keyed(Row(r, 1)) => Keyed(reply[r]) /\ Key(reply[r]) = Key(Row(r, 1))

RowsOf(r) == {row \in jobs : row.by = r}
AllRows(r) == {Row(r, i) : i \in 1 .. Size(r)}

WholeOrNothing(r) ==
  Submits(r) /\ op[r].kind = "createBatch" =>
    \/ RowsOf(r) = {} /\ \A b \in batches : b.by # r
    \/ /\ at[r] \in {"publish", "done"}
       /\ RowsOf(r) = AllRows(r)
       /\ \A b \in batches : b.by = r => b.totalJobs = Size(r)
       /\ \E b \in batches : b.by = r

RequestOK(r) ==
  Placed(r) /\ HandlerOK(r) /\ TransactionOK(r) /\ ReplyOK(r) /\ WholeOrNothing(r)

SubmissionInv ==
  /\ CatalogInv /\ TablesOK /\ UniqueKeys
  /\ \A r \in Requests : RequestOK(r)

-----------------------------------------------------------------------------
LEMMA NotAnOperation == None \notin Operations /\ None \notin JobRow
BY CatalogAssumption, SubmissionAssumption

LEMMA SubmitsFacts ==
  ASSUME NEW r \in Requests, Submits(r)
  PROVE  /\ op[r].on \in Ids /\ Size(r) \in Nat
         /\ op[r].keys \in Seq(Keys \cup {None})
         /\ op[r].kind = "createJob" => Size(r) = 1
<1>1. op[r] \in Operations /\ op[r].kind \in {"createJob", "createBatch"}
  BY DEF Submits
<1>2. op[r] \in Operation /\ op[r].on \in Ids
      /\ (op[r].kind = "createJob" => Len(op[r].keys) = 1)
  BY <1>1, OperationsAssumption
<1>3. op[r].keys \in Seq(Keys \cup {None})
  BY <1>2 DEF Operation
<1> QED BY <1>2, <1>3 DEF Size

LEMMA RowFacts ==
  ASSUME NEW r \in Requests, Submits(r), NEW i \in 1 .. Size(r)
  PROVE  Row(r, i) \in JobRow /\ Row(r, i).by = r /\ Row(r, i).item = i
<1>1. op[r].keys[i] \in Keys \cup {None}
  BY SubmitsFacts DEF Size
<1> QED BY <1>1, SubmitsFacts DEF Row, JobRow

LEMMA TransactionRows ==
  ASSUME NEW r \in Requests, HandlerOK(r), TransactionOK(r), NEW row \in inTransaction(r)
  PROVE  /\ \E i \in 1 .. inserted[r] : i \in 1 .. Size(r) /\ row = Row(r, i)
         /\ Submits(r) /\ row \in JobRow /\ row.by = r /\ at[r] = "createBatch"
<1>1. PICK i \in 1 .. inserted[r] : row = Row(r, i)
  BY DEF inTransaction
<1>2. inserted[r] \in Nat /\ inserted[r] > 0 /\ inserted[r] <= Size(r) /\ at[r] = "createBatch"
  BY <1>1 DEF TransactionOK
<1>3. Submits(r)
  BY <1>2 DEF HandlerOK, OwnStages
<1>4. i \in 1 .. Size(r)
  BY <1>2, <1>3, SubmitsFacts
<1> QED BY <1>1, <1>2, <1>3, <1>4, RowFacts

LEMMA JobRows ==
  ASSUME NEW row, JobOK(row)
  PROVE  row \in JobRow /\ row.by \in Requests
BY RowFacts DEF JobOK

(* Nothing is in the open transaction of a request that has none. *)
LEMMA NoTransaction ==
  ASSUME NEW r \in Requests, TransactionOK(r), at[r] # "createBatch"
  PROVE  inserted[r] = 0 /\ inTransaction(r) = {}
BY DEF TransactionOK, inTransaction

-----------------------------------------------------------------------------
(* A step of r leaves what concerns another request s. *)
OthersKept(r) ==
  /\ \A s \in Requests \ {r} :
       /\ op'[s] = op[s] /\ at'[s] = at[s]
       /\ inserted'[s] = inserted[s] /\ reply'[s] = reply[s]
  /\ jobs \subseteq jobs' /\ \A row \in jobs' \ jobs : row.by = r
  /\ batches \subseteq batches' /\ \A b \in batches' \ batches : b.by = r
  /\ QueuesStay

LEMMA OtherRequestOK ==
  ASSUME NEW r \in Requests, NEW s \in Requests, s # r, SubmissionInv, OthersKept(r)
  PROVE  RequestOK(s)'
<1>1. op'[s] = op[s] /\ at'[s] = at[s] /\ inserted'[s] = inserted[s] /\ reply'[s] = reply[s]
      /\ jobs \subseteq jobs' /\ RequestOK(s) /\ op[s] \in Operations \cup {None}
  BY DEF OthersKept, SubmissionInv, CatalogInv, OpsOK
<1>2. Submits(s)' = Submits(s) /\ Size(s)' = Size(s) /\ \A i : Row(s, i)' = Row(s, i)
  BY <1>1 DEF Submits, Size, Row
<1>3. /\ Submits(s) => op[s].on \in Ids
      /\ op[s] \in Operations /\ op[s].kind = "patchQueue" => op[s].on \in Ids
  BY OperationsAssumption DEF Submits
<1>4. Placed(s)'
  BY <1>1, <1>3 DEF RequestOK, Placed, OthersKept, QueuesStay
<1>5. HandlerOK(s)'
  <2>1. HandlerOK(s)
    BY <1>1 DEF RequestOK
  <2>2. Submits(s) => queue'[op[s].on] # None
    BY <1>3, <2>1 DEF HandlerOK, OthersKept, QueuesStay
  <2>3. Row(s, 1)' = Row(s, 1)
    BY <1>2
  <2> QED BY <1>1, <1>2, <2>1, <2>2, <2>3 DEF HandlerOK
<1>6. TransactionOK(s)' /\ ReplyOK(s)'
  BY <1>1, <1>2 DEF RequestOK, TransactionOK, ReplyOK, Keyed, Key
<1>7. RowsOf(s)' = RowsOf(s) /\ AllRows(s)' = AllRows(s)
      /\ \A b : b \in batches' /\ b.by = s <=> b \in batches /\ b.by = s
  BY <1>1, <1>2 DEF RowsOf, AllRows, OthersKept
<1>8. WholeOrNothing(s)'
  BY <1>1, <1>2, <1>7 DEF RequestOK, WholeOrNothing
<1> QED BY <1>4, <1>5, <1>6, <1>8 DEF RequestOK

(* The jobs that are there stay in order when op keeps what was asked. *)
LEMMA JobsStayOK ==
  ASSUME SubmissionInv, \A s \in Requests : op[s] # None => op'[s] = op[s]
  PROVE  \A row \in jobs : JobOK(row)'
<1> SUFFICES ASSUME NEW row \in jobs PROVE JobOK(row)'
  OBVIOUS
<1>1. JobOK(row)
  BY DEF SubmissionInv, TablesOK
<1>2. op'[row.by] = op[row.by]
  BY <1>1, NotAnOperation DEF JobOK, Submits
<1> QED BY <1>1, <1>2 DEF JobOK, Submits, Size, Row

-----------------------------------------------------------------------------
(* The unique index. *)
LEMMA UniqueShrinks ==
  ASSUME UniqueKeys, \A row : Present(row)' => Present(row)
  PROVE  UniqueKeys'
BY DEF UniqueKeys, Keyed, Key

LEMMA UniqueGrows ==
  ASSUME UniqueKeys, NEW new, \A row : Present(row)' => Present(row) \/ row = new,
         \A row : Present(row) /\ Keyed(row) => Key(row) # Key(new)
  PROVE  UniqueKeys'
BY DEF UniqueKeys, Keyed, Key

LEMMA UniqueGrowsUnkeyed ==
  ASSUME UniqueKeys, NEW new, \A row : Present(row)' => Present(row) \/ row = new,
         ~Keyed(new)
  PROVE  UniqueKeys'
BY DEF UniqueKeys, Keyed, Key

(* What neither waits nor conflicts has a key of its own. *)
LEMMA FreeKey ==
  ASSUME NEW r \in Requests, NEW row, Keyed(row), ~blocked(r, row),
         NEW present, jobs \cup inTransaction(r) \subseteq present, ~conflicts(row, present)
  PROVE  \A other : Present(other) /\ Keyed(other) => Key(other) # Key(row)
<1> SUFFICES ASSUME NEW other, Present(other), Keyed(other) PROVE Key(other) # Key(row)
  OBVIOUS
<1>1. CASE other \in jobs \cup inTransaction(r)
  BY <1>1 DEF conflicts
<1>2. CASE \E s \in Requests \ {r} : other \in inTransaction(s)
  BY <1>2 DEF blocked
<1> QED BY <1>1, <1>2 DEF Present

LEMMA TransactionSame ==
  ASSUME NEW s \in Requests, op'[s] = op[s], inserted'[s] = inserted[s]
  PROVE  inTransaction(s)' = inTransaction(s)
BY DEF inTransaction, Row

LEMMA StepKeeps ==
  ASSUME NEW r \in Requests, SubmissionInv, CatalogInv', OthersKept(r),
         TablesOK', UniqueKeys', RequestOK(r)'
  PROVE  SubmissionInv'
BY OtherRequestOK DEF SubmissionInv

-----------------------------------------------------------------------------
(* A step of a handler of this module takes r to x. *)
OwnStep(r, x) ==
  /\ op' = op /\ UNCHANGED rows
  /\ at' = [at EXCEPT ![r] = x]
  /\ \E s \in Codes : status' = [status EXCEPT ![r] = s]

LEMMA OwnAnswer ==
  ASSUME NEW r \in Requests, NEW s \in Codes, answer(r, s), op' = op, UNCHANGED rows
  PROVE  OwnStep(r, "done")
BY DEF OwnStep, answer

LEMMA OwnProceed ==
  ASSUME SubmissionInv, NEW r \in Requests, NEW x, proceed(r, x), op' = op, UNCHANGED rows
  PROVE  OwnStep(r, x)
BY DEF OwnStep, proceed, SubmissionInv, CatalogInv, OpsOK

LEMMA OwnStepFacts ==
  ASSUME SubmissionInv, NEW r \in Requests, NEW x \in OwnStages \cup {"done"}, OwnStep(r, x)
  PROVE  /\ CatalogInv' /\ QueuesStay /\ Placed(r)' /\ op' = op /\ queue' = queue
         /\ at'[r] = x /\ \A s \in Requests \ {r} : at'[s] = at[s]
<1>1. op' = op /\ UNCHANGED rows /\ at' = [at EXCEPT ![r] = x]
  BY DEF OwnStep
<1>2. RowsOK' /\ ReferencesHold' /\ QueuesStay /\ queue' = queue
  BY <1>1, RowsStay DEF SubmissionInv, rows
<1>3. OpsOK'
  BY DEF SubmissionInv, CatalogInv, OpsOK, OwnStep
<1>4. at'[r] = x /\ \A s \in Requests \ {r} : at'[s] = at[s]
  BY <1>1 DEF SubmissionInv, CatalogInv, OpsOK
<1>5. x \notin CatalogStages
  BY DEF OwnStages, CatalogStages
<1> QED BY <1>1, <1>2, <1>3, <1>4, <1>5 DEF CatalogInv, Placed

(* op does not change: neither do the rows that requests ask for. *)
LEMMA SameOp ==
  ASSUME op' = op
  PROVE  /\ \A s : Submits(s)' = Submits(s)
         /\ \A s : Size(s)' = Size(s)
         /\ \A s, i : Row(s, i)' = Row(s, i)
         /\ \A s : AllRows(s)' = AllRows(s)
BY DEF Submits, Size, Row, AllRows

(* Jobs of r that are added are its rows. *)
LEMMA MoreJobs ==
  ASSUME SubmissionInv, op' = op, NEW r \in Requests, Submits(r),
         NEW new \in SUBSET AllRows(r), jobs' = jobs \cup new
  PROVE  /\ \A row \in jobs' : JobOK(row)'
         /\ jobs \subseteq jobs' /\ \A row \in jobs' \ jobs : row.by = r
<1>1. \A row \in jobs : JobOK(row)'
  BY JobsStayOK
<1>2. ASSUME NEW row \in new PROVE JobOK(row) /\ row.by = r
  <2>1. PICK i \in 1 .. Size(r) : row = Row(r, i)
    BY <1>2 DEF AllRows
  <2>2. row.by = r /\ row.item = i
    BY <2>1, RowFacts
  <2> QED BY <2>1, <2>2 DEF JobOK
<1>3. \A row \in new : JobOK(row)'
  BY <1>2, SameOp DEF JobOK
<1> QED BY <1>1, <1>2, <1>3

LEMMA CatalogCodes == {200, 201, 400, 500} \subseteq Codes
BY DEF Codes

-----------------------------------------------------------------------------
(* The steps.  Those of the catalog. *)
LEMMA UnchangedUnique ==
  ASSUME SubmissionInv, op' = op, UNCHANGED << jobs, inserted >>
  PROVE  UniqueKeys'
<1>1. \A s \in Requests : inTransaction(s)' = inTransaction(s)
  BY TransactionSame
<1>2. \A row : Present(row)' => Present(row)
  BY <1>1 DEF Present
<1> QED BY <1>2, UniqueShrinks DEF SubmissionInv

LEMMA CatalogKeeps ==
  ASSUME SubmissionInv, NEW r \in Requests, CatalogStep(r),
         UNCHANGED << jobs, batches, inserted, reply, failures >>
  PROVE  SubmissionInv'
<1>1. CatalogInv /\ RequestOK(r) /\ Placed(r)
  BY DEF SubmissionInv, RequestOK
<1>2. Effect(r) /\ at[r] \in CatalogStages
  BY <1>1, CatalogEffect, CatalogStepStage
<1>3. op' = op
  BY <1>2 DEF Effect, Moves
<1>4. PICK x \in CatalogStages \cup {"done"} :
        at' = [at EXCEPT ![r] = x] /\ (x # "done" => StageOf(op[r].kind, x))
  BY <1>2 DEF Effect, Moves
<1>5. at'[r] = x /\ \A s \in Requests \ {r} : at'[s] = at[s]
  BY <1>4 DEF SubmissionInv, CatalogInv, OpsOK
<1>6. OpsOK' /\ CatalogInv'
  <2>1. at' = [s \in Requests |-> at'[s]]
    BY <1>1, <1>4 DEF CatalogInv, OpsOK
  <2>2. status' \in [Requests -> Codes]
    BY <1>1, <1>2 DEF CatalogInv, OpsOK, Effect, Moves
  <2>3. OpsOK'
    BY <1>1, <1>3, <2>1, <2>2 DEF CatalogInv, OpsOK
  <2> QED BY <1>2, <2>3 DEF CatalogInv, Effect
<1>7. OthersKept(r)
  BY <1>2, <1>3, <1>5 DEF OthersKept, Effect
<1>8. TablesOK'
  BY <1>3, JobsStayOK DEF SubmissionInv, TablesOK
<1>9. UniqueKeys'
  BY <1>3, UnchangedUnique
<1>10. RequestOK(r)'
  <2>1. /\ "done" \notin CatalogStages /\ "createBatch" \notin CatalogStages
        /\ OwnStages \cap (CatalogStages \cup {"done"}) = {} /\ "idle" \notin CatalogStages
        /\ {"createJob", "findExisting", "createBatch", "publish"} \subseteq OwnStages
    BY DEF OwnStages, CatalogStages
  <2>2. op[r] \in Operations /\ ~(op[r].kind \in {"createJob", "createBatch"})
    BY <1>1, <1>2 DEF Placed, StageOf
  <2>3. ~Submits(r) /\ ~Submits(r)'
    BY <1>3, <2>2 DEF Submits
  <2>4. HandlerOK(r)'
    BY <1>3, <1>5, <2>1, <2>2, <2>3, NotAnOperation DEF HandlerOK
  <2>5. TransactionOK(r)'
    BY <1>1, <1>2, <1>5, <2>1 DEF RequestOK, TransactionOK
  <2>6. ReplyOK(r)' /\ WholeOrNothing(r)'
    BY <1>1, <2>3 DEF RequestOK, ReplyOK, WholeOrNothing
  <2>7. Placed(r)'
    <3>1. op[r].kind = "patchQueue" => queue'[op[r].on] # None
      BY <1>1, <1>2, <2>2, OperationsAssumption DEF Placed, Effect, QueuesStay
    <3> QED BY <1>3, <1>4, <1>5, <2>1, <2>2, <3>1 DEF Placed
  <2> QED BY <2>4, <2>5, <2>6, <2>7 DEF RequestOK
<1> QED BY <1>6, <1>7, <1>8, <1>9, <1>10, StepKeeps

-----------------------------------------------------------------------------
(* A job for one request. *)
LEMMA FindQueueKeeps ==
  ASSUME SubmissionInv, NEW r \in Requests, findQueue(r),
         UNCHANGED << jobs, batches, inserted, reply, failures >>
  PROVE  SubmissionInv'
<1>1. /\ at[r] = "findQueue" /\ op' = op /\ UNCHANGED rows
      /\ (proceed(r, op[r].kind) \/ answer(r, 400))
  BY DEF findQueue, reads
<1>2. RequestOK(r)
  BY DEF SubmissionInv
<1>3. Submits(r) /\ op[r].kind \in {"createJob", "createBatch"}
  BY <1>1, <1>2 DEF RequestOK, HandlerOK, OwnStages, Submits
<1>4. PICK x \in {op[r].kind, "done"} : OwnStep(r, x)
  BY <1>1, OwnAnswer, OwnProceed, CatalogCodes
<1>5. x \in OwnStages \cup {"done"}
  BY <1>3 DEF OwnStages
<1>6. /\ CatalogInv' /\ QueuesStay /\ Placed(r)' /\ op' = op /\ queue' = queue
      /\ at'[r] = x /\ \A s \in Requests \ {r} : at'[s] = at[s]
  BY <1>4, <1>5, OwnStepFacts
<1>7. OthersKept(r)
  BY <1>6 DEF OthersKept
<1>8. TablesOK' /\ UniqueKeys'
  BY <1>6, JobsStayOK, UnchangedUnique DEF SubmissionInv, TablesOK
<1>9. RequestOK(r)'
  <2>1. HandlerOK(r)'
    BY <1>2, <1>3, <1>4, <1>5, <1>6, SameOp, NotAnOperation DEF RequestOK, HandlerOK, Submits
  <2>2. inserted[r] = 0 /\ reply[r] = None
    BY <1>1, <1>2, NoTransaction DEF RequestOK, ReplyOK
  <2>3. TransactionOK(r)' /\ ReplyOK(r)'
    BY <2>2 DEF TransactionOK, ReplyOK
  <2>4. WholeOrNothing(r)'
    BY <1>1, <1>2, <1>6, SameOp DEF RequestOK, WholeOrNothing, RowsOf
  <2> QED BY <1>6, <2>1, <2>3, <2>4 DEF RequestOK
<1> QED BY <1>6, <1>7, <1>8, <1>9, StepKeeps

LEMMA CreateJobKeeps ==
  ASSUME SubmissionInv, NEW r \in Requests, createJob(r)
  PROVE  SubmissionInv'
<1>1. /\ at[r] = "createJob" /\ op' = op /\ UNCHANGED << rows, batches, inserted, reply, failures >>
      /\ ~blocked(r, Row(r, 1))
  BY DEF createJob
<1>2. RequestOK(r)
  BY DEF SubmissionInv
<1>3. Submits(r) /\ op[r].kind = "createJob" /\ Size(r) = 1
  BY <1>1, <1>2, SubmitsFacts DEF RequestOK, HandlerOK, OwnStages
<1>4. inserted[r] = 0 /\ inTransaction(r) = {} /\ reply[r] = None
  BY <1>1, <1>2, NoTransaction DEF RequestOK, ReplyOK
<1>5. TransactionOK(r)' /\ ReplyOK(r)' /\ WholeOrNothing(r)'
  BY <1>1, <1>3, <1>4, SameOp DEF TransactionOK, ReplyOK, WholeOrNothing
<1>6. CASE conflicts(Row(r, 1), jobs)
  <2>1. proceed(r, "findExisting") /\ jobs' = jobs
    BY <1>6 DEF createJob
  <2>2. OwnStep(r, "findExisting") /\ "findExisting" \in OwnStages
    BY <1>1, <2>1, OwnProceed DEF OwnStages
  <2>3. /\ CatalogInv' /\ QueuesStay /\ Placed(r)' /\ op' = op /\ queue' = queue
        /\ at'[r] = "findExisting" /\ \A s \in Requests \ {r} : at'[s] = at[s]
    BY <2>2, OwnStepFacts
  <2>4. OthersKept(r)
    BY <1>1, <2>1, <2>3 DEF OthersKept
  <2>5. TablesOK' /\ UniqueKeys'
    BY <1>1, <2>1, JobsStayOK, UnchangedUnique DEF SubmissionInv, TablesOK
  <2>6. HandlerOK(r)'
    BY <1>2, <1>3, <2>2, <2>3, SameOp, NotAnOperation DEF RequestOK, HandlerOK, Submits
  <2> QED BY <1>5, <2>3, <2>4, <2>5, <2>6, StepKeeps DEF RequestOK
<1>7. CASE ~conflicts(Row(r, 1), jobs)
  <2>1. proceed(r, "publish") /\ jobs' = jobs \cup {Row(r, 1)}
    BY <1>7 DEF createJob
  <2>2. OwnStep(r, "publish") /\ "publish" \in OwnStages
    BY <1>1, <2>1, OwnProceed DEF OwnStages
  <2>3. /\ CatalogInv' /\ QueuesStay /\ Placed(r)' /\ op' = op /\ queue' = queue
        /\ at'[r] = "publish" /\ \A s \in Requests \ {r} : at'[s] = at[s]
    BY <2>2, OwnStepFacts
  <2>4. {Row(r, 1)} \in SUBSET AllRows(r)
    BY <1>3 DEF AllRows
  <2>5. /\ \A row \in jobs' : JobOK(row)'
        /\ jobs \subseteq jobs' /\ \A row \in jobs' \ jobs : row.by = r
    BY <1>1, <1>3, <2>1, <2>4, MoreJobs
  <2>6. OthersKept(r)
    BY <1>1, <2>3, <2>5 DEF OthersKept
  <2>7. TablesOK'
    BY <1>1, <2>5 DEF SubmissionInv, TablesOK
  <2>8. UniqueKeys'
    <3>1. \A s \in Requests : inTransaction(s)' = inTransaction(s)
      BY <1>1, TransactionSame
    <3>2. \A row : Present(row)' => Present(row) \/ row = Row(r, 1)
      BY <2>1, <3>1 DEF Present
    <3>3. UniqueKeys
      BY DEF SubmissionInv
    <3>4. CASE Keyed(Row(r, 1))
      <4>1. \A row : Present(row) /\ Keyed(row) => Key(row) # Key(Row(r, 1))
        BY <1>1, <1>4, <1>7, <3>4, FreeKey
      <4> QED BY <3>2, <3>3, <4>1, UniqueGrows
    <3>5. CASE ~Keyed(Row(r, 1))
      BY <3>2, <3>3, <3>5, UniqueGrowsUnkeyed
    <3> QED BY <3>4, <3>5
  <2>9. HandlerOK(r)'
    BY <1>2, <1>3, <2>1, <2>2, <2>3, SameOp, NotAnOperation DEF RequestOK, HandlerOK, Submits
  <2> QED BY <1>5, <2>3, <2>6, <2>7, <2>8, <2>9, StepKeeps DEF RequestOK
<1> QED BY <1>6, <1>7

(* An answer with a job, or without: the reply is about the request's own key. *)
LEMMA ReplyKeeps ==
  ASSUME SubmissionInv, NEW r \in Requests, at[r] \in {"findExisting", "publish"},
         op' = op, UNCHANGED << rows, jobs, batches, inserted, failures >>,
         NEW s \in Codes, answer(r, s), NEW job,
         job = None \/ (/\ job \in jobs
                        /\ Keyed(Row(r, 1)) => Keyed(job) /\ Key(job) = Key(Row(r, 1))),
         reply' = [reply EXCEPT ![r] = job]
  PROVE  SubmissionInv'
<1>1. RequestOK(r)
  BY DEF SubmissionInv
<1>2. Submits(r) /\ inserted[r] = 0
  BY <1>1, NoTransaction DEF RequestOK, HandlerOK, OwnStages
<1>3. OwnStep(r, "done")
  BY OwnAnswer
<1>4. /\ CatalogInv' /\ QueuesStay /\ Placed(r)' /\ queue' = queue
      /\ at'[r] = "done" /\ \A o \in Requests \ {r} : at'[o] = at[o]
  BY <1>3, OwnStepFacts
<1>5. reply'[r] = job /\ \A o \in Requests \ {r} : reply'[o] = reply[o]
  BY DEF SubmissionInv, TablesOK
<1>6. OthersKept(r)
  BY <1>4, <1>5 DEF OthersKept
<1>7. TablesOK' /\ UniqueKeys'
  BY JobsStayOK, UnchangedUnique DEF SubmissionInv, TablesOK
<1>8. RequestOK(r)'
  <2>1. HandlerOK(r)'
    BY <1>1, <1>2, <1>4, SameOp, NotAnOperation DEF RequestOK, HandlerOK, Submits, OwnStages
  <2>2. TransactionOK(r)'
    BY <1>2 DEF TransactionOK
  <2>3. ReplyOK(r)'
    BY <1>2, <1>4, <1>5, SameOp DEF ReplyOK, Keyed, Key
  <2>4. WholeOrNothing(r)'
    BY <1>1, <1>4, SameOp DEF RequestOK, WholeOrNothing, RowsOf
  <2> QED BY <1>4, <2>1, <2>2, <2>3, <2>4 DEF RequestOK
<1> QED BY <1>4, <1>6, <1>7, <1>8, StepKeeps

LEMMA FindExistingKeeps ==
  ASSUME SubmissionInv, NEW r \in Requests, findExisting(r)
  PROVE  SubmissionInv'
<1>1. /\ at[r] = "findExisting" /\ op' = op
      /\ UNCHANGED << rows, jobs, batches, inserted, failures >>
  BY DEF findExisting
<1>2. CASE \E row \in jobs :
             existing(r, row) /\ reply' = [reply EXCEPT ![r] = row] /\ answer(r, 200)
  <2>1. PICK row \in jobs :
             existing(r, row) /\ reply' = [reply EXCEPT ![r] = row] /\ answer(r, 200)
    BY <1>2
  <2>2. Keyed(row) /\ Key(row) = Key(Row(r, 1))
    BY <2>1 DEF existing
  <2> QED BY <1>1, <2>1, <2>2, ReplyKeeps, CatalogCodes
<1>3. CASE answer(r, 500) /\ UNCHANGED reply
  <2>1. reply[r] = None
    BY <1>1 DEF SubmissionInv, RequestOK, ReplyOK
  <2>2. reply' = [reply EXCEPT ![r] = None]
    BY <1>3, <2>1 DEF SubmissionInv, TablesOK
  <2> QED BY <1>1, <1>3, <2>2, ReplyKeeps, CatalogCodes
<1> QED BY <1>2, <1>3 DEF findExisting

LEMMA PublishKeeps ==
  ASSUME SubmissionInv, NEW r \in Requests, publish(r)
  PROVE  SubmissionInv'
<1> DEFINE job == IF op[r].kind = "createJob" THEN Row(r, 1) ELSE None
<1>1. /\ at[r] = "publish" /\ op' = op /\ answer(r, 201)
      /\ UNCHANGED << rows, jobs, batches, inserted, failures >>
      /\ reply' = [reply EXCEPT ![r] = job]
  BY DEF publish
<1>2. op[r].kind = "createJob" => Row(r, 1) \in jobs
  BY <1>1 DEF SubmissionInv, RequestOK, HandlerOK
<1>3. at[r] \in {"findExisting", "publish"} /\ 201 \in Codes
  BY <1>1, CatalogCodes
<1>4. job = None \/ (job \in jobs /\ job = Row(r, 1))
  BY <1>2
<1> HIDE DEF job
<1> QED BY <1>1, <1>3, <1>4, ReplyKeeps

-----------------------------------------------------------------------------
(* The transaction of a batch.  Rolled back, it leaves nothing. *)
LEMMA AbortKeeps ==
  ASSUME SubmissionInv, NEW r \in Requests, at[r] \notin {"idle", "done"}, abort(r),
         op' = op, UNCHANGED << rows, batches, reply >>, failures' \in 0 .. MaxFailures
  PROVE  SubmissionInv'
<1>1. inserted' = [inserted EXCEPT ![r] = 0] /\ jobs' = jobs /\ answer(r, 500)
  BY DEF abort, rolledBack, leftovers
<1>2. RequestOK(r)
  BY DEF SubmissionInv
<1>3. OwnStep(r, "done")
  BY <1>1, OwnAnswer, CatalogCodes
<1>4. /\ CatalogInv' /\ QueuesStay /\ Placed(r)' /\ queue' = queue
      /\ at'[r] = "done" /\ \A o \in Requests \ {r} : at'[o] = at[o]
  BY <1>3, OwnStepFacts
<1>5. inserted'[r] = 0 /\ \A o \in Requests \ {r} : inserted'[o] = inserted[o]
  BY <1>1 DEF SubmissionInv, TablesOK
<1>6. OthersKept(r)
  BY <1>1, <1>4, <1>5 DEF OthersKept
<1>7. TablesOK'
  BY <1>1, JobsStayOK DEF SubmissionInv, TablesOK
<1>8. UniqueKeys'
  <2>1. inTransaction(r)' = {}
    BY <1>5 DEF inTransaction
  <2>2. \A s \in Requests \ {r} : inTransaction(s)' = inTransaction(s)
    BY <1>5, TransactionSame
  <2>3. \A row : Present(row)' => Present(row)
    BY <1>1, <2>1, <2>2 DEF Present
  <2> QED BY <2>3, UniqueShrinks DEF SubmissionInv
<1>9. RequestOK(r)'
  <2>1. HandlerOK(r)'
    BY <1>2, <1>4, SameOp DEF RequestOK, HandlerOK, OwnStages
  <2>2. reply[r] = None
    BY <1>2 DEF RequestOK, ReplyOK
  <2>3. TransactionOK(r)' /\ ReplyOK(r)'
    BY <1>5, <2>2 DEF TransactionOK, ReplyOK
  <2>4. WholeOrNothing(r)'
    BY <1>1, <1>2, <1>4, SameOp DEF RequestOK, WholeOrNothing, RowsOf
  <2> QED BY <1>4, <2>1, <2>3, <2>4 DEF RequestOK
<1> QED BY <1>4, <1>6, <1>7, <1>8, <1>9, StepKeeps

LEMMA InsertItemKeeps ==
  ASSUME SubmissionInv, NEW r \in Requests, insertItem(r)
  PROVE  SubmissionInv'
<1> DEFINE n == inserted[r]
           new == Row(r, n + 1)
<1>1. /\ at[r] = "createBatch" /\ n < Size(r) /\ ~blocked(r, new)
      /\ op' = op /\ UNCHANGED << rows, batches, reply, failures >>
  BY DEF insertItem
<1>2. RequestOK(r)
  BY DEF SubmissionInv
<1>3. Submits(r) /\ n \in Nat /\ reply[r] = None
  BY <1>1, <1>2 DEF RequestOK, HandlerOK, OwnStages, TransactionOK, ReplyOK
<1>4. CASE conflicts(new, jobs \cup inTransaction(r))
  <2>1. abort(r) /\ failures' \in 0 .. MaxFailures
    BY <1>1, <1>4 DEF insertItem, SubmissionInv, TablesOK
  <2> QED BY <1>1, <2>1, AbortKeeps
<1>5. CASE ~conflicts(new, jobs \cup inTransaction(r))
  <2>1. inserted' = [inserted EXCEPT ![r] = n + 1] /\ UNCHANGED << at, status, jobs >>
    BY <1>5 DEF insertItem
  <2>2. inserted'[r] = n + 1 /\ \A o \in Requests \ {r} : inserted'[o] = inserted[o]
    BY <2>1 DEF SubmissionInv, TablesOK
  <2>3. RowsOK' /\ ReferencesHold' /\ QueuesStay /\ queue' = queue
    BY <1>1, RowsStay DEF SubmissionInv, rows
  <2>4. CatalogInv'
    BY <1>1, <2>1, <2>3 DEF SubmissionInv, CatalogInv, OpsOK
  <2>5. OthersKept(r)
    BY <1>1, <2>1, <2>2, <2>3 DEF OthersKept
  <2>6. TablesOK'
    BY <1>1, <2>1, JobsStayOK DEF SubmissionInv, TablesOK
  <2>7. UniqueKeys'
    <3>1. \A s \in Requests \ {r} : inTransaction(s)' = inTransaction(s)
      BY <1>1, <2>2, TransactionSame
    <3>2. inTransaction(r)' \subseteq inTransaction(r) \cup {new}
      <4> SUFFICES ASSUME NEW i \in 1 .. n + 1
                   PROVE  Row(r, i) \in inTransaction(r) \cup {new}
        BY <1>1, <2>2, SameOp DEF inTransaction
      <4>1. i \in 1 .. n \/ i = n + 1
        BY <1>3
      <4> QED BY <4>1 DEF inTransaction
    <3>3. \A row : Present(row)' => Present(row) \/ row = new
      BY <2>1, <3>1, <3>2 DEF Present
    <3>4. UniqueKeys
      BY DEF SubmissionInv
    <3> HIDE DEF n, new
    <3>5. CASE Keyed(new)
      <4>1. \A row : Present(row) /\ Keyed(row) => Key(row) # Key(new)
        BY <1>1, <1>5, <3>5, FreeKey
      <4> QED BY <3>3, <3>4, <4>1, UniqueGrows
    <3>6. CASE ~Keyed(new)
      BY <3>3, <3>4, <3>6, UniqueGrowsUnkeyed
    <3> QED BY <3>5, <3>6
  <2>8. RequestOK(r)'
    <3>1. HandlerOK(r)' /\ Placed(r)'
      BY <1>1, <1>2, <2>1, <2>3, SameOp DEF RequestOK, HandlerOK, Placed, OwnStages, CatalogStages
    <3>2. n + 1 <= Size(r)
      BY <1>1, <1>3, SubmitsFacts
    <3>3. TransactionOK(r)' /\ ReplyOK(r)'
      BY <1>1, <1>3, <2>1, <2>2, <3>2, SameOp DEF TransactionOK, ReplyOK
    <3>4. WholeOrNothing(r)'
      BY <1>1, <1>2, <2>1, SameOp DEF RequestOK, WholeOrNothing, RowsOf
    <3> QED BY <3>1, <3>3, <3>4 DEF RequestOK
  <2> QED BY <2>4, <2>5, <2>6, <2>7, <2>8, StepKeeps
<1> QED BY <1>4, <1>5

LEMMA CommitKeeps ==
  ASSUME SubmissionInv, NEW r \in Requests, commitBatch(r)
  PROVE  SubmissionInv'
<1> DEFINE batch == [by |-> r, totalJobs |-> Size(r), pendingJobs |-> Size(r)]
<1>1. /\ at[r] = "createBatch" /\ inserted[r] = Size(r)
      /\ jobs' = jobs \cup inTransaction(r) /\ batches' = batches \cup {batch}
      /\ inserted' = [inserted EXCEPT ![r] = 0] /\ proceed(r, "publish")
      /\ op' = op /\ UNCHANGED << rows, reply, failures >>
  BY DEF commitBatch
<1>2. RequestOK(r)
  BY DEF SubmissionInv
<1>3. Submits(r) /\ op[r].kind = "createBatch" /\ reply[r] = None /\ Size(r) \in Nat
  BY <1>1, <1>2, SubmitsFacts DEF RequestOK, HandlerOK, OwnStages, ReplyOK
<1>4. inTransaction(r) = AllRows(r)
  BY <1>1 DEF inTransaction, AllRows
<1>5. OwnStep(r, "publish") /\ "publish" \in OwnStages
  BY <1>1, OwnProceed DEF OwnStages
<1>6. /\ CatalogInv' /\ QueuesStay /\ Placed(r)' /\ queue' = queue
      /\ at'[r] = "publish" /\ \A o \in Requests \ {r} : at'[o] = at[o]
  BY <1>5, OwnStepFacts
<1>7. inserted'[r] = 0 /\ \A o \in Requests \ {r} : inserted'[o] = inserted[o]
  BY <1>1 DEF SubmissionInv, TablesOK
<1>8. /\ \A row \in jobs' : JobOK(row)'
      /\ jobs \subseteq jobs' /\ \A row \in jobs' \ jobs : row.by = r
  BY <1>1, <1>3, <1>4, MoreJobs
<1>9. batch.by = r /\ batch.totalJobs = Size(r)
      /\ batch \in [by : Requests, totalJobs : Nat, pendingJobs : Nat]
  BY <1>3
<1> HIDE DEF batch
<1>10. OthersKept(r)
  BY <1>1, <1>6, <1>7, <1>8, <1>9 DEF OthersKept
<1>11. TablesOK'
  BY <1>1, <1>3, <1>8, <1>9, NotAnOperation DEF SubmissionInv, TablesOK, Submits
<1>12. UniqueKeys'
  <2>1. inTransaction(r)' = {}
    BY <1>7 DEF inTransaction
  <2>2. \A s \in Requests \ {r} : inTransaction(s)' = inTransaction(s)
    BY <1>1, <1>7, TransactionSame
  <2>3. \A row : Present(row)' => Present(row)
    BY <1>1, <2>1, <2>2 DEF Present
  <2> QED BY <2>3, UniqueShrinks DEF SubmissionInv
<1>13. RequestOK(r)'
  <2>1. HandlerOK(r)'
    <3>1. op' = op
      BY <1>1
    <3> QED BY <1>2, <1>3, <1>5, <1>6, <3>1, SameOp, NotAnOperation
            DEF RequestOK, HandlerOK, Submits
  <2>2. TransactionOK(r)' /\ ReplyOK(r)'
    BY <1>1, <1>3, <1>7 DEF TransactionOK, ReplyOK
  <2>3. RowsOf(r) = {} /\ \A b \in batches : b.by # r
    BY <1>1, <1>2, <1>3 DEF RequestOK, WholeOrNothing
  <2>4. \A row \in AllRows(r) : row.by = r
    BY <1>3, RowFacts DEF AllRows
  <2>5. RowsOf(r)' = AllRows(r)
    BY <1>1, <1>4, <2>3, <2>4 DEF RowsOf
  <2>6. WholeOrNothing(r)'
    BY <1>1, <1>6, <1>9, <2>3, <2>5, SameOp DEF WholeOrNothing
  <2> QED BY <1>6, <2>1, <2>2, <2>6 DEF RequestOK
<1> QED BY <1>6, <1>10, <1>11, <1>12, <1>13, StepKeeps

LEMMA TimeoutKeeps ==
  ASSUME SubmissionInv, NEW r \in Requests, timeoutBatch(r)
  PROVE  SubmissionInv'
<1>1. /\ at[r] = "createBatch" /\ abort(r) /\ op' = op
      /\ UNCHANGED << rows, batches, reply, failures >>
  BY DEF timeoutBatch
<1> QED BY <1>1, AbortKeeps DEF SubmissionInv, TablesOK

LEMMA FailKeeps ==
  ASSUME SubmissionInv, NEW r \in Requests, fail(r)
  PROVE  SubmissionInv'
<1>1. /\ at[r] \notin {"idle", "done"} /\ abort(r) /\ op' = op
      /\ UNCHANGED << rows, batches, reply >>
      /\ failures < MaxFailures /\ failures' = failures + 1
  BY DEF fail
<1>2. failures' \in 0 .. MaxFailures
  BY <1>1, SubmissionAssumption DEF SubmissionInv, TablesOK
<1> QED BY <1>1, <1>2, AbortKeeps

-----------------------------------------------------------------------------
LEMMA ReceiveKeeps ==
  ASSUME SubmissionInv, NEW r \in Requests, NEW o \in Operations, receive(r, o),
         UNCHANGED << jobs, batches, inserted, reply, failures >>
  PROVE  SubmissionInv'
<1>1. op[r] = None
  BY DEF receive
<1>2. RequestOK(r) /\ CatalogInv
  BY DEF SubmissionInv
<1>3. at[r] = "idle" /\ inserted[r] = 0 /\ reply[r] = None
  BY <1>1, <1>2, NoTransaction DEF RequestOK, HandlerOK, ReplyOK
<1>4. /\ op' = [op EXCEPT ![r] = o] /\ op'[r] = o
      /\ at' = [at EXCEPT ![r] = First(o.kind)] /\ at'[r] = First(o.kind)
      /\ UNCHANGED << status, rows >>
      /\ o.kind \in {"createJob", "createBatch"} =>
           First(o.kind) = "findQueue" /\ queue[o.on] # None
      /\ o.kind \notin {"createJob", "createBatch"} =>
           First(o.kind) \in CatalogStages /\ StageOf(o.kind, First(o.kind))
      /\ o.kind = "patchQueue" => queue[o.on] # None
  BY <1>2, ReceivePlaces
<1>5. \A s \in Requests \ {r} : op'[s] = op[s] /\ at'[s] = at[s]
  BY <1>2, <1>4 DEF CatalogInv, OpsOK
<1>6. RowsOK' /\ ReferencesHold' /\ QueuesStay /\ queue' = queue
  BY <1>2, <1>4, RowsStay DEF rows
<1>7. CatalogInv'
  <2>1. OpsOK'
    BY <1>2, <1>4 DEF CatalogInv, OpsOK
  <2> QED BY <1>6, <2>1 DEF CatalogInv
<1>8. OthersKept(r)
  BY <1>5, <1>6 DEF OthersKept
<1>9. TablesOK'
  <2>1. \A s \in Requests : op[s] # None => op'[s] = op[s]
    BY <1>1, <1>5
  <2> QED BY <2>1, JobsStayOK DEF SubmissionInv, TablesOK
<1>10. UniqueKeys'
  <2>1. inTransaction(r)' = {}
    BY <1>3 DEF inTransaction
  <2>2. \A s \in Requests \ {r} : inTransaction(s)' = inTransaction(s)
    BY <1>5, TransactionSame
  <2>3. \A row : Present(row)' => Present(row)
    BY <2>1, <2>2 DEF Present
  <2> QED BY <2>3, UniqueShrinks DEF SubmissionInv
<1>11. RequestOK(r)'
  <2>1. /\ OwnStages \cap (CatalogStages \cup {"idle", "done"}) = {} /\ "findQueue" \in OwnStages
        /\ {"createJob", "findExisting", "createBatch", "publish"} \subseteq OwnStages
    BY DEF OwnStages, CatalogStages
  <2>2. Submits(r)' <=> o.kind \in {"createJob", "createBatch"}
    BY <1>4 DEF Submits
  <2>3. o # None
    BY NotAnOperation
  <2>4. Placed(r)'
    BY <1>4, <1>6, <2>1 DEF Placed
  <2>5. HandlerOK(r)'
    <3>1. CASE o.kind \in {"createJob", "createBatch"}
      BY <1>4, <1>6, <2>1, <2>2, <2>3, <3>1 DEF HandlerOK, OwnStages
    <3>2. CASE o.kind \notin {"createJob", "createBatch"}
      BY <1>4, <1>6, <2>1, <2>2, <2>3, <3>2 DEF HandlerOK
    <3> QED BY <3>1, <3>2
  <2>6. TransactionOK(r)' /\ ReplyOK(r)'
    BY <1>3 DEF TransactionOK, ReplyOK
  <2>7. WholeOrNothing(r)'
    <3>1. \A row \in jobs : row.by # r
      BY <1>1, NotAnOperation DEF SubmissionInv, TablesOK, JobOK, Submits
    <3>2. \A b \in batches : b.by # r
      BY <1>1 DEF SubmissionInv, TablesOK
    <3> QED BY <3>1, <3>2 DEF WholeOrNothing, RowsOf
  <2> QED BY <2>4, <2>5, <2>6, <2>7 DEF RequestOK
<1> QED BY <1>7, <1>8, <1>9, <1>10, <1>11, StepKeeps

-----------------------------------------------------------------------------
LEMMA InitInv == Init => SubmissionInv
<1> SUFFICES ASSUME Init PROVE SubmissionInv
  OBVIOUS
<1>1. OpsOK
  BY DEF Init, CatalogInit, OpsOK, Codes
<1>2. SeedName \in Names /\ Seed \in Ids /\ \A n \in Names : n # None
  BY CatalogAssumption DEF SeedName, Ids
<1> DEFINE row == [project |-> Seed, name |-> SeedName, policy |-> Seed]
<1>3. row \in QueueRow
  BY <1>2 DEF QueueRow
<1>4. /\ project = [p \in Ids |-> IF p = Seed THEN SeedName ELSE "unborn"]
      /\ policy = [p \in Ids |-> IF p = Seed THEN "live" ELSE "unborn"]
      /\ \A q \in Ids : queue[q] \in {row, None}
      /\ queue = [q \in Ids |-> queue[q]]
      /\ jobType = [t \in Ids |-> None] /\ custom = {}
  BY DEF Init, CatalogInit
<1>5. RowsOK
  BY <1>2, <1>3, <1>4 DEF RowsOK
<1>6. ReferencesHold
  <2>1. \A q \in Queues : queue[q] = row
    BY <1>4 DEF Queues
  <2>2. referred(row)
    BY <1>2, <1>4 DEF referred, Live
  <2> QED BY <1>4, <2>1, <2>2 DEF ReferencesHold, JobTypes
<1>7. /\ jobs = {} /\ batches = {} /\ failures = 0
      /\ inserted = [r \in Requests |-> 0] /\ reply = [r \in Requests |-> None]
  BY DEF Init
<1>8. TablesOK
  BY <1>7, SubmissionAssumption DEF TablesOK
<1>9. \A s \in Requests : inTransaction(s) = {}
  BY <1>7 DEF inTransaction
<1>10. UniqueKeys
  BY <1>7, <1>9 DEF UniqueKeys, Present
<1>11. ASSUME NEW r \in Requests PROVE RequestOK(r)
  <2>1. op[r] = None /\ at[r] = "idle"
    BY DEF Init, CatalogInit
  <2>2. ~Submits(r)
    BY <2>1, NotAnOperation DEF Submits
  <2>3. Placed(r) /\ HandlerOK(r)
    BY <2>1, <2>2 DEF Placed, HandlerOK, OwnStages, CatalogStages
  <2>4. TransactionOK(r) /\ ReplyOK(r) /\ WholeOrNothing(r)
    BY <1>7, <2>2 DEF TransactionOK, ReplyOK, WholeOrNothing
  <2> QED BY <2>3, <2>4 DEF RequestOK
<1> QED BY <1>1, <1>5, <1>6, <1>8, <1>10, <1>11 DEF SubmissionInv, CatalogInv

LEMMA StutterKeeps == SubmissionInv /\ UNCHANGED vars => SubmissionInv'
<1> SUFFICES ASSUME SubmissionInv, UNCHANGED vars PROVE SubmissionInv'
  OBVIOUS
<1>1. /\ UNCHANGED << op, at, status, rows, jobs, batches, inserted, reply, failures >>
  BY DEF vars
<1>2. CatalogInv'
  BY <1>1, RowsStay DEF SubmissionInv, CatalogInv, OpsOK
<1>3. TablesOK' /\ UniqueKeys'
  BY <1>1, JobsStayOK, UnchangedUnique DEF SubmissionInv, TablesOK
<1>4. ASSUME NEW r \in Requests PROVE RequestOK(r)'
  <2>1. RequestOK(r) /\ queue' = queue
    BY <1>1 DEF SubmissionInv, rows
  <2>2. Placed(r)' /\ HandlerOK(r)'
    BY <1>1, <2>1, SameOp DEF RequestOK, Placed, HandlerOK
  <2>3. TransactionOK(r)' /\ ReplyOK(r)'
    BY <1>1, <2>1, SameOp DEF RequestOK, TransactionOK, ReplyOK, Keyed, Key
  <2>4. WholeOrNothing(r)'
    BY <1>1, <2>1, SameOp DEF RequestOK, WholeOrNothing, RowsOf
  <2> QED BY <2>2, <2>3, <2>4 DEF RequestOK
<1> QED BY <1>2, <1>3, <1>4 DEF SubmissionInv

LEMMA NextKeeps == SubmissionInv /\ [Next]_vars => SubmissionInv'
<1> SUFFICES ASSUME SubmissionInv, Next PROVE SubmissionInv'
  BY StutterKeeps
<1>1. PICK r \in Requests :
        \/ \E o \in Operations :
             receive(r, o) /\ UNCHANGED << jobs, batches, inserted, reply, failures >>
        \/ step(r) \/ fail(r)
  BY DEF Next
<1>2. CASE step(r)
  BY <1>2, CatalogKeeps, FindQueueKeeps, CreateJobKeeps, FindExistingKeeps, InsertItemKeeps,
     CommitKeeps, TimeoutKeeps, PublishKeeps DEF step
<1> QED BY <1>1, <1>2, ReceiveKeeps, FailKeeps

LEMMA SubmissionInvHolds == Spec => []SubmissionInv
BY InitInv, NextKeeps, PTL DEF Spec

-----------------------------------------------------------------------------
LEMMA TypeFromInv == SubmissionInv => TypeOK
<1> SUFFICES ASSUME SubmissionInv PROVE TypeOK
  OBVIOUS
<1>1. /\ op \in [Requests -> Operations \cup {None}]
      /\ status \in [Requests -> {0, 200, 201, 204, 400, 404, 409, 500}]
  BY DEF SubmissionInv, CatalogInv, OpsOK, Codes
<1>2. at \in [Requests -> Stage]
  <2>1. \A r \in Requests : at[r] \in {"idle", "done"} \cup OwnStages \cup CatalogStages
    BY DEF SubmissionInv, RequestOK, HandlerOK
  <2>2. {"idle", "done"} \cup OwnStages \cup CatalogStages \subseteq Stage
    BY DEF OwnStages, CatalogStages, Stage
  <2>3. at = [r \in Requests |-> at[r]]
    BY DEF SubmissionInv, CatalogInv, OpsOK
  <2> QED BY <2>1, <2>2, <2>3
<1>3. /\ project \in [Ids -> Names \cup {"unborn", "gone"}]
      /\ policy \in [Ids -> {"unborn", "live", "gone"}]
      /\ queue \in [Ids -> QueueRow \cup {None}]
      /\ jobType \in [Ids -> JobTypeRow \cup {None}] /\ custom \subseteq Names
  BY DEF SubmissionInv, CatalogInv, RowsOK
<1>4. ASSUME NEW row \in jobs
      PROVE  row.by \in Requests /\ row.queue \in Queues
             /\ row.item \in 1 .. Size(row.by) /\ row = Row(row.by, row.item)
  <2>1. JobOK(row)
    BY DEF SubmissionInv, TablesOK
  <2>2. row.queue = op[row.by].on
    BY <2>1 DEF JobOK, Row
  <2>3. op[row.by].on \in Queues
    BY <2>1, SubmitsFacts DEF JobOK, SubmissionInv, RequestOK, HandlerOK, Queues
  <2> QED BY <2>1, <2>2, <2>3 DEF JobOK
<1>5. \A r \in Requests : inserted[r] > 0 => at[r] = "createBatch" /\ inserted[r] <= Size(r)
  BY DEF SubmissionInv, RequestOK, TransactionOK
<1>6. \A r \in Requests : reply[r] # None => reply[r] \in jobs
  BY DEF SubmissionInv, RequestOK, ReplyOK
<1>7. /\ batches \subseteq [by : Requests, totalJobs : Nat, pendingJobs : Nat]
      /\ failures \in 0 .. MaxFailures
  BY DEF SubmissionInv, TablesOK
<1> QED BY <1>1, <1>2, <1>3, <1>4, <1>5, <1>6, <1>7 DEF TypeOK

(* The types of the tables and of where the handlers are. *)
THEOREM TypeCorrect == Spec => []TypeOK
BY SubmissionInvHolds, TypeFromInv, PTL

(* routes/projects.ts, routes/queues.ts: between the count of what refers to a row
   and its deletion other requests may refer to it; none is left dangling. *)
THEOREM NothingDangles == Spec => []ReferencesHold
<1>1. SubmissionInv => ReferencesHold
  BY DEF SubmissionInv, CatalogInv
<1> QED BY <1>1, SubmissionInvHolds, PTL

(* A batch has as many rows as its request has items. *)
LEMMA RowsCounted ==
  ASSUME NEW r \in Requests, Submits(r)
  PROVE  Cardinality(AllRows(r)) = Size(r)
<1> DEFINE f == [i \in 1 .. Size(r) |-> Row(r, i)]
<1>1. Size(r) \in Nat
  BY SubmitsFacts
<1>2. \A i, j \in 1 .. Size(r) : f[i] = f[j] => i = j
  BY RowFacts
<1>3. f \in Bijection(1 .. Size(r), AllRows(r))
  BY <1>2 DEF Bijection, Injection, Surjection, IsInjective, AllRows
<1>4. ExistsBijection(1 .. Size(r), AllRows(r))
  BY <1>3 DEF ExistsBijection
<1> QED BY <1>1, <1>4, FS_CountingElements

LEMMA WholeFromInv == SubmissionInv => BatchIsWhole
<1> SUFFICES ASSUME SubmissionInv, NEW r \in Requests, op[r] # None, op[r].kind = "createBatch"
             PROVE  IF \E b \in batches : b.by = r
                      THEN RowsOf(r) = AllRows(r)
                           /\ \A b \in batches : b.by = r => b.totalJobs = Cardinality(RowsOf(r))
                      ELSE RowsOf(r) = {}
  BY DEF BatchIsWhole, RowsOf, AllRows
<1>1. Submits(r)
  BY DEF SubmissionInv, CatalogInv, OpsOK, Submits
<1>2. WholeOrNothing(r)
  BY DEF SubmissionInv, RequestOK
<1> QED BY <1>1, <1>2, RowsCounted DEF WholeOrNothing

(* core/jobBatchCreator.ts: all the jobs of a batch are created with it, or none,
   whatever its inserts meet. *)
THEOREM BatchesAreWhole == Spec => []BatchIsWhole
BY SubmissionInvHolds, WholeFromInv, PTL

-----------------------------------------------------------------------------
(* The refinement.  Whatever adds jobs takes free keys; an answer with the job of
   a key tells of it; nothing else changes what was told. *)
LEMMA TakenTyped ==
  ASSUME SubmissionInv
  PROVE  taken \subseteq (Ids \X Keys) \X JobRow
<1> SUFFICES ASSUME NEW job \in jobs, Keyed(job)
             PROVE  << Key(job), job >> \in (Ids \X Keys) \X JobRow
  BY DEF taken
<1>1. job \in JobRow
  BY JobRows DEF SubmissionInv, TablesOK
<1> QED BY <1>1 DEF JobRow, Key, Keyed

LEMMA TakenUnique ==
  ASSUME SubmissionInv
  PROVE  Store!OneEach(taken)
<1> SUFFICES ASSUME NEW p \in taken, NEW q \in taken PROVE p[1] = q[1] <=> p[2] = q[2]
  BY DEF Store!OneEach
<1>1. PICK a \in jobs : Keyed(a) /\ p = << Key(a), a >>
  BY DEF taken
<1>2. PICK b \in jobs : Keyed(b) /\ q = << Key(b), b >>
  BY DEF taken
<1>3. Present(a) /\ Present(b) /\ UniqueKeys
  BY DEF Present, SubmissionInv
<1>4. Key(a) = Key(b) => a = b
  BY <1>1, <1>2, <1>3 DEF UniqueKeys
<1> QED BY <1>1, <1>2, <1>4

LEMMA TakeStep ==
  ASSUME SubmissionInv', jobs \subseteq jobs', told' = told
  PROVE  Store!Take
<1>1. taken' \subseteq (Ids \X Keys) \X JobRow /\ Store!OneEach(taken')
  <2>1. (taken \subseteq (Ids \X Keys) \X JobRow)'
    BY TakenTyped, PTL
  <2>2. Store!OneEach(taken)'
    BY TakenUnique, PTL
  <2> QED BY <2>1, <2>2 DEF Store!OneEach
<1>2. taken \subseteq taken'
  BY DEF taken, Keyed, Key
<1> QED BY <1>1, <1>2 DEF Store!Take

(* Who was answered asked for the same before. *)
LEMMA ToldSame ==
  ASSUME SubmissionInv, reply' = reply, \A s \in Requests : op[s] # None => op'[s] = op[s]
  PROVE  told' = told
<1>1. \A s \in Requests : reply[s] # None => Row(s, 1)' = Row(s, 1)
  BY NotAnOperation DEF SubmissionInv, RequestOK, ReplyOK, Submits, Row
<1>2. Answered' = Answered
  BY <1>1 DEF Answered, Keyed
<1>3. \A s \in Answered : << Key(Row(s, 1)), reply[s] >>' = << Key(Row(s, 1)), reply[s] >>
  BY <1>1 DEF Answered, Key
<1> QED BY <1>2, <1>3 DEF told

(* One more answer. *)
LEMMA TellStep ==
  ASSUME SubmissionInv, SubmissionInv', NEW r \in Requests, op' = op, UNCHANGED jobs,
         reply[r] = None, NEW job, reply' = [reply EXCEPT ![r] = job]
  PROVE  Store!Take \/ Store!Tell
<1>1. reply'[r] = job /\ \A s \in Requests \ {r} : reply'[s] = reply[s]
  BY DEF SubmissionInv, TablesOK
<1>2. \A s, i : Row(s, i)' = Row(s, i)
  BY SameOp
<1>3. CASE job # None /\ Keyed(Row(r, 1))
  <2> DEFINE p == << Key(Row(r, 1)), job >>
  <2>1. job \in jobs /\ Keyed(job) /\ Key(job) = Key(Row(r, 1))
    <3>1. ReplyOK(r)'
      BY DEF SubmissionInv, RequestOK
    <3> QED BY <1>1, <1>2, <1>3, <3>1 DEF ReplyOK, Keyed, Key
  <2>2. p \in taken
    BY <2>1 DEF taken
  <2>3. Answered' = Answered \cup {r}
    BY <1>1, <1>2, <1>3 DEF Answered, Keyed
  <2>4. \A s \in Answered : << Key(Row(s, 1)), reply[s] >>' = << Key(Row(s, 1)), reply[s] >>
    BY <1>1, <1>2 DEF Answered, Key
  <2>5. << Key(Row(r, 1)), reply[r] >>' = p
    BY <1>1, <1>2 DEF Key
  <2>6. told' = told \cup {p}
    BY <2>3, <2>4, <2>5 DEF told
  <2>7. taken' = taken
    BY DEF taken, Keyed, Key
  <2> QED BY <2>2, <2>6, <2>7 DEF Store!Tell
<1>4. CASE ~(job # None /\ Keyed(Row(r, 1)))
  <2>1. Answered' = Answered /\ r \notin Answered
    BY <1>1, <1>2, <1>4 DEF Answered, Keyed
  <2>2. \A s \in Answered : << Key(Row(s, 1)), reply[s] >>' = << Key(Row(s, 1)), reply[s] >>
    BY <1>1, <1>2, <2>1 DEF Answered, Key
  <2>3. told' = told
    BY <2>1, <2>2 DEF told
  <2> QED BY <2>3, TakeStep
<1> QED BY <1>3, <1>4

LEMMA StepRefines ==
  ASSUME SubmissionInv, SubmissionInv', Next
  PROVE  Store!Take \/ Store!Tell
<1>1. PICK r \in Requests :
        \/ \E o \in Operations :
             receive(r, o) /\ UNCHANGED << jobs, batches, inserted, reply, failures >>
        \/ step(r) \/ fail(r)
  BY DEF Next
<1>2. CASE \E o \in Operations :
             receive(r, o) /\ UNCHANGED << jobs, batches, inserted, reply, failures >>
  <2>1. \A s \in Requests : op[s] # None => op'[s] = op[s]
    BY <1>2 DEF receive, SubmissionInv, CatalogInv, OpsOK
  <2> QED BY <1>2, <2>1, ToldSame, TakeStep
<1>3. CASE (CatalogStep(r) \/ findQueue(r))
           /\ UNCHANGED << jobs, batches, inserted, reply, failures >>
  <2>1. op' = op
    <3>1. CASE CatalogStep(r)
      BY <3>1, CatalogEffect DEF Effect, Moves, SubmissionInv, RequestOK
    <3>2. CASE findQueue(r)
      BY <3>2 DEF findQueue, reads
    <3> QED BY <1>3, <3>1, <3>2
  <2> QED BY <1>3, <2>1, ToldSame, TakeStep
<1>4. CASE createJob(r) \/ insertItem(r) \/ commitBatch(r) \/ timeoutBatch(r) \/ fail(r)
  <2>1. op' = op /\ reply' = reply /\ jobs \subseteq jobs'
    BY <1>4 DEF createJob, insertItem, commitBatch, timeoutBatch, fail, abort
  <2> QED BY <2>1, ToldSame, TakeStep
<1>5. CASE findExisting(r)
  <2>1. op' = op /\ UNCHANGED jobs /\ reply[r] = None
    BY <1>5 DEF findExisting, SubmissionInv, RequestOK, ReplyOK
  <2>2. CASE reply' = reply
    BY <2>1, <2>2, ToldSame, TakeStep
  <2>3. CASE \E row \in jobs : reply' = [reply EXCEPT ![r] = row]
    BY <2>1, <2>3, TellStep
  <2> QED BY <1>5, <2>2, <2>3 DEF findExisting
<1>6. CASE publish(r)
  <2>1. op' = op /\ UNCHANGED jobs /\ reply[r] = None
    BY <1>6 DEF publish, SubmissionInv, RequestOK, ReplyOK
  <2>2. \E job : reply' = [reply EXCEPT ![r] = job]
    BY <1>6 DEF publish
  <2> QED BY <2>1, <2>2, TellStep
<1> QED BY <1>1, <1>2, <1>3, <1>4, <1>5, <1>6 DEF step

(* routes/queues.ts:405-447, core/jobBatchCreator.ts:52-83: submissions under one
   idempotency key, racing, in batches, failing and repeated, behave as the
   abstract store does. *)
THEOREM SubmissionRefinesStore == Spec => ImplementsStore
<1>1. Init => Store!Init
  BY DEF Init, Store!Init, taken, told, Answered
<1>2. SubmissionInv /\ SubmissionInv' /\ [Next]_vars => [Store!Next]_<< taken, told >>
  <2> SUFFICES ASSUME SubmissionInv, SubmissionInv', [Next]_vars
               PROVE  [Store!Next]_<< taken, told >>
    OBVIOUS
  <2>1. CASE Next
    BY <2>1, StepRefines DEF Store!Next
  <2>2. CASE UNCHANGED vars
    <3>1. UNCHANGED << op, jobs, reply >>
      BY <2>2 DEF vars
    <3>2. told' = told
      BY <3>1, ToldSame
    <3>3. taken' = taken
      BY <3>1 DEF taken, Keyed, Key
    <3> QED BY <3>2, <3>3
  <2> QED BY <2>1, <2>2
<1> QED BY <1>1, <1>2, SubmissionInvHolds, PTL DEF Spec, ImplementsStore, Store!Spec

(* The store keeps its promise: a key that is taken stays with its job, so two
   answers under one key name one job. *)
StoreInv == Store!OneEach(taken) /\ told \subseteq taken

LEMMA StoreKeepsPromise == Store!Spec => []Store!OneJobPerKey
<1>1. Store!Init => StoreInv
  BY DEF Store!Init, StoreInv, Store!OneEach
<1>2. StoreInv /\ [Store!Next]_<< taken, told >> => StoreInv'
  <2> SUFFICES ASSUME StoreInv, [Store!Next]_<< taken, told >> PROVE StoreInv'
    OBVIOUS
  <2>1. CASE Store!Take
    BY <2>1 DEF Store!Take, StoreInv, Store!OneEach
  <2>2. CASE Store!Tell
    BY <2>2 DEF Store!Tell, StoreInv, Store!OneEach
  <2>3. CASE UNCHANGED << taken, told >>
    BY <2>3 DEF StoreInv, Store!OneEach
  <2> QED BY <2>1, <2>2, <2>3 DEF Store!Next
<1>3. StoreInv => Store!OneJobPerKey
  BY DEF StoreInv, Store!OneJobPerKey, Store!OneEach
<1> QED BY <1>1, <1>2, <1>3, PTL DEF Store!Spec

(* docs/06, "Duplicate submission": all who are answered under one key are told
   of one job, however their requests race and fail. *)
THEOREM KeysNameOneJob == Spec => []Store!OneJobPerKey
  BY SubmissionRefinesStore, StoreKeepsPromise, PTL DEF ImplementsStore
=============================================================================
