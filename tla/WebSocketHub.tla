---------------------------- MODULE WebSocketHub ----------------------------
(* The publishing side of the live events: the process-local event bus
   (events/eventBus.ts) and the WebSocket hub (events/websocketHub.ts).

   A job's row is reduced to a version that every committed transition
   advances; an event carries the version its transition wrote.  A job stands
   for its queue and its project too: every job here is the only one of its
   project.  There is one organisation, so the hub refuses no subscription. *)
EXTENDS Naturals, Sequences

CONSTANTS
  Jobs,        \* jobs, each in a queue and a project of its own
  Actors,      \* code paths that commit a transition and then publish it
  Conns,       \* WebSocket connections, used again once they are closed
  MaxVersion,  \* bound on the transitions of all the jobs together
  None

ASSUME HubAssumption == MaxVersion \in Nat /\ None \notin Jobs

VARIABLES
  commits,  \* transitions committed so far
  row,      \* the version of each job in the database
  pub,      \* per actor: the transition it committed and has not published
  clients,  \* the connections in the hub's set of clients
  subs,     \* per connection: the topics of client.queues and client.jobs
  asked,    \* per connection: subscribe messages sent and not applied yet
  down      \* per connection: the events sent and not yet received

hubVars == << commits, row, pub, clients, subs, asked, down >>

Version == 0..MaxVersion
QueueOf(j) == << "queue", j >>
JobTopic(j) == << "job", j >>
Topic == {"queue", "job"} \X Jobs

\* `refetch` tells job.queued and job.scheduled, which the overview answers
\* with a reload, from the events whose status it copies into its list.
Event == [job : Jobs, ver : Version, refetch : BOOLEAN]

HubTypeOK ==
  /\ commits \in Version
  /\ row \in [Jobs -> Version]
  /\ pub \in [Actors -> Event \cup {None}]
  /\ clients \subseteq Conns
  /\ subs \in [Conns -> SUBSET Topic]
  /\ asked \in [Conns -> SUBSET Topic]
  /\ down \in [Conns -> Seq(Event)]

HubInit ==
  /\ commits = 0
  /\ row = [j \in Jobs |-> 0]
  /\ pub = [a \in Actors |-> None]
  /\ clients = {}
  /\ subs = [c \in Conns |-> {}]
  /\ asked = [c \in Conns |-> {}]
  /\ down = [c \in Conns |-> << >>]

-----------------------------------------------------------------------------
(* An actor commits a transition.  It awaits the publication of its former one
   before, so only the events of two actors can change places. *)
commit(a, j, refetch) ==
  /\ pub[a] = None
  /\ commits < MaxVersion
  /\ commits' = commits + 1
  /\ row' = [row EXCEPT ![j] = row[j] + 1]
  /\ pub' = [pub EXCEPT ![a] = [job |-> j, ver |-> row[j] + 1, refetch |-> refetch]]
  /\ UNCHANGED << clients, subs, asked, down >>

\* broadcast's condition on a client, the event being a job's.
authorized(c, j) == {QueueOf(j), JobTopic(j)} \cap subs[c] # {}

(* publishJobEvent reads the job again; the hub's listener then writes the
   event to every subscribed client before publish returns. *)
publish(a) ==
  /\ pub[a] # None
  /\ pub' = [pub EXCEPT ![a] = None]
  /\ down' = [c \in Conns |-> IF c \in clients /\ authorized(c, pub[a].job)
                                THEN Append(down[c], pub[a]) ELSE down[c]]
  /\ UNCHANGED << commits, row, clients, subs, asked >>

(* handleMessage awaits a query before it changes the client's sets, and
   nothing orders two of them: any message sent may be the next one applied. *)
handleMessage(c, t) ==
  /\ c \in clients /\ t \in asked[c]
  /\ asked' = [asked EXCEPT ![c] = asked[c] \ {t}]
  /\ subs' = [subs EXCEPT ![c] = subs[c] \cup {t}]
  /\ UNCHANGED << commits, row, pub, clients, down >>

HubNext ==
  \/ \E a \in Actors, j \in Jobs, refetch \in BOOLEAN : commit(a, j, refetch)
  \/ \E a \in Actors : publish(a)
  \/ \E c \in Conns : \E t \in asked[c] : handleMessage(c, t)
=============================================================================
