------------------------------ MODULE LiveView ------------------------------
(* One browser tab of the dashboard against the hub: the shared socket
   (frontend/lib/socket.ts), the overview (hooks/useScheduler.ts), the job page
   (jobs/[id]/page.tsx), the two creation forms, and the GET requests that
   api() of lib/api.ts shares while they are in flight.

   Leaving a page runs its cleanups and the next page's effects in one React
   commit, so navigate is one step.  A page's three parallel requests are one. *)
EXTENDS WebSocketHub

CONSTANTS
  Routes,      \* the pages the user visits
  MaxDrops,    \* bound on the connections lost or refused
  MaxFailures  \* bound on the requests that fail

VARIABLES
  page,       \* the page shown and the job (project) it is about
  view,       \* the version of the job that the page shows, None before a load
  error,      \* the page shows an error that nothing retries
  socket,     \* the current WebSocket, None when there is none
  link,       \* per connection: the browser's side of it
  status,     \* the socket status the pages are told
  reconnect,  \* reconnectTimer is armed
  wanted,     \* queueIds and jobIds: the topics to restore
  gets,       \* GET requests in flight, by key, and who awaits them
  refresh,    \* refreshTimerRef: a reload of the overview is due
  retry,      \* retryTimerRef: a retry after status 429 is due
  zombies,    \* the same timer set by an overview that is gone, per project
  drops, failures

viewVars == << page, view, error >>
socketVars == << socket, link, status, reconnect, wanted >>
timerVars == << refresh, retry, zombies >>
bounds == << drops, failures >>
tabVars == << viewVars, socketVars, gets, timerVars, bounds >>
vars == << hubVars, tabVars >>

Pages == [kind : {"overview", "detail"}, job : Jobs]
           \cup [kind : {"form", "away"}, job : {None}]
Overview(j) == [kind |-> "overview", job |-> j]
Detail(j) == [kind |-> "detail", job |-> j]
Form == [kind |-> "form", job |-> None]
Away == [kind |-> "away", job |-> None]

ASSUME LiveAssumption ==
  /\ Routes \subseteq Pages /\ MaxDrops \in Nat /\ MaxFailures \in Nat
  /\ None \notin Conns \cup Event \cup Version

\* The pages that call subscribeSocket; the forms only watch the status.
Listens(p) == p.kind \in {"overview", "detail"}

\* The list a project's overview loads, and a job page's job.  "dead" is an
\* overview that was left while it awaited the list.
List(j) == << "list", j >>
Item(j) == << "item", j >>
Waiters(k) == IF k[1] = "list" THEN {"load", "dead"} ELSE {"load", "event"}
Keys == {"list", "item"} \X Jobs
Idle == [phase |-> "idle", ver |-> 0, waiters |-> {}]

TypeOK ==
  /\ HubTypeOK
  /\ page \in Pages
  /\ view \in Version \cup {None}
  /\ error \in BOOLEAN
  /\ socket \in Conns \cup {None}
  /\ link \in [Conns -> {"free", "connecting", "open", "closing"}]
  /\ status \in {"DISCONNECTED", "RECONNECTING", "CONNECTED"}
  /\ reconnect \in BOOLEAN
  /\ wanted \subseteq Topic
  /\ gets \in [Keys -> [phase : {"idle", "sent", "read"}, ver : Version,
                        waiters : SUBSET {"load", "event", "dead"}]]
  /\ \A k \in Keys : gets[k].waiters \subseteq Waiters(k)
  /\ refresh \in BOOLEAN /\ retry \in BOOLEAN
  /\ zombies \subseteq Jobs
  /\ drops \in 0..MaxDrops /\ failures \in 0..MaxFailures

Init ==
  /\ HubInit
  /\ page = Away /\ view = None /\ error = FALSE
  /\ socket = None /\ link = [c \in Conns |-> "free"]
  /\ status = "DISCONNECTED" /\ reconnect = FALSE /\ wanted = {}
  /\ gets = [k \in Keys |-> Idle]
  /\ refresh = FALSE /\ retry = FALSE /\ zombies = {}
  /\ drops = 0 /\ failures = 0

-----------------------------------------------------------------------------
(* api(): a request whose key is in flight joins the one that is. *)
api(g, k, w) ==
  [g EXCEPT ![k] = IF g[k].phase = "idle"
                     THEN [phase |-> "sent", ver |-> 0, waiters |-> {w}]
                     ELSE [g[k] EXCEPT !.waiters = g[k].waiters \cup {w}]]

(* subscribeQueue and subscribeJob send only while the socket is open; the
   topics they remember are sent by onopen. *)
IsOpen == socket # None /\ link[socket] = "open"
sent(topics) == IF IsOpen THEN [asked EXCEPT ![socket] = asked[socket] \cup topics]
                          ELSE asked

Free(l) == {c \in Conns : l[c] = "free"}

(* connectSocket, the links being l: a new current connection. *)
connectSocket(l) ==
  LET c == CHOOSE c \in Free(l) : TRUE IN
  /\ socket' = c
  /\ link' = [l EXCEPT ![c] = "connecting"]
  /\ status' = "RECONNECTING"

(* disconnectSocket: a connection that is not open yet is abandoned, an open
   one takes a while to close.  Meanwhile onmessage ignores what arrives on it
   (socket !== currentSocket), so its traffic ends here, the unsubscribe that
   the job page sends as it is left included. *)
Hung == IF socket = None THEN link
        ELSE [link EXCEPT ![socket] = IF link[socket] = "open" THEN "closing"
                                                               ELSE "free"]
without(c) ==
  /\ clients' = clients \ {c}
  /\ subs' = [d \in Conns |-> IF d = c THEN {} ELSE subs[d]]
  /\ asked' = [d \in Conns |-> IF d = c THEN {} ELSE asked[d]]
  /\ down' = [d \in Conns |-> IF d = c THEN << >> ELSE down[d]]

(* The cleanups of the page that is left.  Its requests stay in flight: the job
   page's effect is no longer active when one is answered, the overview's load
   goes on in a component that is gone. *)
orphaned_asIfActive(w) == w                                        \* mutant
orphaned(w) == IF "load" \in w /\ page.kind = "overview" THEN {"dead"}
               ELSE w \cap {"dead"}
left == [k \in Keys |->
           IF k = IF page.kind = "overview" THEN List(page.job) ELSE Item(page.job)
             THEN [gets[k] EXCEPT !.waiters = orphaned(gets[k].waiters)]
             ELSE gets[k]]

disarmed_never(timer) == timer                                     \* mutant
disarmed(timer) == FALSE

navigate(p) ==
  /\ p # page
  /\ Listens(p) => Free(Hung) # {}
  /\ page' = p /\ view' = None /\ error' = FALSE
  /\ refresh' = FALSE /\ retry' = FALSE
  /\ reconnect' = disarmed(reconnect)
  /\ gets' = CASE p.kind = "overview" -> api(left, List(p.job), "load")
               [] p.kind = "detail" -> api(left, Item(p.job), "load")
               [] OTHER -> left
  /\ wanted' = IF p.kind = "overview" THEN {} ELSE wanted \ {JobTopic(page.job)}
  /\ without(socket)
  /\ IF Listens(p) THEN connectSocket(Hung)
     ELSE link' = Hung /\ socket' = None /\ status' = "DISCONNECTED"
  /\ UNCHANGED << commits, row, pub, zombies, bounds >>

(* The user selects a queue in one of the two forms. *)
selectQueue(j) ==
  /\ page.kind = "form"
  /\ wanted' = wanted \cup {QueueOf(j)}
  /\ asked' = sent({QueueOf(j)})
  /\ UNCHANGED << commits, row, pub, clients, subs, down, viewVars, socket, link,
                  status, reconnect, gets, timerVars, bounds >>

-----------------------------------------------------------------------------
(* The handshake ends: accept adds the client to the hub, and onopen restores
   the subscriptions and tells the status listeners, of which the overview
   schedules a reload. *)
restored_queuesOnly == {t \in wanted : t[1] = "queue"}             \* mutant
restored == wanted

onopen(c) ==
  /\ link[c] = "connecting"
  /\ link' = [link EXCEPT ![c] = "open"]
  /\ clients' = clients \cup {c}
  /\ status' = "CONNECTED"
  /\ asked' = [asked EXCEPT ![c] = restored]
  /\ refresh' = (refresh \/ page.kind = "overview")
  /\ UNCHANGED << commits, row, pub, subs, down, viewVars, socket, reconnect,
                  wanted, gets, retry, zombies, bounds >>

(* The current connection is lost, or refused by the hub (code 1008) before it
   opens.  onclose arms the reconnect timer while there are listeners. *)
lostStatus_kept == status                                          \* mutant
lostStatus == "DISCONNECTED"

onclose(c) ==
  /\ c = socket
  /\ drops < MaxDrops
  /\ drops' = drops + 1
  /\ without(c)
  /\ link' = [link EXCEPT ![c] = "free"]
  /\ socket' = None
  /\ status' = lostStatus
  /\ reconnect' = (reconnect \/ Listens(page))
  /\ UNCHANGED << commits, row, pub, viewVars, wanted, gets, timerVars, failures >>

(* onclose of a connection that disconnectSocket closed: it is not the current
   one any more, so nothing else changes. *)
closed(c) ==
  /\ link[c] = "closing"
  /\ link' = [link EXCEPT ![c] = "free"]
  /\ UNCHANGED << hubVars, viewVars, socket, status, reconnect, wanted, gets,
                  timerVars, bounds >>

(* The reconnect timer fires: connectSocket, unless a connection exists. *)
reconnectTimer ==
  /\ reconnect
  /\ Free(link) # {}
  /\ reconnect' = FALSE
  /\ IF socket = None /\ status # "RECONNECTING" THEN connectSocket(link)
     ELSE UNCHANGED << link, socket, status >>
  /\ UNCHANGED << hubVars, viewVars, wanted, gets, timerVars, bounds >>

(* The overview copies the status of an event of its project into its list and
   subscribes to the list's queues again, or schedules a reload; the job page
   reads its job again. *)
onmessage(c) ==
  /\ c = socket /\ down[c] # << >>
  /\ down' = [down EXCEPT ![c] = Tail(down[c])]
  /\ LET e == Head(down[c])
         mine == e.job = page.job
         patch == mine /\ page.kind = "overview" /\ ~e.refetch /\ view # None IN
     /\ view' = IF patch THEN e.ver ELSE view
     /\ asked' = IF patch THEN sent({QueueOf(e.job)}) ELSE asked
     /\ refresh' = (refresh \/ (mine /\ page.kind = "overview" /\ e.refetch))
     /\ gets' = IF mine /\ page.kind = "detail" THEN api(gets, Item(e.job), "event")
                                                ELSE gets
  /\ UNCHANGED << commits, row, pub, clients, subs, page, error, socketVars, retry,
                  zombies, bounds >>

-----------------------------------------------------------------------------
(* The buttons of the job page.  The request commits its transition and is
   answered; the event of it, published before, may be received before or after
   the answer.  A retry then reads the job, and joins a read that is in flight,
   also one that the server has answered before the retry. *)
retryJob(a) ==
  /\ page.kind = "detail" /\ view # None /\ ~error
  /\ commit(a, page.job, FALSE)
  /\ gets' = api(gets, Item(page.job), "event")
  /\ UNCHANGED << viewVars, socketVars, timerVars, bounds >>

\* The status of the answer is put into the job that is shown.
cancelJob(a) ==
  /\ page.kind = "detail" /\ view # None /\ ~error
  /\ commit(a, page.job, FALSE)
  /\ view' = row'[page.job]
  /\ UNCHANGED << page, error, socketVars, gets, timerVars, bounds >>

\* Either is refused, or fails.
refuseButton ==
  /\ page.kind = "detail" /\ view # None /\ ~error
  /\ failures < MaxFailures
  /\ failures' = failures + 1
  /\ error' = TRUE
  /\ UNCHANGED << hubVars, page, view, socketVars, gets, timerVars, drops >>

-----------------------------------------------------------------------------
(* load of the overview: by the refresh timer or by the retry timer, *)
load ==
  /\ page.kind = "overview"
  /\ \/ refresh /\ refresh' = FALSE /\ retry' = retry
     \/ retry /\ retry' = FALSE /\ refresh' = refresh
  /\ gets' = api(gets, List(page.job), "load")
  /\ UNCHANGED << hubVars, viewVars, socketVars, zombies, bounds >>

(* by the Refresh button, which disarms the retry, *)
reload ==
  /\ page.kind = "overview"
  /\ retry' = FALSE
  /\ gets' = api(gets, List(page.job), "load")
  /\ UNCHANGED << hubVars, viewVars, socketVars, refresh, zombies, bounds >>

(* or by the retry timer of an overview that is gone. *)
loadOfGone(j) ==
  /\ j \in zombies
  /\ zombies' = zombies \ {j}
  /\ gets' = api(gets, List(j), "dead")
  /\ UNCHANGED << hubVars, viewVars, socketVars, refresh, retry, bounds >>

(* The server reads the rows and answers. *)
reads(k, ver) ==
  /\ gets[k].phase = "sent"
  /\ gets' = [gets EXCEPT ![k] = [phase |-> "read", ver |-> ver,
                                  waiters |-> gets[k].waiters]]
  /\ UNCHANGED << hubVars, viewVars, socketVars, timerVars, bounds >>

listJobs(j) == reads(List(j), row[j])  \* GET /jobs, of a project
readJob(j) == reads(Item(j), row[j])   \* GET /jobs/:id
answer(k) == IF k[1] = "list" THEN listJobs(k[2]) ELSE readJob(k[2])

(* The answer reaches every waiter: the page shows it and subscribes; an
   overview that is gone only subscribes to its queues. *)
succeed(k) ==
  /\ gets[k].phase = "read"
  /\ gets' = [gets EXCEPT ![k] = Idle]
  /\ LET w == gets[k].waiters
         shown == w \cap {"load", "event"} # {}
         topics == CASE k[1] = "list" /\ w # {} -> {QueueOf(k[2])}
                     [] k[1] = "item" /\ "load" \in w -> {JobTopic(k[2])}
                     [] OTHER -> {} IN
     /\ view' = IF shown THEN gets[k].ver ELSE view
     /\ error' = (error /\ ~shown)
     /\ wanted' = wanted \cup topics
     /\ asked' = sent(topics)
  /\ UNCHANGED << commits, row, pub, clients, subs, down, page, socket, link, status,
                  reconnect, timerVars, bounds >>

(* The request fails.  Status 429 of a list arms the retry timer of each
   component that awaited it; any other failure is only shown. *)
retried_onceShown(k, limited, w) ==                                \* mutant
  limited /\ k[1] = "list" /\ w \in gets[k].waiters /\ view # None
retried(k, limited, w) == limited /\ k[1] = "list" /\ w \in gets[k].waiters

fail(k, limited) ==
  /\ gets[k].phase # "idle"
  /\ failures < MaxFailures
  /\ failures' = failures + 1
  /\ gets' = [gets EXCEPT ![k] = Idle]
  /\ retry' = (retry \/ retried(k, limited, "load"))
  /\ zombies' = zombies \cup {j \in Jobs : k = List(j) /\ retried(k, limited, "dead")}
  /\ error' = (error \/ (~(limited /\ k[1] = "list")
                         /\ gets[k].waiters \cap {"load", "event"} # {}))
  /\ UNCHANGED << hubVars, page, view, socketVars, refresh, drops >>

-----------------------------------------------------------------------------
Next ==
  \/ HubNext /\ UNCHANGED tabVars
  \/ \E p \in Routes : navigate(p)
  \/ \E j \in Jobs : selectQueue(j) \/ loadOfGone(j)
  \/ \E c \in Conns : onopen(c) \/ onclose(c) \/ closed(c) \/ onmessage(c)
  \/ \E a \in Actors : retryJob(a) \/ cancelJob(a)
  \/ refuseButton \/ reconnectTimer \/ load \/ reload
  \/ \E k \in Keys : answer(k) \/ succeed(k)
  \/ \E k \in Keys, limited \in BOOLEAN : fail(k, limited)

Spec == Init /\ [][Next]_vars

(* Handshakes end, timers fire, the server answers, and connections that are
   being closed close.  The user, the jobs and the failures are free. *)
Fairness ==
  /\ WF_vars(\E c \in Conns : onopen(c) \/ closed(c))
  /\ WF_vars(reconnectTimer)
  /\ WF_vars(load)
  /\ WF_vars(\E k \in Keys : answer(k) \/ succeed(k))

FairSpec == Spec /\ Fairness

-----------------------------------------------------------------------------
(* lib/socket.ts: a page that listens has a socket or an armed reconnect timer,
   never both, and a page that does not has neither: in no order of navigation,
   loss, handshake and timer is a listener deaf for ever, a socket leaked or a
   second one opened. *)
SocketIffListening ==
  /\ Listens(page) <=> (socket # None \/ reconnect)
  /\ ~(socket # None /\ reconnect)

(* Every topic the pages want is subscribed at the hub or its message is on its
   way, also after a reconnection: onopen restores queues and jobs. *)
WantedIsAsked == IsOpen => wanted \subseteq subs[socket] \cup asked[socket]

(* A page shows only a state that its own job was in, in spite of events of
   other projects and of answers to requests of the pages that were left. *)
ViewIsOwn == view # None => Listens(page) /\ view <= row[page.job]

(* A page that shows neither its job nor an error is still being served: the
   request it awaits is in flight, or a timer that repeats it is armed.  No
   order of failures, joined requests, navigation and reloads leaves a spinner
   that nothing will ever end. *)
LoadingIsUnderWay ==
  LET k == IF page.kind = "overview" THEN List(page.job) ELSE Item(page.job) IN
  Listens(page) /\ view = None /\ ~error =>
    \/ gets[k].phase # "idle" /\ gets[k].waiters \cap {"load", "event"} # {}
    \/ retry \/ refresh

(* A page that listens is connected again after every loss. *)
ListenersGetConnected ==
  \A p \in {r \in Routes : Listens(r)} :
    (page = p) ~> (page # p \/ status = "CONNECTED")

(* The overview leaves its loading state: a list refused with status 429 is
   asked for again until it is shown or another error is. *)
OverviewLoads ==
  \A p \in {r \in Routes : r.kind = "overview"} :
    (page = p) ~> (page # p \/ view # None \/ error)
=============================================================================
