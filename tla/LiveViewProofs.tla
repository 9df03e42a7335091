--------------------------- MODULE LiveViewProofs ---------------------------
(* The safety of the dashboard's tab, for any jobs, actors, connections, routes
   and bounds.

   The inductive invariant adds to what the runs check why it holds.  An event
   never runs ahead of the row it is about (EventsInv), and only the page that
   asked is shown an answer (GetInv): so neither an event nor an answer can put
   a state on a page that its job was not in.  The links in use are the current
   connection's (SocketInv): so a handshake that ends is its own. *)
EXTENDS LiveView, TLAPS

Shown == {"load", "event"}
Asker(k) == IF k[1] = "list" THEN Overview(k[2]) ELSE Detail(k[2])

GetsOK(g) ==
  /\ g \in [Keys -> [phase : {"idle", "sent", "read"}, ver : Version,
                     waiters : SUBSET {"load", "event", "dead"}]]
  /\ \A k \in Keys : g[k].waiters \subseteq Waiters(k)

(* Nobody but the asker's page is shown an answer, and no answer runs ahead of
   the row it was read from. *)
OwnWaiters(p, g) == \A k \in Keys : g[k].waiters \cap Shown # {} => p = Asker(k)
NoneAhead(g, r) == \A k \in Keys : g[k].ver <= r[k[2]]
GetInv == OwnWaiters(page, gets) /\ NoneAhead(gets, row)

EventInv(e) == e.ver <= row[e.job]
EventsInv ==
  /\ \A j \in Jobs : row[j] <= commits
  /\ \A a \in Actors : pub[a] # None => EventInv(pub[a])
  /\ \A c \in Conns : \A i \in 1 .. Len(down[c]) : EventInv(down[c][i])

(* The links in use are the current connection's; the others are free or
   closing. *)
InUse == {"connecting", "open"}
SocketInv ==
  /\ \A c \in Conns : link[c] \in InUse <=> c = socket
  /\ socket = None => status = "DISCONNECTED"
  /\ SocketIffListening

LiveInv ==
  TypeOK /\ EventsInv /\ SocketInv /\ WantedIsAsked /\ GetInv /\ ViewIsOwn

-----------------------------------------------------------------------------
LEMMA PageFacts ==
  ASSUME NEW p \in Pages
  PROVE  /\ p.kind \in {"overview", "detail", "form", "away"}
         /\ Listens(p) => p.job \in Jobs
         /\ p.kind = "overview" => p = Overview(p.job)
         /\ p.kind = "detail" => p = Detail(p.job)
  BY DEF Pages, Listens, Overview, Detail

LEMMA KeyFacts ==
  ASSUME NEW j \in Jobs
  PROVE  /\ List(j) \in Keys /\ Item(j) \in Keys
         /\ Asker(List(j)) = Overview(j) /\ Asker(Item(j)) = Detail(j)
         /\ Waiters(List(j)) = {"load", "dead"} /\ Waiters(Item(j)) = Shown
         /\ QueueOf(j) \in Topic /\ JobTopic(j) \in Topic
  BY DEF List, Item, Keys, Asker, Waiters, Shown, QueueOf, JobTopic, Topic

LEMMA AskerFacts ==
  ASSUME NEW k \in Keys
  PROVE  /\ k[2] \in Jobs /\ Asker(k).job = k[2] /\ Listens(Asker(k))
         /\ k = List(k[2]) \/ k = Item(k[2])
  BY DEF Keys, Asker, Overview, Detail, Listens, List, Item

LEMMA VersionFacts == Version \subseteq Nat /\ 0 \in Version
  BY HubAssumption DEF Version

(* api() makes or joins one request and leaves the others alone. *)
LEMMA ApiOK ==
  ASSUME NEW g, GetsOK(g), NEW k \in Keys, NEW w \in Waiters(k)
  PROVE  /\ GetsOK(api(g, k, w))
         /\ \A i \in Keys :
              /\ i # k => api(g, k, w)[i] = g[i]
              /\ api(g, k, w)[i].waiters \subseteq g[i].waiters \cup {w}
              /\ api(g, k, w)[i].ver \in {0, g[i].ver}
<1>1. w \in {"load", "event", "dead"}
  BY DEF Waiters
<1> QED BY <1>1, VersionFacts DEF GetsOK, api

(* A page's own request, or one of an overview that is gone. *)
LEMMA ApiInv ==
  ASSUME NEW p, NEW g, NEW r \in [Jobs -> Version], GetsOK(g),
         OwnWaiters(p, g), NoneAhead(g, r),
         NEW k \in Keys, NEW w \in Waiters(k), w = "dead" \/ p = Asker(k)
  PROVE  OwnWaiters(p, api(g, k, w)) /\ NoneAhead(api(g, k, w), r)
<1> DEFINE h == api(g, k, w)
<1>1. \A i \in Keys : /\ i # k => h[i] = g[i]
                      /\ h[i].waiters \subseteq g[i].waiters \cup {w}
                      /\ h[i].ver \in {0, g[i].ver}
  BY ApiOK
<1> HIDE DEF h
<1>2. OwnWaiters(p, h)
  BY <1>1 DEF OwnWaiters, Shown
<1>3. NoneAhead(h, r)
  BY <1>1, AskerFacts, VersionFacts DEF NoneAhead
<1> QED BY <1>2, <1>3 DEF h

(* Versions only grow, so what was not ahead still is not. *)
LEMMA RowGrows ==
  ASSUME TypeOK, row' \in [Jobs -> Version], \A j \in Jobs : row[j] <= row'[j],
         NEW g, GetsOK(g), NoneAhead(g, row)
  PROVE  NoneAhead(g, row')
<1> SUFFICES ASSUME NEW k \in Keys PROVE g[k].ver <= row'[k[2]]
  BY DEF NoneAhead
<1>1. k[2] \in Jobs
  BY AskerFacts
<1>2. g[k].ver \in Nat /\ row[k[2]] \in Nat /\ row'[k[2]] \in Nat
  BY <1>1, VersionFacts DEF GetsOK, TypeOK, HubTypeOK
<1>3. g[k].ver <= row[k[2]] /\ row[k[2]] <= row'[k[2]]
  BY <1>1 DEF NoneAhead
<1> QED BY <1>2, <1>3

(* The conjuncts of the invariant that a step leaves alone. *)
LEMMA GetsTyped == TypeOK => GetsOK(gets)
  BY DEF TypeOK, GetsOK

LEMMA EventsSame ==
  ASSUME EventsInv, UNCHANGED << commits, row, pub >>,
         \A c \in Conns : down'[c] \in {down[c], << >>}
  PROVE  EventsInv'
  BY DEF EventsInv, EventInv

LEMMA SocketSame ==
  ASSUME SocketInv, UNCHANGED << page, socket, link, status, reconnect >>
  PROVE  SocketInv'
  BY DEF SocketInv, SocketIffListening

LEMMA GetSame ==
  ASSUME GetInv, UNCHANGED << page, gets, row >>
  PROVE  GetInv'
  BY DEF GetInv, OwnWaiters, NoneAhead

LEMMA ViewSame ==
  ASSUME ViewIsOwn, UNCHANGED << page, view, row >>
  PROVE  ViewIsOwn'
  BY DEF ViewIsOwn

LEMMA WantedSame ==
  ASSUME WantedIsAsked, UNCHANGED << wanted, socket, link, subs, asked >>
  PROVE  WantedIsAsked'
  BY DEF WantedIsAsked, IsOpen

(* A transition is committed: the row advances, and its event with it. *)
LEMMA CommitOK ==
  ASSUME LiveInv, NEW a \in Actors, NEW j \in Jobs, NEW refetch \in BOOLEAN,
         commit(a, j, refetch)
  PROVE  /\ HubTypeOK' /\ EventsInv'
         /\ row' \in [Jobs -> Version] /\ \A i \in Jobs : row[i] <= row'[i]
<1> DEFINE e == [job |-> j, ver |-> row[j] + 1, refetch |-> refetch]
<1>1. /\ row \in [Jobs -> Version] /\ commits \in Version
      /\ pub \in [Actors -> Event \cup {None}] /\ down \in [Conns -> Seq(Event)]
  BY DEF LiveInv, TypeOK, HubTypeOK
<1>2. /\ commits < MaxVersion /\ commits' = commits + 1
      /\ row' = [row EXCEPT ![j] = row[j] + 1] /\ pub' = [pub EXCEPT ![a] = e]
      /\ UNCHANGED << clients, subs, asked, down >>
  BY DEF commit
<1>3. /\ \A i \in Jobs : row[i] \in Nat /\ row[i] <= commits
      /\ commits \in Nat /\ MaxVersion \in Nat
  BY <1>1, HubAssumption, VersionFacts DEF LiveInv, EventsInv
<1>4. commits + 1 \in Version /\ row[j] + 1 \in Version
  BY <1>2, <1>3 DEF Version
<1>5. row' \in [Jobs -> Version]
  BY <1>1, <1>2, <1>4
<1>6. \A i \in Jobs : row[i] <= row'[i] /\ row'[i] <= commits' /\ row'[i] \in Nat
  BY <1>1, <1>2, <1>3
<1>7. e \in Event
  BY <1>4 DEF Event
<1>8. HubTypeOK'
  BY <1>1, <1>2, <1>4, <1>5, <1>7 DEF HubTypeOK, LiveInv, TypeOK
<1>9. ASSUME NEW f \in Event, EventInv(f) PROVE f.ver <= row'[f.job]
  <2>1. f.job \in Jobs /\ f.ver \in Nat /\ f.ver <= row[f.job]
    BY <1>9, VersionFacts DEF Event, EventInv
  <2> QED BY <2>1, <1>3, <1>6
<1>10. ASSUME NEW x \in Actors, pub'[x] # None PROVE EventInv(pub[x])'
  <2>1. CASE x = a
    <3>1. pub'[x] = e /\ row'[j] = row[j] + 1
      BY <2>1, <1>1, <1>2
    <3> QED BY <3>1, <1>3 DEF EventInv
  <2>2. CASE x # a
    <3>1. pub'[x] = pub[x] /\ pub[x] \in Event /\ EventInv(pub[x])
      BY <2>2, <1>1, <1>2, <1>10 DEF LiveInv, EventsInv
    <3> QED BY <3>1, <1>9 DEF EventInv
  <2> QED BY <2>1, <2>2
<1>11. ASSUME NEW c \in Conns, NEW i \in 1 .. Len(down'[c])
       PROVE  EventInv(down[c][i])'
  <2>1. down'[c][i] = down[c][i] /\ down[c][i] \in Event /\ EventInv(down[c][i])
    BY <1>1, <1>2, <1>11 DEF LiveInv, EventsInv
  <2> QED BY <2>1, <1>9 DEF EventInv
<1>12. EventsInv'
  BY <1>6, <1>10, <1>11 DEF EventsInv
<1> QED BY <1>5, <1>6, <1>8, <1>12

(* A commit leaves the tab alone, or is a button's and comes with a read. *)
LEMMA CommitGet ==
  ASSUME LiveInv, NEW a \in Actors, NEW j \in Jobs, NEW refetch \in BOOLEAN,
         commit(a, j, refetch), UNCHANGED << page, gets >>
  PROVE  GetInv'
<1>1. GetsOK(gets) /\ OwnWaiters(page, gets) /\ NoneAhead(gets, row)
  BY GetsTyped DEF LiveInv, GetInv
<1>2. NoneAhead(gets, row')
  BY <1>1, CommitOK, RowGrows DEF LiveInv
<1> QED BY <1>1, <1>2 DEF GetInv, NoneAhead

LEMMA CommitView ==
  ASSUME LiveInv, NEW a \in Actors, NEW j \in Jobs, NEW refetch \in BOOLEAN,
         commit(a, j, refetch), UNCHANGED << page, view >>
  PROVE  ViewIsOwn'
<1> SUFFICES ASSUME view # None PROVE Listens(page) /\ view <= row'[page.job]
  BY DEF ViewIsOwn
<1>1. page.job \in Jobs /\ Listens(page) /\ view <= row[page.job]
  BY PageFacts DEF LiveInv, ViewIsOwn, TypeOK
<1>2. row' \in [Jobs -> Version] /\ row[page.job] <= row'[page.job]
  BY <1>1, CommitOK
<1>3. view \in Nat /\ row[page.job] \in Nat /\ row'[page.job] \in Nat
  BY <1>1, <1>2, VersionFacts DEF LiveInv, TypeOK, HubTypeOK
<1> QED BY <1>1, <1>2, <1>3

LEMMA CommitInv ==
  ASSUME LiveInv, UNCHANGED tabVars, NEW a \in Actors, NEW j \in Jobs,
         NEW refetch \in BOOLEAN, commit(a, j, refetch)
  PROVE  LiveInv'
<1> USE DEF tabVars, viewVars, socketVars, timerVars, bounds
<1>1. TypeOK' /\ EventsInv'
  BY CommitOK DEF LiveInv, TypeOK
<1>2. SocketInv'
  BY SocketSame DEF LiveInv
<1>3. WantedIsAsked'
  BY WantedSame DEF LiveInv, commit
<1> QED BY <1>1, <1>2, <1>3, CommitGet, CommitView DEF LiveInv

LEMMA PublishInv ==
  ASSUME LiveInv, UNCHANGED tabVars, NEW a \in Actors, publish(a)
  PROVE  LiveInv'
<1> USE DEF tabVars, viewVars, socketVars, timerVars, bounds
<1>1. /\ pub \in [Actors -> Event \cup {None}] /\ down \in [Conns -> Seq(Event)]
      /\ pub[a] \in Event /\ EventInv(pub[a])
  BY DEF LiveInv, TypeOK, HubTypeOK, EventsInv, publish
<1>2. \A c \in Conns : down'[c] \in {down[c], Append(down[c], pub[a])}
  BY DEF publish
<1>3. HubTypeOK'
  <2>1. down' \in [Conns -> Seq(Event)]
    BY <1>1 DEF publish
  <2> QED BY <1>1, <2>1 DEF LiveInv, TypeOK, HubTypeOK, publish
<1>4. ASSUME NEW c \in Conns, NEW i \in 1 .. Len(down'[c])
      PROVE  EventInv(down'[c][i])
  <2>1. CASE down'[c] = down[c]
    BY <2>1, <1>4 DEF LiveInv, EventsInv
  <2>2. CASE down'[c] = Append(down[c], pub[a])
    <3>1. down[c] \in Seq(Event)
      BY <1>1
    <3>2. \/ i \in 1 .. Len(down[c]) /\ down'[c][i] = down[c][i]
          \/ down'[c][i] = pub[a]
      BY <1>4, <2>2, <3>1
    <3> QED BY <1>1, <3>2 DEF LiveInv, EventsInv
  <2> QED BY <1>2, <2>1, <2>2
<1>5. EventsInv'
  BY <1>1, <1>4 DEF LiveInv, EventsInv, EventInv, publish
<1>6. TypeOK'
  BY <1>3 DEF LiveInv, TypeOK
<1>7. SocketInv' /\ GetInv' /\ ViewIsOwn' /\ WantedIsAsked'
  BY SocketSame, GetSame, ViewSame, WantedSame DEF LiveInv, publish
<1> QED BY <1>5, <1>6, <1>7 DEF LiveInv

(* A message that is applied moves from asked to subs. *)
LEMMA HandleMessageInv ==
  ASSUME LiveInv, UNCHANGED tabVars, NEW c \in Conns, NEW t \in asked[c],
         handleMessage(c, t)
  PROVE  LiveInv'
<1> USE DEF tabVars, viewVars, socketVars, timerVars, bounds
<1>1. HubTypeOK'
  <2>1. t \in Topic
    BY DEF LiveInv, TypeOK, HubTypeOK
  <2> QED BY <2>1 DEF LiveInv, TypeOK, HubTypeOK, handleMessage
<1>2. EventsInv'
  BY EventsSame DEF LiveInv, handleMessage
<1>3. WantedIsAsked'
  <2>1. \A d \in Conns : subs[d] \cup asked[d] = subs'[d] \cup asked'[d]
    BY DEF LiveInv, TypeOK, HubTypeOK, handleMessage
  <2>2. socket # None => socket \in Conns
    BY DEF LiveInv, TypeOK
  <2> QED BY <2>1, <2>2 DEF LiveInv, WantedIsAsked, IsOpen
<1>4. TypeOK'
  BY <1>1 DEF LiveInv, TypeOK
<1>5. SocketInv' /\ GetInv' /\ ViewIsOwn'
  BY SocketSame, GetSame, ViewSame DEF LiveInv, handleMessage
<1> QED BY <1>2, <1>3, <1>4, <1>5 DEF LiveInv

-----------------------------------------------------------------------------
(* The messages a step sends, and the topics it wants besides. *)
LEMMA SentOK ==
  ASSUME TypeOK, NEW topics, topics \subseteq Topic
  PROVE  /\ sent(topics) \in [Conns -> SUBSET Topic]
         /\ \A c \in Conns : asked[c] \subseteq sent(topics)[c]
         /\ IsOpen => topics \subseteq sent(topics)[socket]
<1>1. asked \in [Conns -> SUBSET Topic] /\ (socket # None => socket \in Conns)
  BY DEF TypeOK, HubTypeOK
<1> QED BY <1>1 DEF sent, IsOpen

LEMMA WantedSent ==
  ASSUME TypeOK, WantedIsAsked, UNCHANGED << socket, link, subs >>,
         NEW topics, topics \subseteq Topic, asked' = sent(topics),
         wanted' \subseteq wanted \cup topics
  PROVE  WantedIsAsked'
<1> SUFFICES ASSUME IsOpen PROVE wanted' \subseteq subs[socket] \cup asked'[socket]
  BY DEF WantedIsAsked, IsOpen
<1>1. socket \in Conns
  BY DEF TypeOK, IsOpen
<1>2. asked[socket] \subseteq asked'[socket] /\ topics \subseteq asked'[socket]
  BY <1>1, SentOK
<1> QED BY <1>2 DEF WantedIsAsked

(* A page's own request, or one of an overview that is gone, is made. *)
LEMMA JoinOK ==
  ASSUME LiveInv, NEW k \in Keys, NEW w \in Waiters(k),
         w = "dead" \/ page = Asker(k), gets' = api(gets, k, w),
         page' = page, row' \in [Jobs -> Version], \A j \in Jobs : row[j] <= row'[j]
  PROVE  GetsOK(gets') /\ GetInv'
<1>1. GetsOK(gets) /\ OwnWaiters(page, gets) /\ NoneAhead(gets, row)
  BY GetsTyped DEF LiveInv, GetInv
<1>2. NoneAhead(gets, row')
  BY <1>1, RowGrows DEF LiveInv
<1>3. GetsOK(gets')
  BY <1>1, ApiOK
<1>4. OwnWaiters(page, gets') /\ NoneAhead(gets', row')
  BY <1>1, <1>2, ApiInv
<1> QED BY <1>3, <1>4 DEF GetInv, OwnWaiters, NoneAhead

LEMMA JoinSameRow ==
  ASSUME LiveInv, NEW k \in Keys, NEW w \in Waiters(k),
         w = "dead" \/ page = Asker(k), gets' = api(gets, k, w),
         page' = page, row' = row
  PROVE  GetsOK(gets') /\ GetInv'
<1>1. row \in [Jobs -> Version] /\ \A j \in Jobs : row[j] \in Nat
  BY VersionFacts DEF LiveInv, TypeOK, HubTypeOK
<1>2. \A j \in Jobs : row[j] <= row[j]
  BY <1>1
<1> QED BY <1>1, <1>2, JoinOK

LEMMA SelectQueueInv ==
  ASSUME LiveInv, NEW j \in Jobs, selectQueue(j)
  PROVE  LiveInv'
<1> USE DEF viewVars, timerVars, bounds
<1>1. {QueueOf(j)} \subseteq Topic
  BY KeyFacts
<1>2. TypeOK'
  <2>1. asked' \in [Conns -> SUBSET Topic] /\ wanted' \subseteq Topic
    BY <1>1, SentOK DEF LiveInv, TypeOK, selectQueue
  <2> QED BY <2>1 DEF LiveInv, TypeOK, HubTypeOK, selectQueue
<1>3. WantedIsAsked'
  BY <1>1, WantedSent DEF LiveInv, selectQueue
<1>4. EventsInv' /\ SocketInv' /\ GetInv' /\ ViewIsOwn'
  BY EventsSame, SocketSame, GetSame, ViewSame DEF LiveInv, selectQueue
<1> QED BY <1>2, <1>3, <1>4 DEF LiveInv

(* The handshake that ends is the current connection's. *)
LEMMA OnopenInv ==
  ASSUME LiveInv, NEW c \in Conns, onopen(c)
  PROVE  LiveInv'
<1>1. c = socket
  BY DEF LiveInv, SocketInv, InUse, onopen
<1>2. TypeOK'
  <2>1. link' \in [Conns -> {"free", "connecting", "open", "closing"}]
    BY DEF LiveInv, TypeOK, onopen
  <2>2. asked' \in [Conns -> SUBSET Topic] /\ clients' \subseteq Conns
    BY DEF LiveInv, TypeOK, HubTypeOK, onopen, restored
  <2>3. status' = "CONNECTED" /\ refresh' \in BOOLEAN
    BY DEF LiveInv, TypeOK, onopen
  <2> QED BY <2>1, <2>2, <2>3
          DEF LiveInv, TypeOK, HubTypeOK, onopen, viewVars, bounds
<1>3. SocketInv'
  BY <1>1, LiveAssumption
     DEF LiveInv, TypeOK, SocketInv, SocketIffListening, InUse, onopen, viewVars
<1>4. WantedIsAsked'
  BY <1>1 DEF LiveInv, TypeOK, HubTypeOK, WantedIsAsked, IsOpen, onopen, restored
<1>5. EventsInv' /\ GetInv' /\ ViewIsOwn'
  BY EventsSame, GetSame, ViewSame DEF LiveInv, onopen, viewVars
<1> QED BY <1>2, <1>3, <1>4, <1>5 DEF LiveInv

LEMMA WithoutOK ==
  ASSUME TypeOK, NEW c, without(c), UNCHANGED << commits, row, pub >>
  PROVE  HubTypeOK' /\ \A d \in Conns : down'[d] \in {down[d], << >>}
<1>1. /\ subs' \in [Conns -> SUBSET Topic] /\ asked' \in [Conns -> SUBSET Topic]
      /\ down' \in [Conns -> Seq(Event)] /\ clients' \subseteq Conns
  BY DEF TypeOK, HubTypeOK, without
<1>2. \A d \in Conns : down'[d] \in {down[d], << >>}
  BY DEF without
<1> QED BY <1>1, <1>2 DEF TypeOK, HubTypeOK

LEMMA OncloseInv ==
  ASSUME LiveInv, NEW c \in Conns, onclose(c)
  PROVE  LiveInv'
<1>1. /\ c = socket /\ socket' = None /\ status' = "DISCONNECTED" /\ page' = page
      /\ link' = [link EXCEPT ![c] = "free"] /\ reconnect' = (reconnect \/ Listens(page))
  BY DEF onclose, lostStatus, viewVars
<1>2. HubTypeOK' /\ EventsInv'
  BY WithoutOK, EventsSame DEF LiveInv, onclose
<1>3. TypeOK'
  <2>1. link' \in [Conns -> {"free", "connecting", "open", "closing"}]
    BY <1>1 DEF LiveInv, TypeOK
  <2>2. drops' \in 0 .. MaxDrops
    BY LiveAssumption DEF LiveInv, TypeOK, onclose
  <2>3. reconnect' \in BOOLEAN
    BY <1>1 DEF LiveInv, TypeOK, Listens
  <2> QED BY <1>1, <1>2, <2>1, <2>2, <2>3
          DEF LiveInv, TypeOK, onclose, viewVars, timerVars
<1>4. SocketInv'
  <2>1. socket # None /\ ~reconnect /\ Listens(page)
    BY <1>1, LiveAssumption DEF LiveInv, SocketInv, SocketIffListening
  <2>2. \A d \in Conns : link'[d] \notin InUse
    BY <1>1 DEF LiveInv, TypeOK, SocketInv, InUse
  <2> QED BY <1>1, <2>1, <2>2, LiveAssumption DEF SocketInv, SocketIffListening
<1>5. WantedIsAsked'
  BY <1>1 DEF WantedIsAsked, IsOpen
<1>6. GetInv' /\ ViewIsOwn'
  BY GetSame, ViewSame DEF LiveInv, onclose, viewVars
<1> QED BY <1>2, <1>3, <1>4, <1>5, <1>6 DEF LiveInv

LEMMA ClosedInv ==
  ASSUME LiveInv, NEW c \in Conns, closed(c)
  PROVE  LiveInv'
<1> USE DEF hubVars, viewVars, timerVars, bounds
<1>1. link' \in [Conns -> {"free", "connecting", "open", "closing"}]
      /\ \A d \in Conns : d # c => link'[d] = link[d]
  BY DEF LiveInv, TypeOK, closed
<1>2. link[c] = "closing" /\ link'[c] = "free" /\ c # socket
  BY DEF LiveInv, TypeOK, SocketInv, InUse, closed
<1>3. TypeOK'
  BY <1>1 DEF LiveInv, TypeOK, HubTypeOK, closed
<1>4. SocketInv'
  BY <1>1, <1>2 DEF LiveInv, SocketInv, SocketIffListening, InUse, closed
<1>5. WantedIsAsked'
  BY <1>1, <1>2 DEF LiveInv, TypeOK, WantedIsAsked, IsOpen, closed
<1>6. EventsInv' /\ GetInv' /\ ViewIsOwn'
  BY EventsSame, GetSame, ViewSame DEF LiveInv, closed
<1> QED BY <1>3, <1>4, <1>5, <1>6 DEF LiveInv

(* A new connection, no link being in use. *)
LEMMA ConnectOK ==
  ASSUME NEW l \in [Conns -> {"free", "connecting", "open", "closing"}],
         \A c \in Conns : l[c] \notin InUse, Free(l) # {}, connectSocket(l)
  PROVE  /\ socket' \in Conns /\ status' = "RECONNECTING"
         /\ link' \in [Conns -> {"free", "connecting", "open", "closing"}]
         /\ link'[socket'] = "connecting"
         /\ \A c \in Conns : link'[c] \in InUse <=> c = socket'
<1>1. socket' \in Conns
  BY DEF connectSocket, Free
<1> QED BY <1>1 DEF connectSocket, InUse

LEMMA ReconnectInv ==
  ASSUME LiveInv, reconnectTimer
  PROVE  LiveInv'
<1> USE DEF hubVars, viewVars, timerVars, bounds
<1>1. socket = None /\ status = "DISCONNECTED" /\ Listens(page)
  BY DEF LiveInv, SocketInv, SocketIffListening, reconnectTimer
<1>2. connectSocket(link) /\ Free(link) # {} /\ reconnect' = FALSE
  BY <1>1 DEF reconnectTimer
<1>3. \A c \in Conns : link[c] \notin InUse
  BY <1>1, LiveAssumption DEF LiveInv, SocketInv
<1>4. /\ socket' \in Conns /\ status' = "RECONNECTING"
      /\ link' \in [Conns -> {"free", "connecting", "open", "closing"}]
      /\ link'[socket'] = "connecting"
      /\ \A c \in Conns : link'[c] \in InUse <=> c = socket'
  BY <1>2, <1>3, ConnectOK DEF LiveInv, TypeOK
<1>5. TypeOK'
  BY <1>2, <1>4 DEF LiveInv, TypeOK, HubTypeOK, reconnectTimer
<1>6. SocketInv'
  BY <1>1, <1>2, <1>4, LiveAssumption
     DEF SocketInv, SocketIffListening, reconnectTimer
<1>7. WantedIsAsked'
  BY <1>4 DEF WantedIsAsked, IsOpen
<1>8. EventsInv' /\ GetInv' /\ ViewIsOwn'
  BY EventsSame, GetSame, ViewSame DEF LiveInv, reconnectTimer
<1> QED BY <1>5, <1>6, <1>7, <1>8 DEF LiveInv

-----------------------------------------------------------------------------
(* An event says no more than the row: the page may show its version. *)
LEMMA OnmessageInv ==
  ASSUME LiveInv, NEW c \in Conns, onmessage(c)
  PROVE  LiveInv'
<1> DEFINE e == Head(down[c])
           mine == e.job = page.job
           patch == mine /\ page.kind = "overview" /\ ~e.refetch /\ view # None
<1> USE DEF socketVars, bounds
<1>1. /\ view' = IF patch THEN e.ver ELSE view
      /\ asked' = IF patch THEN sent({QueueOf(e.job)}) ELSE asked
      /\ refresh' = (refresh \/ (mine /\ page.kind = "overview" /\ e.refetch))
      /\ gets' = IF mine /\ page.kind = "detail" THEN api(gets, Item(e.job), "event")
                                                 ELSE gets
      /\ down' = [down EXCEPT ![c] = Tail(down[c])] /\ down[c] # << >>
      /\ UNCHANGED << commits, row, pub, clients, subs, page, error, socketVars,
                      retry, zombies, bounds >>
  BY DEF onmessage
<1>2. /\ down[c] \in Seq(Event) /\ e \in Event /\ EventInv(e)
      /\ Tail(down[c]) \in Seq(Event)
      /\ \A i \in 1 .. Len(Tail(down[c])) : EventInv(Tail(down[c])[i])
  <2>1. down[c] \in Seq(Event) /\ \A i \in 1 .. Len(down[c]) : EventInv(down[c][i])
    BY DEF LiveInv, TypeOK, HubTypeOK, EventsInv
  <2>2. e = down[c][1] /\ 1 \in 1 .. Len(down[c])
    BY <1>1, <2>1
  <2>3. ASSUME NEW i \in 1 .. Len(Tail(down[c]))
        PROVE  Tail(down[c])[i] = down[c][i + 1] /\ i + 1 \in 1 .. Len(down[c])
    BY <1>1, <2>1, <2>3
  <2>4. e \in Event /\ Tail(down[c]) \in Seq(Event)
    BY <1>1, <2>1
  <2> QED BY <2>1, <2>2, <2>3, <2>4
<1>3. e.job \in Jobs /\ e.ver \in Version /\ e.refetch \in BOOLEAN
      /\ e.ver <= row[e.job]
  BY <1>2 DEF Event, EventInv
<1> HIDE DEF e
<1>4. EventsInv'
  <2>1. ASSUME NEW d \in Conns, NEW i \in 1 .. Len(down'[d])
        PROVE  EventInv(down'[d][i])
    <3>1. CASE d = c
      <4>1. down'[d] = Tail(down[c])
        BY <1>1, <3>1 DEF LiveInv, TypeOK, HubTypeOK
      <4> QED BY <1>2, <2>1, <4>1
    <3>2. CASE d # c
      <4>1. down'[d] = down[d]
        BY <1>1, <3>2 DEF LiveInv, TypeOK, HubTypeOK
      <4> QED BY <2>1, <4>1 DEF LiveInv, EventsInv
    <3> QED BY <3>1, <3>2
  <2> QED BY <1>1, <2>1 DEF LiveInv, EventsInv, EventInv
<1>5. GetsOK(gets') /\ GetInv'
  <2>1. CASE mine /\ page.kind = "detail"
    <3>1. page = Detail(e.job)
      BY <2>1, PageFacts DEF LiveInv, TypeOK
    <3>2. Item(e.job) \in Keys /\ "event" \in Waiters(Item(e.job))
          /\ page = Asker(Item(e.job))
      BY <1>3, <3>1, KeyFacts DEF Shown
    <3> QED BY <1>1, <2>1, <3>2, JoinSameRow
  <2>2. CASE ~(mine /\ page.kind = "detail")
    BY <1>1, <2>2, GetSame, GetsTyped DEF LiveInv
  <2> QED BY <2>1, <2>2
<1>6. asked' \in [Conns -> SUBSET Topic] /\ WantedIsAsked'
  <2>1. CASE patch
    <3>1. {QueueOf(e.job)} \subseteq Topic /\ asked' = sent({QueueOf(e.job)})
      BY <1>1, <1>3, <2>1, KeyFacts
    <3> QED BY <1>1, <3>1, SentOK, WantedSent DEF LiveInv
  <2>2. CASE ~patch
    BY <1>1, <2>2, WantedSame DEF LiveInv, TypeOK, HubTypeOK
  <2> QED BY <2>1, <2>2
<1>7. TypeOK'
  <2>1. view' \in Version \cup {None} /\ refresh' \in BOOLEAN
    BY <1>1, <1>3 DEF LiveInv, TypeOK
  <2>2. down' \in [Conns -> Seq(Event)]
    BY <1>1, <1>2 DEF LiveInv, TypeOK, HubTypeOK
  <2>3. HubTypeOK'
    BY <1>1, <1>6, <2>2 DEF LiveInv, TypeOK, HubTypeOK
  <2> QED BY <1>1, <1>5, <2>1, <2>3 DEF LiveInv, TypeOK, GetsOK
<1>8. ViewIsOwn'
  BY <1>1, <1>3 DEF LiveInv, ViewIsOwn, Listens
<1>9. SocketInv'
  BY <1>1, SocketSame DEF LiveInv
<1> QED BY <1>4, <1>5, <1>6, <1>7, <1>8, <1>9 DEF LiveInv

LEMMA RetryJobInv ==
  ASSUME LiveInv, NEW a \in Actors, retryJob(a)
  PROVE  LiveInv'
<1> USE DEF viewVars, socketVars, timerVars, bounds
<1>1. page.job \in Jobs /\ page = Detail(page.job) /\ commit(a, page.job, FALSE)
  BY PageFacts DEF LiveInv, TypeOK, Listens, retryJob
<1>2. /\ HubTypeOK' /\ EventsInv'
      /\ row' \in [Jobs -> Version] /\ \A i \in Jobs : row[i] <= row'[i]
  BY <1>1, CommitOK
<1>3. Item(page.job) \in Keys /\ "event" \in Waiters(Item(page.job))
      /\ page = Asker(Item(page.job))
  BY <1>1, KeyFacts DEF Shown
<1>4. GetsOK(gets') /\ GetInv'
  BY <1>2, <1>3, JoinOK DEF retryJob
<1>5. TypeOK'
  BY <1>2, <1>4 DEF LiveInv, TypeOK, GetsOK, retryJob
<1>6. ViewIsOwn'
  BY <1>1, CommitView DEF retryJob
<1>7. SocketInv' /\ WantedIsAsked'
  BY <1>1, SocketSame, WantedSame DEF LiveInv, retryJob, commit
<1> QED BY <1>2, <1>4, <1>5, <1>6, <1>7 DEF LiveInv

LEMMA CancelJobInv ==
  ASSUME LiveInv, NEW a \in Actors, cancelJob(a)
  PROVE  LiveInv'
<1> USE DEF socketVars, timerVars, bounds
<1>1. page.job \in Jobs /\ Listens(page) /\ commit(a, page.job, FALSE)
      /\ view' = row'[page.job]
  BY PageFacts DEF LiveInv, TypeOK, Listens, cancelJob
<1>2. HubTypeOK' /\ EventsInv' /\ row' \in [Jobs -> Version]
  BY <1>1, CommitOK
<1>3. view' \in Version /\ view' <= row'[page.job]
  BY <1>1, <1>2, VersionFacts
<1>4. TypeOK'
  BY <1>2, <1>3 DEF LiveInv, TypeOK, cancelJob
<1>5. ViewIsOwn'
  BY <1>1, <1>3 DEF ViewIsOwn, cancelJob, Listens
<1>6. SocketInv' /\ WantedIsAsked'
  BY <1>1, SocketSame, WantedSame DEF LiveInv, cancelJob, commit
<1>7. GetInv'
  BY <1>1, CommitGet DEF cancelJob
<1> QED BY <1>2, <1>4, <1>5, <1>6, <1>7 DEF LiveInv

LEMMA RefuseButtonInv == LiveInv /\ refuseButton => LiveInv'
<1> SUFFICES ASSUME LiveInv, refuseButton PROVE LiveInv'
  OBVIOUS
<1> USE DEF hubVars, socketVars, timerVars
<1>1. failures' \in 0 .. MaxFailures
  BY LiveAssumption DEF LiveInv, TypeOK, refuseButton
<1>2. TypeOK'
  BY <1>1 DEF LiveInv, TypeOK, HubTypeOK, refuseButton
<1>3. EventsInv' /\ SocketInv' /\ WantedIsAsked' /\ GetInv' /\ ViewIsOwn'
  BY EventsSame, SocketSame, WantedSame, GetSame, ViewSame DEF LiveInv, refuseButton
<1> QED BY <1>2, <1>3 DEF LiveInv

-----------------------------------------------------------------------------
(* Whatever makes or joins a request and changes nothing but timers. *)
LEMMA RequestInv ==
  ASSUME LiveInv, UNCHANGED << hubVars, viewVars, socketVars, bounds >>,
         NEW k \in Keys, NEW w \in Waiters(k), w = "dead" \/ page = Asker(k),
         gets' = api(gets, k, w),
         refresh' \in BOOLEAN, retry' \in BOOLEAN, zombies' \subseteq Jobs
  PROVE  LiveInv'
<1> USE DEF hubVars, viewVars, socketVars, bounds
<1>1. GetsOK(gets') /\ GetInv'
  BY JoinSameRow
<1>2. TypeOK'
  BY <1>1 DEF LiveInv, TypeOK, HubTypeOK, GetsOK
<1>3. EventsInv' /\ SocketInv' /\ WantedIsAsked' /\ ViewIsOwn'
  BY EventsSame, SocketSame, WantedSame, ViewSame DEF LiveInv
<1> QED BY <1>1, <1>2, <1>3 DEF LiveInv

LEMMA LoadInv == LiveInv /\ (load \/ reload) => LiveInv'
<1> SUFFICES ASSUME LiveInv, load \/ reload PROVE LiveInv'
  OBVIOUS
<1>1. page.kind = "overview" /\ gets' = api(gets, List(page.job), "load")
  BY DEF load, reload
<1>2. page.job \in Jobs /\ page = Overview(page.job)
  BY <1>1, PageFacts DEF LiveInv, TypeOK, Listens
<1>3. List(page.job) \in Keys /\ "load" \in Waiters(List(page.job))
      /\ page = Asker(List(page.job))
  BY <1>2, KeyFacts
<1>4. /\ refresh' \in BOOLEAN /\ retry' \in BOOLEAN /\ zombies' \subseteq Jobs
      /\ UNCHANGED << hubVars, viewVars, socketVars, bounds >>
  BY DEF LiveInv, TypeOK, load, reload
<1> QED BY <1>1, <1>3, <1>4, RequestInv

LEMMA LoadOfGoneInv ==
  ASSUME LiveInv, NEW j \in Jobs, loadOfGone(j)
  PROVE  LiveInv'
<1>1. List(j) \in Keys /\ "dead" \in Waiters(List(j))
  BY KeyFacts
<1>2. /\ refresh' \in BOOLEAN /\ retry' \in BOOLEAN /\ zombies' \subseteq Jobs
      /\ gets' = api(gets, List(j), "dead")
      /\ UNCHANGED << hubVars, viewVars, socketVars, bounds >>
  BY DEF LiveInv, TypeOK, loadOfGone
<1> QED BY <1>1, <1>2, RequestInv

-----------------------------------------------------------------------------
LEMMA GetTyped ==
  ASSUME TypeOK, NEW k \in Keys
  PROVE  gets[k].phase \in {"idle", "sent", "read"} /\ gets[k].ver \in Version
         /\ gets[k].waiters \subseteq {"load", "event", "dead"}
         /\ gets[k].waiters \subseteq Waiters(k)
  BY DEF TypeOK

(* The requests in flight after one is answered, or ends. *)
LEMMA UpdateOK ==
  ASSUME LiveInv, NEW k \in Keys, NEW ver \in Version, ver <= row[k[2]],
         NEW phase \in {"idle", "read"}, NEW waiters \in {gets[k].waiters, {}},
         gets' = [gets EXCEPT ![k] = [phase |-> phase, ver |-> ver, waiters |-> waiters]],
         UNCHANGED << page, row >>
  PROVE  GetsOK(gets') /\ GetInv'
<1> DEFINE new == [phase |-> phase, ver |-> ver, waiters |-> waiters]
<1>1. GetsOK(gets) /\ OwnWaiters(page, gets) /\ NoneAhead(gets, row)
  BY GetsTyped DEF LiveInv, GetInv
<1>2. /\ new.phase = phase /\ new.ver = ver /\ new.waiters = waiters
      /\ waiters \subseteq gets[k].waiters
      /\ new \in [phase : {"idle", "sent", "read"}, ver : Version,
                  waiters : SUBSET {"load", "event", "dead"}]
  BY GetTyped DEF LiveInv
<1> HIDE DEF new
<1>3. gets' = [gets EXCEPT ![k] = new]
  BY DEF new
<1>4. gets'[k] = new /\ \A i \in Keys : i # k => gets'[i] = gets[i]
  BY <1>1, <1>3 DEF GetsOK
<1>5. GetsOK(gets')
  BY <1>1, <1>2, <1>3, <1>4 DEF GetsOK
<1>6. OwnWaiters(page, gets')
  <2> SUFFICES ASSUME NEW i \in Keys, gets'[i].waiters \cap Shown # {}
               PROVE  page = Asker(i)
    BY DEF OwnWaiters
  <2>1. gets[i].waiters \cap Shown # {}
    BY <1>2, <1>4
  <2> QED BY <1>1, <2>1 DEF OwnWaiters
<1>7. NoneAhead(gets', row)
  BY <1>1, <1>2, <1>4 DEF NoneAhead
<1> QED BY <1>5, <1>6, <1>7 DEF GetInv, OwnWaiters, NoneAhead

LEMMA ReadsInv ==
  ASSUME LiveInv, NEW k \in Keys, reads(k, row[k[2]])
  PROVE  LiveInv'
<1> USE DEF hubVars, viewVars, socketVars, timerVars, bounds
<1>1. row[k[2]] \in Version /\ row[k[2]] <= row[k[2]]
  <2>1. row[k[2]] \in Version
    BY AskerFacts DEF LiveInv, TypeOK, HubTypeOK
  <2>2. row[k[2]] \in Nat
    BY <2>1, VersionFacts
  <2> QED BY <2>1, <2>2
<1>2. GetsOK(gets') /\ GetInv'
  BY <1>1, UpdateOK DEF reads
<1>3. TypeOK'
  BY <1>2 DEF LiveInv, TypeOK, HubTypeOK, GetsOK, reads
<1>4. EventsInv' /\ SocketInv' /\ WantedIsAsked' /\ ViewIsOwn'
  BY EventsSame, SocketSame, WantedSame, ViewSame DEF LiveInv, reads
<1> QED BY <1>2, <1>3, <1>4 DEF LiveInv

LEMMA AnswerInv ==
  ASSUME LiveInv, NEW k \in Keys, answer(k)
  PROVE  LiveInv'
<1>1. k \in {List(k[2]), Item(k[2])}
  BY AskerFacts
<1>2. reads(k, row[k[2]])
  BY <1>1 DEF answer, listJobs, readJob, List, Item
<1> QED BY <1>2, ReadsInv

(* A request that ends is not awaited any more. *)
LEMMA EndOK ==
  ASSUME LiveInv, NEW k \in Keys, gets' = [gets EXCEPT ![k] = Idle],
         UNCHANGED << page, row >>
  PROVE  GetsOK(gets') /\ GetInv'
<1>1. 0 \in Version /\ 0 <= row[k[2]]
  BY AskerFacts, VersionFacts DEF LiveInv, TypeOK, HubTypeOK, Version
<1> QED BY <1>1, UpdateOK DEF Idle

(* The page that is shown an answer asked for it, of its own job. *)
LEMMA SucceedInv ==
  ASSUME LiveInv, NEW k \in Keys, succeed(k)
  PROVE  LiveInv'
<1> USE DEF timerVars, bounds
<1> DEFINE w == gets[k].waiters
           shown == w \cap Shown # {}
           topics == CASE k[1] = "list" /\ w # {} -> {QueueOf(k[2])}
                       [] k[1] = "item" /\ "load" \in w -> {JobTopic(k[2])}
                       [] OTHER -> {}
<1>1. /\ gets' = [gets EXCEPT ![k] = Idle]
      /\ view' = IF shown THEN gets[k].ver ELSE view
      /\ error' = (error /\ ~shown)
      /\ wanted' = wanted \cup topics /\ asked' = sent(topics)
      /\ UNCHANGED << commits, row, pub, clients, subs, down, page, socket, link,
                      status, reconnect, timerVars, bounds >>
  BY DEF succeed, Shown
<1>2. topics \subseteq Topic
  BY AskerFacts, KeyFacts
<1>3. shown => page = Asker(k) /\ gets[k].ver <= row[k[2]]
  BY DEF LiveInv, GetInv, OwnWaiters, NoneAhead
<1> HIDE DEF topics, shown
<1>4. GetsOK(gets') /\ GetInv'
  BY <1>1, EndOK
<1>5. asked' \in [Conns -> SUBSET Topic] /\ wanted' \subseteq Topic
  BY <1>1, <1>2, SentOK DEF LiveInv, TypeOK
<1>6. view' \in Version \cup {None} /\ error' \in BOOLEAN
  <2>1. error' \in BOOLEAN
    BY <1>1
  <2>2. view' \in Version \cup {None}
    BY <1>1, GetTyped DEF LiveInv, TypeOK
  <2> QED BY <2>1, <2>2
<1>7. TypeOK'
  BY <1>1, <1>4, <1>5, <1>6 DEF LiveInv, TypeOK, HubTypeOK, GetsOK
<1>8. WantedIsAsked'
  BY <1>1, <1>2, WantedSent DEF LiveInv
<1>9. ViewIsOwn'
  BY <1>1, <1>3, AskerFacts DEF LiveInv, ViewIsOwn
<1>10. EventsInv' /\ SocketInv'
  BY <1>1, EventsSame, SocketSame DEF LiveInv
<1> QED BY <1>4, <1>7, <1>8, <1>9, <1>10 DEF LiveInv

LEMMA FailInv ==
  ASSUME LiveInv, NEW k \in Keys, NEW limited \in BOOLEAN, fail(k, limited)
  PROVE  LiveInv'
<1> USE DEF hubVars, socketVars
<1>1. GetsOK(gets') /\ GetInv'
  BY EndOK DEF fail
<1>2. failures' \in 0 .. MaxFailures
  BY LiveAssumption DEF LiveInv, TypeOK, fail
<1>3. retry' \in BOOLEAN /\ error' \in BOOLEAN /\ zombies' \subseteq Jobs
  BY DEF LiveInv, TypeOK, fail, retried
<1>4. TypeOK'
  BY <1>1, <1>2, <1>3 DEF LiveInv, TypeOK, HubTypeOK, GetsOK, fail
<1>5. EventsInv' /\ SocketInv' /\ WantedIsAsked' /\ ViewIsOwn'
  BY EventsSame, SocketSame, WantedSame, ViewSame DEF LiveInv, fail
<1> QED BY <1>1, <1>4, <1>5 DEF LiveInv

-----------------------------------------------------------------------------
(* The requests of the page that is left show nothing any more. *)
LEMMA LeftOK ==
  ASSUME LiveInv
  PROVE  /\ GetsOK(left) /\ NoneAhead(left, row)
         /\ \A k \in Keys : left[k].waiters \cap Shown = {}
<1> DEFINE own == IF page.kind = "overview" THEN List(page.job) ELSE Item(page.job)
<1>1. left = [k \in Keys |-> IF k = own
                THEN [gets[k] EXCEPT !.waiters = orphaned(gets[k].waiters)]
                ELSE gets[k]]
  BY DEF left
<1>2. ASSUME NEW k \in Keys, k # own PROVE gets[k].waiters \cap Shown = {}
  <2> SUFFICES ASSUME page = Asker(k) PROVE FALSE
    BY DEF LiveInv, GetInv, OwnWaiters
  <2> QED BY <1>2, AskerFacts DEF Asker, Overview, Detail, List, Item
<1>3. ASSUME NEW k \in Keys, k = own
      PROVE  orphaned(gets[k].waiters) \cap Shown = {}
             /\ orphaned(gets[k].waiters) \subseteq Waiters(k)
             /\ orphaned(gets[k].waiters) \subseteq {"load", "event", "dead"}
  <2>1. gets[k].waiters \subseteq Waiters(k)
        /\ gets[k].waiters \subseteq {"load", "event", "dead"}
    BY GetTyped DEF LiveInv
  <2>2. page.kind = "overview" => Waiters(k) = {"load", "dead"}
    BY <1>3 DEF Waiters, List
  <2> QED BY <2>1, <2>2 DEF orphaned, Shown
<1> HIDE DEF own
<1>4. ASSUME NEW k \in Keys
      PROVE  /\ left[k].waiters \cap Shown = {} /\ left[k].waiters \subseteq Waiters(k)
             /\ left[k].ver = gets[k].ver
             /\ left[k] \in [phase : {"idle", "sent", "read"}, ver : Version,
                             waiters : SUBSET {"load", "event", "dead"}]
  <2>1. CASE k = own
    <3>1. left[k] = [gets[k] EXCEPT !.waiters = orphaned(gets[k].waiters)]
      BY <1>1, <2>1
    <3>2. gets[k] \in [phase : {"idle", "sent", "read"}, ver : Version,
                       waiters : SUBSET {"load", "event", "dead"}]
      BY DEF LiveInv, TypeOK
    <3> QED BY <1>3, <2>1, <3>1, <3>2
  <2>2. CASE k # own
    BY <1>1, <1>2, <2>2, GetTyped DEF LiveInv, TypeOK
  <2> QED BY <2>1, <2>2
<1>5. GetsOK(left)
  BY <1>1, <1>4 DEF GetsOK
<1>6. NoneAhead(left, row)
  BY <1>4 DEF LiveInv, GetInv, NoneAhead
<1> QED BY <1>4, <1>5, <1>6

LEMMA HungOK ==
  ASSUME LiveInv
  PROVE  Hung \in [Conns -> {"free", "connecting", "open", "closing"}]
         /\ \A c \in Conns : Hung[c] \notin InUse
  BY LiveAssumption DEF LiveInv, TypeOK, SocketInv, InUse, Hung

LEMMA NavigateInv ==
  ASSUME LiveInv, NEW p \in Routes, navigate(p)
  PROVE  LiveInv'
<1>1. p \in Pages /\ page' = p /\ view' = None /\ ~error' /\ ~refresh' /\ ~retry'
      /\ reconnect' = FALSE /\ row' = row
  BY LiveAssumption DEF navigate, disarmed
<1>2. GetsOK(left) /\ NoneAhead(left, row) /\ OwnWaiters(p, left)
  BY LeftOK DEF OwnWaiters
<1>3. GetsOK(gets') /\ GetInv'
  <2>1. row \in [Jobs -> Version]
    BY DEF LiveInv, TypeOK, HubTypeOK
  <2>2. GetsOK(gets') /\ OwnWaiters(p, gets') /\ NoneAhead(gets', row)
    <3>1. CASE p.kind = "overview"
      <4>1. List(p.job) \in Keys /\ "load" \in Waiters(List(p.job))
            /\ p = Asker(List(p.job)) /\ gets' = api(left, List(p.job), "load")
        BY <1>1, <3>1, PageFacts, KeyFacts DEF Listens, navigate
      <4> QED BY <1>2, <2>1, <4>1, ApiOK, ApiInv
    <3>2. CASE p.kind = "detail"
      <4>1. Item(p.job) \in Keys /\ "load" \in Waiters(Item(p.job))
            /\ p = Asker(Item(p.job)) /\ gets' = api(left, Item(p.job), "load")
        BY <1>1, <3>2, PageFacts, KeyFacts DEF Listens, navigate, Shown
      <4> QED BY <1>2, <2>1, <4>1, ApiOK, ApiInv
    <3>3. CASE ~Listens(p)
      BY <1>2, <3>3 DEF Listens, navigate
    <3> QED BY <3>1, <3>2, <3>3 DEF Listens
  <2> QED BY <1>1, <2>2 DEF GetInv, OwnWaiters, NoneAhead
<1>4. HubTypeOK' /\ EventsInv'
  BY WithoutOK, EventsSame DEF LiveInv, navigate
<1>5. /\ socket' \in Conns \cup {None}
      /\ status' \in {"DISCONNECTED", "RECONNECTING", "CONNECTED"}
      /\ link' \in [Conns -> {"free", "connecting", "open", "closing"}]
      /\ \A c \in Conns : link'[c] \in InUse <=> c = socket'
      /\ socket' = None => status' = "DISCONNECTED"
      /\ socket' # None => link'[socket'] = "connecting"
      /\ Listens(p) <=> socket' # None
  <2>1. CASE Listens(p)
    <3>1. Free(Hung) # {} /\ connectSocket(Hung)
      BY <2>1 DEF navigate
    <3> QED BY <2>1, <3>1, HungOK, ConnectOK, LiveAssumption
  <2>2. CASE ~Listens(p)
    <3>1. link' = Hung /\ socket' = None /\ status' = "DISCONNECTED"
      BY <2>2 DEF navigate
    <3> QED BY <2>2, <3>1, HungOK, LiveAssumption
  <2> QED BY <2>1, <2>2
<1>6. wanted' \subseteq Topic /\ zombies' \subseteq Jobs
      /\ drops' \in 0 .. MaxDrops /\ failures' \in 0 .. MaxFailures
  BY DEF LiveInv, TypeOK, navigate, bounds
<1>7. TypeOK'
  <2>1. page' \in Pages /\ view' \in Version \cup {None}
    BY <1>1
  <2>2. error' \in BOOLEAN /\ reconnect' \in BOOLEAN /\ refresh' \in BOOLEAN
        /\ retry' \in BOOLEAN
    BY DEF navigate, disarmed
  <2> QED BY <1>3, <1>4, <1>5, <1>6, <2>1, <2>2 DEF TypeOK, GetsOK
<1>8. SocketInv'
  BY <1>1, <1>5 DEF SocketInv, SocketIffListening
<1>9. WantedIsAsked' /\ ViewIsOwn'
  BY <1>1, <1>5 DEF WantedIsAsked, IsOpen, ViewIsOwn
<1> QED BY <1>3, <1>4, <1>7, <1>8, <1>9 DEF LiveInv

-----------------------------------------------------------------------------
LEMMA LiveInit == Init => LiveInv
<1> SUFFICES ASSUME Init PROVE LiveInv
  OBVIOUS
<1> USE DEF Init, HubInit
<1>1. TypeOK
  <2>1. HubTypeOK
    BY VersionFacts DEF HubTypeOK
  <2>2. gets \in [Keys -> [phase : {"idle", "sent", "read"}, ver : Version,
                           waiters : SUBSET {"load", "event", "dead"}]]
        /\ \A k \in Keys : gets[k].waiters \subseteq Waiters(k)
    BY VersionFacts DEF Idle
  <2>3. page \in Pages
    BY DEF Pages, Away
  <2>4. drops \in 0 .. MaxDrops /\ failures \in 0 .. MaxFailures
    BY LiveAssumption
  <2>5. error \in BOOLEAN /\ reconnect \in BOOLEAN /\ refresh \in BOOLEAN
        /\ retry \in BOOLEAN
    OBVIOUS
  <2>6. link \in [Conns -> {"free", "connecting", "open", "closing"}]
    OBVIOUS
  <2>7. /\ view = None /\ socket = None /\ status = "DISCONNECTED"
        /\ wanted = {} /\ zombies = {}
    OBVIOUS
  <2> HIDE DEF Init, HubInit
  <2> QED BY <2>1, <2>2, <2>3, <2>4, <2>5, <2>6, <2>7 DEF TypeOK
<1>2. EventsInv
  BY DEF EventsInv
<1>3. SocketInv
  BY LiveAssumption DEF SocketInv, SocketIffListening, InUse, Listens, Away
<1>4. GetInv
  BY AskerFacts DEF GetInv, OwnWaiters, NoneAhead, Idle
<1>5. WantedIsAsked /\ ViewIsOwn
  BY DEF WantedIsAsked, IsOpen, ViewIsOwn
<1> QED BY <1>1, <1>2, <1>3, <1>4, <1>5 DEF LiveInv

LEMMA LiveStep == LiveInv /\ [Next]_vars => LiveInv'
<1> SUFFICES ASSUME LiveInv, [Next]_vars PROVE LiveInv'
  OBVIOUS
<1>1. CASE HubNext /\ UNCHANGED tabVars
  BY <1>1, CommitInv, PublishInv, HandleMessageInv DEF HubNext
<1>2. CASE \E p \in Routes : navigate(p)
  BY <1>2, NavigateInv
<1>3. CASE \E j \in Jobs : selectQueue(j) \/ loadOfGone(j)
  BY <1>3, SelectQueueInv, LoadOfGoneInv
<1>4. CASE \E c \in Conns : onopen(c) \/ onclose(c) \/ closed(c) \/ onmessage(c)
  BY <1>4, OnopenInv, OncloseInv, ClosedInv, OnmessageInv
<1>5. CASE \E a \in Actors : retryJob(a) \/ cancelJob(a)
  BY <1>5, RetryJobInv, CancelJobInv
<1>6. CASE refuseButton \/ reconnectTimer \/ load \/ reload
  BY <1>6, RefuseButtonInv, ReconnectInv, LoadInv
<1>7. CASE \E k \in Keys : answer(k) \/ succeed(k)
  BY <1>7, AnswerInv, SucceedInv
<1>8. CASE \E k \in Keys, limited \in BOOLEAN : fail(k, limited)
  BY <1>8, FailInv
<1>9. CASE UNCHANGED vars
  <2> USE <1>9 DEF vars, hubVars, tabVars, viewVars, socketVars, timerVars, bounds
  <2>1. TypeOK'
    BY DEF LiveInv, TypeOK, HubTypeOK
  <2>2. EventsInv' /\ SocketInv' /\ WantedIsAsked' /\ GetInv' /\ ViewIsOwn'
    BY EventsSame, SocketSame, WantedSame, GetSame, ViewSame DEF LiveInv
  <2> QED BY <2>1, <2>2 DEF LiveInv
<1> QED BY <1>1, <1>2, <1>3, <1>4, <1>5, <1>6, <1>7, <1>8, <1>9 DEF Next

LEMMA LiveInvHolds == Spec => []LiveInv
  BY LiveInit, LiveStep, PTL DEF Spec

(* frontend/lib/socket.ts, hooks/useScheduler.ts, events/websocketHub.ts: the
   state of the tab and of the hub is of its type in every order of steps. *)
THEOREM TabTyped == Spec => []TypeOK
<1>1. LiveInv => TypeOK
  BY DEF LiveInv
<1> QED BY <1>1, LiveInvHolds, PTL

(* frontend/lib/socket.ts: a page that listens has a socket or an armed
   reconnect timer, one of them, and a page that does not has neither. *)
THEOREM NoDeafListenerNoLeak == Spec => []SocketIffListening
<1>1. LiveInv => SocketIffListening
  BY DEF LiveInv, SocketInv
<1> QED BY <1>1, LiveInvHolds, PTL

(* frontend/lib/socket.ts:43-66: what the pages want of the hub, it was asked
   on the connection that is open now. *)
THEOREM WantedAreAsked == Spec => []WantedIsAsked
<1>1. LiveInv => WantedIsAsked
  BY DEF LiveInv
<1> QED BY <1>1, LiveInvHolds, PTL

(* hooks/useScheduler.ts, jobs/[id]/page.tsx: a page shows a state its own job
   was in, whatever answers and events arrive and in whatever order. *)
THEOREM ViewsAreOwn == Spec => []ViewIsOwn
<1>1. LiveInv => ViewIsOwn
  BY DEF LiveInv
<1> QED BY <1>1, LiveInvHolds, PTL
-----------------------------------------------------------------------------
(* Who still serves a page that loads.  A request that somebody awaits is in
   flight; the page's own request is awaited by the page, and is ended only by
   what shows the answer, shows an error or arms the retry. *)
InFlight(g) == \A k \in Keys : g[k].waiters # {} => g[k].phase # "idle"
Own(p) == IF p.kind = "overview" THEN List(p.job) ELSE Item(p.job)
Served(p, g) == g[Own(p)].phase # "idle" /\ g[Own(p)].waiters \cap Shown # {}
LoadingInv == InFlight(gets) /\ LoadingIsUnderWay

LEMMA LoadingIsServed ==
  LoadingIsUnderWay <=> (Listens(page) /\ view = None /\ ~error =>
                           Served(page, gets) \/ retry \/ refresh)
  BY DEF LoadingIsUnderWay, Served, Own, Shown

LEMMA OwnFacts ==
  ASSUME NEW p \in Pages, Listens(p)
  PROVE  Own(p) \in Keys /\ p.job \in Jobs /\ p = Asker(Own(p))
         /\ "load" \in Waiters(Own(p)) /\ (p.kind = "detail" => "event" \in Waiters(Own(p)))
  BY PageFacts, KeyFacts DEF Own, Listens, Shown

(* Joining or making a request ends nobody's. *)
LEMMA ApiServes ==
  ASSUME NEW g, GetsOK(g), InFlight(g), NEW k \in Keys, NEW w
  PROVE  /\ InFlight(api(g, k, w))
         /\ \A i \in Keys : g[i].phase # "idle" => api(g, k, w)[i].phase # "idle"
         /\ \A i \in Keys : g[i].waiters \subseteq api(g, k, w)[i].waiters
                            \/ (g[i].phase = "idle")
         /\ api(g, k, w)[k].phase # "idle" /\ w \in api(g, k, w)[k].waiters
<1> DEFINE new == IF g[k].phase = "idle"
                    THEN [phase |-> "sent", ver |-> 0, waiters |-> {w}]
                    ELSE [g[k] EXCEPT !.waiters = g[k].waiters \cup {w}]
<1>1. new.phase # "idle" /\ w \in new.waiters
      /\ (g[k].phase # "idle" => g[k].waiters \subseteq new.waiters)
  BY DEF GetsOK
<1> HIDE DEF new
<1>2. api(g, k, w) = [g EXCEPT ![k] = new]
  BY DEF api, new
<1>3. api(g, k, w)[k] = new /\ \A i \in Keys : i # k => api(g, k, w)[i] = g[i]
  BY <1>2 DEF GetsOK
<1> QED BY <1>1, <1>3 DEF InFlight

(* What makes or joins a request and changes neither page, view nor error. *)
LEMMA JoinLoading ==
  ASSUME LiveInv, LoadingInv, NEW k \in Keys, NEW w, gets' = api(gets, k, w),
         UNCHANGED << page, view, error >>,
         \/ (retry => retry') /\ (refresh => refresh')
         \/ w \in Shown /\ Listens(page) /\ k = Own(page)
  PROVE  LoadingInv'
<1>1. GetsOK(gets) /\ page \in Pages
  BY GetsTyped DEF LiveInv, TypeOK
<1>2. InFlight(gets')
  BY <1>1, ApiServes DEF LoadingInv
<1>3. ASSUME Listens(page), Served(page, gets) PROVE Served(page, gets')
  BY <1>1, <1>3, OwnFacts, ApiServes DEF LoadingInv, Served
<1>4. ASSUME w \in Shown, k = Own(page) PROVE Served(page, gets')
  BY <1>1, <1>4, ApiServes DEF LoadingInv, Served
<1>5. Listens(page) /\ view = None /\ ~error => Served(page, gets') \/ retry' \/ refresh'
  BY <1>3, <1>4, LoadingIsServed DEF LoadingInv
<1>6. (Listens(page) /\ view = None /\ ~error => Served(page, gets) \/ retry \/ refresh)'
  BY <1>5
<1>7. LoadingIsUnderWay'
  BY <1>6 DEF LoadingIsUnderWay, Served, Own, Shown, Listens
<1> QED BY <1>2, <1>7 DEF LoadingInv, InFlight

(* What leaves the requests, page, view and error alone, and disarms no timer. *)
LEMMA SameLoading ==
  ASSUME LoadingInv, UNCHANGED << page, gets >>,
         view' = view \/ view' # None, error => error',
         retry => retry', refresh => refresh'
  PROVE  LoadingInv'
  BY DEF LoadingInv, InFlight, LoadingIsUnderWay, Listens

(* The page that opens makes or joins its request; those of the page that is
   left stay in flight. *)
LEMMA NavigateLoading ==
  ASSUME LiveInv, LoadingInv, NEW p \in Routes, navigate(p)
  PROVE  LoadingInv'
<1>1. p \in Pages /\ page' = p /\ (Listens(p) <=> p.kind \in {"overview", "detail"})
  BY LiveAssumption DEF navigate, Listens
<1>2. GetsOK(left)
  BY LeftOK
<1>3. InFlight(left)
  <2> SUFFICES ASSUME NEW k \in Keys, left[k].waiters # {} PROVE left[k].phase # "idle"
    BY DEF InFlight
  <2>1. gets[k] \in [phase : {"idle", "sent", "read"}, ver : Version,
                     waiters : SUBSET {"load", "event", "dead"}]
    BY DEF LiveInv, TypeOK
  <2>2. \/ left[k] = gets[k]
        \/ left[k] = [gets[k] EXCEPT !.waiters = orphaned(gets[k].waiters)]
    BY DEF left
  <2>3. gets[k].waiters = {} => orphaned(gets[k].waiters) = {}
    BY DEF orphaned
  <2>4. gets[k].waiters # {} /\ left[k].phase = gets[k].phase
    BY <2>1, <2>2, <2>3
  <2> QED BY <2>4 DEF LoadingInv, InFlight
<1>4. Listens(p) => gets' = api(left, Own(p), "load")
  BY <1>1 DEF navigate, Own
<1>5. ~Listens(p) => gets' = left
  BY <1>1 DEF navigate
<1>6. InFlight(gets') /\ (Listens(p) => Served(p, gets'))
  BY <1>1, <1>2, <1>3, <1>4, <1>5, OwnFacts, ApiServes DEF Served, Shown
<1>7. LoadingIsUnderWay'
  BY <1>1, <1>6 DEF LoadingIsUnderWay, Served, Own, Shown, Listens
<1> QED BY <1>6, <1>7 DEF LoadingInv, InFlight

LEMMA ReadsLoading ==
  ASSUME LiveInv, LoadingInv, NEW k \in Keys, answer(k)
  PROVE  LoadingInv'
<1>1. reads(k, row[k[2]])
  BY AskerFacts DEF answer, listJobs, readJob, List, Item
<1>2. /\ UNCHANGED << page, view, error, retry, refresh >>
      /\ gets' = [gets EXCEPT ![k] = [phase |-> "read", ver |-> row[k[2]],
                                      waiters |-> gets[k].waiters]]
  BY <1>1 DEF reads, viewVars, timerVars
<1>3. /\ gets'[k].phase = "read" /\ gets'[k].waiters = gets[k].waiters
      /\ \A i \in Keys : i # k => gets'[i] = gets[i]
  BY <1>2 DEF LiveInv, TypeOK
<1>4. InFlight(gets')
  BY <1>3 DEF LoadingInv, InFlight
<1>5. LoadingIsUnderWay'
  <2>1. Listens(page) => Own(page) \in Keys
    BY OwnFacts DEF LiveInv, TypeOK
  <2>2. Listens(page) /\ Served(page, gets) => Served(page, gets')
    BY <1>3, <2>1 DEF Served
  <2>3. Listens(page) /\ view = None /\ ~error => Served(page, gets') \/ retry \/ refresh
    BY <2>2, LoadingIsServed DEF LoadingInv
  <2> QED BY <1>2, <2>3 DEF LoadingIsUnderWay, Served, Own, Shown, Listens
<1> QED BY <1>4, <1>5 DEF LoadingInv, InFlight

(* A request that ends without showing anything was not the page's own. *)
LEMMA EndLoading ==
  ASSUME LiveInv, LoadingInv, NEW k \in Keys, gets' = [gets EXCEPT ![k] = Idle], page' = page,
         retry => retry', refresh' = refresh,
         IF gets[k].waiters \cap Shown # {}
           THEN view' # None \/ error' \/ retry'
           ELSE view' = view /\ (error => error')
  PROVE  LoadingInv'
<1>1. gets'[k] = Idle /\ \A i \in Keys : i # k => gets'[i] = gets[i]
  BY DEF LiveInv, TypeOK
<1>2. InFlight(gets')
  BY <1>1 DEF LoadingInv, InFlight, Idle
<1>3. CASE gets[k].waiters \cap Shown # {}
  <2>1. LoadingIsUnderWay'
    BY <1>3 DEF LoadingIsUnderWay
  <2> QED BY <1>2, <2>1 DEF LoadingInv, InFlight
<1>4. CASE gets[k].waiters \cap Shown = {}
  <2>1. Listens(page) => Own(page) \in Keys
    BY OwnFacts DEF LiveInv, TypeOK
  <2>2. Listens(page) /\ Served(page, gets) => Served(page, gets')
    BY <1>1, <1>4, <2>1 DEF Served
  <2>3. Listens(page) /\ view' = None /\ ~error' => Served(page, gets') \/ retry' \/ refresh'
    BY <1>4, <2>2, LoadingIsServed DEF LoadingInv
  <2>4. LoadingIsUnderWay'
    BY <2>3 DEF LoadingIsUnderWay, Served, Own, Shown, Listens
  <2> QED BY <1>2, <2>4 DEF LoadingInv, InFlight
<1> QED BY <1>3, <1>4

LEMMA SucceedLoading ==
  ASSUME LiveInv, LoadingInv, NEW k \in Keys, succeed(k)
  PROVE  LoadingInv'
<1>1. /\ gets' = [gets EXCEPT ![k] = Idle] /\ page' = page
      /\ retry' = retry /\ refresh' = refresh
      /\ view' = IF gets[k].waiters \cap Shown # {} THEN gets[k].ver ELSE view
      /\ error' = (error /\ ~(gets[k].waiters \cap Shown # {}))
  BY DEF succeed, Shown, timerVars
<1>2. gets[k].ver # None
  BY GetTyped, LiveAssumption DEF LiveInv
<1>3. IF gets[k].waiters \cap Shown # {}
        THEN view' # None \/ error' \/ retry'
        ELSE view' = view /\ (error => error')
  BY <1>1, <1>2
<1> QED BY <1>1, <1>3, EndLoading

(* A list has no event among its waiters, so a page whose list is refused with
   429 is one whose load awaits it. *)
LEMMA FailLoading ==
  ASSUME LiveInv, LoadingInv, NEW k \in Keys, NEW limited \in BOOLEAN, fail(k, limited)
  PROVE  LoadingInv'
<1>1. /\ gets' = [gets EXCEPT ![k] = Idle] /\ page' = page /\ view' = view
      /\ refresh' = refresh
      /\ retry' = (retry \/ retried(k, limited, "load"))
      /\ error' = (error \/ (~(limited /\ k[1] = "list") /\ gets[k].waiters \cap Shown # {}))
  BY DEF fail, Shown
<1>2. k[1] = "list" => "event" \notin gets[k].waiters
  <2>1. gets[k].waiters \subseteq Waiters(k)
    BY GetTyped DEF LiveInv
  <2> QED BY <2>1 DEF Waiters
<1>3. IF gets[k].waiters \cap Shown # {}
        THEN view' # None \/ error' \/ retry'
        ELSE view' = view /\ (error => error')
  BY <1>1, <1>2 DEF retried, Shown
<1> QED BY <1>1, <1>3, EndLoading

LEMMA LoadingStep == LiveInv /\ LoadingInv /\ [Next]_vars => LoadingInv'
<1> SUFFICES ASSUME LiveInv, LoadingInv, [Next]_vars PROVE LoadingInv'
  OBVIOUS
<1> USE DEF viewVars, socketVars, timerVars, bounds, tabVars
<1>1. CASE HubNext /\ UNCHANGED tabVars
  BY <1>1, SameLoading
<1>2. ASSUME NEW p \in Routes, navigate(p) PROVE LoadingInv'
  BY <1>2, NavigateLoading
<1>3. ASSUME NEW j \in Jobs, selectQueue(j) PROVE LoadingInv'
  BY <1>3, SameLoading DEF selectQueue
<1>4. ASSUME NEW j \in Jobs, loadOfGone(j) PROVE LoadingInv'
  BY <1>4, KeyFacts, JoinLoading DEF loadOfGone
<1>5. ASSUME NEW c \in Conns, onopen(c) PROVE LoadingInv'
  BY <1>5, SameLoading DEF onopen
<1>6. ASSUME NEW c \in Conns, onclose(c) \/ closed(c) PROVE LoadingInv'
  BY <1>6, SameLoading DEF onclose, closed
<1>7. ASSUME NEW c \in Conns, onmessage(c) PROVE LoadingInv'
  <2> DEFINE e == Head(down[c])
             patch == e.job = page.job /\ page.kind = "overview" /\ ~e.refetch /\ view # None
  <2>1. /\ view' = IF patch THEN e.ver ELSE view
        /\ refresh => refresh'
        /\ gets' = IF e.job = page.job /\ page.kind = "detail"
                     THEN api(gets, Item(e.job), "event") ELSE gets
        /\ UNCHANGED << page, error, retry >>
    BY <1>7 DEF onmessage
  <2>2. down[c] \in Seq(Event) /\ down[c] # << >>
    BY <1>7 DEF onmessage, LiveInv, TypeOK, HubTypeOK
  <2>3. e \in Event
    BY <2>2
  <2>4. e.ver # None
    BY <2>3, LiveAssumption DEF Event
  <2> HIDE DEF e
  <2>5. CASE e.job = page.job /\ page.kind = "detail"
    <3>1. Listens(page) /\ Item(e.job) = Own(page) /\ Own(page) \in Keys /\ ~patch
      BY <2>5, OwnFacts DEF Listens, Own, LiveInv, TypeOK
    <3> QED BY <2>1, <2>5, <3>1, JoinLoading
  <2>6. CASE ~(e.job = page.job /\ page.kind = "detail")
    BY <2>1, <2>4, <2>6, SameLoading
  <2> QED BY <2>5, <2>6
<1>8. ASSUME NEW a \in Actors, retryJob(a) PROVE LoadingInv'
  <2>1. Listens(page) /\ Item(page.job) = Own(page) /\ Own(page) \in Keys
    BY <1>8, OwnFacts DEF retryJob, Listens, Own, LiveInv, TypeOK
  <2> QED BY <1>8, <2>1, JoinLoading DEF retryJob
<1>9. ASSUME NEW a \in Actors, cancelJob(a) PROVE LoadingInv'
  <2>1. row' \in [Jobs -> Version] /\ page.job \in Jobs
    BY <1>9, CommitOK, PageFacts DEF LiveInv, TypeOK, Listens, cancelJob
  <2>2. view' # None
    BY <1>9, <2>1, LiveAssumption DEF cancelJob
  <2> QED BY <1>9, <2>2, SameLoading DEF cancelJob
<1>10. CASE refuseButton
  BY <1>10, SameLoading DEF refuseButton
<1>11. CASE reconnectTimer
  BY <1>11, SameLoading DEF reconnectTimer
<1>12. CASE load \/ reload
  <2>1. Listens(page) /\ List(page.job) = Own(page) /\ Own(page) \in Keys
    BY <1>12, OwnFacts DEF load, reload, Listens, Own, LiveInv, TypeOK
  <2>2. gets' = api(gets, Own(page), "load") /\ UNCHANGED << page, view, error >>
    BY <1>12, <2>1 DEF load, reload
  <2> QED BY <2>1, <2>2, JoinLoading DEF Shown
<1>13. ASSUME NEW k \in Keys, answer(k) \/ succeed(k) PROVE LoadingInv'
  BY <1>13, ReadsLoading, SucceedLoading
<1>14. ASSUME NEW k \in Keys, NEW limited \in BOOLEAN, fail(k, limited) PROVE LoadingInv'
  BY <1>14, FailLoading
<1>15. CASE UNCHANGED vars
  BY <1>15, SameLoading DEF vars
<1> QED BY <1>1, <1>2, <1>3, <1>4, <1>5, <1>6, <1>7, <1>8, <1>9, <1>10, <1>11, <1>12,
           <1>13, <1>14, <1>15 DEF Next

(* hooks/useScheduler.ts, jobs/[id]/page.tsx, lib/api.ts:150-196: a page that
   shows nothing yet is waiting for something that is under way. *)
THEOREM NoPageHangs == Spec => []LoadingIsUnderWay
<1>1. Init => LoadingInv
  BY DEF Init, LoadingInv, InFlight, LoadingIsUnderWay, Idle, Listens, Away
<1>2. LoadingInv => LoadingIsUnderWay
  BY DEF LoadingInv
<1> QED BY <1>1, <1>2, LoadingStep, LiveInvHolds, PTL DEF Spec
=============================================================================
