------------------------------ MODULE Sessions ------------------------------
(* A signed-in browser: tabs that share their cookies, the access token each
   keeps in sessionStorage, requestApi of frontend/lib/api.ts with its refresh
   after a status 401, and the server's side of it: requireAuth, the rate
   limiter, and the routes of api/routes/auth.ts.  There is one e-mail address
   and one IP address.

   A token is the time at which it expires, as a JWT and its cookie are. *)
EXTENDS RateLimiter

CONSTANTS
  Tabs,
  Calls,         \* calls of the pages' code, one each
  Life,          \* how long an access token lives
  RefreshLife,   \* how long a refresh token lives
  MaxFailures,   \* bound on lost connections, Redis errors, failing handlers
                 \* and refused sign-ins
  None

ASSUME SessionAssumption ==
  /\ Life \in Nat \ {0} /\ RefreshLife \in Nat \ {0} /\ MaxFailures \in Nat
  /\ None \notin Nat \cup Tabs \cup LimiterKeys
  /\ Buckets = {"auth", "write"}

VARIABLES
  storage,   \* per tab: the token under "scheduler.access"
  access,    \* the cookie scheduler.access
  refresh,   \* the cookie scheduler.refresh
  account,   \* the e-mail address has a User row
  tab,       \* per call: the tab that makes it
  request,   \* per call: what its HTTP request in flight is for, its own or the refresh
  stage,     \* per call: where that request is
  token,     \* per call: the token that the request carries, or its answer
  key,       \* per call: the limiter's key
  status,    \* per call: the HTTP status that it saw last, 0 for none
  handled,   \* per call: how often its handler began to work (history)
  renewed,   \* per call: when the server granted its refresh, None before
  failures

callVars == << tab, request, stage, token, key, status, handled, renewed >>
vars == << limiterVars, storage, access, refresh, account, callVars, failures >>

Kinds == {"work", "session", "login", "register", "logout"}
Stages == {"idle", "sent", "counting", "handler", "creating", "answered", "done"}
Token == Nat \cup {None}
Valid(t) == t # None /\ clock < t
Sent(cookie) == IF Valid(cookie) THEN cookie ELSE None

TypeOK ==
  /\ LimiterTypeOK
  /\ storage \in [Tabs -> Token] /\ access \in Token /\ refresh \in Token
  /\ account \in BOOLEAN
  /\ tab \in [Calls -> Tabs \cup {None}]
  /\ request \in [Calls -> Kinds \cup {"refresh", None}]
  /\ stage \in [Calls -> Stages]
  /\ token \in [Calls -> Token]
  /\ key \in [Calls -> LimiterKeys \cup {None}]
  /\ \A c \in Calls : key[c] # None => key[c][2] * WindowMs <= clock
  /\ \A c \in Calls : key[c] # None <=> stage[c] = "counting"
  /\ status \in [Calls -> {0, 200, 401, 409, 429, 500}]
  /\ handled \in [Calls -> Nat]
  /\ renewed \in [Calls -> Token]
  /\ failures \in 0 .. MaxFailures

\* Signed in a moment ago in some of the tabs, or not at all, with an account or
\* before there is one.
Init ==
  /\ LimiterInit
  /\ \E those \in SUBSET Tabs :
       /\ storage = [t \in Tabs |-> IF t \in those THEN Life ELSE None]
       /\ access = IF those = {} THEN None ELSE Life
       /\ refresh = IF those = {} THEN None ELSE RefreshLife
       /\ account \in {TRUE} \cup {those # {}}
  /\ tab = [c \in Calls |-> None]
  /\ request = [c \in Calls |-> None] /\ stage = [c \in Calls |-> "idle"]
  /\ token = [c \in Calls |-> None] /\ key = [c \in Calls |-> None]
  /\ status = [c \in Calls |-> 0] /\ handled = [c \in Calls |-> 0]
  /\ renewed = [c \in Calls |-> None]
  /\ failures = 0

-----------------------------------------------------------------------------
(* The browser.  request(): the Authorization header when the tab has a token,
   the cookies always; of these a route that authenticates takes the header
   first, and a refresh its cookie.  Max-Age drops a cookie that has expired. *)
Authenticates(k) == k \in {"work", "session"}
credential(t, k) ==
  CASE k = "refresh" -> Sent(refresh)
    [] Authenticates(k) /\ storage[t] # None -> storage[t]
    [] Authenticates(k) -> Sent(access)
    [] OTHER -> None

send(c, k, t) ==
  /\ request' = [request EXCEPT ![c] = k]
  /\ stage' = [stage EXCEPT ![c] = "sent"]
  /\ token' = [token EXCEPT ![c] = t]

(* A page calls api().  The shell asks for the session when the tab has a token;
   its logout forgets the token at once.  Work is asked for without one too: by
   the provider of the projects, which is on every page, and by a page whose
   token was dropped. *)
call(c, t, k) ==
  /\ stage[c] = "idle"
  /\ k = "session" => storage[t] # None
  /\ tab' = [tab EXCEPT ![c] = t]
  /\ send(c, k, credential(t, k))
  /\ storage' = IF k = "logout" THEN [storage EXCEPT ![t] = None] ELSE storage
  /\ UNCHANGED << limiterVars, access, refresh, account, key, status, handled, renewed,
                  failures >>

-----------------------------------------------------------------------------
(* The server. *)
answer(c, s) ==
  /\ stage' = [stage EXCEPT ![c] = "answered"]
  /\ status' = [status EXCEPT ![c] = s]

(* requireAuth for work and the session, nothing for the other routes; then the
   session and the logout answer at once, and for the rest the limiter chooses
   its key, by the user or by the address. *)
AnsweredAtOnce(k) == k \in {"session", "logout"}
Bucket(k) == IF k = "work" THEN "write" ELSE "auth"

arrive(c) ==
  LET k == request[c]
      passed == Authenticates(k) => Valid(token[c]) IN
  /\ stage[c] = "sent"
  /\ \/ ~passed /\ answer(c, 401) /\ UNCHANGED << key, handled >>
     \/ /\ passed /\ AnsweredAtOnce(k) /\ answer(c, 200)
        /\ handled' = [handled EXCEPT ![c] = handled[c] + 1]
        /\ UNCHANGED key
     \/ /\ passed /\ ~AnsweredAtOnce(k)
        /\ stage' = [stage EXCEPT ![c] = "counting"]
        /\ key' = [key EXCEPT ![c] = << Bucket(k), window >>]
        /\ UNCHANGED << status, handled >>
  /\ token' = [token EXCEPT ![c] = IF k = "refresh" THEN token[c] ELSE None]
  /\ UNCHANGED << limiterVars, storage, access, refresh, account, tab, request, renewed,
                  failures >>

rateLimit(c) ==
  /\ stage[c] = "counting"
  /\ increment(key[c])
  /\ IF allowed(key[c])
       THEN stage' = [stage EXCEPT ![c] = "handler"] /\ UNCHANGED status
       ELSE answer(c, 429)
  /\ key' = [key EXCEPT ![c] = None]
  /\ UNCHANGED << storage, access, refresh, account, tab, request, token, handled,
                  renewed, failures >>

(* Redis fails: the limiter fails open. *)
failOpen(c) ==
  /\ stage[c] = "counting"
  /\ failures < MaxFailures
  /\ failures' = failures + 1
  /\ stage' = [stage EXCEPT ![c] = "handler"]
  /\ key' = [key EXCEPT ![c] = None]
  /\ UNCHANGED << limiterVars, storage, access, refresh, account, tab, request, token,
                  status, handled, renewed >>

(* The handlers.  What work changes, an API key say, is not this module's. *)
finish(c, s, t, done) ==
  /\ answer(c, s)
  /\ token' = [token EXCEPT ![c] = t]
  /\ handled' = [handled EXCEPT ![c] = handled[c] + done]
  /\ UNCHANGED << limiterVars, storage, access, refresh, tab, request, key >>

begins(c, k) == stage[c] = "handler" /\ request[c] = k

work(c) ==
  /\ begins(c, "work")
  /\ finish(c, 200, None, 1)
  /\ UNCHANGED << account, renewed, failures >>

\* signAccessToken; of the refresh token signed with it the model keeps nothing.
signed == clock + Life

(* Registration looks for the address, hashes the password and creates the user:
   of two that overlap, the second fails on the unique address. *)
register(c) ==
  /\ begins(c, "register")
  /\ IF account
       THEN finish(c, 409, None, 0)
       ELSE /\ stage' = [stage EXCEPT ![c] = "creating"]
            /\ UNCHANGED << limiterVars, storage, access, refresh, tab, request, token,
                            key, status, handled >>
  /\ UNCHANGED << account, renewed, failures >>

createUser(c) ==
  /\ stage[c] = "creating"
  /\ IF account THEN finish(c, 500, None, 0) ELSE finish(c, 200, signed, 1)
  /\ account' = TRUE
  /\ UNCHANGED << renewed, failures >>

(* Login: the password may be wrong. *)
login(c) ==
  /\ begins(c, "login")
  /\ \/ account /\ finish(c, 200, signed, 1) /\ UNCHANGED failures
     \/ ~account /\ finish(c, 401, None, 0) /\ UNCHANGED failures
     \/ failures < MaxFailures /\ failures' = failures + 1 /\ finish(c, 401, None, 0)
  /\ UNCHANGED << account, renewed >>

(* POST /auth/refresh verifies the token of the cookie and rotates it. *)
rotate(c) ==
  /\ begins(c, "refresh")
  /\ IF Valid(token[c])
       THEN finish(c, 200, signed, 0) /\ renewed' = [renewed EXCEPT ![c] = clock]
       ELSE finish(c, 401, None, 0) /\ UNCHANGED renewed
  /\ UNCHANGED << account, failures >>

(* A handler throws.  Work may have done its part by then, and a registration may
   have committed its transaction: the account exists, and nobody was told. *)
handlerFails(c) ==
  /\ stage[c] \in {"handler", "creating"}
  /\ failures < MaxFailures
  /\ failures' = failures + 1
  /\ \/ finish(c, 500, None, IF request[c] = "work" THEN 1 ELSE 0) /\ UNCHANGED account
     \/ /\ stage[c] = "creating" /\ ~account
        /\ finish(c, 500, None, 1) /\ account' = TRUE
  /\ UNCHANGED renewed

-----------------------------------------------------------------------------
(* The answer reaches the browser, which applies Set-Cookie, and then the code
   that awaits it. *)
granted(c) == request[c] \in {"login", "register", "refresh"} /\ status[c] = 200
cookies(c) ==
  /\ access' = CASE granted(c) -> token[c]
                 [] request[c] = "logout" -> None
                 [] OTHER -> access
  /\ refresh' = CASE granted(c) -> token[c] - Life + RefreshLife
                  [] request[c] = "logout" -> None
                  [] OTHER -> refresh

end(c) ==
  /\ stage' = [stage EXCEPT ![c] = "done"]
  /\ tab' = [tab EXCEPT ![c] = None]
  /\ request' = [request EXCEPT ![c] = None]
  /\ token' = [token EXCEPT ![c] = None]

(* requestApi refreshes after a 401 of any path but login, register, refresh
   and session. *)
refreshes_onAny(c) ==                                            \* mutant
  request[c] = "work" /\ status[c] \in {401, 500} /\ renewed[c] = None
refreshes(c) == request[c] = "work" /\ status[c] = 401 /\ renewed[c] = None

setAccessToken(c, t) == storage' = [storage EXCEPT ![tab[c]] = t]

(* With the new token it sends the request once more; without, it forgets the
   tab's token and fails with the 401 of the first answer. *)
resend(c) ==
  IF status[c] = 200
    THEN setAccessToken(c, token[c]) /\ send(c, "work", token[c])
         /\ UNCHANGED << tab, status >>
    ELSE setAccessToken(c, None) /\ end(c)
         /\ status' = [status EXCEPT ![c] = 401]

\* The login page keeps the token of the answer; the registration page does not.
signedIn(c) ==
  /\ IF status[c] = 200 THEN setAccessToken(c, token[c]) ELSE UNCHANGED storage
  /\ end(c)
  /\ UNCHANGED status

receive(c) ==
  /\ stage[c] = "answered"
  /\ cookies(c)
  /\ CASE refreshes(c) -> send(c, "refresh", credential(tab[c], "refresh"))
                          /\ UNCHANGED << storage, tab, status >>
       [] request[c] = "refresh" -> resend(c)
       [] request[c] = "login" -> signedIn(c)
       [] OTHER -> end(c) /\ UNCHANGED << storage, status >>
  /\ UNCHANGED << limiterVars, account, key, handled, renewed, failures >>

(* fetch rejects: the request or its answer is lost, and so is the call. *)
lose(c) ==
  /\ stage[c] \in {"sent", "answered"}
  /\ failures < MaxFailures
  /\ failures' = failures + 1
  /\ status' = [status EXCEPT ![c] = 0]
  /\ end(c)
  /\ UNCHANGED << limiterVars, storage, access, refresh, account, key, handled,
                  renewed >>

-----------------------------------------------------------------------------
Next ==
  \/ advanceClock /\ UNCHANGED << storage, access, refresh, account, callVars, failures >>
  \/ \E c \in Calls :
       \/ \E t \in Tabs, k \in Kinds : call(c, t, k)
       \/ arrive(c) \/ rateLimit(c) \/ failOpen(c)
       \/ work(c) \/ register(c) \/ createUser(c) \/ login(c) \/ rotate(c)
       \/ handlerFails(c)
       \/ receive(c) \/ lose(c)

Spec == Init /\ [][Next]_vars

-----------------------------------------------------------------------------
(* lib/api.ts: a call's work is done at most once in spite of the refresh and
   the second sending, exactly once if it reports success and not at all if it
   reports 401, 409 or 429; and the end of an access token stays invisible: once a
   refresh was granted a call fails with 401 only if the new token has expired
   too. *)
CallsEndTruly ==
  \A c \in Calls :
    /\ handled[c] <= 1
    /\ stage[c] = "done" =>
         /\ status[c] = 200 => handled[c] = 1
         /\ status[c] \in {401, 409, 429} => handled[c] = 0
         /\ status[c] = 401 /\ renewed[c] # None => clock >= renewed[c] + Life
=============================================================================
