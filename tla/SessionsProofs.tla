--------------------------- MODULE SessionsProofs ---------------------------
(* Sessions uses the limiter as RateLimiter allows, so the limit of a window
   holds whatever browsers do; and its calls end as they report, for any tabs,
   calls, lives of tokens, limits and failures. *)
EXTENDS Sessions, RateLimiterProofs

Waiting == {"sent", "counting", "handler", "creating"}

(* What a call's status may claim. *)
StatusTrue(c) ==
  /\ status[c] = 200 => handled[c] = 1
  /\ status[c] \in {401, 409, 429} => handled[c] = 0
  /\ status[c] = 401 /\ renewed[c] # None => clock >= renewed[c] + Life

CallInv(c) ==
  /\ stage[c] = "idle" => handled[c] = 0 /\ renewed[c] = None
  /\ stage[c] \in Waiting => handled[c] = 0 /\ request[c] \in Kinds \cup {"refresh"}
  /\ stage[c] = "creating" => request[c] = "register"
  /\ stage[c] = "sent" /\ request[c] = "work" /\ renewed[c] # None =>
       token[c] = renewed[c] + Life
  /\ stage[c] \in Waiting /\ request[c] # "work" => renewed[c] = None
  /\ stage[c] = "answered" =>
       /\ handled[c] \in {0, 1} /\ request[c] \in Kinds \cup {"refresh"}
       /\ request[c] # "refresh" => StatusTrue(c)
       /\ request[c] = "refresh" =>
            /\ handled[c] = 0
            /\ status[c] = 200 <=> renewed[c] # None
            /\ renewed[c] # None => token[c] = renewed[c] + Life
       /\ granted(c) => token[c] \in Nat /\ token[c] >= Life
       /\ ~(request[c] \in {"work", "refresh"}) => renewed[c] = None
  /\ stage[c] = "done" => handled[c] \in {0, 1} /\ StatusTrue(c)

KeyOK(c) ==
  /\ key[c] # None => key[c][2] * WindowMs <= clock
  /\ key[c] # None <=> stage[c] = "counting"

(* TypeOK in parts: what concerns no call, the types of the calls' fields, and
   the keys. *)
SharedOK ==
  /\ storage \in [Tabs -> Token] /\ access \in Token /\ refresh \in Token
  /\ account \in BOOLEAN /\ failures \in 0 .. MaxFailures

FieldsOK ==
  /\ tab \in [Calls -> Tabs \cup {None}]
  /\ request \in [Calls -> Kinds \cup {"refresh", None}]
  /\ stage \in [Calls -> Stages]
  /\ token \in [Calls -> Token]
  /\ key \in [Calls -> LimiterKeys \cup {None}]
  /\ status \in [Calls -> {0, 200, 401, 409, 429, 500}]
  /\ handled \in [Calls -> Nat]
  /\ renewed \in [Calls -> Token]

SessionInv ==
  /\ LimiterTypeOK /\ SharedOK /\ FieldsOK
  /\ \A c \in Calls : KeyOK(c) /\ CallInv(c)

LEMMA TypeFromInv == SessionInv => TypeOK
BY DEF SessionInv, SharedOK, FieldsOK, KeyOK, TypeOK

-----------------------------------------------------------------------------
LEMMA SessionConstants ==
  /\ Life \in Nat /\ RefreshLife \in Nat /\ MaxFailures \in Nat /\ WindowMs \in Nat \ {0}
  /\ None \notin Nat /\ None \notin Tabs /\ None \notin LimiterKeys
BY SessionAssumption, LimiterAssumption

(* A step for the call c leaves the other calls. *)
OthersKept(c) ==
  \A d \in Calls \ {c} :
    /\ request'[d] = request[d] /\ stage'[d] = stage[d] /\ token'[d] = token[d]
    /\ key'[d] = key[d] /\ status'[d] = status[d] /\ handled'[d] = handled[d]
    /\ renewed'[d] = renewed[d]

(* Time passes for a call that nothing happens to. *)
LEMMA CallKept ==
  ASSUME SessionInv, NEW d \in Calls, clock \in Nat, clock' \in Nat, clock <= clock',
         request'[d] = request[d], stage'[d] = stage[d], token'[d] = token[d],
         key'[d] = key[d], status'[d] = status[d], handled'[d] = handled[d],
         renewed'[d] = renewed[d]
  PROVE  KeyOK(d)' /\ CallInv(d)'
<1>1. KeyOK(d) /\ CallInv(d) /\ renewed[d] \in Nat \cup {None} /\ Life \in Nat
      /\ key[d] \in LimiterKeys \cup {None}
  BY SessionConstants DEF SessionInv, FieldsOK, Token
<1>2. KeyOK(d)'
  <2>1. CASE key[d] = None
    BY <1>1, <2>1 DEF KeyOK
  <2>2. CASE key[d] # None
    <3>1. key[d][2] \in Int /\ WindowMs \in Nat
      BY <1>1, <2>2, KeyParts, SessionConstants
    <3>2. key[d][2] * WindowMs \in Int
      BY <3>1
    <3> QED BY <1>1, <3>2 DEF KeyOK
  <2> QED BY <2>1, <2>2
<1>3. StatusTrue(d) => StatusTrue(d)'
  BY <1>1 DEF StatusTrue
<1>4. granted(d)' = granted(d)
  BY DEF granted
<1> QED BY <1>1, <1>2, <1>3, <1>4 DEF CallInv

LEMMA StepKeeps ==
  ASSUME SessionInv, NEW c \in Calls, LimiterTypeOK', SharedOK', FieldsOK',
         clock \in Nat, clock' \in Nat, clock <= clock', OthersKept(c), KeyOK(c)', CallInv(c)'
  PROVE  SessionInv'
<1>1. \A d \in Calls \ {c} : KeyOK(d)' /\ CallInv(d)'
  BY CallKept DEF OthersKept
<1> QED BY <1>1 DEF SessionInv

(* Most steps leave the limiter alone. *)
LEMMA LimiterSame ==
  ASSUME SessionInv, UNCHANGED limiterVars
  PROVE  LimiterTypeOK' /\ clock \in Nat /\ clock' \in Nat /\ clock <= clock'
BY LimiterAssumption DEF SessionInv, LimiterTypeOK, limiterVars

LEMMA Now == SessionInv => clock \in Nat /\ window \in Nat /\ LimiterTypeOK
BY WindowNow DEF SessionInv

LEMMA CredentialTyped ==
  ASSUME SessionInv, NEW t \in Tabs, NEW k
  PROVE  credential(t, k) \in Token
BY DEF credential, Sent, SessionInv, SharedOK, Token

-----------------------------------------------------------------------------
(* The browser sends. *)
LEMMA CallKeeps ==
  ASSUME SessionInv, NEW c \in Calls, NEW t \in Tabs, NEW k \in Kinds, call(c, t, k)
  PROVE  SessionInv'
<1> DEFINE cred == credential(t, k)
<1>1. /\ stage[c] = "idle"
      /\ tab' = [tab EXCEPT ![c] = t] /\ request' = [request EXCEPT ![c] = k]
      /\ stage' = [stage EXCEPT ![c] = "sent"] /\ token' = [token EXCEPT ![c] = cred]
      /\ storage' = IF k = "logout" THEN [storage EXCEPT ![t] = None] ELSE storage
      /\ UNCHANGED << limiterVars, access, refresh, account, key, status, handled, renewed,
                      failures >>
  BY DEF call, send
<1>2. cred \in Token
  BY CredentialTyped
<1> HIDE DEF cred
<1>3. SharedOK'
  BY <1>1 DEF SessionInv, SharedOK, Token
<1>4. FieldsOK'
  BY <1>1, <1>2 DEF SessionInv, FieldsOK, Stages
<1>5. OthersKept(c)
  BY <1>1 DEF OthersKept, SessionInv, FieldsOK
<1>6. /\ stage'[c] = "sent" /\ request'[c] = k /\ key'[c] = key[c]
      /\ handled'[c] = handled[c] /\ renewed'[c] = renewed[c] /\ clock' = clock
  BY <1>1 DEF SessionInv, FieldsOK, limiterVars
<1>7. KeyOK(c)'
  BY <1>1, <1>6 DEF SessionInv, KeyOK
<1>8. CallInv(c)'
  BY <1>1, <1>6 DEF SessionInv, CallInv, Waiting
<1> QED BY <1>1, <1>3, <1>4, <1>5, <1>7, <1>8, LimiterSame, StepKeeps

(* The server answers at once, or chooses the key. *)
LEMMA ArriveKeeps ==
  ASSUME SessionInv, NEW c \in Calls, arrive(c)
  PROVE  SessionInv'
<1> DEFINE k == request[c]
           passed == Authenticates(k) => Valid(token[c])
           kept == IF k = "refresh" THEN token[c] ELSE None
<1>1. /\ stage[c] = "sent"
      /\ token' = [token EXCEPT ![c] = kept]
      /\ UNCHANGED << limiterVars, storage, access, refresh, account, tab, request, renewed,
                      failures >>
  BY DEF arrive
<1>2. /\ k \in Kinds \cup {"refresh"} /\ handled[c] = 0 /\ key[c] = None
      /\ (k # "work" => renewed[c] = None)
      /\ (k = "work" /\ renewed[c] # None => token[c] = renewed[c] + Life)
      /\ clock' = clock /\ clock \in Nat /\ window \in Nat
      /\ renewed[c] \in Nat \cup {None} /\ token[c] \in Nat \cup {None} /\ Life \in Nat
  BY <1>1, Now, SessionConstants
     DEF SessionInv, CallInv, KeyOK, FieldsOK, Waiting, limiterVars, Token
<1>3. SharedOK'
  BY <1>1 DEF SessionInv, SharedOK
<1>4. CASE ~passed /\ answer(c, 401) /\ UNCHANGED << key, handled >>
  <2>1. stage' = [stage EXCEPT ![c] = "answered"] /\ status' = [status EXCEPT ![c] = 401]
    BY <1>4 DEF answer
  <2>2. FieldsOK'
    BY <1>1, <1>4, <2>1 DEF SessionInv, FieldsOK, Stages, Token
  <2>3. OthersKept(c)
    BY <1>1, <1>4, <2>1 DEF OthersKept, SessionInv, FieldsOK
  <2>4. /\ stage'[c] = "answered" /\ status'[c] = 401 /\ handled'[c] = 0 /\ request'[c] = k
        /\ renewed'[c] = renewed[c] /\ key'[c] = None
    BY <1>1, <1>2, <1>4, <2>1 DEF SessionInv, FieldsOK
  <2>5. k \in {"work", "session"} /\ ~Valid(token[c])
    BY <1>4 DEF Authenticates
  <2>6. StatusTrue(c)'
    <3>1. ASSUME renewed[c] # None PROVE clock >= renewed[c] + Life
      <4>1. token[c] = renewed[c] + Life /\ renewed[c] \in Nat
        BY <1>2, <2>5, <3>1
      <4>2. token[c] # None
        BY <1>2, <4>1, SessionConstants
      <4> QED BY <1>2, <2>5, <4>1, <4>2 DEF Valid
    <3> QED BY <1>2, <2>4, <3>1 DEF StatusTrue
  <2>7. KeyOK(c)' /\ CallInv(c)'
    BY <1>2, <2>4, <2>5, <2>6 DEF KeyOK, CallInv, Waiting, granted
  <2> QED BY <1>1, <1>3, <2>2, <2>3, <2>7, LimiterSame, StepKeeps
<1>5. CASE /\ passed /\ AnsweredAtOnce(k) /\ answer(c, 200)
           /\ handled' = [handled EXCEPT ![c] = handled[c] + 1] /\ UNCHANGED key
  <2>1. stage' = [stage EXCEPT ![c] = "answered"] /\ status' = [status EXCEPT ![c] = 200]
    BY <1>5 DEF answer
  <2>2. FieldsOK'
    BY <1>1, <1>5, <2>1 DEF SessionInv, FieldsOK, Stages, Token
  <2>3. OthersKept(c)
    BY <1>1, <1>5, <2>1 DEF OthersKept, SessionInv, FieldsOK
  <2>4. /\ stage'[c] = "answered" /\ status'[c] = 200 /\ handled'[c] = 1 /\ request'[c] = k
        /\ renewed'[c] = renewed[c] /\ key'[c] = None
    BY <1>1, <1>2, <1>5, <2>1 DEF SessionInv, FieldsOK
  <2>5. k \in {"session", "logout"}
    BY <1>5 DEF AnsweredAtOnce
  <2>6. StatusTrue(c)'
    BY <2>4 DEF StatusTrue
  <2>7. KeyOK(c)' /\ CallInv(c)'
    BY <1>2, <2>4, <2>5, <2>6 DEF KeyOK, CallInv, Waiting, granted, Kinds
  <2> QED BY <1>1, <1>3, <2>2, <2>3, <2>7, LimiterSame, StepKeeps
<1>6. CASE /\ passed /\ ~AnsweredAtOnce(k)
           /\ stage' = [stage EXCEPT ![c] = "counting"]
           /\ key' = [key EXCEPT ![c] = << Bucket(k), window >>]
           /\ UNCHANGED << status, handled >>
  <2> DEFINE new == << Bucket(k), window >>
  <2>1. new \in LimiterKeys /\ new[2] = window
    <3>1. Bucket(k) \in Buckets
      BY SessionAssumption DEF Bucket
    <3>2. window \in Windows
      <4>1. clock \in 0 .. Horizon /\ Horizon \in Nat
        BY LimiterAssumption DEF SessionInv, LimiterTypeOK
      <4>2. clock \div WindowMs <= Horizon \div WindowMs /\ Horizon \div WindowMs \in Nat
        BY <4>1, WindowGrows, WindowBounds
      <4> QED BY <1>2, <4>2 DEF window, Windows
    <3> QED BY <3>1, <3>2 DEF LimiterKeys
  <2>2. new # None /\ window * WindowMs <= clock
    BY <2>1, Now, WindowNow, SessionConstants
  <2> HIDE DEF new
  <2>3. key' = [key EXCEPT ![c] = new]
    BY <1>6 DEF new
  <2>4. FieldsOK'
    BY <1>1, <1>6, <2>1, <2>3 DEF SessionInv, FieldsOK, Stages, Token
  <2>5. OthersKept(c)
    BY <1>1, <1>6, <2>3 DEF OthersKept, SessionInv, FieldsOK
  <2>6. /\ stage'[c] = "counting" /\ handled'[c] = 0 /\ request'[c] = k
        /\ renewed'[c] = renewed[c] /\ key'[c] = new
    BY <1>1, <1>2, <1>6, <2>3 DEF SessionInv, FieldsOK
  <2>7. KeyOK(c)'
    BY <1>2, <2>1, <2>2, <2>6 DEF KeyOK
  <2>8. CallInv(c)'
    BY <1>2, <2>6 DEF CallInv, Waiting
  <2> QED BY <1>1, <1>3, <2>4, <2>5, <2>7, <2>8, LimiterSame, StepKeeps
<1> QED BY <1>4, <1>5, <1>6 DEF arrive

(* The limiter counts the request, or Redis fails. *)
LEMMA CountedKeeps ==
  ASSUME SessionInv, NEW c \in Calls, stage[c] = "counting",
         LimiterTypeOK', clock' = clock,
         \/ stage' = [stage EXCEPT ![c] = "handler"] /\ UNCHANGED status
         \/ answer(c, 429),
         key' = [key EXCEPT ![c] = None], failures' \in 0 .. MaxFailures,
         UNCHANGED << storage, access, refresh, account, tab, request, token, handled, renewed >>
  PROVE  SessionInv'
<1>1. /\ handled[c] = 0 /\ request[c] \in Kinds \cup {"refresh"}
      /\ (request[c] # "work" => renewed[c] = None)
  BY DEF SessionInv, CallInv, Waiting
<1>2. SharedOK'
  BY DEF SessionInv, SharedOK
<1>3. /\ handled'[c] = 0 /\ request'[c] = request[c] /\ renewed'[c] = renewed[c] /\ key'[c] = None
  BY <1>1 DEF SessionInv, FieldsOK
<1>4. CASE stage' = [stage EXCEPT ![c] = "handler"] /\ UNCHANGED status
  <2>1. FieldsOK' /\ OthersKept(c) /\ stage'[c] = "handler"
    BY <1>4 DEF SessionInv, FieldsOK, OthersKept, Stages
  <2>2. KeyOK(c)' /\ CallInv(c)'
    BY <1>1, <1>3, <2>1 DEF KeyOK, CallInv, Waiting
  <2> QED BY <1>2, <2>1, <2>2, Now, StepKeeps
<1>5. CASE answer(c, 429)
  <2>1. FieldsOK' /\ OthersKept(c) /\ stage'[c] = "answered" /\ status'[c] = 429
    BY <1>5 DEF SessionInv, FieldsOK, OthersKept, Stages, answer
  <2>2. KeyOK(c)' /\ CallInv(c)'
    BY <1>1, <1>3, <2>1 DEF KeyOK, CallInv, Waiting, StatusTrue, granted
  <2> QED BY <1>2, <2>1, <2>2, Now, StepKeeps
<1> QED BY <1>4, <1>5

LEMMA RateLimitKeeps ==
  ASSUME SessionInv, NEW c \in Calls, rateLimit(c)
  PROVE  SessionInv' /\ LimiterNext
<1>1. /\ stage[c] = "counting" /\ increment(key[c])
      /\ (stage' = [stage EXCEPT ![c] = "handler"] /\ UNCHANGED status) \/ answer(c, 429)
      /\ key' = [key EXCEPT ![c] = None]
      /\ UNCHANGED << storage, access, refresh, account, tab, request, token, handled,
                      renewed, failures >>
  BY DEF rateLimit
<1>2. key[c] \in LimiterKeys /\ key[c][2] * WindowMs <= clock
  BY <1>1 DEF SessionInv, KeyOK, FieldsOK
<1>3. LimiterTypeOK' /\ clock' = clock /\ failures' \in 0 .. MaxFailures
  BY <1>1, <1>2, IncrementTypes DEF SessionInv, SharedOK, increment
<1>4. key[c][2] <= window
  <2>1. key[c][2] \in Nat /\ WindowMs \in Nat \ {0} /\ window \in Nat /\ clock \in Nat
    <3>1. key[c][2] \in Windows
      BY <1>2 DEF LimiterKeys
    <3> QED BY <3>1, Now, SessionConstants DEF Windows
  <2>2. clock < (window + 1) * WindowMs
    BY WindowNow, Now
  <2>3. key[c][2] * WindowMs \in Nat /\ (window + 1) * WindowMs \in Nat
    BY <2>1
  <2>4. key[c][2] * WindowMs < (window + 1) * WindowMs
    BY <1>2, <2>1, <2>2, <2>3
  <2>5. key[c][2] < window + 1
    BY <2>1, <2>4, Cancel
  <2> QED BY <2>1, <2>5
<1>5. SessionInv'
  BY <1>1, <1>3, CountedKeeps
<1> QED BY <1>1, <1>2, <1>4, <1>5 DEF LimiterNext

LEMMA FailOpenKeeps ==
  ASSUME SessionInv, NEW c \in Calls, failOpen(c)
  PROVE  SessionInv'
<1>1. failures' \in 0 .. MaxFailures
  BY SessionConstants DEF failOpen, SessionInv, SharedOK
<1>2. LimiterTypeOK' /\ clock' = clock
  BY LimiterSame DEF failOpen, limiterVars
<1> QED BY <1>1, <1>2, CountedKeeps DEF failOpen

-----------------------------------------------------------------------------
(* A handler ends: with status s, the token t of the answer, and having worked
   or not. *)
Proper(c, s, t, done, rn) ==
  /\ request[c] = "refresh" =>
       /\ done = 0
       /\ s = 200 <=> rn # None
       /\ rn # None => t = rn + Life
  /\ request[c] # "refresh" =>
       /\ rn = renewed[c]
       /\ s = 200 => done = 1
       /\ s \in {401, 409} => done = 0
       /\ s = 401 => request[c] # "work"
  /\ s = 200 /\ request[c] \in {"login", "register", "refresh"} => t \in Nat /\ t >= Life

LEMMA FinishKeeps ==
  ASSUME SessionInv, NEW c \in Calls, stage[c] \in {"handler", "creating"},
         NEW s \in {200, 401, 409, 500}, NEW t \in Token, NEW done \in {0, 1},
         finish(c, s, t, done), Proper(c, s, t, done, renewed'[c]),
         renewed' \in [Calls -> Token], \A d \in Calls \ {c} : renewed'[d] = renewed[d],
         account' \in BOOLEAN, failures' \in 0 .. MaxFailures
  PROVE  SessionInv'
<1> DEFINE rn == renewed'[c]
<1>1. /\ stage' = [stage EXCEPT ![c] = "answered"] /\ status' = [status EXCEPT ![c] = s]
      /\ token' = [token EXCEPT ![c] = t]
      /\ handled' = [handled EXCEPT ![c] = handled[c] + done]
      /\ UNCHANGED << limiterVars, storage, access, refresh, tab, request, key >>
  BY DEF finish, answer
<1>2. /\ handled[c] = 0 /\ request[c] \in Kinds \cup {"refresh"} /\ key[c] = None
      /\ (request[c] # "work" => renewed[c] = None)
  BY DEF SessionInv, CallInv, KeyOK, Waiting
<1>3. SharedOK'
  BY <1>1 DEF SessionInv, SharedOK
<1>4. FieldsOK' /\ OthersKept(c)
  BY <1>1, <1>2 DEF SessionInv, FieldsOK, OthersKept, Stages
<1>5. /\ stage'[c] = "answered" /\ status'[c] = s /\ token'[c] = t /\ handled'[c] = done
      /\ request'[c] = request[c] /\ renewed'[c] = rn /\ key'[c] = None
  BY <1>1, <1>2 DEF SessionInv, FieldsOK
<1> HIDE DEF rn
<1>6. KeyOK(c)'
  BY <1>5 DEF KeyOK
<1>7. request[c] # "refresh" => StatusTrue(c)'
  BY <1>2, <1>5 DEF StatusTrue, Proper, rn
<1>8. CallInv(c)'
  BY <1>2, <1>5, <1>7 DEF CallInv, Waiting, granted, Proper, rn
<1> QED BY <1>1, <1>3, <1>4, <1>6, <1>8, LimiterSame, StepKeeps

LEMMA HandlersKeep ==
  ASSUME SessionInv, NEW c \in Calls,
         work(c) \/ createUser(c) \/ login(c) \/ rotate(c) \/ handlerFails(c)
  PROVE  SessionInv'
<1>0. /\ clock \in Nat /\ Life \in Nat /\ MaxFailures \in Nat /\ None \notin Nat
      /\ signed \in Nat /\ signed >= Life /\ signed \in Token /\ None \in Token
      /\ account \in BOOLEAN /\ failures \in 0 .. MaxFailures
      /\ renewed \in [Calls -> Token]
  BY Now, SessionConstants DEF signed, Token, SessionInv, SharedOK, FieldsOK
<1>1. CASE work(c)
  <2>1. /\ stage[c] = "handler" /\ request[c] = "work" /\ finish(c, 200, None, 1)
        /\ UNCHANGED << account, renewed, failures >>
    BY <1>1 DEF work, begins
  <2>2. Proper(c, 200, None, 1, renewed[c])
    BY <2>1 DEF Proper
  <2> QED BY <1>0, <2>1, <2>2, FinishKeeps
<1>2. CASE createUser(c)
  <2>1. stage[c] = "creating" /\ account' = TRUE /\ UNCHANGED << renewed, failures >>
    BY <1>2 DEF createUser
  <2>2. request[c] = "register"
    BY <2>1 DEF SessionInv, CallInv
  <2>3. CASE finish(c, 500, None, 0)
    <3>1. Proper(c, 500, None, 0, renewed[c])
      BY <2>2 DEF Proper
    <3> QED BY <1>0, <2>1, <2>3, <3>1, FinishKeeps
  <2>4. CASE finish(c, 200, signed, 1)
    <3>1. Proper(c, 200, signed, 1, renewed[c])
      BY <1>0, <2>2 DEF Proper
    <3> QED BY <1>0, <2>1, <2>4, <3>1, FinishKeeps
  <2> QED BY <1>2, <2>3, <2>4 DEF createUser
<1>3. CASE login(c)
  <2>1. /\ stage[c] = "handler" /\ request[c] = "login" /\ UNCHANGED << account, renewed >>
        /\ failures' \in 0 .. MaxFailures
    BY <1>0, <1>3 DEF login, begins
  <2>2. CASE finish(c, 200, signed, 1)
    <3>1. Proper(c, 200, signed, 1, renewed[c])
      BY <1>0, <2>1 DEF Proper
    <3> QED BY <1>0, <2>1, <2>2, <3>1, FinishKeeps
  <2>3. CASE finish(c, 401, None, 0)
    <3>1. Proper(c, 401, None, 0, renewed[c])
      BY <2>1 DEF Proper
    <3> QED BY <1>0, <2>1, <2>3, <3>1, FinishKeeps
  <2> QED BY <1>3, <2>2, <2>3 DEF login
<1>4. CASE rotate(c)
  <2>1. stage[c] = "handler" /\ request[c] = "refresh" /\ UNCHANGED << account, failures >>
    BY <1>4 DEF rotate, begins
  <2>2. CASE finish(c, 200, signed, 0) /\ renewed' = [renewed EXCEPT ![c] = clock]
    <3>1. Proper(c, 200, signed, 0, clock) /\ clock \in Token
      BY <1>0, <2>1 DEF Proper, signed, Token
    <3>2. renewed' \in [Calls -> Token] /\ renewed'[c] = clock
          /\ \A d \in Calls \ {c} : renewed'[d] = renewed[d]
      BY <1>0, <2>2, <3>1
    <3> QED BY <1>0, <2>1, <2>2, <3>1, <3>2, FinishKeeps
  <2>3. CASE finish(c, 401, None, 0) /\ UNCHANGED renewed
    <3>1. renewed[c] = None
      BY <2>1 DEF SessionInv, CallInv, Waiting
    <3>2. Proper(c, 401, None, 0, renewed'[c]) /\ renewed' = renewed
      BY <2>1, <2>3, <3>1 DEF Proper
    <3>3. stage[c] \in {"handler", "creating"} /\ account' \in BOOLEAN
          /\ failures' \in 0 .. MaxFailures
      BY <1>0, <2>1
    <3> QED BY <1>0, <2>3, <3>2, <3>3, FinishKeeps
  <2> QED BY <1>4, <2>2, <2>3 DEF rotate
<1>5. CASE handlerFails(c)
  <2>1. PICK done \in {0, 1} :
          /\ finish(c, 500, None, done) /\ account' \in BOOLEAN
          /\ request[c] = "refresh" => done = 0
    BY <1>0, <1>5 DEF handlerFails, SessionInv, CallInv
  <2>2. /\ stage[c] \in {"handler", "creating"} /\ UNCHANGED renewed
        /\ failures' \in 0 .. MaxFailures
    BY <1>0, <1>5 DEF handlerFails
  <2>3. request[c] = "refresh" => renewed[c] = None
    BY <2>2 DEF SessionInv, CallInv, Waiting
  <2>4. Proper(c, 500, None, done, renewed[c])
    BY <2>1, <2>3 DEF Proper
  <2> QED BY <1>0, <2>1, <2>2, <2>4, FinishKeeps
<1> QED BY <1>1, <1>2, <1>3, <1>4, <1>5

LEMMA RegisterKeeps ==
  ASSUME SessionInv, NEW c \in Calls, register(c)
  PROVE  SessionInv'
<1>1. stage[c] = "handler" /\ request[c] = "register" /\ UNCHANGED << account, renewed, failures >>
  BY DEF register, begins
<1>2. renewed[c] = None /\ handled[c] = 0 /\ key[c] = None
  BY <1>1 DEF SessionInv, CallInv, KeyOK, Waiting
<1>3. CASE finish(c, 409, None, 0)
  <2>1. Proper(c, 409, None, 0, renewed'[c])
    BY <1>1 DEF Proper
  <2>2. /\ account' \in BOOLEAN /\ failures' \in 0 .. MaxFailures /\ None \in Token
        /\ renewed' \in [Calls -> Token] /\ \A d \in Calls \ {c} : renewed'[d] = renewed[d]
        /\ stage[c] \in {"handler", "creating"}
    BY <1>1 DEF SessionInv, SharedOK, FieldsOK, Token
  <2> QED BY <1>3, <2>1, <2>2, FinishKeeps
<1>4. CASE /\ stage' = [stage EXCEPT ![c] = "creating"]
           /\ UNCHANGED << limiterVars, storage, access, refresh, tab, request, token,
                           key, status, handled >>
  <2>1. SharedOK' /\ FieldsOK' /\ OthersKept(c) /\ stage'[c] = "creating"
    BY <1>1, <1>4 DEF SessionInv, SharedOK, FieldsOK, OthersKept, Stages
  <2>2. KeyOK(c)' /\ CallInv(c)'
    BY <1>1, <1>2, <1>4, <2>1 DEF KeyOK, CallInv, Waiting, Kinds
  <2> QED BY <1>4, <2>1, <2>2, LimiterSame, StepKeeps
<1> QED BY <1>3, <1>4 DEF register

-----------------------------------------------------------------------------
(* The answer is received. *)
LEMMA CookiesTyped ==
  ASSUME SessionInv, NEW c \in Calls, stage[c] = "answered", cookies(c)
  PROVE  access' \in Token /\ refresh' \in Token
<1>1. granted(c) => token[c] \in Nat /\ token[c] >= Life
  BY DEF SessionInv, CallInv
<1>2. granted(c) => token[c] - Life + RefreshLife \in Token /\ token[c] \in Token
  BY <1>1, SessionConstants DEF Token
<1> QED BY <1>2 DEF cookies, SessionInv, SharedOK, Token

LEMMA EndKeeps ==
  ASSUME SessionInv, NEW c \in Calls, stage[c] \in {"sent", "answered"}, end(c),
         status' \in [Calls -> {0, 200, 401, 409, 429, 500}],
         \A d \in Calls \ {c} : status'[d] = status[d],
         \/ status'[c] = 0
         \/ status'[c] = status[c] /\ StatusTrue(c)
         \/ status'[c] = 401 /\ handled[c] = 0 /\ renewed[c] = None,
         SharedOK', UNCHANGED << limiterVars, key, handled, renewed >>
  PROVE  SessionInv'
<1>1. /\ stage' = [stage EXCEPT ![c] = "done"] /\ tab' = [tab EXCEPT ![c] = None]
      /\ request' = [request EXCEPT ![c] = None] /\ token' = [token EXCEPT ![c] = None]
  BY DEF end
<1>2. FieldsOK' /\ OthersKept(c)
  BY <1>1 DEF SessionInv, FieldsOK, OthersKept, Stages, Token
<1>3. /\ stage'[c] = "done" /\ key[c] = None /\ key' = key
      /\ handled' = handled /\ renewed' = renewed /\ clock' = clock /\ handled[c] \in {0, 1}
  BY <1>1 DEF SessionInv, FieldsOK, KeyOK, CallInv, Waiting, limiterVars
<1>4. StatusTrue(c)'
  BY <1>3 DEF StatusTrue
<1>5. KeyOK(c)' /\ CallInv(c)'
  BY <1>3, <1>4 DEF KeyOK, CallInv, Waiting
<1> QED BY <1>2, <1>5, LimiterSame, StepKeeps

LEMMA SendKeeps ==
  ASSUME SessionInv, NEW c \in Calls, stage[c] = "answered", handled[c] = 0,
         NEW k \in {"work", "refresh"}, NEW t \in Token, send(c, k, t),
         k = "refresh" => renewed[c] = None,
         k = "work" /\ renewed[c] # None => t = renewed[c] + Life,
         SharedOK', UNCHANGED << limiterVars, tab, key, status, handled, renewed >>
  PROVE  SessionInv'
<1>1. /\ request' = [request EXCEPT ![c] = k] /\ stage' = [stage EXCEPT ![c] = "sent"]
      /\ token' = [token EXCEPT ![c] = t]
  BY DEF send
<1>2. FieldsOK' /\ OthersKept(c)
  BY <1>1 DEF SessionInv, FieldsOK, OthersKept, Stages, Kinds
<1>3. /\ stage'[c] = "sent" /\ request'[c] = k /\ token'[c] = t /\ key[c] = None /\ key' = key
      /\ handled' = handled /\ renewed' = renewed
  BY <1>1 DEF SessionInv, FieldsOK, KeyOK
<1>4. KeyOK(c)' /\ CallInv(c)'
  BY <1>3 DEF KeyOK, CallInv, Waiting, Kinds
<1> QED BY <1>2, <1>4, LimiterSame, StepKeeps

LEMMA ReceiveKeeps ==
  ASSUME SessionInv, NEW c \in Calls, receive(c)
  PROVE  SessionInv'
<1>1. /\ stage[c] = "answered" /\ cookies(c)
      /\ UNCHANGED << limiterVars, account, key, handled, renewed, failures >>
  BY DEF receive
<1>2. access' \in Token /\ refresh' \in Token
  BY <1>1, CookiesTyped
<1>3. storage' \in [Tabs -> Token] => SharedOK'
  BY <1>1, <1>2 DEF SessionInv, SharedOK
<1>4. /\ storage \in [Tabs -> Token] /\ token[c] \in Token /\ None \in Token
      /\ handled[c] \in {0, 1} /\ status[c] \in {0, 200, 401, 409, 429, 500}
      /\ status \in [Calls -> {0, 200, 401, 409, 429, 500}]
  BY <1>1 DEF SessionInv, SharedOK, FieldsOK, CallInv, Token
<1>5. request[c] # "refresh" => StatusTrue(c)
  BY <1>1 DEF SessionInv, CallInv
<1>6. ASSUME request[c] # "refresh", end(c), UNCHANGED status, storage' \in [Tabs -> Token]
      PROVE  SessionInv'
  <2>1. status' \in [Calls -> {0, 200, 401, 409, 429, 500}] /\ status' = status
    BY <1>4, <1>6
  <2> QED BY <1>1, <1>3, <1>5, <1>6, <2>1, EndKeeps
<1>7. CASE /\ refreshes(c) /\ send(c, "refresh", credential(tab[c], "refresh"))
           /\ UNCHANGED << storage, tab, status >>
  <2>1. credential(tab[c], "refresh") \in Token
    BY DEF credential, Sent, SessionInv, SharedOK, Token
  <2>2. handled[c] = 0 /\ renewed[c] = None
    BY <1>5, <1>7 DEF refreshes, StatusTrue
  <2> QED BY <1>1, <1>3, <1>4, <1>7, <2>1, <2>2, SendKeeps
<1>8. CASE request[c] = "refresh" /\ resend(c)
  <2>1. /\ handled[c] = 0 /\ (status[c] = 200 <=> renewed[c] # None)
        /\ (renewed[c] # None => token[c] = renewed[c] + Life)
    BY <1>1, <1>8 DEF SessionInv, CallInv
  <2>2. CASE status[c] = 200
    <3>1. /\ storage' = [storage EXCEPT ![tab[c]] = token[c]] /\ send(c, "work", token[c])
          /\ UNCHANGED << tab, status >>
      BY <1>8, <2>2 DEF resend, setAccessToken
    <3>2. SharedOK'
      BY <1>3, <1>4, <3>1
    <3> QED BY <1>1, <1>4, <2>1, <3>1, <3>2, SendKeeps
  <2>3. CASE status[c] # 200
    <3>1. /\ storage' = [storage EXCEPT ![tab[c]] = None] /\ end(c)
          /\ status' = [status EXCEPT ![c] = 401]
      BY <1>8, <2>3 DEF resend, setAccessToken
    <3>2. SharedOK'
      BY <1>3, <1>4, <3>1
    <3>3. /\ renewed[c] = None /\ status' \in [Calls -> {0, 200, 401, 409, 429, 500}]
          /\ status'[c] = 401 /\ \A d \in Calls \ {c} : status'[d] = status[d]
      BY <1>4, <2>1, <2>3, <3>1
    <3> QED BY <1>1, <2>1, <3>1, <3>2, <3>3, EndKeeps
  <2> QED BY <2>2, <2>3
<1>9. CASE request[c] = "login" /\ signedIn(c)
  <2>1. end(c) /\ UNCHANGED status /\ storage' \in [Tabs -> Token]
    BY <1>4, <1>9 DEF signedIn, setAccessToken
  <2> QED BY <1>6, <1>9, <2>1
<1>10. CASE request[c] # "refresh" /\ end(c) /\ UNCHANGED << storage, status >>
  BY <1>4, <1>6, <1>10
<1> QED BY <1>7, <1>8, <1>9, <1>10 DEF receive

LEMMA LoseKeeps ==
  ASSUME SessionInv, NEW c \in Calls, lose(c)
  PROVE  SessionInv'
<1>1. /\ stage[c] \in {"sent", "answered"} /\ end(c) /\ status' = [status EXCEPT ![c] = 0]
      /\ UNCHANGED << limiterVars, storage, access, refresh, account, key, handled, renewed >>
      /\ failures' \in 0 .. MaxFailures
  BY SessionConstants DEF lose, SessionInv, SharedOK
<1>2. SharedOK'
  BY <1>1 DEF SessionInv, SharedOK
<1>3. /\ status' \in [Calls -> {0, 200, 401, 409, 429, 500}] /\ status'[c] = 0
      /\ \A d \in Calls \ {c} : status'[d] = status[d]
  BY <1>1 DEF SessionInv, FieldsOK
<1> QED BY <1>1, <1>2, <1>3, EndKeeps

LEMMA ClockKeeps ==
  ASSUME SessionInv, advanceClock,
         UNCHANGED << storage, access, refresh, account, callVars, failures >>
  PROVE  SessionInv'
<1>1. LimiterTypeOK' /\ clock \in Nat /\ clock' \in Nat /\ clock <= clock'
  BY LimiterAssumption DEF SessionInv, LimiterTypeOK, advanceClock
<1>2. SharedOK' /\ FieldsOK'
  BY DEF SessionInv, SharedOK, FieldsOK, callVars
<1>3. \A d \in Calls : KeyOK(d)' /\ CallInv(d)'
  BY <1>1, CallKept DEF callVars
<1> QED BY <1>1, <1>2, <1>3 DEF SessionInv

-----------------------------------------------------------------------------
LEMMA InitInv == Init => SessionInv
<1> SUFFICES ASSUME Init PROVE SessionInv
  OBVIOUS
<1>1. LimiterTypeOK
  BY LimiterAssumption DEF Init, LimiterInit, LimiterTypeOK
<1>2. SharedOK
  <2>1. PICK those \in SUBSET Tabs :
          /\ storage = [t \in Tabs |-> IF t \in those THEN Life ELSE None]
          /\ access = IF those = {} THEN None ELSE Life
          /\ refresh = IF those = {} THEN None ELSE RefreshLife
          /\ account \in {TRUE} \cup {those # {}}
    BY DEF Init
  <2>2. {Life, RefreshLife, None} \subseteq Token
    BY SessionConstants DEF Token
  <2>3. storage \in [Tabs -> Token] /\ access \in Token /\ refresh \in Token
    BY <2>1, <2>2
  <2>4. account \in BOOLEAN
    BY <2>1
  <2>5. failures \in 0 .. MaxFailures
    BY SessionConstants DEF Init
  <2> QED BY <2>3, <2>4, <2>5 DEF SharedOK
<1>3. FieldsOK
  BY DEF Init, FieldsOK, Token, Stages
<1>4. \A c \in Calls : KeyOK(c) /\ CallInv(c)
  BY DEF Init, KeyOK, CallInv, Waiting
<1> QED BY <1>1, <1>2, <1>3, <1>4 DEF SessionInv

LEMMA NextKeeps ==
  ASSUME SessionInv, Next
  PROVE  SessionInv' /\ [LimiterNext]_limiterVars
<1>1. CASE advanceClock /\ UNCHANGED << storage, access, refresh, account, callVars, failures >>
  BY <1>1, ClockKeeps DEF LimiterNext
<1>2. CASE \E c \in Calls : rateLimit(c)
  BY <1>2, RateLimitKeeps
<1>3. CASE \E c \in Calls :
             \/ \E t \in Tabs, k \in Kinds : call(c, t, k)
             \/ arrive(c) \/ failOpen(c)
  <2>1. SessionInv'
    BY <1>3, CallKeeps, ArriveKeeps, FailOpenKeeps
  <2>2. UNCHANGED limiterVars
    BY <1>3 DEF call, arrive, failOpen
  <2> QED BY <2>1, <2>2
<1>4. CASE \E c \in Calls :
             work(c) \/ register(c) \/ createUser(c) \/ login(c) \/ rotate(c) \/ handlerFails(c)
  <2>1. SessionInv'
    BY <1>4, HandlersKeep, RegisterKeeps
  <2>2. UNCHANGED limiterVars
    BY <1>4 DEF work, register, createUser, login, rotate, handlerFails, finish
  <2> QED BY <2>1, <2>2
<1>5. CASE \E c \in Calls : receive(c) \/ lose(c)
  <2>1. SessionInv'
    BY <1>5, ReceiveKeeps, LoseKeeps
  <2>2. UNCHANGED limiterVars
    BY <1>5 DEF receive, lose
  <2> QED BY <2>1, <2>2
<1> QED BY <1>1, <1>2, <1>3, <1>4, <1>5 DEF Next

LEMMA StutterKeeps == SessionInv /\ UNCHANGED vars => SessionInv' /\ UNCHANGED limiterVars
<1> SUFFICES ASSUME SessionInv, UNCHANGED vars PROVE SessionInv' /\ UNCHANGED limiterVars
  OBVIOUS
<1>1. UNCHANGED << limiterVars, storage, access, refresh, account, callVars, failures >>
  BY DEF vars
<1>2. LimiterTypeOK' /\ clock \in Nat /\ clock' \in Nat /\ clock <= clock'
  BY <1>1, LimiterSame
<1>3. SharedOK' /\ FieldsOK'
  BY <1>1 DEF SessionInv, SharedOK, FieldsOK, callVars
<1>4. \A d \in Calls : KeyOK(d)' /\ CallInv(d)'
  BY <1>1, <1>2, CallKept DEF callVars
<1> QED BY <1>1, <1>2, <1>3, <1>4 DEF SessionInv

LEMMA SessionInvHolds == Spec => []SessionInv
<1>1. SessionInv /\ [Next]_vars => SessionInv'
  BY NextKeeps, StutterKeeps
<1> QED BY InitInv, <1>1, PTL DEF Spec

(* The types, and that a request holds a key of the limiter only between the
   choice of its window and the answer of Redis. *)
THEOREM TypeCorrect == Spec => []TypeOK
BY SessionInvHolds, TypeFromInv, PTL

(* api/middleware/rateLimit.ts as it is used by the routes: Sessions makes only
   the steps of the limiter that RateLimiter has. *)
THEOREM SessionsUseLimiter == Spec => LimiterSpec
<1>1. Init => LimiterInit
  BY DEF Init
<1>2. SessionInv /\ [Next]_vars => [LimiterNext]_limiterVars
  BY NextKeeps, StutterKeeps
<1> QED BY <1>1, <1>2, SessionInvHolds, PTL DEF Spec, LimiterSpec

(* No more than maxRequests in a window, whatever the browsers' calls do. *)
THEOREM SessionsKeepLimit == Spec => []LimitHolds
BY SessionsUseLimiter, WindowLimit, PTL

LEMMA TrulyFromInv == SessionInv => CallsEndTruly
<1> SUFFICES ASSUME SessionInv, NEW c \in Calls
             PROVE  /\ handled[c] <= 1
                    /\ stage[c] = "done" => StatusTrue(c)
  BY DEF CallsEndTruly, StatusTrue
<1>1. CallInv(c) /\ stage[c] \in Stages
  BY DEF SessionInv, FieldsOK
<1> QED BY <1>1 DEF CallInv, Waiting, Stages

(* frontend/lib/api.ts:66-130: refreshing and sending again neither repeats a
   call's work nor reports a status that is not its own. *)
THEOREM CallsAreTrue == Spec => []CallsEndTruly
BY SessionInvHolds, TrulyFromInv, PTL
=============================================================================
