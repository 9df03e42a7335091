---------------------------- MODULE RateLimiter ----------------------------
(* createRateLimiter of api/middleware/rateLimit.ts: counters in Redis, one per
   policy, identity and window.  The window is part of the key and chosen
   before Redis is awaited; the counter expires by a time-to-live in whole
   seconds that every request renews.  Time is in the code's milliseconds,
   of which a second has few here. *)
EXTENDS Naturals

CONSTANTS
  Buckets,      \* pairs of a policy and an identity (user, API key or IP address)
  MaxRequests,  \* per bucket: policy.maxRequests
  WindowMs,     \* policy.windowMs
  SecondMs,     \* milliseconds in a second
  Horizon       \* bound on the clock

ASSUME LimiterAssumption ==
  /\ MaxRequests \in [Buckets -> Nat \ {0}]
  /\ WindowMs \in Nat \ {0} /\ SecondMs \in Nat \ {0} /\ Horizon \in Nat

VARIABLES
  clock,     \* Date.now()
  count,     \* per key: the value that INCR left
  expireAt,  \* per key: when Redis drops it
  admitted   \* per key: requests let through while their window lasted (history)

limiterVars == << clock, count, expireAt, admitted >>

window == clock \div WindowMs
Windows == 0 .. (Horizon \div WindowMs)
LimiterKeys == Buckets \X Windows

\* Math.max(1, Math.ceil(windowMs / 1000))
windowSeconds_floor == WindowMs \div SecondMs                      \* mutant
windowSeconds == (WindowMs + SecondMs - 1) \div SecondMs

LimiterTypeOK ==
  /\ clock \in 0 .. Horizon
  /\ count \in [LimiterKeys -> Nat]
  /\ expireAt \in [LimiterKeys -> Nat]
  /\ admitted \in [LimiterKeys -> Nat]

LimiterInit ==
  /\ clock = 0
  /\ count = [k \in LimiterKeys |-> 0]
  /\ expireAt = [k \in LimiterKeys |-> 0]
  /\ admitted = [k \in LimiterKeys |-> 0]

-----------------------------------------------------------------------------
(* MULTI; INCR key; EXPIRE key; TTL key: a key that has expired counts from one
   again.  A request that waited for Redis (ensureConnected) may count under
   the key of a window that is over. *)
counted(k) == IF clock < expireAt[k] THEN count[k] + 1 ELSE 1
allowed(k) == counted(k) <= MaxRequests[k[1]]

increment(k) ==
  /\ count' = [count EXCEPT ![k] = counted(k)]
  /\ expireAt' = [expireAt EXCEPT ![k] = clock + windowSeconds * SecondMs]
  /\ admitted' = IF allowed(k) /\ k[2] = window
                   THEN [admitted EXCEPT ![k] = admitted[k] + 1] ELSE admitted
  /\ clock' = clock

advanceClock ==
  /\ clock < Horizon
  /\ clock' = clock + 1
  /\ UNCHANGED << count, expireAt, admitted >>

LimiterNext ==
  \/ \E k \in LimiterKeys : k[2] <= window /\ increment(k)
  \/ advanceClock

LimiterSpec == LimiterInit /\ [][LimiterNext]_limiterVars

-----------------------------------------------------------------------------
(* rateLimit.ts: while Redis answers, no more than maxRequests of the requests
   that one identity sends in a window are let through in it: its counter does
   not expire before the window ends, although its time-to-live is counted in
   whole seconds, and requests that were delayed past the end of the window
   before do not weaken it. *)
LimitHolds ==
  \A b \in Buckets, w \in Windows : admitted[<< b, w >>] <= MaxRequests[b]
=============================================================================
