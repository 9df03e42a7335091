------------------------- MODULE RateLimiterProofs -------------------------
(* The limit of a window holds for every window, time-to-live and delay.  The
   counter of a window that is over may expire and start again, so it does not
   bound what was admitted for ever: it does while the window lasts, and by then
   nothing more is admitted under it. *)
EXTENDS RateLimiter, Integers, TLAPS

(* The arithmetic of windows. *)
LEMMA Division ==
  ASSUME NEW a \in Nat, NEW b \in Nat \ {0}
  PROVE  /\ a \div b \in Nat
         /\ (a \div b) * b <= a
         /\ a < (a \div b) * b + b
BY Z3

LEMMA Cancel ==
  ASSUME NEW a \in Int, NEW b \in Int, NEW c \in Nat \ {0}, a * c < b * c
  PROVE  a < b
BY Z3

LEMMA Scale ==
  ASSUME NEW a \in Int, NEW b \in Int, NEW c \in Nat, a <= b
  PROVE  a * c <= b * c
BY Z3

(* The time-to-live is at least the window. *)
LEMMA LongEnough == windowSeconds \in Nat /\ windowSeconds * SecondMs >= WindowMs
<1> DEFINE a == WindowMs + SecondMs - 1
<1>1. a \in Nat /\ SecondMs \in Nat \ {0}
  BY LimiterAssumption
<1>2. a \div SecondMs \in Nat /\ a < (a \div SecondMs) * SecondMs + SecondMs
  BY <1>1, Division
<1> QED BY <1>1, <1>2, LimiterAssumption DEF windowSeconds

(* The window of a time: it begins no later, and has not ended. *)
LEMMA WindowBounds ==
  ASSUME NEW c \in Nat
  PROVE  LET w == c \div WindowMs
         IN w \in Nat /\ w * WindowMs <= c /\ c < (w + 1) * WindowMs
<1>1. WindowMs \in Nat \ {0}
  BY LimiterAssumption
<1> DEFINE w == c \div WindowMs
<1>2. w \in Nat /\ w * WindowMs <= c /\ c < w * WindowMs + WindowMs
  BY <1>1, Division
<1>3. (w + 1) * WindowMs = w * WindowMs + WindowMs
  BY <1>1, <1>2
<1> QED BY <1>2, <1>3

LEMMA WindowGrows ==
  ASSUME NEW c \in Nat, NEW d \in Nat, c <= d
  PROVE  c \div WindowMs <= d \div WindowMs
<1> DEFINE v == c \div WindowMs
           w == d \div WindowMs
<1>1. v \in Nat /\ w \in Nat /\ v * WindowMs <= c /\ d < (w + 1) * WindowMs
  BY WindowBounds
<1> HIDE DEF v, w
<1>2. WindowMs \in Nat \ {0}
  BY LimiterAssumption
<1>3. v * WindowMs \in Nat /\ (w + 1) * WindowMs \in Nat
  BY <1>1, <1>2
<1>4. v * WindowMs < (w + 1) * WindowMs
  BY <1>1, <1>3
<1>5. v < w + 1
  BY <1>1, <1>2, <1>4, Cancel
<1>6. v <= w
  BY <1>1, <1>5
<1> QED BY <1>6 DEF v, w

-----------------------------------------------------------------------------
LEMMA KeyParts ==
  ASSUME NEW k \in LimiterKeys
  PROVE  /\ k[1] \in Buckets /\ k[2] \in Int
         /\ MaxRequests[k[1]] \in Nat \ {0}
BY LimiterAssumption DEF LimiterKeys, Windows

WindowInv(k) ==
  /\ admitted[k] <= MaxRequests[k[1]]
  /\ k[2] > window => admitted[k] = 0
  /\ k[2] = window /\ admitted[k] > 0 =>
       /\ expireAt[k] >= (window + 1) * WindowMs
       /\ admitted[k] <= count[k]

LimiterInv == LimiterTypeOK /\ \A k \in LimiterKeys : WindowInv(k)

LEMMA LimiterInitInv == LimiterInit => LimiterInv
<1> SUFFICES ASSUME LimiterInit PROVE LimiterInv
  OBVIOUS
<1>1. LimiterTypeOK
  BY LimiterAssumption DEF LimiterInit, LimiterTypeOK
<1>2. ASSUME NEW k \in LimiterKeys PROVE WindowInv(k)
  <2>1. admitted[k] = 0
    BY DEF LimiterInit
  <2> QED BY <2>1, KeyParts DEF WindowInv
<1> QED BY <1>1, <1>2 DEF LimiterInv

LEMMA WindowNow ==
  ASSUME LimiterTypeOK
  PROVE  /\ window \in Nat /\ clock \in Nat
         /\ window * WindowMs <= clock
         /\ clock < (window + 1) * WindowMs
         /\ (window + 1) * WindowMs \in Nat
<1>1. clock \in Nat
  BY LimiterAssumption DEF LimiterTypeOK
<1>2. window \in Nat /\ window * WindowMs <= clock /\ clock < (window + 1) * WindowMs
  BY <1>1, WindowBounds DEF window
<1>3. (window + 1) * WindowMs \in Nat
  BY <1>2, LimiterAssumption
<1> QED BY <1>1, <1>2, <1>3

LEMMA IncrementTypes ==
  ASSUME LimiterTypeOK, NEW k \in LimiterKeys, increment(k)
  PROVE  LimiterTypeOK' /\ counted(k) \in Nat /\ counted(k) >= 1
<1>1. /\ count[k] \in Nat /\ expireAt[k] \in Nat /\ admitted[k] \in Nat /\ clock \in Nat
  BY WindowNow DEF LimiterTypeOK
<1>2. counted(k) \in Nat /\ counted(k) >= 1
  BY <1>1 DEF counted
<1>3. clock + windowSeconds * SecondMs \in Nat
  BY <1>1, LongEnough, LimiterAssumption
<1> QED BY <1>1, <1>2, <1>3 DEF LimiterTypeOK, increment

(* A request is counted: while the window lasts its counter is alive, and covers
   all that were admitted in it. *)
LEMMA IncrementKeepsInv ==
  ASSUME LimiterInv, NEW k \in LimiterKeys, k[2] <= window, increment(k)
  PROVE  LimiterInv'
<1>1. /\ count[k] \in Nat /\ expireAt[k] \in Nat /\ admitted[k] \in Nat
      /\ clock \in Nat /\ window \in Nat
      /\ (window + 1) * WindowMs \in Nat /\ clock < (window + 1) * WindowMs
  BY WindowNow DEF LimiterInv, LimiterTypeOK
<1>2. LimiterTypeOK' /\ counted(k) \in Nat /\ counted(k) >= 1
  BY IncrementTypes DEF LimiterInv
<1>3. window' = window
  BY DEF increment, window
<1>4. WindowInv(k)'
  <2>1. MaxRequests[k[1]] \in Nat /\ k[2] \in Int
    BY KeyParts
  <2>2. WindowInv(k)
    BY DEF LimiterInv
  <2>3. clock + windowSeconds * SecondMs >= (window + 1) * WindowMs
    <3>1. window * WindowMs \in Nat /\ WindowMs \in Nat
      BY <1>1, LimiterAssumption
    <3>2. (window + 1) * WindowMs = window * WindowMs + WindowMs
      BY <1>1, <3>1
    <3>3. windowSeconds * SecondMs \in Nat
      BY LongEnough, LimiterAssumption
    <3>4. window * WindowMs <= clock
      BY WindowNow DEF LimiterInv
    <3> QED BY <1>1, <3>1, <3>2, <3>3, <3>4, LongEnough
  <2>4. expireAt'[k] = clock + windowSeconds * SecondMs /\ count'[k] = counted(k)
    BY DEF increment, LimiterInv, LimiterTypeOK
  <2>5. k[2] = window => admitted[k] < counted(k)
    BY <1>1, <2>2 DEF WindowInv, counted
  <2>6. CASE allowed(k) /\ k[2] = window
    <3>1. admitted'[k] = admitted[k] + 1
      BY <2>6 DEF increment, LimiterInv, LimiterTypeOK
    <3>2. counted(k) <= MaxRequests[k[1]]
      BY <2>6 DEF allowed
    <3>3. admitted'[k] <= counted(k)
      BY <1>1, <1>2, <2>5, <2>6, <3>1
    <3>4. admitted'[k] <= MaxRequests[k[1]]
      BY <1>1, <1>2, <2>1, <3>1, <3>2, <3>3
    <3> QED BY <1>1, <1>3, <2>1, <2>3, <2>4, <2>6, <3>3, <3>4 DEF WindowInv
  <2>7. CASE ~(allowed(k) /\ k[2] = window)
    <3>1. admitted'[k] = admitted[k]
      BY <2>7 DEF increment
    <3>2. k[2] = window => admitted'[k] <= count'[k]
      BY <1>1, <1>2, <2>4, <2>5, <3>1
    <3> QED BY <1>1, <1>3, <2>1, <2>2, <2>3, <2>4, <3>1, <3>2 DEF WindowInv
  <2> QED BY <2>6, <2>7
<1>5. ASSUME NEW j \in LimiterKeys, j # k PROVE WindowInv(j)'
  <2>1. admitted'[j] = admitted[j] /\ count'[j] = count[j] /\ expireAt'[j] = expireAt[j]
    BY <1>5 DEF increment, LimiterInv, LimiterTypeOK
  <2>2. WindowInv(j)
    BY DEF LimiterInv
  <2> QED BY <1>3, <2>1, <2>2 DEF WindowInv
<1> QED BY <1>2, <1>4, <1>5 DEF LimiterInv

(* Time passes: under the key of a window that begins nothing was admitted. *)
LEMMA AdvanceKeepsInv ==
  ASSUME LimiterInv, advanceClock
  PROVE  LimiterInv'
<1>1. clock \in Nat /\ clock' \in Nat /\ clock <= clock'
  BY LimiterAssumption DEF LimiterInv, LimiterTypeOK, advanceClock
<1>2. LimiterTypeOK'
  BY LimiterAssumption DEF LimiterInv, LimiterTypeOK, advanceClock
<1>3. window \in Nat /\ window' \in Nat /\ window <= window'
  BY <1>1, WindowGrows, WindowBounds DEF window
<1>4. ASSUME NEW k \in LimiterKeys PROVE WindowInv(k)'
  <2>1. k[2] \in Int /\ WindowInv(k)
    BY KeyParts DEF LimiterInv
  <2>2. admitted' = admitted /\ count' = count /\ expireAt' = expireAt
    BY DEF advanceClock
  <2>3. admitted[k] <= MaxRequests[k[1]]
    BY <2>1 DEF WindowInv
  <2>4. CASE k[2] > window
    BY <1>3, <2>1, <2>2, <2>3, <2>4 DEF WindowInv
  <2>5. CASE k[2] <= window /\ window' = window
    BY <2>1, <2>2, <2>5 DEF WindowInv
  <2>6. CASE k[2] <= window /\ window' > window
    BY <1>3, <2>1, <2>2, <2>3, <2>6 DEF WindowInv
  <2> QED BY <1>3, <2>1, <2>4, <2>5, <2>6
<1> QED BY <1>2, <1>4 DEF LimiterInv

LEMMA LimiterStutter == LimiterInv /\ UNCHANGED limiterVars => LimiterInv'
BY DEF LimiterInv, LimiterTypeOK, WindowInv, window, limiterVars

LEMMA LimiterInvHolds == LimiterSpec => []LimiterInv
<1>1. LimiterInv /\ [LimiterNext]_limiterVars => LimiterInv'
  BY IncrementKeepsInv, AdvanceKeepsInv, LimiterStutter DEF LimiterNext
<1> QED BY LimiterInitInv, <1>1, PTL DEF LimiterSpec

LEMMA LimitFromInv == LimiterInv => LimitHolds
<1> SUFFICES ASSUME LimiterInv, NEW b \in Buckets, NEW w \in Windows
             PROVE  admitted[<< b, w >>] <= MaxRequests[b]
  BY DEF LimitHolds
<1>1. << b, w >> \in LimiterKeys
  BY DEF LimiterKeys
<1> QED BY <1>1 DEF LimiterInv, WindowInv

(* rateLimit.ts:78-121: however requests are delayed between choosing a key and
   counting under it, a window of an identity lets no more than maxRequests
   through. *)
THEOREM WindowLimit == LimiterSpec => []LimitHolds
BY LimiterInvHolds, LimitFromInv, PTL
=============================================================================
