---------------------------- MODULE RateLimiter ----------------------------
(***************************************************************************)
(* The limiter in front of enroll, login and refresh: ratelimit.go, its    *)
(* configuration in NewServer and rateLimited (api/server.go), and the     *)
(* ticker that calls Cleanup (cmd/aevora-controld/main.go).  A visitor     *)
(* holds a limiter of golang.org/x/time/rate, which stores its tokens and  *)
(* the time they were counted, and refills only when it is asked.  Tokens  *)
(* are measured in ticks of refill: one event costs Interval of them.      *)
(***************************************************************************)
EXTENDS Integers

CONSTANTS
  Keys,            \* client addresses
  AuthRatePerMin,  \* AEVORA_AUTH_RATE_PER_MIN
  AuthBurst,       \* AEVORA_AUTH_BURST
  TrustProxy,      \* AEVORA_TRUST_PROXY
  Minute,          \* ticks
  TTL,             \* ticks; 10 minutes
  MaxTime,         \* bound on the clock
  None             \* no visitor, no X-Forwarded-For

AtLeastOne(n) == IF n > 1 THEN n ELSE 1

Interval == Minute \div AtLeastOne(IF AuthRatePerMin <= 0 THEN 10 ELSE AuthRatePerMin)
Burst == AtLeastOne(IF AuthBurst <= 0 THEN 5 ELSE AuthBurst)
Cap == Burst * Interval

Visitor == [tokens : 0 .. Cap, last : Nat, lastSeen : Nat]

\* A configuration in which a bucket is full again before it is evicted.
\* The defaults are far from the limit: a burst of 5 at 10 per minute fills
\* in 30 seconds.  With AuthBurst above ten times AuthRatePerMin eviction
\* would hand out a burst early.
ASSUME LimiterAssumption ==
  /\ AuthRatePerMin \in Int
  /\ AuthBurst \in Int
  /\ Minute \in Nat
  /\ TTL \in Nat
  /\ MaxTime \in Nat
  /\ Interval \in Nat \ {0}
  /\ Cap \in Nat
  /\ Cap <= TTL
  /\ None \notin Keys
  /\ None \notin Visitor

VARIABLES
  now,
  visitors,  \* the map: a visitor for each key that has one
  answer,    \* the last answer of Allow
  window     \* history: a key, a moment, and the events allowed since then

vars == <<now, visitors, answer, window>>

TypeOK ==
  /\ now \in Nat
  /\ visitors \in [Keys -> Visitor \cup {None}]
  /\ window \in [key : Keys, start : Nat, allowed : Nat]

Init ==
  /\ now = 0
  /\ visitors = [k \in Keys |-> None]
  /\ answer = <<>>
  /\ window \in [key : Keys, start : {0}, allowed : {0}]

Tick ==
  /\ now < MaxTime
  /\ now' = now + 1
  /\ UNCHANGED <<visitors, answer, window>>

-----------------------------------------------------------------------------
\* rate.Limiter: the tokens there are at this moment, never above the burst.
TokensUncapped(v) == v.tokens + (now - v.last)

Tokens(v) ==
  IF v.tokens + (now - v.last) < Cap THEN v.tokens + (now - v.last) ELSE Cap

\* The visitor of a key, with a new limiter if the map has none.
Lookup(k) ==
  IF visitors[k] = None THEN [tokens |-> Cap, last |-> now, lastSeen |-> now]
  ELSE visitors[k]

\* A refused event leaves the limiter as it is, but the key has been seen.
Allow(k) ==
  LET v == Lookup(k)
  IN IF Tokens(v) >= Interval
     THEN /\ visitors' = [visitors EXCEPT ![k] =
               [tokens |-> Tokens(v) - Interval, last |-> now, lastSeen |-> now]]
          /\ answer' = <<k, "allowed">>
          /\ window' = IF window.key = k THEN [window EXCEPT !.allowed = @ + 1] ELSE window
     ELSE /\ visitors' = [visitors EXCEPT ![k] = [v EXCEPT !.lastSeen = now]]
          /\ answer' = <<k, "refused">>
          /\ UNCHANGED window

\* clientIP: the first hop of X-Forwarded-For behind a trusted proxy.
clientIP(remote, forwarded) ==
  IF TrustProxy /\ forwarded # None THEN forwarded ELSE remote

rateLimited(remote, forwarded) ==
  /\ Allow(clientIP(remote, forwarded))
  /\ UNCHANGED now

CleanupEager ==
  /\ visitors' = [k \in Keys |->
       IF visitors[k] # None /\ visitors[k].lastSeen < now THEN None ELSE visitors[k]]
  /\ UNCHANGED <<now, answer, window>>

Cleanup ==
  /\ visitors' = [k \in Keys |->
       IF visitors[k] # None /\ visitors[k].lastSeen < now - TTL THEN None
       ELSE visitors[k]]
  /\ UNCHANGED <<now, answer, window>>

\* History: a window is opened at any moment for any key.
OpenWindow(k) ==
  /\ window' = [key |-> k, start |-> now, allowed |-> 0]
  /\ UNCHANGED <<now, visitors, answer>>

Next ==
  \/ Tick
  \/ Cleanup
  \/ \E r \in Keys, f \in Keys \cup {None} : rateLimited(r, f)
  \/ \E k \in Keys : OpenWindow(k)

Spec == Init /\ [][Next]_vars

-----------------------------------------------------------------------------
Credit(k) == IF visitors[k] = None THEN Cap ELSE Tokens(visitors[k])

\* "allowing `perMinute` events per key with the given burst" (New): in every
\* window of time a key is allowed no more than the burst and one event per
\* Interval, whatever is evicted while the window is open.
WindowBound ==
  window.allowed * Interval <= Cap + (now - window.start)

Bucket == INSTANCE TokenBucket WITH
  Cost <- Interval, credit <- [k \in Keys |-> Credit(k)]

\* Eviction and lazy refilling cannot be seen from outside: the limiter
\* answers every request as a bucket that lives for ever would.
ImplementsTokenBucket == Bucket!Spec

=============================================================================
