------------------------- MODULE RateLimiterProofs -------------------------
(***************************************************************************)
(* For every configuration in which a bucket fills before it is evicted,   *)
(* the limiter keeps its rate and implements TokenBucket.  The inductive   *)
(* invariant orders the three times of a visitor and states the window     *)
(* bound with the credit that is left: what was allowed and what can still *)
(* be spent never exceed the burst and the time that passed.               *)
(***************************************************************************)
EXTENDS RateLimiter, TLAPS

Times ==
  \A k \in Keys : visitors[k] # None =>
    visitors[k].last <= visitors[k].lastSeen /\ visitors[k].lastSeen <= now

Spent ==
  /\ window.start <= now
  /\ window.allowed * Interval + Credit(window.key) <= Cap + (now - window.start)

IInv == TypeOK /\ Times /\ Spent

\* A request is a call of Allow for one of the clients.
LEMMA ClientIsKey ==
  ASSUME NEW r \in Keys, NEW f \in Keys \cup {None}
  PROVE  clientIP(r, f) \in Keys
BY LimiterAssumption DEF clientIP

\* An absent visitor is not a visitor.
LEMMA NoneIsNoVisitor == ASSUME TypeOK, NEW k \in Keys, visitors[k] # None
                         PROVE  visitors[k] \in Visitor
BY DEF TypeOK

\* One more event costs one more Interval.
LEMMA OneMore == ASSUME NEW n \in Nat PROVE (n + 1) * Interval = n * Interval + Interval
BY LimiterAssumption, SMT

LEMMA CreditRange == ASSUME IInv, NEW k \in Keys PROVE Credit(k) \in 0 .. Cap
<1>1. CASE visitors[k] = None
  BY <1>1, LimiterAssumption DEF Credit
<1>2. CASE visitors[k] # None
  <2>1. visitors[k].tokens \in 0 .. Cap /\ visitors[k].last \in Nat /\ now \in Nat
    BY <1>2, NoneIsNoVisitor DEF IInv, TypeOK, Visitor
  <2>2. visitors[k].last <= now
    BY <1>2, NoneIsNoVisitor DEF IInv, Times, TypeOK, Visitor
  <2> QED BY <1>2, <2>1, <2>2, LimiterAssumption DEF Credit, Tokens
<1> QED BY <1>1, <1>2

LEMMA LookupRange ==
  ASSUME IInv, NEW k \in Keys
  PROVE  /\ Lookup(k) \in Visitor
         /\ Lookup(k).last <= now
         /\ Tokens(Lookup(k)) = Credit(k)
<1> USE LimiterAssumption
<1>1. CASE visitors[k] = None
  BY <1>1 DEF Lookup, Credit, Tokens, Visitor, IInv, TypeOK
<1>2. CASE visitors[k] # None
  BY <1>2, NoneIsNoVisitor DEF Lookup, Credit, IInv, Times, Visitor, TypeOK
<1> QED BY <1>1, <1>2

-----------------------------------------------------------------------------
(* What each step does to the credit of a key. *)

LEMMA TickCredit ==
  ASSUME IInv, Tick, NEW k \in Keys
  PROVE  Credit(k)' = IF Credit(k) < Cap THEN Credit(k) + 1 ELSE Cap
<1> USE LimiterAssumption
<1>0. now \in Nat /\ now' = now + 1 /\ visitors' = visitors
  BY DEF IInv, TypeOK, Tick
<1>1. CASE visitors[k] = None
  BY <1>0, <1>1 DEF Credit
<1>2. CASE visitors[k] # None
  <2>1. /\ visitors[k].tokens \in 0 .. Cap
        /\ visitors[k].last \in Nat
        /\ visitors[k].last <= now
    BY <1>2, NoneIsNoVisitor DEF IInv, Times, TypeOK, Visitor
  <2>2. Credit(k) = IF visitors[k].tokens + (now - visitors[k].last) < Cap
                    THEN visitors[k].tokens + (now - visitors[k].last) ELSE Cap
    BY <1>2 DEF Credit, Tokens
  <2>3. Credit(k)' = IF visitors[k].tokens + (now + 1 - visitors[k].last) < Cap
                     THEN visitors[k].tokens + (now + 1 - visitors[k].last) ELSE Cap
    BY <1>0, <1>2, <2>1 DEF Credit, Tokens
  <2>4. Cap \in Nat
    OBVIOUS
  <2> HIDE LimiterAssumption
  <2> QED BY <1>0, <2>1, <2>2, <2>3, <2>4
<1> QED BY <1>1, <1>2

\* Eviction does not change a credit: the bucket was full.
LEMMA CleanupCredit ==
  ASSUME IInv, Cleanup, NEW k \in Keys
  PROVE  Credit(k)' = Credit(k)
<1> USE LimiterAssumption
<1>0. now \in Nat /\ now' = now
  BY DEF IInv, TypeOK, Cleanup
<1>1. CASE visitors[k] # None /\ visitors[k].lastSeen < now - TTL
  <2>1. visitors'[k] = None
    BY <1>1 DEF Cleanup
  <2>2. /\ visitors[k].tokens \in 0 .. Cap
        /\ visitors[k].last \in Nat
        /\ visitors[k].lastSeen \in Nat
        /\ visitors[k].last <= visitors[k].lastSeen
    BY <1>1, NoneIsNoVisitor DEF IInv, Times, TypeOK, Visitor
  <2>3. ~ (visitors[k].tokens + (now - visitors[k].last) < Cap)
    BY <1>0, <1>1, <2>2
  <2> QED BY <1>1, <2>1, <2>3 DEF Credit, Tokens
<1>2. CASE ~ (visitors[k] # None /\ visitors[k].lastSeen < now - TTL)
  BY <1>0, <1>2 DEF Credit, Tokens, Cleanup
<1> QED BY <1>1, <1>2

LEMMA AllowCredit ==
  ASSUME IInv, NEW k \in Keys, Allow(k), UNCHANGED now, NEW j \in Keys
  PROVE  /\ Credit(k) >= Interval =>
              /\ answer' = <<k, "allowed">>
              /\ Credit(j)' = IF j = k THEN Credit(k) - Interval ELSE Credit(j)
         /\ Credit(k) < Interval =>
              /\ answer' = <<k, "refused">>
              /\ Credit(j)' = Credit(j)
<1> USE LimiterAssumption
<1>0. /\ now \in Nat /\ now' = now
      /\ Tokens(Lookup(k)) = Credit(k) /\ Credit(k) \in 0 .. Cap
      /\ Lookup(k) \in Visitor
      /\ DOMAIN visitors = Keys
  BY LookupRange, CreditRange DEF IInv, TypeOK
<1>1. CASE j # k
  <2>1. visitors'[j] = visitors[j]
    BY <1>0, <1>1 DEF Allow
  <2> QED BY <1>0, <1>1, <2>1 DEF Credit, Tokens, Allow
<1>2. CASE j = k /\ Credit(k) >= Interval
  <2>1. /\ visitors'[k] = [tokens |-> Credit(k) - Interval, last |-> now, lastSeen |-> now]
        /\ answer' = <<k, "allowed">>
    BY <1>0, <1>2 DEF Allow
  <2>2. visitors'[k] # None
    <3>1. visitors'[k] \in Visitor
      BY <1>0, <1>2, <2>1 DEF Visitor
    <3> QED BY <3>1
  <2>3. Credit(k)' = Credit(k) - Interval
    BY <1>0, <2>1, <2>2, <1>2 DEF Credit, Tokens
  <2> QED BY <1>2, <2>1, <2>3, <1>0
<1>3. CASE j = k /\ Credit(k) < Interval
  <2>1. /\ visitors'[k] = [Lookup(k) EXCEPT !.lastSeen = now]
        /\ answer' = <<k, "refused">>
    BY <1>0, <1>3 DEF Allow
  <2>2. visitors'[k].tokens = Lookup(k).tokens /\ visitors'[k].last = Lookup(k).last
    BY <1>0, <2>1 DEF Visitor
  <2>3. visitors'[k] # None
    <3>1. visitors'[k] \in Visitor
      BY <1>0, <2>1 DEF Visitor
    <3> QED BY <3>1
  <2>4. Credit(k)' = Tokens(Lookup(k))
    BY <1>0, <2>2, <2>3 DEF Credit, Tokens
  <2> QED BY <1>0, <1>3, <2>1, <2>4
<1> QED BY <1>0, <1>1, <1>2, <1>3

\* Everything that Allow leaves in the map is a visitor, seen now.
LEMMA AllowTyped ==
  ASSUME IInv, NEW k \in Keys, Allow(k), UNCHANGED now
  PROVE  /\ visitors' \in [Keys -> Visitor \cup {None}]
         /\ Times'
<1> USE LimiterAssumption
<1>0. /\ now \in Nat /\ now' = now
      /\ Tokens(Lookup(k)) = Credit(k) /\ Credit(k) \in 0 .. Cap
      /\ Lookup(k) \in Visitor /\ Lookup(k).last <= now
      /\ visitors \in [Keys -> Visitor \cup {None}]
  BY LookupRange, CreditRange DEF IInv, TypeOK
<1>1. PICK w \in Visitor : /\ visitors' = [visitors EXCEPT ![k] = w]
                           /\ w.last <= w.lastSeen /\ w.lastSeen = now
  <2>1. CASE Credit(k) >= Interval
    <3> DEFINE w == [tokens |-> Credit(k) - Interval, last |-> now, lastSeen |-> now]
    <3>1. visitors' = [visitors EXCEPT ![k] = w]
      BY <1>0, <2>1 DEF Allow
    <3>2. w \in Visitor /\ w.last <= w.lastSeen /\ w.lastSeen = now
      BY <1>0, <2>1 DEF Visitor
    <3> QED BY <3>1, <3>2
  <2>2. CASE ~ (Credit(k) >= Interval)
    <3> DEFINE w == [Lookup(k) EXCEPT !.lastSeen = now]
    <3>1. visitors' = [visitors EXCEPT ![k] = w]
      BY <1>0, <2>2 DEF Allow
    <3>2. w \in Visitor /\ w.last <= w.lastSeen /\ w.lastSeen = now
      BY <1>0 DEF Visitor
    <3> QED BY <3>1, <3>2
  <2> QED BY <2>1, <2>2
<1>2. visitors' \in [Keys -> Visitor \cup {None}]
  BY <1>0, <1>1
<1>3. Times'
  BY <1>0, <1>1 DEF Times, IInv
<1> QED BY <1>2, <1>3

-----------------------------------------------------------------------------
LEMMA Initially == Init => IInv
<1> SUFFICES ASSUME Init PROVE IInv
  OBVIOUS
<1> USE LimiterAssumption DEF Init
<1>1. window.key \in Keys /\ window.start = 0 /\ window.allowed = 0
  OBVIOUS
<1>2. TypeOK
  BY DEF TypeOK
<1>3. Times
  BY DEF Times
<1>4. Spent
  <2>1. Credit(window.key) = Cap
    BY <1>1 DEF Credit
  <2>2. 0 * Interval = 0 /\ Interval \in Nat /\ Cap \in Nat
    BY SMT
  <2> QED BY <1>1, <2>1, <2>2 DEF Spent
<1> QED BY <1>2, <1>3, <1>4 DEF IInv

\* No step breaks the invariant.
LEMMA Inductive == IInv /\ [Next]_vars => IInv'
<1> SUFFICES ASSUME IInv, [Next]_vars PROVE IInv'
  OBVIOUS
<1> USE LimiterAssumption
<1>0. /\ now \in Nat
      /\ window \in [key : Keys, start : Nat, allowed : Nat]
      /\ window.start <= now
      /\ window.allowed * Interval \in Nat
      /\ Credit(window.key) \in 0 .. Cap
      /\ window.allowed * Interval + Credit(window.key) <= Cap + (now - window.start)
  <2>1. window \in [key : Keys, start : Nat, allowed : Nat]
    BY DEF IInv, TypeOK
  <2>2. window.allowed * Interval \in Nat
    BY <2>1
  <2> QED BY <2>1, <2>2, CreditRange DEF IInv, TypeOK, Spent
<1>1. CASE Tick
  <2>1. now' = now + 1 /\ UNCHANGED <<visitors, window>>
    BY <1>1 DEF Tick
  <2>2. TypeOK'
    BY <2>1, <1>0 DEF IInv, TypeOK
  <2>3. Times'
    BY <2>1, <1>0, NoneIsNoVisitor DEF IInv, Times, Visitor
  <2>4. Credit(window.key)' <= Credit(window.key) + 1 /\ Credit(window.key)' \in Nat
    <3>1. Credit(window.key)' = IF Credit(window.key) < Cap THEN Credit(window.key) + 1 ELSE Cap
      BY <1>0, <1>1, <2>1, TickCredit
    <3> QED BY <1>0, <3>1
  <2>5. Spent'
    BY <1>0, <2>1, <2>4 DEF Spent
  <2> QED BY <2>2, <2>3, <2>5 DEF IInv
<1>2. CASE Cleanup
  <2>1. UNCHANGED <<now, window>>
    BY <1>2 DEF Cleanup
  <2>2. TypeOK'
    BY <1>2, <2>1 DEF IInv, TypeOK, Cleanup
  <2>3. Times'
    BY <1>2, <2>1 DEF IInv, Times, TypeOK, Cleanup
  <2>4. Credit(window.key)' = Credit(window.key)
    BY <1>0, <1>2, <2>1, CleanupCredit
  <2>5. Spent'
    BY <1>0, <2>1, <2>4 DEF Spent
  <2> QED BY <2>2, <2>3, <2>5 DEF IInv
<1>3. ASSUME NEW r \in Keys, NEW f \in Keys \cup {None}, rateLimited(r, f)
      PROVE  IInv'
  <2> DEFINE k == clientIP(r, f)
  <2>1. k \in Keys /\ Allow(k) /\ now' = now
    BY <1>3, ClientIsKey DEF rateLimited
  <2> HIDE DEF k
  <2>2. Tokens(Lookup(k)) = Credit(k) /\ Credit(k) \in 0 .. Cap
    BY <2>1, LookupRange, CreditRange
  <2>3. visitors' \in [Keys -> Visitor \cup {None}] /\ Times'
    BY <2>1, AllowTyped
  <2>4. CASE Credit(k) >= Interval /\ window.key = k
    <3>1. window' = [window EXCEPT !.allowed = window.allowed + 1]
      BY <2>1, <2>2, <2>4 DEF Allow
    <3>2. /\ window' \in [key : Keys, start : Nat, allowed : Nat]
          /\ window'.key = k /\ window'.start = window.start
          /\ window'.allowed = window.allowed + 1
      BY <1>0, <2>4, <3>1
    <3>3. Credit(k)' = Credit(k) - Interval
      BY <2>1, <2>4, AllowCredit
    <3>4. window'.allowed * Interval = window.allowed * Interval + Interval
      BY <1>0, <3>2, OneMore
    <3>5. Spent'
      <4>1. Credit(window.key)' = Credit(k) - Interval
        BY <3>2, <3>3 DEF Credit, Tokens
      <4>2. Interval \in Nat /\ Cap \in Nat
        OBVIOUS
      <4> HIDE LimiterAssumption
      <4> QED BY <1>0, <2>1, <2>2, <2>4, <3>2, <3>4, <4>1, <4>2 DEF Spent
    <3> QED BY <1>0, <2>1, <2>3, <3>2, <3>5 DEF IInv, TypeOK
  <2>5. CASE ~ (Credit(k) >= Interval /\ window.key = k)
    <3>1. window' = window
      BY <2>1, <2>2, <2>5 DEF Allow
    <3>2. Credit(window.key)' = Credit(window.key)
      <4>1. CASE Credit(k) < Interval
        BY <1>0, <2>1, <3>1, <4>1, AllowCredit
      <4>2. CASE ~ (Credit(k) < Interval)
        <5>1. window.key # k /\ Credit(k) >= Interval
          BY <2>2, <2>5, <4>2
        <5> QED BY <1>0, <2>1, <3>1, <5>1, AllowCredit
      <4> QED BY <4>1, <4>2
    <3>3. Spent'
      BY <1>0, <2>1, <3>1, <3>2 DEF Spent
    <3> QED BY <1>0, <2>1, <2>3, <3>1, <3>3 DEF IInv, TypeOK
  <2> QED BY <2>4, <2>5
<1>4. ASSUME NEW k \in Keys, OpenWindow(k) PROVE IInv'
  <2>1. /\ window' = [key |-> k, start |-> now, allowed |-> 0]
        /\ now' = now /\ visitors' = visitors
    BY <1>4 DEF OpenWindow
  <2>2. TypeOK' /\ Times'
    BY <1>0, <2>1 DEF IInv, TypeOK, Times
  <2>3. Credit(window.key)' = Credit(k)
    BY <2>1 DEF Credit, Tokens
  <2>4. Credit(k) \in 0 .. Cap /\ 0 * Interval = 0
    BY CreditRange, SMT
  <2>5. Spent'
    BY <1>0, <2>1, <2>3, <2>4 DEF Spent
  <2> QED BY <2>2, <2>5 DEF IInv
<1>5. CASE UNCHANGED vars
  <2>1. Credit(window.key)' = Credit(window.key)
    BY <1>5 DEF vars, Credit, Tokens
  <2> QED BY <1>5, <2>1 DEF vars, IInv, TypeOK, Times, Spent
<1> QED BY <1>1, <1>2, <1>3, <1>4, <1>5 DEF Next

\* The map only ever holds well-formed visitors whose tokens are between 0
\* and the burst.
THEOREM LimiterTypeOK == Spec => []TypeOK
<1>1. IInv => TypeOK
  BY DEF IInv
<1> QED BY Initially, Inductive, <1>1, PTL DEF Spec

\* In every window of time a key gets no more than the burst and one event
\* per Interval, for every rate, burst and TTL that leave a bucket the time
\* to fill: New's "`perMinute` events per key with the given burst".
THEOREM LimiterWindowBound == Spec => []WindowBound
<1>1. IInv => WindowBound
  <2> SUFFICES ASSUME IInv PROVE WindowBound
    OBVIOUS
  <2>1. Credit(window.key) >= 0 /\ Credit(window.key) \in Int
    BY CreditRange, LimiterAssumption DEF IInv, TypeOK
  <2>2. window.allowed * Interval \in Int
    BY LimiterAssumption DEF IInv, TypeOK
  <2>3. now \in Int /\ window.start \in Int /\ Cap \in Int
    BY LimiterAssumption DEF IInv, TypeOK
  <2> QED BY <2>1, <2>2, <2>3 DEF IInv, Spent, WindowBound
<1> QED BY Initially, Inductive, <1>1, PTL DEF Spec

\* Evicting idle visitors and refilling on demand are invisible: the limiter
\* implements the bucket that is never forgotten.
THEOREM LimiterImplementsTokenBucket == Spec => ImplementsTokenBucket
<1> DEFINE credit == [k \in Keys |-> Credit(k)]
<1> USE LimiterAssumption
<1>1. Init => Bucket!Init
  BY DEF Init, Bucket!Init, Credit
<1>2. ASSUME IInv, [Next]_vars PROVE [Bucket!Next]_<<credit, answer>>
  <2>1. CASE Tick
    BY <1>2, <2>1, TickCredit DEF Bucket!Next, Bucket!Tick, Tick
  <2>2. CASE Cleanup
    BY <1>2, <2>2, CleanupCredit DEF Cleanup
  <2>3. ASSUME NEW r \in Keys, NEW f \in Keys \cup {None}, rateLimited(r, f)
        PROVE  Bucket!Next
    <3> DEFINE k == clientIP(r, f)
    <3>1. k \in Keys /\ Allow(k) /\ now' = now
      BY <2>3, ClientIsKey DEF rateLimited
    <3> HIDE DEF k
    <3>2. CASE Credit(k) >= Interval
      <4>1. \A j \in Keys : Credit(j)' = IF j = k THEN Credit(k) - Interval ELSE Credit(j)
        BY <1>2, <3>1, <3>2, AllowCredit
      <4>2. answer' = <<k, "allowed">>
        BY <1>2, <3>1, <3>2, AllowCredit
      <4>3. Bucket!Grant(k)
        BY <3>1, <3>2, <4>1, <4>2 DEF Bucket!Grant
      <4> QED BY <3>1, <4>3 DEF Bucket!Next
    <3>3. CASE Credit(k) < Interval
      <4>1. \A j \in Keys : Credit(j)' = Credit(j)
        BY <1>2, <3>1, <3>3, AllowCredit
      <4>2. answer' = <<k, "refused">>
        BY <1>2, <3>1, <3>3, AllowCredit
      <4>3. Bucket!Refuse(k)
        BY <3>1, <3>3, <4>1, <4>2 DEF Bucket!Refuse
      <4> QED BY <3>1, <4>3 DEF Bucket!Next
    <3> QED BY <1>2, <3>1, <3>2, <3>3, CreditRange
  <2>4. ASSUME NEW k \in Keys, OpenWindow(k) PROVE UNCHANGED <<credit, answer>>
    BY <2>4 DEF OpenWindow, Credit, Tokens
  <2>5. CASE UNCHANGED vars
    BY <2>5 DEF vars, Credit, Tokens
  <2> QED BY <1>2, <2>1, <2>2, <2>3, <2>4, <2>5 DEF Next
<1> QED BY Initially, Inductive, <1>1, <1>2, PTL
        DEF Spec, ImplementsTokenBucket, Bucket!Spec

=============================================================================
