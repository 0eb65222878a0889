---------------------------- MODULE TokenBucket ----------------------------
(***************************************************************************)
(* What the rate limiter of the authentication endpoints promises: one     *)
(* bucket per client for all time, that fills by one unit per tick up to   *)
(* Cap and of which a request takes Cost units or is refused.              *)
(***************************************************************************)
EXTENDS Integers

CONSTANTS Keys, Cost, Cap

VARIABLES credit, answer

Init ==
  /\ credit = [k \in Keys |-> Cap]
  /\ answer = <<>>

Tick ==
  /\ credit' = [k \in Keys |-> IF credit[k] < Cap THEN credit[k] + 1 ELSE Cap]
  /\ UNCHANGED answer

Grant(k) ==
  /\ credit[k] >= Cost
  /\ credit' = [credit EXCEPT ![k] = credit[k] - Cost]
  /\ answer' = <<k, "allowed">>

Refuse(k) ==
  /\ credit[k] < Cost
  /\ answer' = <<k, "refused">>
  /\ UNCHANGED credit

Next == Tick \/ \E k \in Keys : Grant(k) \/ Refuse(k)

Spec == Init /\ [][Next]_<<credit, answer>>
=============================================================================
