---------------------------- MODULE MCLeaseStore ----------------------------
(* Instances of LeaseStore for TLC: words of 16 values, one country. *)
EXTENDS LeaseStore, TLC

OneCountry == {"de"}
CountryMap == [g \in Gateways |-> "de"]

\* A /29 of the small word: five host addresses; capacities 1 and 2.
Block8 == [base |-> 8, mask |-> 8]
\* A /30: one host address.
Block4 == [base |-> 4, mask |-> 12]

RoomForTwo == {[subnet |-> Block8, capacity |-> 2, bandwidth |-> 0]}
RoomForOne == {[subnet |-> Block8, capacity |-> 1, bandwidth |-> 0]}
TwoBlocks == {[subnet |-> b, capacity |-> 2, bandwidth |-> 1] : b \in {Block4, Block8}}

\* Connects against each other and against the agents, without the clock, the
\* reaper and revocation, so that three connects fit.
RequestNext ==
  \/ \E c \in Conns : CreateConnection(c)
  \/ \E x \in Conns : ReleaseConnection(x)
  \/ \E g \in Gateways, r \in Registrations : RegisterGateway(g, r)
  \/ \E g \in Gateways, l \in TrafficLevels : Heartbeat(g, l)
  \/ \E g \in Gateways : DeregisterGateway(g)

RequestSpec == Init /\ [][RequestNext]_vars

\* Connects and the reaper against each other, with failing sweeps and
\* restarts: what can make somebody wait.  Leases end by the sweeps only.
WaitingNext ==
  \/ Tick
  \/ \E c \in Conns : CreateConnection(c)
  \/ \E x \in Conns : RenewConnection(x)
  \/ \E g \in Gateways, r \in Registrations : RegisterGateway(g, r)
  \/ \E g \in Gateways, l \in TrafficLevels : Heartbeat(g, l)
  \/ Reap
  \/ SweepError
  \/ Crash

WaitingSpec == Init /\ [][WaitingNext]_vars /\ Fairness

Symmetry == Permutations(Conns) \cup Permutations(Devices)
=============================================================================
