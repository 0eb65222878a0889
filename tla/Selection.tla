----------------------------- MODULE Selection -----------------------------
(***************************************************************************)
(* The gateway selection policy (control-plane/internal/selection).  A     *)
(* candidate is a record with the fields the policy reads:                 *)
(*   active     active leases on the gateway (ActivePeers)                 *)
(*   capacity   maximum number of peers                                    *)
(*   bandwidth  advertised uplink, 0 when the gateway advertises none      *)
(*   traffic    rx + tx, in the unit of bandwidth                          *)
(* Scores are floats in 0..1 in the code; here they are exact fractions    *)
(* <<numerator, denominator>>, compared by cross-multiplication.           *)
(***************************************************************************)
EXTENDS Integers, Sequences

LoadWeight == 7        \* DefaultWeights.Load      = 0.7
BandwidthWeight == 3   \* DefaultWeights.Bandwidth = 0.3

Candidate == [active : Nat, capacity : Nat, bandwidth : Nat, traffic : Nat]

HeadroomInverted(used, total) == IF used >= total THEN total ELSE used

\* clamp01(1 - used/total) as a fraction of total; clamp01 only cuts below
\* because used is never negative.
Headroom(used, total) == IF used >= total THEN 0 ELSE total - used

\* FitnessWithWeights under DefaultWeights.
Fitness(g) ==
  LET load == Headroom(g.active, g.capacity)
      bw   == Headroom(g.traffic, g.bandwidth)
  IN IF g.capacity <= 0 THEN <<0, 1>>
     ELSE IF g.bandwidth > 0
     THEN <<LoadWeight * load * g.bandwidth + BandwidthWeight * bw * g.capacity,
            (LoadWeight + BandwidthWeight) * g.capacity * g.bandwidth>>
     ELSE <<load, g.capacity>>

Greater(p, q) == p[1] * q[2] > q[1] * p[2]
GreaterOrEqual(p, q) == p[1] * q[2] >= q[1] * p[2]

\* The two "continue" conditions of Best.  A capacity of 0 is not a limit.
\* Callers pass healthy gateways only, so the status test is theirs.
HasRoom(g) == ~ (g.capacity > 0 /\ g.active >= g.capacity)

ReplacesOrTies(cands, i, best) ==
  /\ HasRoom(cands[i])
  /\ best = 0 \/ GreaterOrEqual(Fitness(cands[i]), Fitness(cands[best]))

\* The loop's test: candidate i is taken in place of the best one so far.  No
\* candidate yet is a score of -1, which every score exceeds.
Replaces(cands, i, best) ==
  /\ HasRoom(cands[i])
  /\ best = 0 \/ Greater(Fitness(cands[i]), Fitness(cands[best]))

\* The best candidate after each iteration of Best's loop.
Scan(cands) ==
  LET scan[i \in 0 .. Len(cands)] ==
        IF i = 0 THEN 0
        ELSE IF Replaces(cands, i, scan[i-1]) THEN i ELSE scan[i-1]
  IN scan

\* Best as the code computes it: one pass over the candidates that keeps the
\* first one of the highest score; 0 stands for ok = false.
BestIndex(cands) == Scan(cands)[Len(cands)]

\* What Best may return when the database returns the rows of G in an
\* unspecified order: any gateway of the highest score.  cand[g] is the
\* candidate record of gateway g.
BestOf(G, cand) ==
  {g \in G : /\ HasRoom(cand[g])
             /\ \A h \in G : HasRoom(cand[h]) =>
                               GreaterOrEqual(Fitness(cand[g]), Fitness(cand[h]))}

=============================================================================
