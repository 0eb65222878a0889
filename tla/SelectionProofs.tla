--------------------------- MODULE SelectionProofs ---------------------------
(***************************************************************************)
(* Proofs about Selection, for lists of candidates of any length with any  *)
(* figures.  Best is a loop, modelled by a recursive function; its proof   *)
(* is an induction over the iterations, which is carried out on the set of *)
(* iterations at which a claim fails: if it is not empty it has a least    *)
(* element, and the step from the one before refutes it.                   *)
(***************************************************************************)
EXTENDS MCAlgorithms, WellFoundedInduction, TLAPS

-----------------------------------------------------------------------------
(* Induction. *)

LEMMA LeastNat ==
  ASSUME NEW T \in SUBSET Nat, T # {}
  PROVE  \E m \in T : \A k \in T : m <= k
<1> DEFINE R == OpToRel(<, Nat)
<1>1. \A x, y \in Nat : <<x, y>> \in R <=> x < y
  BY DEF OpToRel
<1>2. IsWellFoundedOn(R, Nat)
  BY NatLessThanWellFounded
<1> HIDE DEF R
<1>3. PICK m \in T : \A y \in T : ~ (<<y, m>> \in R)
  BY <1>2, WFMin
<1>4. \A k \in T : ~ (k < m)
  BY <1>1, <1>3
<1>5. \A k \in T : m <= k
  BY <1>4
<1> QED
  BY <1>5

\* Induction up to n: a set of numbers that has 0 and is closed under +1 up
\* to n holds all of 0 .. n.
LEMMA InductionUpTo ==
  ASSUME NEW n \in Nat, NEW S, 0 \in S,
         \A k \in 0 .. n - 1 : k \in S => k + 1 \in S
  PROVE  0 .. n \subseteq S
<1> DEFINE T == (0 .. n) \ S
<1> SUFFICES ASSUME T # {} PROVE FALSE
  OBVIOUS
<1>1. T \in SUBSET Nat
  OBVIOUS
<1> HIDE DEF T
<1>2. PICK m \in T : \A k \in T : m <= k
  BY <1>1, LeastNat
<1>3. m \in 1 .. n /\ m \notin S
  BY <1>2 DEF T
<1>4. m - 1 \in S
  BY <1>2, <1>3 DEF T
<1> QED
  BY <1>3, <1>4

-----------------------------------------------------------------------------
(* The loop of Best: the recursive function satisfies its equation. *)

IsScan(s, n, f) ==
  f = [i \in 0 .. n |-> IF i = 0 THEN 0
                        ELSE IF Replaces(s, i, f[i-1]) THEN i ELSE f[i-1]]

LEMMA ScanExists ==
  ASSUME NEW s, NEW n \in Nat
  PROVE  \E f : IsScan(s, n, f)
<1> DEFINE S == {k \in Nat : \E f : IsScan(s, k, f)}
<1>1. 0 \in S
  <2>1. IsScan(s, 0, [i \in 0 .. 0 |-> 0])
    BY DEF IsScan
  <2> QED
    BY <2>1
<1>2. ASSUME NEW k \in 0 .. n - 1, k \in S PROVE k + 1 \in S
  <2>1. PICK f : IsScan(s, k, f)
    BY <1>2
  <2> DEFINE g == [i \in 0 .. k + 1 |->
                     IF i <= k THEN f[i]
                     ELSE IF Replaces(s, k + 1, f[k]) THEN k + 1 ELSE f[k]]
  <2>2. \A i \in 0 .. k : g[i] = f[i]
    OBVIOUS
  <2>3. g[k + 1] = IF Replaces(s, k + 1, g[k]) THEN k + 1 ELSE g[k]
    BY <2>2
  <2>4. \A i \in 0 .. k : f[i] = IF i = 0 THEN 0
                                 ELSE IF Replaces(s, i, f[i-1]) THEN i ELSE f[i-1]
    BY <2>1 DEF IsScan
  <2>5. g = [i \in 0 .. k + 1 |-> g[i]]
    OBVIOUS
  <2> HIDE DEF g
  <2>6. \A i \in 0 .. k + 1 : g[i] = IF i = 0 THEN 0
                                     ELSE IF Replaces(s, i, g[i-1]) THEN i ELSE g[i-1]
    BY <2>2, <2>3, <2>4
  <2>7. IsScan(s, k + 1, g)
    BY <2>5, <2>6 DEF IsScan
  <2> QED
    BY <2>7
<1> HIDE DEF S
<1>3. n \in S
  BY <1>1, <1>2, InductionUpTo
<1> QED
  BY <1>3 DEF S

\* The iterations of the loop.
LEMMA ScanIterates ==
  ASSUME NEW s \in Seq(Candidate)
  PROVE  /\ Scan(s)[0] = 0
         /\ \A i \in 1 .. Len(s) :
              Scan(s)[i] = IF Replaces(s, i, Scan(s)[i-1]) THEN i ELSE Scan(s)[i-1]
<1>1. Len(s) \in Nat
  OBVIOUS
<1>2. Scan(s) = CHOOSE f : IsScan(s, Len(s), f)
  BY DEF Scan, IsScan
<1>3. IsScan(s, Len(s), Scan(s))
  BY <1>1, <1>2, ScanExists
<1> HIDE DEF Scan
<1> QED
  BY <1>1, <1>3 DEF IsScan
-----------------------------------------------------------------------------
(* Scores: fractions with a positive denominator, and their order. *)

Fraction == Nat \X (Nat \ {0})

\* A product with a positive factor keeps and reflects the order.
LEMMA TimesPositive ==
  ASSUME NEW x \in Int, NEW y \in Int, NEW z \in Nat \ {0}
  PROVE  /\ x >= y <=> x * z >= y * z
         /\ x > y <=> x * z > y * z
OBVIOUS

LEMMA FractionsCompare ==
  ASSUME NEW p \in Fraction, NEW q \in Fraction
  PROVE  /\ GreaterOrEqual(p, p)
         /\ Greater(p, q) <=> ~ GreaterOrEqual(q, p)
         /\ Greater(p, q) => GreaterOrEqual(p, q)
<1>1. p[1] \in Nat /\ q[1] \in Nat /\ p[2] \in Nat \ {0} /\ q[2] \in Nat \ {0}
  BY DEF Fraction
<1> QED
  BY <1>1 DEF Greater, GreaterOrEqual

LEMMA FractionOrder ==
  ASSUME NEW p \in Fraction, NEW q \in Fraction, NEW r \in Fraction
  PROVE  /\ GreaterOrEqual(p, q) /\ GreaterOrEqual(q, r) => GreaterOrEqual(p, r)
         /\ GreaterOrEqual(p, q) /\ Greater(q, r) => Greater(p, r)
         /\ Greater(p, q) /\ GreaterOrEqual(q, r) => Greater(p, r)
<1>1. /\ p[1] \in Nat /\ q[1] \in Nat /\ r[1] \in Nat
      /\ p[2] \in Nat \ {0} /\ q[2] \in Nat \ {0} /\ r[2] \in Nat \ {0}
  BY DEF Fraction
<1>2. ASSUME NEW a \in Nat, NEW b \in Nat \ {0}, NEW c \in Nat, NEW d \in Nat \ {0},
             NEW e \in Nat, NEW f \in Nat \ {0},
             a * d >= c * b, c * f >= e * d
      PROVE  /\ a * f >= e * b
             /\ a * d > c * b \/ c * f > e * d => a * f > e * b
  <2> DEFINE u == a * f
             v == e * b
             x == c * b
             y == c * f
  <2>1. u \in Nat /\ v \in Nat /\ x \in Nat /\ y \in Nat /\ x * f = y * b
    BY Z3
  <2>2. (a * d) * f >= x * f /\ y * b >= (e * d) * b
    BY <1>2, TimesPositive
  <2>3. (a * d) * f = u * d /\ (e * d) * b = v * d
    BY Z3
  <2>4. u * d >= v * d
    BY <2>1, <2>2, <2>3
  <2>5. ASSUME a * d > c * b \/ c * f > e * d PROVE u * d > v * d
    <3>1. (a * d) * f > x * f \/ y * b > (e * d) * b
      BY <2>5, TimesPositive
    <3> QED
      BY <2>1, <2>2, <2>3, <3>1
  <2> HIDE DEF u, v
  <2>6. u >= v /\ (a * d > c * b \/ c * f > e * d => u > v)
    BY <2>1, <2>4, <2>5, TimesPositive
  <2> QED
    BY <2>6 DEF u, v
<1>3. GreaterOrEqual(p, q) /\ GreaterOrEqual(q, r) =>
        /\ GreaterOrEqual(p, r)
        /\ Greater(p, q) \/ Greater(q, r) => Greater(p, r)
  BY <1>1, <1>2 DEF Greater, GreaterOrEqual
<1> QED
  BY <1>3, FractionsCompare

LEMMA FitnessIsFraction ==
  ASSUME NEW g \in Candidate
  PROVE  Fitness(g) \in Fraction
<1> DEFINE load == Headroom(g.active, g.capacity)
           bw   == Headroom(g.traffic, g.bandwidth)
<1>1. g.active \in Nat /\ g.capacity \in Nat /\ g.bandwidth \in Nat /\ g.traffic \in Nat
  BY DEF Candidate
<1>2. load \in Nat /\ bw \in Nat
  BY <1>1 DEF Headroom
<1> HIDE DEF load, bw
<1>3. CASE g.capacity <= 0
  BY <1>3 DEF Fitness, Fraction
<1>4. CASE g.capacity > 0 /\ g.bandwidth <= 0
  BY <1>1, <1>2, <1>4 DEF Fitness, Fraction, load
<1>5. CASE g.capacity > 0 /\ g.bandwidth > 0
  <2>1. g.capacity * g.bandwidth \in Nat \ {0}
    BY <1>1, <1>5
  <2>2. 10 * g.capacity * g.bandwidth \in Nat \ {0}
    BY <1>1, <2>1
  <2>3. 7 * load * g.bandwidth + 3 * bw * g.capacity \in Nat
    BY <1>1, <1>2
  <2>4. Fitness(g) = <<7 * load * g.bandwidth + 3 * bw * g.capacity,
                       10 * g.capacity * g.bandwidth>>
    BY <1>1, <1>5 DEF Fitness, LoadWeight, BandwidthWeight, load, bw
  <2> QED
    BY <2>2, <2>3, <2>4 DEF Fraction
<1> QED
  BY <1>1, <1>3, <1>4, <1>5
\* Less load never lowers the score of a gateway and leaves it its room.
LEMMA LessLoadScoresHigher ==
  ASSUME NEW g \in Candidate, NEW a \in 0 .. g.active, NEW t \in 0 .. g.traffic
  PROVE  LET h == [g EXCEPT !.active = a, !.traffic = t]
         IN /\ h \in Candidate
            /\ GreaterOrEqual(Fitness(h), Fitness(g))
            /\ HasRoom(g) => HasRoom(h)
<1> DEFINE h == [g EXCEPT !.active = a, !.traffic = t]
           load(c) == Headroom(c.active, c.capacity)
           bw(c)   == Headroom(c.traffic, c.bandwidth)
<1>1. g.active \in Nat /\ g.capacity \in Nat /\ g.bandwidth \in Nat /\ g.traffic \in Nat
  BY DEF Candidate
<1>2. h.active = a /\ h.traffic = t /\ h.capacity = g.capacity /\ h.bandwidth = g.bandwidth
  BY DEF Candidate
<1>3. h \in Candidate
  <2> DEFINE f == [g EXCEPT !.active = a]
  <2>1. a \in Nat /\ t \in Nat
    BY <1>1
  <2>2. f \in Candidate
    BY <2>1 DEF Candidate
  <2>3. h = [f EXCEPT !.traffic = t]
    OBVIOUS
  <2> HIDE DEF f
  <2> QED
    BY <2>1, <2>2, <2>3 DEF Candidate
<1>4. HasRoom(g) => HasRoom(h)
  BY <1>1, <1>2 DEF HasRoom
<1>5. /\ load(g) \in Nat /\ load(h) \in Nat /\ load(h) >= load(g)
      /\ bw(g) \in Nat /\ bw(h) \in Nat /\ bw(h) >= bw(g)
  BY <1>1, <1>2 DEF Headroom
<1>6. Fitness(g) \in Fraction /\ Fitness(h) \in Fraction
  BY <1>3, FitnessIsFraction
<1> HIDE DEF h
<1>7. Fitness(h)[2] = Fitness(g)[2] /\ Fitness(h)[1] >= Fitness(g)[1]
  <2> DEFINE lg == load(g)
             lh == load(h)
             bg == bw(g)
             bh == bw(h)
             c == g.capacity
             w == g.bandwidth
  <2>1. CASE c <= 0
    BY <1>1, <1>2, <2>1 DEF Fitness
  <2>2. CASE c > 0 /\ w <= 0
    BY <1>1, <1>2, <1>5, <2>2 DEF Fitness
  <2>3. CASE c > 0 /\ w > 0
    <3>1. /\ Fitness(g) = <<7 * lg * w + 3 * bg * c, 10 * c * w>>
          /\ Fitness(h) = <<7 * lh * w + 3 * bh * c, 10 * c * w>>
      BY <1>1, <1>2, <2>3 DEF Fitness, LoadWeight, BandwidthWeight
    <3>2. lh * w >= lg * w /\ bh * c >= bg * c
      <4> HIDE DEF load, bw
      <4> QED
        BY <1>1, <1>5, <2>3, TimesPositive
    <3>3. 7 * lh * w + 3 * bh * c >= 7 * lg * w + 3 * bg * c
      <4> HIDE DEF lg, lh, bg, bh, c, w
      <4>1. lg \in Nat /\ lh \in Nat /\ bg \in Nat /\ bh \in Nat /\ c \in Nat /\ w \in Nat
        BY <1>1, <1>5 DEF lg, lh, bg, bh, c, w
      <4> QED
        BY <3>2, <4>1
    <3> QED
      BY <3>1, <3>3
  <2> QED
    BY <1>1, <2>1, <2>2, <2>3
<1>8. GreaterOrEqual(Fitness(h), Fitness(g))
  BY <1>6, <1>7, TimesPositive DEF GreaterOrEqual, Fraction
<1> QED
  BY <1>3, <1>4, <1>8 DEF h

-----------------------------------------------------------------------------
(* What the loop computes. *)

Score(s, i) == Fitness(s[i])

\* The loop invariant: b is the first of the best among the first n rows.
FirstBest(s, n, b) ==
  /\ b \in 0 .. n
  /\ b = 0 => \A j \in 1 .. n : ~ HasRoom(s[j])
  /\ b # 0 => /\ HasRoom(s[b])
              /\ \A j \in 1 .. n : HasRoom(s[j]) =>
                   /\ GreaterOrEqual(Score(s, b), Score(s, j))
                   /\ j < b => Greater(Score(s, b), Score(s, j))

LEMMA ScoresAreFractions ==
  ASSUME NEW s \in Seq(Candidate)
  PROVE  \A i \in 1 .. Len(s) : Score(s, i) \in Fraction
BY FitnessIsFraction DEF Score

LEMMA LoopInvariant ==
  ASSUME NEW s \in Seq(Candidate)
  PROVE  FirstBest(s, Len(s), BestIndex(s))
<1> DEFINE S == {k \in Nat : FirstBest(s, k, Scan(s)[k])}
<1>1. Len(s) \in Nat
  OBVIOUS
<1>2. 0 \in S
  BY ScanIterates DEF FirstBest
<1>3. ASSUME NEW k \in 0 .. Len(s) - 1, k \in S PROVE k + 1 \in S
  <2> DEFINE b == Scan(s)[k]
             i == k + 1
  <2>1. FirstBest(s, k, b) /\ i \in 1 .. Len(s)
    BY <1>1, <1>3
  <2>2. Scan(s)[i] = IF Replaces(s, i, b) THEN i ELSE b
    BY <1>1, ScanIterates
  <2> HIDE DEF b
  <2>3. b \in 0 .. k /\ Score(s, i) \in Fraction /\ (b # 0 => Score(s, b) \in Fraction)
    BY <1>1, <2>1, ScoresAreFractions DEF FirstBest
  <2>4. \A j \in 1 .. k : Score(s, j) \in Fraction
    BY <1>1, ScoresAreFractions
  <2>5. CASE Replaces(s, i, b)
    <3>1. HasRoom(s[i]) /\ (b = 0 \/ Greater(Score(s, i), Score(s, b)))
      BY <2>5 DEF Replaces, Score
    <3>2. ASSUME NEW j \in 1 .. k, HasRoom(s[j]) PROVE Greater(Score(s, i), Score(s, j))
      <4>1. b # 0 /\ GreaterOrEqual(Score(s, b), Score(s, j))
        BY <2>1, <3>2 DEF FirstBest
      <4> QED
        BY <2>3, <2>4, <3>1, <4>1, FractionOrder
    <3>3. GreaterOrEqual(Score(s, i), Score(s, i))
          /\ \A j \in 1 .. k : Greater(Score(s, i), Score(s, j))
                                 => GreaterOrEqual(Score(s, i), Score(s, j))
      BY <2>3, <2>4, FractionsCompare
    <3>4. FirstBest(s, i, i)
      BY <3>1, <3>2, <3>3 DEF FirstBest
    <3> QED
      BY <2>2, <2>5, <3>4
  <2>6. CASE ~ Replaces(s, i, b)
    <3>1. ~ HasRoom(s[i]) \/ (b # 0 /\ ~ Greater(Score(s, i), Score(s, b)))
      BY <2>6 DEF Replaces, Score
    <3>2. b # 0 /\ HasRoom(s[i]) => GreaterOrEqual(Score(s, b), Score(s, i))
      BY <2>3, <3>1, FractionsCompare
    <3>3. FirstBest(s, i, b)
      BY <2>1, <2>3, <3>1, <3>2 DEF FirstBest
    <3> QED
      BY <2>2, <2>6, <3>3
  <2> QED
    BY <2>5, <2>6
<1> HIDE DEF S
<1>4. 0 .. Len(s) \subseteq S
  <2> DEFINE n == Len(s)
  <2>1. n \in Nat /\ \A k \in 0 .. n - 1 : k \in S => k + 1 \in S
    BY <1>1, <1>3
  <2> HIDE DEF n
  <2>2. 0 .. n \subseteq S
    BY <1>2, <2>1, InductionUpTo
  <2> QED
    BY <2>2 DEF n
<1> QED
  BY <1>1, <1>4 DEF S, BestIndex

\* There is one first best row.
LEMMA FirstBestIsUnique ==
  ASSUME NEW s \in Seq(Candidate), NEW b, NEW c,
         FirstBest(s, Len(s), b), FirstBest(s, Len(s), c)
  PROVE  b = c
<1>1. b \in 0 .. Len(s) /\ c \in 0 .. Len(s) /\ Len(s) \in Nat
  BY DEF FirstBest
<1>2. CASE b = 0 \/ c = 0
  BY <1>1, <1>2 DEF FirstBest
<1>3. CASE b # 0 /\ c # 0
  <2>1. Score(s, b) \in Fraction /\ Score(s, c) \in Fraction
    BY <1>1, <1>3, ScoresAreFractions
  <2>2. GreaterOrEqual(Score(s, b), Score(s, c)) /\ GreaterOrEqual(Score(s, c), Score(s, b))
    BY <1>1, <1>3 DEF FirstBest
  <2>3. ~ Greater(Score(s, b), Score(s, c)) /\ ~ Greater(Score(s, c), Score(s, b))
    BY <2>1, <2>2, FractionsCompare
  <2>4. ~ (b < c) /\ ~ (c < b)
    BY <1>1, <1>3, <2>3 DEF FirstBest
  <2> QED
    BY <1>1, <2>4
<1> QED
  BY <1>2, <1>3
\* The rows that BestOf admits are those that the loop invariant compares.
LEMMA BestOfRows ==
  ASSUME NEW s \in Seq(Candidate), NEW b, FirstBest(s, Len(s), b)
  PROVE  /\ b = 0 => BestOf(1 .. Len(s), s) = {}
         /\ b # 0 => /\ b \in BestOf(1 .. Len(s), s)
                     /\ \A i \in BestOf(1 .. Len(s), s) : b <= i
<1>1. b \in 0 .. Len(s) /\ Len(s) \in Nat
  BY DEF FirstBest
<1>2. b = 0 => BestOf(1 .. Len(s), s) = {}
  BY DEF FirstBest, BestOf
<1>3. ASSUME b # 0 PROVE b \in BestOf(1 .. Len(s), s)
  BY <1>1, <1>3 DEF FirstBest, BestOf, Score
<1>4. ASSUME b # 0, NEW i \in BestOf(1 .. Len(s), s) PROVE b <= i
  <2>1. i \in 1 .. Len(s) /\ HasRoom(s[i]) /\ GreaterOrEqual(Score(s, i), Score(s, b))
    BY <1>1, <1>4 DEF FirstBest, BestOf, Score
  <2>2. Score(s, b) \in Fraction /\ Score(s, i) \in Fraction
    BY <1>1, <1>4, <2>1, ScoresAreFractions
  <2>3. ~ Greater(Score(s, b), Score(s, i))
    BY <2>1, <2>2, FractionsCompare
  <2> QED
    BY <1>1, <1>4, <2>1, <2>3 DEF FirstBest
<1> QED
  BY <1>2, <1>3, <1>4

\* The row that wins also wins with fewer peers or less traffic.
LEMMA LighterWinnerIsFirstBest ==
  ASSUME NEW s \in Seq(Candidate), NEW b \in 1 .. Len(s), FirstBest(s, Len(s), b),
         NEW a \in 0 .. s[b].active, NEW t \in 0 .. s[b].traffic
  PROVE  LET r == [s EXCEPT ![b].active = a, ![b].traffic = t]
         IN r \in Seq(Candidate) /\ Len(r) = Len(s) /\ FirstBest(r, Len(r), b)
<1> DEFINE r == [s EXCEPT ![b].active = a, ![b].traffic = t]
           h == [s[b] EXCEPT !.active = a, !.traffic = t]
<1>1. s[b] \in Candidate /\ Len(s) \in Nat
  OBVIOUS
<1>2. /\ h \in Candidate
      /\ GreaterOrEqual(Fitness(h), Fitness(s[b]))
      /\ HasRoom(s[b]) => HasRoom(h)
  BY <1>1, LessLoadScoresHigher
<1>3. r = [s EXCEPT ![b] = h]
  OBVIOUS
<1> HIDE DEF r, h
<1>4. r \in Seq(Candidate) /\ Len(r) = Len(s)
  BY <1>2, <1>3
<1>5. r[b] = h /\ \A j \in 1 .. Len(s) : j # b => r[j] = s[j]
  BY <1>3
<1>6. Score(r, b) \in Fraction /\ Score(s, b) \in Fraction
      /\ GreaterOrEqual(Score(r, b), Score(s, b)) /\ HasRoom(r[b])
  BY <1>2, <1>4, <1>5, ScoresAreFractions DEF Score, FirstBest
<1>7. ASSUME NEW j \in 1 .. Len(s), HasRoom(r[j])
      PROVE  /\ GreaterOrEqual(Score(r, b), Score(r, j))
             /\ j < b => Greater(Score(r, b), Score(r, j))
  <2>1. CASE j = b
    BY <1>1, <1>6, <2>1, FractionsCompare
  <2>2. CASE j # b
    <3>1. HasRoom(s[j]) /\ Score(r, j) = Score(s, j)
      BY <1>5, <1>7, <2>2 DEF Score
    <3>2. /\ GreaterOrEqual(Score(s, b), Score(s, j))
          /\ j < b => Greater(Score(s, b), Score(s, j))
      BY <3>1 DEF FirstBest
    <3>3. Score(s, j) \in Fraction
      BY ScoresAreFractions
    <3> QED
      BY <1>6, <3>1, <3>2, <3>3, FractionOrder
  <2> QED
    BY <2>1, <2>2
<1>8. FirstBest(r, Len(r), b)
  BY <1>1, <1>4, <1>6, <1>7 DEF FirstBest
<1> QED
  BY <1>4, <1>8 DEF r

\* For every list of candidates: Best returns the first of the highest scores
\* among those with room, and nothing only if none has room.
THEOREM BestReturnsFirstMaximum ==
  \A s \in Seq(Candidate) :
    /\ BestIndex(s) = 0 => BestOf(1 .. Len(s), s) = {}
    /\ BestIndex(s) # 0 => /\ BestIndex(s) \in BestOf(1 .. Len(s), s)
                           /\ \A i \in BestOf(1 .. Len(s), s) : BestIndex(s) <= i
BY LoopInvariant, BestOfRows

-----------------------------------------------------------------------------
(* The invariants of the runs. *)

RowsOK == cands \in Seq(Candidate)

LEMMA RowsAreCandidates == AlgorithmsSpec => []RowsOK
<1>1. AlgorithmsInit => RowsOK
  BY DEF AlgorithmsInit, RowsOK
<1>2. RowsOK /\ [AlgorithmsNext]_allVars => RowsOK'
  <2> SUFFICES ASSUME cands \in Seq(Candidate), [AlgorithmsNext]_allVars
               PROVE  cands' \in Seq(Candidate)
    BY DEF RowsOK
  <2>1. CASE NextRow
    <3>1. PICK g \in [active : 0 .. MaxField, capacity : 0 .. MaxField,
                      bandwidth : 0 .. MaxField, traffic : 0 .. MaxField] :
            cands' = Append(cands, g)
      BY <2>1 DEF NextRow
    <3>2. g \in Candidate
      BY BoundsAssumption DEF Candidate
    <3> QED
      BY <3>1, <3>2
  <2>2. CASE UNCHANGED cands
    BY <2>2
  <2> QED
    BY <2>1, <2>2 DEF AlgorithmsNext, allVars
<1> QED
  BY <1>1, <1>2, PTL DEF AlgorithmsSpec

\* The first of the highest-scoring gateways with room is selected, for lists
\* of any length and candidates with any figures.
THEOREM SelectsFirstMaximum == AlgorithmsSpec => []BestIsFirstMaximum
<1>1. RowsOK => BestIsFirstMaximum
  BY BestReturnsFirstMaximum DEF BestIsFirstMaximum, Rows, RowsOK
<1> QED
  BY <1>1, RowsAreCandidates, PTL

\* Load is spread: the selected gateway would also be selected if it had fewer
\* peers or less traffic, ties included.
THEOREM LessLoadWins == AlgorithmsSpec => []LessLoadKeepsWinning
<1>1. RowsOK => LessLoadKeepsWinning
  <2> DEFINE b == BestIndex(cands)
             r(a, t) == [cands EXCEPT ![b].active = a, ![b].traffic = t]
  <2> SUFFICES ASSUME cands \in Seq(Candidate), b # 0,
                      NEW a \in 0 .. cands[b].active, NEW t \in 0 .. cands[b].traffic
               PROVE  BestIndex(r(a, t)) = b
    BY DEF LessLoadKeepsWinning, RowsOK
  <2>1. FirstBest(cands, Len(cands), b)
    BY LoopInvariant
  <2> HIDE DEF b
  <2>2. b \in 1 .. Len(cands)
    BY <2>1 DEF FirstBest
  <2>3. r(a, t) \in Seq(Candidate) /\ FirstBest(r(a, t), Len(r(a, t)), b)
    BY <2>1, <2>2, LighterWinnerIsFirstBest
  <2> HIDE DEF r
  <2> QED
    BY <2>3, LoopInvariant, FirstBestIsUnique
<1> QED
  BY <1>1, RowsAreCandidates, PTL
=============================================================================
