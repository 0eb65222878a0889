--------------------------- MODULE LoadMeterProofs ---------------------------
(***************************************************************************)
(* Proofs about LoadMeter, for every history of the host: any counters,    *)
(* any intervals between samples, any readings that fail.                  *)
(***************************************************************************)
EXTENDS LoadMeter, TLAPS

Reading == [bytes : [Directions -> Nat], at : Nat]

MeterTypes ==
  /\ clock \in Nat
  /\ jiffies \in [user : Nat, idle : Nat, iowait : Nat]
  /\ bytes \in [Directions -> Nat]
  /\ moved \in [Directions -> Nat]
  /\ intact \in BOOLEAN
  /\ prevCPU = <<>> \/ prevCPU \in Nat \X Nat
  /\ prevNet = <<>> \/ \E r \in Reading : prevNet = <<r>>

\* The jiffies that are not idle only grow.
CPUInv ==
  prevCPU # <<>> => prevCPU[1] - prevCPU[2] <= Total - Idle

\* The reading that is kept and the bytes moved since then account for the
\* counters; after a re-creation the counters are at most what was moved.
NetInv ==
  /\ prevNet # <<>> =>
       /\ prevNet[1].at <= clock
       /\ intact => \A d \in Directions : bytes[d] = prevNet[1].bytes[d] + moved[d]
  /\ ~ intact => \A d \in Directions : bytes[d] <= moved[d]

MeterInv == MeterTypes /\ CPUInv /\ NetInv /\ RateIsTrue /\ ShareInRange

-----------------------------------------------------------------------------
(* Division. *)

LEMMA QuotientBounds ==
  ASSUME NEW x \in Nat, NEW d \in Nat \ {0}
  PROVE  /\ x \div d \in Nat
         /\ (x \div d) * d <= x
         /\ x < (x \div d) * d + d
OBVIOUS

LEMMA QuotientMonotone ==
  ASSUME NEW x \in Nat, NEW y \in Nat, NEW d \in Nat \ {0}, x <= y
  PROVE  x \div d <= y \div d
<1> DEFINE p == x \div d
           q == y \div d
<1>1. p \in Nat /\ q \in Nat /\ p * d <= x /\ y < q * d + d
  BY QuotientBounds
<1> HIDE DEF p, q
<1>2. p * d < (q + 1) * d
  BY <1>1
<1>3. p < q + 1
  BY <1>1, <1>2
<1> QED
  BY <1>1, <1>3 DEF p, q

\* A part of a whole is between 0 and 100 percent of it.
LEMMA PercentInRange ==
  ASSUME NEW part \in Nat, NEW whole \in Nat \ {0}, part <= whole
  PROVE  (part * 100) \div whole \in 0 .. 100
<1>1. (part * 100) \div whole <= (100 * whole) \div whole
  BY QuotientMonotone
<1>2. (100 * whole) \div whole = 100
  OBVIOUS
<1> QED
  BY <1>1, <1>2, QuotientBounds

\* A counter that was set back to 0 yields at most the true rate.
LEMMA RateAtMost ==
  ASSUME NEW old \in Nat, NEW new \in Nat, NEW real \in Nat, NEW dt \in Nat \ {0}, new <= real
  PROVE  /\ 0 <= (8 * real) \div dt
         /\ old <= new => ((new - old) * 8) \div dt <= (8 * real) \div dt
<1>1. 8 * real \in Nat
  OBVIOUS
<1>2. ASSUME old <= new PROVE (new - old) * 8 \in Nat /\ (new - old) * 8 <= 8 * real
  BY <1>2
<1> QED
  BY <1>1, <1>2, QuotientBounds, QuotientMonotone

-----------------------------------------------------------------------------
(* The invariant is inductive. *)

LEMMA MeterInitially == MeterInit => MeterInv
<1> SUFFICES ASSUME MeterInit PROVE MeterInv
  OBVIOUS
<1> USE DEF MeterInit, NoTraffic, Directions
<1>1. intact \in BOOLEAN
  BY Zenon
<1>2. MeterTypes
  BY <1>1 DEF MeterTypes
<1>3. CPUInv /\ NetInv
  BY DEF CPUInv, NetInv
<1>4. RateIsTrue /\ ShareInRange
  BY DEF RateIsTrue, ShareInRange
<1> QED
  BY <1>2, <1>3, <1>4 DEF MeterInv

LEMMA SampleTypes ==
  ASSUME MeterInv, NEW c \in BOOLEAN, NEW n \in BOOLEAN, Sample(c, n)
  PROVE  MeterTypes'
<1> USE DEF MeterInv, MeterTypes, Sample
<1>1. Total \in Nat /\ Idle \in Nat
  BY DEF Total, Idle
<1>2. prevCPU' = <<>> \/ prevCPU' \in Nat \X Nat
  BY <1>1
<1>3. prevNet' = <<>> \/ \E r \in Reading : prevNet' = <<r>>
  BY DEF Reading
<1>4. moved' \in [Directions -> Nat]
  BY DEF NoTraffic
<1>5. intact' \in BOOLEAN
  BY Zenon
<1> QED
  BY <1>2, <1>3, <1>4, <1>5

\* The share is computed from readings of which the later one has at least
\* the busy jiffies of the earlier one.
LEMMA SampleShare ==
  ASSUME MeterInv, NEW c \in BOOLEAN, NEW n \in BOOLEAN, Sample(c, n)
  PROVE  CPUInv' /\ ShareInRange'
<1> USE DEF MeterInv, MeterTypes
<1>1. Total \in Nat /\ Idle \in Nat /\ Idle <= Total
  BY DEF Total, Idle
<1>2. Total' = Total /\ Idle' = Idle
  BY DEF Sample, Total, Idle
<1>3. CPUInv'
  BY <1>1, <1>2 DEF Sample, CPUInv
<1>4. CPUPct \in Nat /\ (prevCPU # <<>> /\ Idle >= prevCPU[2] => CPUPct <= 100)
  <2> DEFINE dt == Total - prevCPU[1]
             di == Idle - prevCPU[2]
  <2>1. CASE ~ (prevCPU # <<>> /\ dt > 0)
    BY <2>1 DEF CPUPct
  <2>2. CASE prevCPU # <<>> /\ dt > 0
    <3> DEFINE pct == ((dt - di) * 100) \div dt
    <3>1. CPUPct = pct
      BY <2>2 DEF CPUPct
    <3>2. dt - di \in Nat /\ dt \in Nat \ {0} /\ di \in Int
      BY <1>1, <2>2 DEF CPUInv
    <3>3. pct \in Nat
      <4>1. (dt - di) * 100 \in Nat
        BY <3>2
      <4> QED
        BY <3>2, <4>1, QuotientBounds
    <3>4. ASSUME Idle >= prevCPU[2] PROVE pct <= 100
      <4>1. dt - di <= dt
        BY <1>1, <2>2, <3>2, <3>4
      <4>2. pct \in 0 .. 100
        BY <3>2, <4>1, PercentInRange
      <4> HIDE DEF pct
      <4> QED
        BY <4>2
    <3> HIDE DEF pct
    <3> QED
      BY <3>1, <3>3, <3>4
  <2> QED
    BY <2>1, <2>2
<1>5. ShareInRange'
  <2>1. CASE c /\ Total > 0 /\ prevCPU # <<>>
    <3>1. sample'.cpu = CPUPct /\ truth'.idle = Idle - prevCPU[2]
      BY <2>1 DEF Sample
    <3>2. prevCPU[2] \in Int
      BY <2>1
    <3> QED
      BY <1>1, <1>4, <2>1, <3>1, <3>2 DEF ShareInRange
  <2>2. CASE ~ (c /\ Total > 0 /\ prevCPU # <<>>)
    <3>1. sample'.cpu = 0
      BY <2>2 DEF Sample, CPUPct
    <3> QED
      BY <3>1 DEF ShareInRange
  <2> QED
    BY <2>1, <2>2
<1> QED
  BY <1>3, <1>5

\* A successful reading reports what was moved since the last one.
LEMMA SampleRate ==
  ASSUME MeterInv, NEW c \in BOOLEAN, NEW n \in BOOLEAN, Sample(c, n)
  PROVE  NetInv' /\ RateIsTrue'
<1> USE DEF MeterInv, MeterTypes
<1>1. NetInv'
  <2>1. CASE n
    <3>1. intact'
      BY <2>1 DEF Sample
    <3>2. prevNet' = <<[bytes |-> bytes, at |-> clock]>> /\ moved' = NoTraffic
      BY <2>1 DEF Sample
    <3> QED
      BY <3>1, <3>2 DEF Sample, NetInv, NoTraffic
  <2>2. CASE ~ n
    <3>1. intact' <=> intact
      BY <2>2 DEF Sample
    <3>2. UNCHANGED <<prevNet, moved, bytes, clock>>
      BY <2>2 DEF Sample
    <3> QED
      BY <3>1, <3>2 DEF NetInv
  <2> QED
    BY <2>1, <2>2
<1>2. RateIsTrue'
  <2> SUFFICES ASSUME NEW d \in Directions, truth'.seconds > 0
               PROVE  LET real == (8 * truth'.bytes[d]) \div truth'.seconds
                      IN IF truth'.intact THEN sample'.rate[d] = real
                         ELSE sample'.rate[d] <= real
    BY DEF RateIsTrue
  <2> DEFINE dt == clock - prevNet[1].at
  <2>1. n /\ prevNet # <<>> /\ truth'.seconds = dt /\ dt > 0
    BY DEF Sample
  <2>2. truth'.bytes[d] = moved[d] /\ (truth'.intact <=> intact) /\ sample'.rate[d] = Rate(d)
    BY <2>1 DEF Sample
  <2>3. dt \in Nat \ {0} /\ prevNet[1].bytes[d] \in Nat /\ bytes[d] \in Nat /\ moved[d] \in Nat
    BY <2>1 DEF Reading
  <2>4. CASE intact
    <3>1. bytes[d] - prevNet[1].bytes[d] = moved[d] /\ bytes[d] >= prevNet[1].bytes[d]
      BY <2>1, <2>3, <2>4 DEF NetInv
    <3> QED
      BY <2>1, <2>2, <2>3, <2>4, <3>1 DEF Rate
  <2>5. CASE ~ intact
    <3>1. bytes[d] <= moved[d]
      BY <2>5 DEF NetInv
    <3>2. /\ 0 <= (8 * moved[d]) \div dt
          /\ prevNet[1].bytes[d] <= bytes[d] =>
               ((bytes[d] - prevNet[1].bytes[d]) * 8) \div dt <= (8 * moved[d]) \div dt
      BY <2>3, <3>1, RateAtMost
    <3> QED
      BY <2>1, <2>2, <2>3, <2>5, <3>2 DEF Rate
  <2> QED
    BY <2>4, <2>5
<1> QED
  BY <1>1, <1>2

LEMMA MeterInductive == MeterInv /\ [MeterNext]_<<hostVars, meterVars>> => MeterInv'
<1> SUFFICES ASSUME MeterInv, [MeterNext]_<<hostVars, meterVars>> PROVE MeterInv'
  OBVIOUS
<1> USE DEF hostVars, meterVars
<1>1. ASSUME UNCHANGED <<sample, truth>> PROVE RateIsTrue' /\ ShareInRange'
  BY <1>1 DEF MeterInv, RateIsTrue, ShareInRange
<1>2. CASE Second
  <2>1. MeterTypes'
    BY <1>2 DEF Second, MeterInv, MeterTypes
  <2>2. CPUInv'
    BY <1>2 DEF Second, MeterInv, MeterTypes, CPUInv, Total, Idle
  <2>3. NetInv'
    BY <1>2 DEF Second, MeterInv, MeterTypes, NetInv, Reading
  <2> QED
    BY <1>1, <1>2, <2>1, <2>2, <2>3 DEF Second, MeterInv
<1>3. CASE IowaitGoesBack
  <2>1. MeterTypes'
    BY <1>3 DEF IowaitGoesBack, MeterInv, MeterTypes
  <2>2. CPUInv'
    BY <1>3 DEF IowaitGoesBack, MeterInv, MeterTypes, CPUInv, Total, Idle
  <2>3. NetInv'
    BY <1>3 DEF IowaitGoesBack, MeterInv, MeterTypes, NetInv, Reading
  <2> QED
    BY <1>1, <1>3, <2>1, <2>2, <2>3 DEF IowaitGoesBack, MeterInv
<1>4. ASSUME NEW d \in Directions, Move(d) PROVE MeterInv'
  <2>1. MeterTypes'
    BY <1>4 DEF Move, MeterInv, MeterTypes
  <2>2. CPUInv'
    BY <1>4 DEF Move, MeterInv, CPUInv, Total, Idle
  <2>3. NetInv'
    BY <1>4 DEF Move, MeterInv, MeterTypes, NetInv, Reading
  <2> QED
    BY <1>1, <1>4, <2>1, <2>2, <2>3 DEF Move, MeterInv
<1>5. CASE InterfaceRecreated
  <2>1. MeterTypes'
    BY <1>5 DEF InterfaceRecreated, MeterInv, MeterTypes, NoTraffic
  <2>2. CPUInv'
    BY <1>5 DEF InterfaceRecreated, MeterInv, CPUInv, Total, Idle
  <2>3. NetInv'
    BY <1>5 DEF InterfaceRecreated, MeterInv, MeterTypes, NetInv, NoTraffic, Reading
  <2> QED
    BY <1>1, <1>5, <2>1, <2>2, <2>3 DEF InterfaceRecreated, MeterInv
<1>6. ASSUME NEW c \in BOOLEAN, NEW n \in BOOLEAN, Sample(c, n) PROVE MeterInv'
  BY <1>6, SampleTypes, SampleShare, SampleRate DEF MeterInv
<1>7. CASE UNCHANGED <<hostVars, meterVars>>
  BY <1>1, <1>7 DEF MeterInv, MeterTypes, CPUInv, NetInv, Total, Idle
<1> QED
  BY <1>2, <1>3, <1>4, <1>5, <1>6, <1>7 DEF MeterNext

\* The bit rate of a sample is the true one since the last reading that
\* succeeded, and never more than it after a re-creation of the interface,
\* for all counters and intervals.
THEOREM MeterRateIsTrue == MeterSpec => []RateIsTrue
<1>1. MeterInv => RateIsTrue
  BY DEF MeterInv
<1> QED
  BY <1>1, MeterInitially, MeterInductive, PTL DEF MeterSpec

\* The CPU share of a sample is never negative, and at most 100 unless the idle
\* fields went back between its two readings, whatever readings failed.
THEOREM MeterShareInRange == MeterSpec => []ShareInRange
<1>1. MeterInv => ShareInRange
  BY DEF MeterInv
<1> QED
  BY <1>1, MeterInitially, MeterInductive, PTL DEF MeterSpec
=============================================================================
