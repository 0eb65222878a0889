------------------------- MODULE AddressPoolProofs --------------------------
(***************************************************************************)
(* Proofs about AddressPool, for every word size and every prefix: the     *)
(* loop of allocateHost, whose bounds are computed in wrapping words,      *)
(* visits exactly the hosts of the block.                                  *)
(***************************************************************************)
EXTENDS MCAlgorithms, TLAPS

-----------------------------------------------------------------------------
(* Arithmetic of blocks. *)

\* A block that starts below the end of the word ends there at the latest.
LEMMA BlockFits ==
  ASSUME NEW w \in Nat \ {0}, NEW n \in 1 .. w, NEW b \in 0 .. w - 1,
         w % n = 0, b % n = 0
  PROVE  b + n <= w
<1> DEFINE p == b \div n
           q == w \div n
<1>1. p \in Int /\ q \in Int /\ n \in Nat \ {0} /\ b = n * p /\ w = n * q
  OBVIOUS
<1> HIDE DEF p, q
<1>2. n * p < n * q
  BY <1>1
<1>3. p + 1 <= q
  BY <1>1, <1>2
<1>4. n * (p + 1) <= n * q
  BY <1>1, <1>3
<1> QED
  BY <1>1, <1>4

\* The words with the quotient of a block's start are the block.
LEMMA SameQuotient ==
  ASSUME NEW n \in Nat \ {0}, NEW b \in Nat, NEW w \in Nat, b % n = 0
  PROVE  w \div n = b \div n <=> b <= w /\ w < b + n
<1> DEFINE p == b \div n
           q == w \div n
<1>1. p \in Int /\ q \in Int /\ b = n * p /\ n * q <= w /\ w < n * q + n
  OBVIOUS
<1> HIDE DEF p, q
<1>2. ASSUME p = q PROVE b <= w /\ w < b + n
  BY <1>1, <1>2
<1>3. ASSUME b <= w, w < b + n PROVE p = q
  <2>1. n * p < n * (q + 1) /\ n * q < n * (p + 1)
    BY <1>1, <1>3
  <2>2. p < q + 1 /\ q < p + 1
    BY <1>1, <2>1
  <2> QED
    BY <1>1, <2>2
<1> QED
  BY <1>2, <1>3 DEF p, q

\* What the code computes from a prefix: the block size and the loop's bound,
\* also where the size of the whole word wraps to 0.
LEMMA PrefixArithmetic ==
  ASSUME NEW s \in Subnet, NEW n \in 1 .. WordSize, IsBlock(s, n)
  PROVE  /\ WordSize - s.mask = n
         /\ s.base \in Nat
         /\ s.base + n <= WordSize
         /\ HostOffsets(s) = 2 .. n - 2
<1> USE WordSizeAssumption
<1>1. s.base \in 0 .. WordSize - 1 /\ s.mask \in 0 .. WordSize - 1
  BY DEF Subnet, Word
<1>2. s.base + n <= WordSize
  BY <1>1, BlockFits DEF IsBlock
<1>3. WordSize - s.mask = n
  <2>1. CASE n = WordSize
    BY <1>1, <2>1 DEF IsBlock
  <2>2. CASE n < WordSize
    BY <1>1, <2>2 DEF IsBlock
  <2> QED
    BY <2>1, <2>2
<1>4. (BlockSize(s) - 1) % WordSize = n - 1
  <2>1. CASE n = WordSize
    <3>1. BlockSize(s) = 0
      BY <1>3, <2>1 DEF BlockSize
    <3>2. (0 - 1) % WordSize = WordSize - 1
      OBVIOUS
    <3> QED
      BY <2>1, <3>1, <3>2
  <2>2. CASE n < WordSize
    <3>1. BlockSize(s) = n
      BY <1>3, <2>2 DEF BlockSize
    <3> QED
      BY <2>2, <3>1
  <2> QED
    BY <2>1, <2>2
<1> QED
  BY <1>1, <1>2, <1>3, <1>4 DEF HostOffsets
-----------------------------------------------------------------------------
(* The loop and the block. *)

LEMMA LeastIsMin ==
  ASSUME NEW S \in SUBSET Int, NEW m \in S, \A y \in S : m <= y
  PROVE  Min(S) = m
<1>1. \A x \in S : (\A y \in S : x <= y) => x = m
  OBVIOUS
<1> QED
  BY <1>1 DEF Min

LEMMA GreatestIsMax ==
  ASSUME NEW S \in SUBSET Int, NEW m \in S, \A y \in S : m >= y
  PROVE  Max(S) = m
<1>1. \A x \in S : (\A y \in S : x >= y) => x = m
  OBVIOUS
<1> QED
  BY <1>1 DEF Max

\* The reference definition of the hosts, as an interval.
LEMMA HostsAreAnInterval ==
  ASSUME NEW s \in Subnet, NEW n \in 1 .. WordSize, IsBlock(s, n)
  PROVE  Hosts(s) = s.base + 2 .. s.base + n - 2
<1> USE WordSizeAssumption
<1>1. /\ WordSize - s.mask = n
      /\ s.base \in Nat
      /\ s.base + n <= WordSize
  BY PrefixArithmetic
<1>2. n \in Nat \ {0} /\ s.base % n = 0
  BY DEF IsBlock
<1>3. Block(s) = s.base .. s.base + n - 1
  <2>1. \A w \in Word : w \div n = s.base \div n <=> s.base <= w /\ w < s.base + n
    BY <1>1, <1>2, SameQuotient DEF Word
  <2> QED
    BY <1>1, <1>2, <2>1 DEF Block, Word
<1>4. Min(Block(s)) = s.base /\ Max(Block(s)) = s.base + n - 1
  <2> HIDE DEF Block
  <2>1. /\ Block(s) \in SUBSET Int
        /\ s.base \in Block(s) /\ \A y \in Block(s) : s.base <= y
        /\ s.base + n - 1 \in Block(s) /\ \A y \in Block(s) : s.base + n - 1 >= y
    BY <1>1, <1>2, <1>3
  <2> QED
    BY <2>1, LeastIsMin, GreatestIsMax
<1> QED
  BY <1>1, <1>2, <1>3, <1>4 DEF Hosts

\* The loop of allocateHost visits the hosts of the block, in ascending
\* order and without wrapping around.
LEMMA LoopVisitsTheHosts ==
  ASSUME NEW s \in CIDRs
  PROVE  /\ HostAddrs(s) = Hosts(s)
         /\ \A h \in HostOffsets(s) : HostAddr(s, h) = s.base + h
         /\ s.base \in Nat
         /\ HostOffsets(s) \subseteq Nat
<1>1. PICK n \in 1 .. WordSize : s \in Subnet /\ IsBlock(s, n)
  BY DEF CIDRs
<1>2. s.base \in Nat /\ s.base + n <= WordSize /\ HostOffsets(s) = 2 .. n - 2
  BY <1>1, PrefixArithmetic
<1>3. \A h \in HostOffsets(s) : HostAddr(s, h) = s.base + h
  <2> SUFFICES ASSUME NEW h \in 2 .. n - 2 PROVE (s.base + h) % WordSize = s.base + h
    BY <1>2 DEF HostAddr
  <2>1. s.base + h \in 0 .. WordSize - 1
    BY <1>2, WordSizeAssumption
  <2> QED
    BY <2>1, WordSizeAssumption
<1>4. HostAddrs(s) = {s.base + h : h \in 2 .. n - 2}
  BY <1>2, <1>3 DEF HostAddrs
<1>5. {s.base + h : h \in 2 .. n - 2} = s.base + 2 .. s.base + n - 2
  <2>1. ASSUME NEW w \in s.base + 2 .. s.base + n - 2
        PROVE  w - s.base \in 2 .. n - 2 /\ w = s.base + (w - s.base)
    BY <1>2
  <2>2. ASSUME NEW h \in 2 .. n - 2 PROVE s.base + h \in s.base + 2 .. s.base + n - 2
    BY <1>2
  <2> QED
    BY <2>1, <2>2
<1>6. Hosts(s) = s.base + 2 .. s.base + n - 2
  BY <1>1, HostsAreAnInterval
<1> QED
  BY <1>2, <1>3, <1>4, <1>5, <1>6

-----------------------------------------------------------------------------
(* The life of a pool. *)

PoolInv == part = "pool" => net \in CIDRs /\ used \subseteq Hosts(net)

\* Only the pool's own steps change it.
LEMMA PoolSteps ==
  ASSUME [AlgorithmsNext]_allVars
  PROVE  /\ part' = part /\ net' = net
         /\ \/ UNCHANGED used
            \/ part = "pool" /\ Allocate
            \/ part = "pool" /\ GiveBack
BY DEF AlgorithmsNext, allVars, hostVars, meterVars, vars

LEMMA PoolInductive == AlgorithmsSpec => []PoolInv
<1>1. AlgorithmsInit => PoolInv
  BY DEF AlgorithmsInit, PoolInv
<1>2. PoolInv /\ [AlgorithmsNext]_allVars => PoolInv'
  <2> SUFFICES ASSUME PoolInv, [AlgorithmsNext]_allVars, part = "pool"
               PROVE  net' \in CIDRs /\ used' \subseteq Hosts(net)'
    BY PoolSteps DEF PoolInv
  <2>1. net \in CIDRs /\ used \subseteq Hosts(net)
    BY DEF PoolInv
  <2>2. net' = net /\ Hosts(net)' = Hosts(net)
    BY PoolSteps DEF Hosts, Block
  <2>3. CASE Allocate
    BY <2>1, <2>2, <2>3, LoopVisitsTheHosts DEF Allocate, HostAddrs
  <2>4. CASE GiveBack
    BY <2>1, <2>2, <2>4 DEF GiveBack
  <2>5. CASE UNCHANGED used
    BY <2>1, <2>2, <2>5
  <2> QED
    BY <2>3, <2>4, <2>5, PoolSteps
<1> QED
  BY <1>1, <1>2, PTL DEF AlgorithmsSpec

\* ErrGatewayFull exactly when every host of the subnet is in use, for every
\* word size and prefix, the whole word and the blocks without hosts
\* included.
THEOREM PoolFullOnlyWhenFull == AlgorithmsSpec => []FullOnlyWhenFull
<1>1. PoolInv => FullOnlyWhenFull
  <2> SUFFICES ASSUME net \in CIDRs, used \subseteq Hosts(net)
               PROVE  PoolExhausted(net, used) <=> used = Hosts(net)
    BY DEF PoolInv, FullOnlyWhenFull
  <2>1. HostAddrs(net) = Hosts(net)
    BY LoopVisitsTheHosts
  <2> QED
    BY <2>1 DEF PoolExhausted
<1> QED
  BY <1>1, PoolInductive, PTL

\* After any history of leases, the address handed out is the least host that
\* is not in use.
THEOREM PoolAllocatesLowest == AlgorithmsSpec => AllocatesLowestFreeHost
<1>1. PoolInv /\ [AlgorithmsNext]_allVars =>
        [\A a \in used' \ used : a = Min(Hosts(net) \ used)]_allVars
  <2> SUFFICES ASSUME PoolInv, [AlgorithmsNext]_allVars, NEW a \in used' \ used
               PROVE  a = Min(Hosts(net) \ used)
    OBVIOUS
  <2>1. part = "pool" /\ Allocate
    BY PoolSteps DEF GiveBack
  <2>2. PICK h \in HostOffsets(net) : IsLowestFree(net, used, h) /\ a = HostAddr(net, h)
    BY <2>1 DEF Allocate
  <2>3. net \in CIDRs
    BY <2>1 DEF PoolInv
  <2> DEFINE free == Hosts(net) \ used
  <2>4. a \in free
    BY <2>2, <2>3, LoopVisitsTheHosts DEF IsLowestFree, HostAddrs
  <2>5. ASSUME NEW w \in free PROVE w \in Int /\ a <= w
    <3>1. PICK k \in HostOffsets(net) : w = HostAddr(net, k)
      BY <2>3, LoopVisitsTheHosts DEF HostAddrs
    <3>2. h \in Nat /\ k \in Nat /\ net.base \in Nat /\ w = net.base + k /\ a = net.base + h
      BY <2>2, <2>3, <3>1, LoopVisitsTheHosts
    <3>3. ~ (k < h)
      BY <2>2, <3>1 DEF IsLowestFree
    <3> QED
      BY <3>2, <3>3
  <2> QED
    BY <2>4, <2>5, LeastIsMin
<1> QED
  BY <1>1, PoolInductive, PTL DEF AlgorithmsSpec, AllocatesLowestFreeHost
=============================================================================
