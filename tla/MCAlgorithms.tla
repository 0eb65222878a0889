---------------------------- MODULE MCAlgorithms ----------------------------
(***************************************************************************)
(* The sequential components, each against a reference definition: the     *)
(* address pool over its whole life, the selection loop over lists of      *)
(* candidates, the load meter over histories of the host and the rate      *)
(* limiter over histories of requests.  A behaviour exercises one of them; *)
(* the others rest.                                                        *)
(***************************************************************************)
EXTENDS AddressPool, Selection, LoadMeter, RateLimiter, FiniteSets, FiniteSetsExt

CONSTANTS MaxCands, MaxField   \* bounds on the lists of candidates

ASSUME BoundsAssumption == MaxCands \in Nat /\ MaxField \in Nat

VARIABLES
  part,       \* the component that is exercised
  net, used,  \* one gateway's subnet and the addresses handed out
  cands       \* the rows of the candidate query

allVars == <<part, net, used, cands, hostVars, meterVars, vars>>

\* net.ParseCIDR returns the masked network address: the base is a multiple
\* of the block size, which is a divisor of the word (of 2^32, so a power of
\* two), from the whole word (whose size wraps to 0) to a single address.
IsBlock(s, n) ==
  /\ WordSize % n = 0
  /\ s.base % n = 0
  /\ s.mask = (WordSize - n) % WordSize

CIDRs == {s \in Subnet : \E n \in 1 .. WordSize : IsBlock(s, n)}

AlgorithmsInit ==
  /\ \/ part = "pool" /\ net \in CIDRs
     \/ part \in {"list", "meter", "limiter"} /\ net = [base |-> 0, mask |-> 0]
  /\ used = {}
  /\ cands = <<>>
  /\ MeterInit
  /\ Init
  /\ part # "limiter" => window.key = CHOOSE k \in Keys : TRUE

\* Addresses are handed out by allocateHost and come back in any order.
Allocate ==
  \E h \in HostOffsets(net) :
    /\ IsLowestFree(net, used, h)
    /\ used' = used \cup {HostAddr(net, h)}

GiveBack == \E a \in used : used' = used \ {a}

\* The query returns one more row: full and empty gateways, without and with
\* advertised bandwidth, above and below their limits, capacity 0, ties.
NextRow ==
  /\ Len(cands) < MaxCands
  /\ \E g \in [active : 0 .. MaxField, capacity : 0 .. MaxField,
               bandwidth : 0 .. MaxField, traffic : 0 .. MaxField] :
       cands' = Append(cands, g)

AlgorithmsNext ==
  \/ /\ part = "pool"
     /\ Allocate \/ GiveBack
     /\ UNCHANGED <<part, net, cands, hostVars, meterVars, vars>>
  \/ /\ part = "list"
     /\ NextRow
     /\ UNCHANGED <<part, net, used, hostVars, meterVars, vars>>
  \/ /\ part = "meter"
     /\ MeterNext
     /\ moved'["tx"] <= 1   \* the directions are alike: one moves up to MaxCounter
     /\ UNCHANGED <<part, net, used, cands, vars>>
  \/ /\ part = "limiter"
     /\ Next
     /\ UNCHANGED <<part, net, used, cands, hostVars, meterVars>>

AlgorithmsSpec == AlgorithmsInit /\ [][AlgorithmsNext]_allVars

-----------------------------------------------------------------------------
\* The hosts of a block, from the definition of a prefix and not from the
\* loop: the words that agree with the base under the mask, without the
\* first (network), the second (the gateway's .1) and the last (broadcast).
Block(s) == {w \in Word : w \div (WordSize - s.mask) = s.base \div (WordSize - s.mask)}

Hosts(s) == {w \in Block(s) : w # Min(Block(s)) /\ w # Min(Block(s)) + 1 /\ w # Max(Block(s))}

\* "allocateHost returns the lowest free host address in the v4 subnet
\* (skipping the network address and the gateway's .1)": after any history of
\* leases, the address handed out is the least host that is not in use.
AllocatesLowestFreeHost ==
  [][\A a \in used' \ used : a = Min(Hosts(net) \ used)]_allVars

\* ErrGatewayFull is returned exactly when every host of the subnet is in
\* use: no address is lost to the word arithmetic, whatever the prefix.
FullOnlyWhenFull ==
  part = "pool" => (PoolExhausted(net, used) <=> used = Hosts(net))

Rows == 1 .. Len(cands)

\* Best returns the first of the highest-scoring gateways with room and
\* reports "nothing selectable" only if none has room.  This is also what
\* lets LeaseStore use the set BestOf in place of the loop.
BestIsFirstMaximum ==
  LET best == BestOf(Rows, cands)
  IN /\ BestIndex(cands) = 0 => best = {}
     /\ BestIndex(cands) # 0 => /\ BestIndex(cands) \in best
                                /\ \A i \in best : BestIndex(cands) <= i

\* Load is spread: a gateway that is selected would also be selected if it
\* had fewer peers or less traffic (Fitness and the capacity test agree).
LessLoadKeepsWinning ==
  LET b == BestIndex(cands)
  IN b # 0 =>
       \A a \in 0 .. cands[b].active, t \in 0 .. cands[b].traffic :
         BestIndex([cands EXCEPT ![b].active = a, ![b].traffic = t]) = b

=============================================================================
