---------------------------- MODULE AddressPool ----------------------------
(***************************************************************************)
(* The address arithmetic of the lease store (allocateHost in              *)
(* control-plane/internal/store/connections.go).  Addresses are unsigned   *)
(* words: the code works in uint32, here a word is a number below          *)
(* WordSize, so that the instances TLC checks can use a small word and     *)
(* still meet the wrap-around of the code's 32-bit arithmetic.             *)
(*                                                                         *)
(* A subnet is a record [base, mask]: the network address and the netmask  *)
(* that net.ParseCIDR returns, both words.                                 *)
(***************************************************************************)
EXTENDS Integers

CONSTANT WordSize   \* 2^32 in the code

ASSUME WordSizeAssumption == WordSize \in Nat \ {0}

Word == 0 .. WordSize - 1

Subnet == [base : Word, mask : Word]

\* uint32(1) << (bits - ones): the complement of the mask plus one.  A /0
\* mask has 2^32 addresses, which wraps to 0.
BlockSize(s) == (WordSize - s.mask) % WordSize

HostOffsetsInclusive(s) == 2 .. ((BlockSize(s) - 1) % WordSize)

\* The offsets h of the loop "for h := 2; h < size-1; h++", with size-1
\* computed in a word.
HostOffsets(s) == 2 .. (((BlockSize(s) - 1) % WordSize) - 1)

HostAddr(s, h) == (s.base + h) % WordSize

HostAddrs(s) == {HostAddr(s, h) : h \in HostOffsets(s)}

HighestFree(s, used, h) ==
  /\ h \in HostOffsets(s)
  /\ HostAddr(s, h) \notin used
  /\ \A k \in HostOffsets(s) : k > h => HostAddr(s, k) \in used

\* h is the offset at which the loop returns: the first one whose address is
\* not in the set of used addresses.
IsLowestFree(s, used, h) ==
  /\ h \in HostOffsets(s)
  /\ HostAddr(s, h) \notin used
  /\ \A k \in HostOffsets(s) : k < h => HostAddr(s, k) \in used

\* The loop ends without a free address: ErrGatewayFull.
PoolExhausted(s, used) == HostAddrs(s) \subseteq used

=============================================================================
