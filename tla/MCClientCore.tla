---------------------------- MODULE MCClientCore ----------------------------
(***************************************************************************)
(* Instances of ClientCore for TLC: an app whose threads call the core at  *)
(* the same time, with the provider of the FFI build, and one that makes   *)
(* one call at a time, with a provider that may fail.  Requests fail and   *)
(* answers get lost in both.                                               *)
(***************************************************************************)
EXTENDS ClientCore, TLC

VARIABLE serial   \* the app makes one call at a time

SerialStep ==
  (\E t \in Threads : CallStart(t)) => \A t \in Threads : call[t] = "idle"

AppsInit == Init /\ serial \in BOOLEAN

AppsNext ==
  /\ Next
  /\ IF serial THEN SerialStep ELSE ~ \E t \in Threads : ProviderDownFails(t)
  /\ UNCHANGED serial

AppsSpec == AppsInit /\ [][AppsNext]_<<vars, serial>>

Symmetry == Permutations(Threads) \cup Permutations(Leases)

-----------------------------------------------------------------------------
\* disconnect "tears down the native tunnel and releases the lease"
\* (client.rs).  With one call at a time, a client at rest has no lease left in
\* the control plane but the one it would release next, and none at all when
\* it is Disconnected.  The exceptions: the DELETE failed, whose error
\* disconnect ignores, or the answer to the connect that granted it was lost.
NoStrayLease ==
  serial /\ (\A t \in Threads : call[t] = "idle")
    => served \ abandoned \subseteq (IF state = "Disconnected" THEN {} ELSE {activeId})

\* disconnect returned Ok, saying "already disconnected" if it had nothing
\* to do (client.rs): with one call at a time, without a new connect the
\* client does not end up Connected.
OffMeansOff == serial /\ off => state # "Connected"
=============================================================================
