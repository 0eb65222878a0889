---------------------------- MODULE LeaseLedger ----------------------------
(***************************************************************************)
(* What the lease store promises, without transactions, locks, sweeps or   *)
(* clocks: a ledger of grants, each giving one connection of a device one  *)
(* address of one gateway.                                                 *)
(*                                                                         *)
(*  - a grant is made for an address nobody else holds, and in the same    *)
(*    step it may replace grants of the same device, never of another;     *)
(*  - grants may be withdrawn at any time (release, expiry, failover,      *)
(*    revocation);                                                         *)
(*  - a connection is granted once: what was withdrawn never comes back.   *)
(***************************************************************************)
CONSTANTS Conns, Devices, Gateways, Addrs

Grants == [conn : Conns, dev : Devices, gw : Gateways, addr : Addrs]

VARIABLES
  ledger,   \* the grants in force
  issued    \* connections that have had a grant

Init ==
  /\ ledger = {}
  /\ issued = {}

Grant ==
  \E new \in Grants :
    /\ new.conn \notin issued
    /\ issued' = issued \cup {new.conn}
    /\ \E old \in SUBSET {e \in ledger : e.dev = new.dev} :
         /\ \A e \in ledger \ old : ~ (e.gw = new.gw /\ e.addr = new.addr)
         /\ ledger' = (ledger \ old) \cup {new}

Withdraw ==
  /\ ledger' \subseteq ledger
  /\ UNCHANGED issued

Next == Grant \/ Withdraw

Spec == Init /\ [][Next]_<<ledger, issued>>
=============================================================================
