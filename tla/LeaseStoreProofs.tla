-------------------------- MODULE LeaseStoreProofs --------------------------
(***************************************************************************)
(* Proofs about LeaseStore, for every set of connects, devices, gateways   *)
(* and registrations and every TTL.                                        *)
(***************************************************************************)
EXTENDS LeaseStore, TLAPS

\* What the local variables of a connect hold at each of its statements, and
\* that a registered gateway has metadata.
Locals ==
  /\ \A g \in Gateways : status[g] # "absent" => meta[g] \in Registrations
  /\ \A c \in Conns :
       /\ pc[c] \in {"lock", "alloc", "insert", "committed"} => chosen[c] \in Gateways
       /\ pc[c] \in {"lock", "alloc"} => subnet[c] \in Subnet
       /\ pc[c] \in {"dedupe", "release", "select", "lock", "alloc", "insert", "committed"}
            => dev[c] \in Devices
       /\ pc[c] \in {"insert", "committed"} => addr[c] \in Word
       /\ state[c] # "none" <=> pc[c] = "committed"
       /\ \A x \in seen[c] \cup freed[c] : state[x] # "none"
       /\ \A x \in seen[c] : dev[x] = dev[c]
       /\ pc[c] = "init" => seen[c] = {}

TypeInv == TypeOK /\ Locals

LEMMA HostAddrIsWord ==
  ASSUME NEW s \in Subnet, NEW h \in HostOffsets(s)
  PROVE  HostAddr(s, h) \in Word
<1>1. WordSize \in Nat \ {0}
  BY WordSizeAssumption
<1>2. s.base \in Int /\ h \in Int
  BY <1>1 DEF Subnet, Word, HostOffsets
<1>3. (s.base + h) % WordSize \in 0 .. WordSize - 1
  BY <1>1, <1>2
<1> QED
  BY <1>3 DEF HostAddr, Word

LEMMA BestIsCandidate ==
  ASSUME NEW c, NEW country, NEW g \in BestOf(Candidates(c, country), CandidateRow(c))
  PROVE  g \in Gateways /\ status[g] = "healthy"
BY DEF BestOf, Candidates

LEMMA TypeInit == Init => TypeInv
BY StoreAssumption DEF Init, TypeInv, TypeOK, Locals, Statuses, TxSteps, LeaseStates,
   RevokeSteps, ReaperSteps, Never

LEMMA RollbackKeepsType ==
  ASSUME TypeInv, NEW c \in Conns, InFlight(c), Rollback(c)
  PROVE  TypeInv'
BY DEF TypeInv, TypeOK, Locals, Rollback, DropLocks, InFlight, TxSteps, gatewayVars,
       leaseVars, revokeVars, sweepVars

LEMMA TypeStep == TypeInv /\ [Next]_vars => TypeInv'
<1> SUFFICES ASSUME TypeInv, [Next]_vars PROVE TypeInv'
  OBVIOUS
<1> USE DEF gatewayVars, txVars, leaseVars, revokeVars, sweepVars
<1>1. CASE Tick
  BY <1>1 DEF Tick, TypeInv, TypeOK, Locals
<1>2. ASSUME NEW c \in Conns, CreateConnection(c) PROVE TypeInv'
  <2>1. ASSUME NEW d \in Devices, CheckDevice(c, d) PROVE TypeInv'
    BY <2>1 DEF CheckDevice, TypeInv, TypeOK, Locals, TxSteps
  <2>2. CASE FindOwnLeases(c)
    BY <2>2 DEF FindOwnLeases, LeasesOf, Active, TypeInv, TypeOK, Locals, TxSteps
  <2>3. CASE ReleaseOwnLeases(c)
    BY <2>3 DEF ReleaseOwnLeases, Active, TypeInv, TypeOK, Locals, TxSteps
  <2>4. ASSUME NEW country \in Countries, SelectGateway(c, country) PROVE TypeInv'
    <3>1. PICK g \in BestOf(Candidates(c, country), CandidateRow(c)) :
            /\ chosen' = [chosen EXCEPT ![c] = g]
            /\ subnet' = [subnet EXCEPT ![c] = meta[g].subnet]
      BY <2>4 DEF SelectGateway
    <3>2. g \in Gateways /\ status[g] = "healthy"
      BY BestIsCandidate
    <3>3. meta[g].subnet \in Subnet
      BY <3>2, StoreAssumption DEF TypeInv, Locals, Registration
    <3> QED
      BY <2>4, <3>1, <3>2, <3>3 DEF SelectGateway, TypeInv, TypeOK, Locals, TxSteps
  <2>5. ASSUME NEW country \in Countries, NoGatewayAvailable(c, country) PROVE TypeInv'
    BY <2>5, RollbackKeepsType DEF NoGatewayAvailable, InFlight
  <2>6. CASE LockGateway(c)
    BY <2>6 DEF LockGateway, TypeInv, TypeOK, Locals, TxSteps
  <2>7. CASE AllocateHost(c)
    <3>1. PICK h \in HostOffsets(subnet[c]) :
            addr' = [addr EXCEPT ![c] = HostAddr(subnet[c], h)]
      BY <2>7 DEF AllocateHost
    <3>2. HostAddr(subnet[c], h) \in Word
      BY <2>7, HostAddrIsWord DEF AllocateHost, TypeInv, Locals
    <3>3. /\ pc[c] = "alloc" /\ pc' = [pc EXCEPT ![c] = "insert"]
          /\ UNCHANGED <<now, gatewayVars, leaseVars, revokeVars, sweepVars,
                         dev, started, seen, freed, chosen, subnet, gwLock>>
      BY <2>7 DEF AllocateHost
    <3> HIDE DEF HostAddr
    <3>4. addr' \in [Conns -> Word \cup {None}] /\ addr'[c] \in Word
      BY <3>1, <3>2 DEF TypeInv, TypeOK
    <3>5. \A k \in Conns : k # c => addr'[k] = addr[k]
      BY <3>1 DEF TypeInv, TypeOK
    <3>6. TypeOK'
      BY <3>3, <3>4 DEF TypeInv, TypeOK, TxSteps
    <3>7. Locals'
      BY <3>3, <3>4, <3>5 DEF TypeInv, TypeOK, Locals
    <3> QED
      BY <3>6, <3>7 DEF TypeInv
  <2>8. CASE GatewayFull(c)
    BY <2>8, RollbackKeepsType DEF GatewayFull, InFlight
  <2>9. CASE InsertLease(c)
    <3>1. started[c] + LeaseTTL \in Nat
      BY StoreAssumption DEF TypeInv, TypeOK
    <3> QED
      BY <2>9, <3>1 DEF InsertLease, DropLocks, TypeInv, TypeOK, Locals, TxSteps, LeaseStates
  <2>10. CASE TxError(c)
    BY <2>10, RollbackKeepsType DEF TxError
  <2> QED
    BY <1>2, <2>1, <2>2, <2>3, <2>4, <2>5, <2>6, <2>7, <2>8, <2>9, <2>10
       DEF CreateConnection
<1>3. ASSUME NEW x \in Conns, ReleaseConnection(x) PROVE TypeInv'
  BY <1>3 DEF ReleaseConnection, Active, TypeInv, TypeOK, Locals, LeaseStates
<1>4. ASSUME NEW x \in Conns, RenewConnection(x) PROVE TypeInv'
  <2>1. now + LeaseTTL \in Nat
    BY StoreAssumption DEF TypeInv, TypeOK
  <2> QED
    BY <1>4, <2>1 DEF RenewConnection, TypeInv, TypeOK, Locals
<1>5. ASSUME NEW g \in Gateways, NEW r \in Registrations, RegisterGateway(g, r) PROVE TypeInv'
  BY <1>5 DEF RegisterGateway, TypeInv, TypeOK, Locals, Statuses
<1>6. ASSUME NEW g \in Gateways, NEW l \in TrafficLevels, Heartbeat(g, l) PROVE TypeInv'
  BY <1>6 DEF Heartbeat, TypeInv, TypeOK, Locals, Statuses
<1>7. ASSUME NEW g \in Gateways, DeregisterGateway(g) PROVE TypeInv'
  BY <1>7 DEF DeregisterGateway, TypeInv, TypeOK, Locals, Statuses
<1>8. CASE Reap
  <2>1. CASE MarkStaleUnhealthy
    BY <2>1 DEF MarkStaleUnhealthy, StaleGateways, TypeInv, TypeOK, Locals, Statuses, ReaperSteps
  <2>2. CASE FindStaleLeases
    BY <2>2 DEF FindStaleLeases, TypeInv, TypeOK, Locals, ReaperSteps
  <2>3. CASE ExpireStaleLeases
    BY <2>3 DEF ExpireStaleLeases, Expire, OverdueAt, Active, TypeInv, TypeOK, Locals, ReaperSteps, LeaseStates
  <2>4. CASE FindLeasesOnUnhealthyGateways
    BY <2>4 DEF FindLeasesOnUnhealthyGateways, TypeInv, TypeOK, Locals, ReaperSteps
  <2>5. CASE ExpireLeasesOnUnhealthyGateways
    BY <2>5 DEF ExpireLeasesOnUnhealthyGateways, Expire, Active, TypeInv, TypeOK, Locals, ReaperSteps, LeaseStates
  <2> QED
    BY <1>8, <2>1, <2>2, <2>3, <2>4, <2>5 DEF Reap
<1>9. CASE SweepError
  BY <1>9 DEF SweepError, TypeInv, TypeOK, Locals, ReaperSteps
<1>10. ASSUME NEW d \in Devices, Revoke(d) PROVE TypeInv'
  <2>1. CASE RevokeDevice(d)
    BY <2>1 DEF RevokeDevice, TypeInv, TypeOK, Locals, RevokeSteps
  <2>2. CASE FindRevokedLeases(d)
    BY <2>2 DEF FindRevokedLeases, LeasesOf, TypeInv, TypeOK, Locals, RevokeSteps
  <2>3. CASE ExpireRevokedLeases(d)
    BY <2>3 DEF ExpireRevokedLeases, Expire, Active, TypeInv, TypeOK, Locals, RevokeSteps, LeaseStates
  <2>4. CASE RevokeError(d)
    BY <2>4 DEF RevokeError, TypeInv, TypeOK, Locals, RevokeSteps
  <2> QED
    BY <1>10, <2>1, <2>2, <2>3, <2>4 DEF Revoke
<1>11. CASE Crash
  BY <1>11 DEF Crash, InFlight, TypeInv, TypeOK, Locals, TxSteps, RevokeSteps, ReaperSteps
<1>12. CASE UNCHANGED vars
  BY <1>12 DEF vars, TypeInv, TypeOK, Locals
<1> QED
  BY <1>1, <1>2, <1>3, <1>4, <1>5, <1>6, <1>7, <1>8, <1>9, <1>10, <1>11, <1>12 DEF Next

\* Type correctness: every variable of the store keeps its type, so the
\* statements of the code always find rows and locals of the shape they read.
THEOREM TypeCorrect == Spec => []TypeOK
<1>1. Spec => []TypeInv
  BY TypeInit, TypeStep, PTL DEF Spec
<1>2. TypeInv => TypeOK
  BY DEF TypeInv
<1> QED
  BY <1>1, <1>2, PTL

-----------------------------------------------------------------------------
(***************************************************************************)
(* The locks.                                                              *)
(***************************************************************************)

LEMMA LockInit == Init => LockDiscipline
BY StoreAssumption DEF Init, LockDiscipline

LEMMA RollbackKeepsLocks ==
  ASSUME TypeInv, LockDiscipline, NEW c \in Conns, InFlight(c), Rollback(c)
  PROVE  LockDiscipline'
<1> USE StoreAssumption DEF TypeInv, TypeOK, Locals, LockDiscipline, Rollback, DropLocks,
        InFlight, Active, leaseVars
<1>1. (\A k \in Conns : pc[k] \in {"alloc", "insert"} => gwLock[chosen[k]] = k)'
  OBVIOUS
<1>2. (\A g \in Gateways, k \in Conns :
         gwLock[g] = k => pc[k] \in {"alloc", "insert"} /\ chosen[k] = g)'
  OBVIOUS
<1>3. (\A k \in Conns : \A x \in freed[k] : InFlight(k) /\ Active(x) /\ dev[x] = dev[k])'
  OBVIOUS
<1>4. (\A b, k \in Conns : b # k => freed[b] \cap freed[k] = {})'
  OBVIOUS
<1> QED
  BY <1>1, <1>2, <1>3, <1>4

\* A step that touches neither transactions nor held lease rows.
LEMMA OtherStepKeepsLocks ==
  ASSUME LockDiscipline, TypeInv, UNCHANGED txVars,
         \A x \in Conns : RowFree(x) \/ state'[x] = state[x]
  PROVE  LockDiscipline'
BY DEF LockDiscipline, TypeInv, TypeOK, txVars, RowFree, InFlight, Active

LEMMA LockStep == TypeInv /\ LockDiscipline /\ [Next]_vars => LockDiscipline'
<1> SUFFICES ASSUME TypeInv, LockDiscipline, [Next]_vars PROVE LockDiscipline'
  OBVIOUS
<1>1. ASSUME NEW c \in Conns, CreateConnection(c) PROVE LockDiscipline'
  <2> USE DEF TypeInv, TypeOK, Locals, LockDiscipline, InFlight, Active, leaseVars
  <2>1. ASSUME NEW d \in Devices, CheckDevice(c, d) PROVE LockDiscipline'
    BY <2>1, StoreAssumption DEF CheckDevice
  <2>2. CASE FindOwnLeases(c)
    BY <2>2 DEF FindOwnLeases
  <2>3. CASE ReleaseOwnLeases(c)
    BY <2>3 DEF ReleaseOwnLeases, RowFree
  <2>4. ASSUME NEW country \in Countries, SelectGateway(c, country) PROVE LockDiscipline'
    BY <2>4 DEF SelectGateway
  <2>5. ASSUME NEW country \in Countries, NoGatewayAvailable(c, country) PROVE LockDiscipline'
    BY <2>5, RollbackKeepsLocks DEF NoGatewayAvailable
  <2>6. CASE LockGateway(c)
    BY <2>6, StoreAssumption DEF LockGateway
  <2>7. CASE AllocateHost(c)
    BY <2>7 DEF AllocateHost
  <2>8. CASE GatewayFull(c)
    BY <2>8, RollbackKeepsLocks DEF GatewayFull
  <2>9. CASE InsertLease(c)
    BY <2>9, StoreAssumption DEF InsertLease, DropLocks
  <2>10. CASE TxError(c)
    BY <2>10, RollbackKeepsLocks DEF TxError
  <2> QED
    BY <1>1, <2>1, <2>2, <2>3, <2>4, <2>5, <2>6, <2>7, <2>8, <2>9, <2>10
       DEF CreateConnection
<1>2. CASE Crash
  BY <1>2, StoreAssumption DEF Crash, LockDiscipline, TypeInv, TypeOK, Locals, InFlight
<1>3. CASE UNCHANGED vars
  BY <1>3, OtherStepKeepsLocks DEF vars, leaseVars
<1>4. ASSUME NEW x \in Conns, ReleaseConnection(x) PROVE LockDiscipline'
  BY <1>4, OtherStepKeepsLocks DEF ReleaseConnection, TypeInv, TypeOK
<1>5. CASE ExpireStaleLeases
  BY <1>5, OtherStepKeepsLocks DEF ExpireStaleLeases, Expire, TypeInv, TypeOK
<1>6. CASE ExpireLeasesOnUnhealthyGateways
  BY <1>6, OtherStepKeepsLocks DEF ExpireLeasesOnUnhealthyGateways, Expire, TypeInv, TypeOK
<1>7. ASSUME NEW d \in Devices, ExpireRevokedLeases(d) PROVE LockDiscipline'
  BY <1>7, OtherStepKeepsLocks DEF ExpireRevokedLeases, Expire, TypeInv, TypeOK
<1>8. ASSUME UNCHANGED <<txVars, state>> PROVE LockDiscipline'
  BY <1>8, OtherStepKeepsLocks
<1>9. Next => \/ \E c \in Conns : CreateConnection(c)
              \/ Crash
              \/ \E x \in Conns : ReleaseConnection(x)
              \/ ExpireStaleLeases
              \/ ExpireLeasesOnUnhealthyGateways
              \/ \E d \in Devices : ExpireRevokedLeases(d)
              \/ UNCHANGED <<txVars, state>>
  BY DEF Next, Reap, Revoke, Tick, RenewConnection, RegisterGateway, Heartbeat,
         DeregisterGateway, MarkStaleUnhealthy, FindStaleLeases,
         FindLeasesOnUnhealthyGateways, SweepError, RevokeDevice, FindRevokedLeases,
         RevokeError, leaseVars
<1> QED
  BY <1>1, <1>2, <1>3, <1>4, <1>5, <1>6, <1>7, <1>8, <1>9

\* The FOR UPDATE lock and the lease row locks of CreateConnection exclude
\* each other as the code relies on, in every reachable state.
THEOREM LocksAreDisciplined == Spec => []LockDiscipline
<1>1. Spec => [](TypeInv /\ LockDiscipline)
  BY TypeInit, LockInit, TypeStep, LockStep, PTL DEF Spec
<1> QED
  BY <1>1, PTL

-----------------------------------------------------------------------------
(***************************************************************************)
(* The addresses.  NoSharedAddress is not inductive: an INSERT keeps it    *)
(* only because the address is still free (AddressStillFree), and that     *)
(* survives the steps of other connects only because the lock excludes     *)
(* them from the gateway (LockDiscipline).                                 *)
(***************************************************************************)

AddressInv == AddressStillFree /\ NoSharedAddress

LEMMA AddressInit == Init => AddressInv
BY DEF Init, AddressInv, AddressStillFree, NoSharedAddress, Active

\* A step that makes no lease active, starts no INSERT, and moves neither the
\* gateway nor the address of a lease or of a connect about to insert.
LEMMA QuietStepKeepsAddresses ==
  ASSUME AddressInv, TypeInv,
         \A x \in Conns : state'[x] = "active" =>
           state[x] = "active" /\ chosen'[x] = chosen[x] /\ addr'[x] = addr[x],
         \A c \in Conns : pc'[c] = "insert" =>
           /\ pc[c] = "insert" /\ freed'[c] = freed[c]
           /\ chosen'[c] = chosen[c] /\ addr'[c] = addr[c]
  PROVE  AddressInv'
BY DEF AddressInv, AddressStillFree, NoSharedAddress, Active, ActiveFor, LeasesOn

LEMMA AddressStep ==
  TypeInv /\ LockDiscipline /\ AddressInv /\ [Next]_vars => AddressInv'
<1> SUFFICES ASSUME TypeInv, LockDiscipline, AddressInv, [Next]_vars
             PROVE  AddressInv'
  OBVIOUS
<1> USE DEF gatewayVars, txVars, leaseVars, revokeVars, sweepVars
<1>0. ASSUME NEW c \in Conns, Rollback(c), InFlight(c) PROVE AddressInv'
  BY <1>0, QuietStepKeepsAddresses
     DEF Rollback, DropLocks, InFlight, TypeInv, TypeOK, Locals
<1>1. ASSUME NEW c \in Conns, CreateConnection(c) PROVE AddressInv'
  <2>1. ASSUME NEW d \in Devices, CheckDevice(c, d) PROVE AddressInv'
    BY <2>1, QuietStepKeepsAddresses DEF CheckDevice, TypeInv, TypeOK
  <2>2. CASE FindOwnLeases(c)
    BY <2>2, QuietStepKeepsAddresses DEF FindOwnLeases, TypeInv, TypeOK
  <2>3. CASE ReleaseOwnLeases(c)
    BY <2>3, QuietStepKeepsAddresses DEF ReleaseOwnLeases, TypeInv, TypeOK
  <2>4. ASSUME NEW country \in Countries, SelectGateway(c, country) PROVE AddressInv'
    <3>1. state[c] # "active"
      BY <2>4 DEF SelectGateway, TypeInv, Locals
    <3> QED
      BY <2>4, <3>1, QuietStepKeepsAddresses DEF SelectGateway, TypeInv, TypeOK
  <2>5. ASSUME NEW country \in Countries, NoGatewayAvailable(c, country) PROVE AddressInv'
    BY <1>0, <2>5 DEF NoGatewayAvailable, InFlight
  <2>6. CASE LockGateway(c)
    BY <2>6, QuietStepKeepsAddresses DEF LockGateway, TypeInv, TypeOK
  <2>7. CASE AllocateHost(c)
    <3>1. PICK h \in HostOffsets(subnet[c]) :
            /\ HostAddr(subnet[c], h) \notin UsedHostAddrs(c, chosen[c])
            /\ addr' = [addr EXCEPT ![c] = HostAddr(subnet[c], h)]
      BY <2>7 DEF AllocateHost, IsLowestFree
    <3>2. /\ pc[c] = "alloc" /\ pc' = [pc EXCEPT ![c] = "insert"]
          /\ UNCHANGED <<state, chosen, freed>>
      BY <2>7 DEF AllocateHost
    <3>3. state[c] # "active"
      BY <3>2 DEF TypeInv, Locals
    <3>4. \A x \in LeasesOn(c, chosen[c]) : addr[x] # HostAddr(subnet[c], h)
      BY <3>1 DEF UsedHostAddrs
    <3>5. AddressStillFree'
      BY <3>1, <3>2, <3>3, <3>4
         DEF AddressInv, AddressStillFree, LeasesOn, ActiveFor, Active, TypeInv, TypeOK
    <3>6. NoSharedAddress'
      BY <3>1, <3>2, <3>3 DEF AddressInv, NoSharedAddress, Active, TypeInv, TypeOK
    <3> QED
      BY <3>5, <3>6 DEF AddressInv
  <2>8. CASE GatewayFull(c)
    BY <1>0, <2>8 DEF GatewayFull, InFlight
  <2>9. CASE InsertLease(c)
    <3>1. NoSharedAddress'
      BY <2>9 DEF InsertLease, AddressInv, NoSharedAddress, AddressStillFree, LeasesOn,
                  ActiveFor, Active, TypeInv, TypeOK
    <3>2. ASSUME NEW b \in Conns, pc'[b] = "insert" PROVE chosen[b] # chosen[c]
      BY <2>9, <3>2 DEF InsertLease, LockDiscipline, TypeInv, TypeOK
    <3>3. AddressStillFree'
      BY <2>9, <3>2 DEF InsertLease, DropLocks, AddressInv, AddressStillFree, LeasesOn,
                        ActiveFor, Active, TypeInv, TypeOK
    <3> QED
      BY <3>1, <3>3 DEF AddressInv
  <2>10. CASE TxError(c)
    BY <1>0, <2>10 DEF TxError
  <2> QED
    BY <1>1, <2>1, <2>2, <2>3, <2>4, <2>5, <2>6, <2>7, <2>8, <2>9, <2>10
       DEF CreateConnection
<1>2. CASE Crash
  BY <1>2, QuietStepKeepsAddresses DEF Crash, InFlight, TypeInv, TypeOK, Locals
<1>3. ASSUME UNCHANGED txVars, \A x \in Conns : state'[x] = "active" => state[x] = "active"
      PROVE  AddressInv'
  BY <1>3, QuietStepKeepsAddresses
<1>4. Next => \/ \E c \in Conns : CreateConnection(c)
              \/ Crash
              \/ /\ UNCHANGED txVars
                 /\ \A x \in Conns : state'[x] = "active" => state[x] = "active"
  BY DEF Next, Reap, Revoke, Tick, ReleaseConnection, RenewConnection, RegisterGateway,
         Heartbeat, DeregisterGateway, MarkStaleUnhealthy, FindStaleLeases,
         ExpireStaleLeases, FindLeasesOnUnhealthyGateways, ExpireLeasesOnUnhealthyGateways,
         Expire, SweepError, RevokeDevice, FindRevokedLeases, ExpireRevokedLeases,
         RevokeError, TypeInv, TypeOK
<1>5. CASE UNCHANGED vars
  BY <1>3, <1>5 DEF vars
<1> QED
  BY <1>1, <1>2, <1>3, <1>4, <1>5

\* "Two concurrent connects cannot claim the same address": for any number of
\* connects, devices and gateways, in any interleaving with renewals, sweeps,
\* re-registrations, revocations and crashes.
THEOREM NoAddressIsShared == Spec => []NoSharedAddress
<1>1. Spec => [](TypeInv /\ LockDiscipline /\ AddressInv)
  BY TypeInit, LockInit, AddressInit, TypeStep, LockStep, AddressStep, PTL DEF Spec
<1>2. AddressInv => NoSharedAddress
  BY DEF AddressInv
<1> QED
  BY <1>1, <1>2, PTL

\* The INSERT of CreateConnection never meets the unique index on active
\* (gateway, address) pairs.
THEOREM InsertNeverConflicts == Spec => []AddressStillFree
<1>1. Spec => [](TypeInv /\ LockDiscipline /\ AddressInv)
  BY TypeInit, LockInit, AddressInit, TypeStep, LockStep, AddressStep, PTL DEF Spec
<1>2. AddressInv => AddressStillFree
  BY DEF AddressInv
<1> QED
  BY <1>1, <1>2, PTL

-----------------------------------------------------------------------------
(***************************************************************************)
(* Step 1b of CreateConnection.                                            *)
(***************************************************************************)

\* FoundLeasesReplaced, strengthened to the statements between the UPDATE and
\* the COMMIT: what the UPDATE found is over or held by the connect.
FoundInv ==
  \A c \in Conns : pc[c] \in {"select", "lock", "alloc", "insert", "committed"} =>
    \A x \in seen[c] : Active(x) => x \in freed[c]

LEMMA FoundInit == Init => FoundInv
BY DEF Init, FoundInv

LEMMA RollbackKeepsFound ==
  ASSUME TypeInv, FoundInv, NEW c \in Conns, Rollback(c)
  PROVE  FoundInv'
BY DEF FoundInv, Rollback, DropLocks, Active, TypeInv, TypeOK, leaseVars

LEMMA FoundStep ==
  TypeInv /\ LockDiscipline /\ FoundInv /\ [Next]_vars => FoundInv'
<1> SUFFICES ASSUME TypeInv, LockDiscipline, FoundInv, [Next]_vars PROVE FoundInv'
  OBVIOUS
<1> USE DEF gatewayVars, txVars, leaseVars, revokeVars, sweepVars
<1>1. ASSUME NEW c \in Conns, CreateConnection(c) PROVE FoundInv'
  <2> USE DEF FoundInv, Active, TypeInv, TypeOK
  <2>1. ASSUME NEW d \in Devices, CheckDevice(c, d) PROVE FoundInv'
    BY <2>1 DEF CheckDevice
  <2>2. CASE FindOwnLeases(c)
    BY <2>2 DEF FindOwnLeases
  <2>3. CASE ReleaseOwnLeases(c)
    BY <2>3 DEF ReleaseOwnLeases
  <2>4. ASSUME NEW country \in Countries, SelectGateway(c, country) PROVE FoundInv'
    BY <2>4 DEF SelectGateway
  <2>5. ASSUME NEW country \in Countries, NoGatewayAvailable(c, country) PROVE FoundInv'
    BY <2>5, RollbackKeepsFound DEF NoGatewayAvailable
  <2>6. CASE LockGateway(c)
    BY <2>6 DEF LockGateway
  <2>7. CASE AllocateHost(c)
    BY <2>7 DEF AllocateHost
  <2>8. CASE GatewayFull(c)
    BY <2>8, RollbackKeepsFound DEF GatewayFull
  <2>9. CASE InsertLease(c)
    <3>1. \A b \in Conns : c \notin seen[b]
      BY <2>9 DEF InsertLease, Locals
    <3> QED
      BY <2>9, <3>1 DEF InsertLease, DropLocks
  <2>10. CASE TxError(c)
    BY <2>10, RollbackKeepsFound DEF TxError
  <2> QED
    BY <1>1, <2>1, <2>2, <2>3, <2>4, <2>5, <2>6, <2>7, <2>8, <2>9, <2>10
       DEF CreateConnection
<1>2. CASE Crash
  BY <1>2 DEF Crash, FoundInv, InFlight, Active, LockDiscipline, TypeInv, TypeOK
<1>3. ASSUME UNCHANGED txVars, \A x \in Conns : state'[x] = "active" => state[x] = "active"
      PROVE  FoundInv'
  BY <1>3 DEF FoundInv, Active, TypeInv, TypeOK
<1>4. Next => \/ \E c \in Conns : CreateConnection(c)
              \/ Crash
              \/ /\ UNCHANGED txVars
                 /\ \A x \in Conns : state'[x] = "active" => state[x] = "active"
  BY DEF Next, Reap, Revoke, Tick, ReleaseConnection, RenewConnection, RegisterGateway,
         Heartbeat, DeregisterGateway, MarkStaleUnhealthy, FindStaleLeases,
         ExpireStaleLeases, FindLeasesOnUnhealthyGateways, ExpireLeasesOnUnhealthyGateways,
         Expire, SweepError, RevokeDevice, FindRevokedLeases, ExpireRevokedLeases,
         RevokeError, TypeInv, TypeOK
<1>5. CASE UNCHANGED vars
  BY <1>3, <1>5 DEF vars
<1> QED
  BY <1>1, <1>2, <1>3, <1>4, <1>5

\* Once a connect has committed, every lease its dedupe UPDATE found is over.
THEOREM FoundLeasesAreReplaced == Spec => []FoundLeasesReplaced
<1>1. Spec => [](TypeInv /\ LockDiscipline /\ FoundInv)
  BY TypeInit, LockInit, FoundInit, TypeStep, LockStep, FoundStep, PTL DEF Spec
<1>2. LockDiscipline /\ FoundInv => FoundLeasesReplaced
  BY DEF LockDiscipline, FoundInv, FoundLeasesReplaced, InFlight
<1> QED
  BY <1>1, <1>2, PTL

-----------------------------------------------------------------------------
(***************************************************************************)
(* What a step may do to a lease.                                          *)
(***************************************************************************)

\* A lease changes its state in one of these ways only: its own connect
\* commits; a later connect of its device commits; or it is active, held by
\* no connect, and is released by its owner or expired.
LEMMA LeaseSteps ==
  ASSUME TypeInv, LockDiscipline, [Next]_vars
  PROVE  \/ /\ \E c \in Conns :
                 /\ state[c] = "none"
                 /\ \A x \in freed[c] : Active(x) /\ dev[x] = dev[c]
                 /\ InsertLease(c)
         \/ /\ \A x \in Conns : state'[x] # state[x] =>
                 Active(x) /\ state'[x] \in {"released", "expired"}
            /\ \A x \in Conns : expires'[x] # expires[x] => Active(x)
<1> USE DEF gatewayVars, txVars, leaseVars, revokeVars, sweepVars, TypeInv, TypeOK
<1>1. ASSUME NEW c \in Conns, CreateConnection(c)
      PROVE  InsertLease(c) \/ UNCHANGED <<state, expires>>
  BY <1>1 DEF CreateConnection, CheckDevice, FindOwnLeases, ReleaseOwnLeases, SelectGateway,
              NoGatewayAvailable, LockGateway, AllocateHost, GatewayFull, TxError, Rollback
<1>2. ASSUME NEW c \in Conns, InsertLease(c)
      PROVE  state[c] = "none" /\ \A x \in freed[c] : Active(x) /\ dev[x] = dev[c]
  BY <1>2 DEF InsertLease, Locals, LockDiscipline
<1>3. ASSUME NEW x \in Conns, ReleaseConnection(x) \/ RenewConnection(x)
      PROVE  /\ \A y \in Conns : state'[y] # state[y] =>
                  Active(y) /\ state'[y] \in {"released", "expired"}
             /\ \A y \in Conns : expires'[y] # expires[y] => Active(y)
  BY <1>3 DEF ReleaseConnection, RenewConnection, Active
<1>4. ASSUME NEW S, \A x \in S : Active(x), Expire(S), UNCHANGED expires
      PROVE  /\ \A y \in Conns : state'[y] # state[y] =>
                  Active(y) /\ state'[y] \in {"released", "expired"}
             /\ \A y \in Conns : expires'[y] # expires[y] => Active(y)
  BY <1>4 DEF Expire
<1>5. ASSUME ExpireStaleLeases \/ ExpireLeasesOnUnhealthyGateways
             \/ \E d \in Devices : ExpireRevokedLeases(d)
      PROVE  \E S : (\A x \in S : Active(x)) /\ Expire(S) /\ UNCHANGED expires
  BY <1>5 DEF ExpireStaleLeases, ExpireLeasesOnUnhealthyGateways, ExpireRevokedLeases, OverdueAt
<1>6. [Next]_vars => \/ \E c \in Conns : CreateConnection(c)
                     \/ \E x \in Conns : ReleaseConnection(x) \/ RenewConnection(x)
                     \/ ExpireStaleLeases
                     \/ ExpireLeasesOnUnhealthyGateways
                     \/ \E d \in Devices : ExpireRevokedLeases(d)
                     \/ UNCHANGED <<state, expires>>
  BY DEF vars, Next, Reap, Revoke, Tick, RegisterGateway, Heartbeat, DeregisterGateway,
         MarkStaleUnhealthy, FindStaleLeases, FindLeasesOnUnhealthyGateways, SweepError,
         RevokeDevice, FindRevokedLeases, RevokeError, Crash
<1> QED
  BY <1>1, <1>2, <1>3, <1>4, <1>5, <1>6

\* A released or expired lease never changes again: no late renewal, no late
\* sweep and no late commit touches it.
THEOREM EndedLeasesStayFrozen == Spec => EndedLeasesAreFrozen
<1>1. TypeInv /\ LockDiscipline /\ [Next]_vars =>
        [\A x \in Conns : state[x] \in {"released", "expired"} =>
           state'[x] = state[x] /\ expires'[x] = expires[x]]_vars
  <2> SUFFICES ASSUME TypeInv, LockDiscipline, [Next]_vars,
                      NEW x \in Conns, state[x] \in {"released", "expired"}
               PROVE  state'[x] = state[x] /\ expires'[x] = expires[x]
    OBVIOUS
  <2>1. ASSUME NEW c \in Conns, state[c] = "none",
               \A y \in freed[c] : Active(y) /\ dev[y] = dev[c], InsertLease(c)
        PROVE  state'[x] = state[x] /\ expires'[x] = expires[x]
    BY <2>1 DEF InsertLease, Active, TypeInv, TypeOK
  <2> QED
    BY <2>1, LeaseSteps DEF Active
<1>2. Spec => [](TypeInv /\ LockDiscipline)
  BY TypeInit, LockInit, TypeStep, LockStep, PTL DEF Spec
<1> QED
  BY <1>1, <1>2, PTL DEF Spec, EndedLeasesAreFrozen

\* The store releases a lease on behalf of a connect only in the step that
\* makes the device's new lease active: a failed reconnect loses nothing.
THEOREM ReconnectsAreAtomic == Spec => ReconnectIsAtomic
<1> DEFINE Replaced(x) ==
      \/ \E c \in Conns : /\ state[c] = "none" /\ state'[c] = "active"
                          /\ dev[c] = dev[x]
      \/ UNCHANGED <<pc, freed>>
<1>1. TypeInv /\ LockDiscipline /\ [Next]_vars =>
        [\A x \in Conns : Active(x) /\ state'[x] = "released" => Replaced(x)]_vars
  <2> SUFFICES ASSUME TypeInv, LockDiscipline, [Next]_vars, NEW x \in Conns,
                      Active(x), state'[x] = "released"
               PROVE  Replaced(x)
    BY DEF Replaced
  <2> USE DEF txVars, leaseVars, TypeInv, TypeOK, Active
  <2>1. CASE \E y \in Conns : ReleaseConnection(y)
    BY <2>1 DEF ReleaseConnection
  <2>2. ASSUME NEW c \in Conns, InsertLease(c) PROVE Replaced(x)
    <3>1. state[c] = "none" /\ state'[c] = "active"
      BY <2>2 DEF InsertLease, Locals
    <3>2. x \in freed[c]
      BY <2>2 DEF InsertLease
    <3>3. dev[x] = dev[c]
      BY <3>2 DEF LockDiscipline
    <3> QED
      BY <3>1, <3>3
  <2>3. ASSUME NEW c \in Conns, CreateConnection(c) PROVE InsertLease(c)
    BY <2>3 DEF CreateConnection, CheckDevice, FindOwnLeases, ReleaseOwnLeases,
                SelectGateway, NoGatewayAvailable, LockGateway, AllocateHost, GatewayFull,
                TxError, Rollback
  <2>4. [Next]_vars => \/ \E c \in Conns : CreateConnection(c)
                       \/ \E y \in Conns : ReleaseConnection(y)
    BY DEF vars, Next, Reap, Revoke, Tick, RenewConnection, RegisterGateway, Heartbeat,
           DeregisterGateway, MarkStaleUnhealthy, FindStaleLeases, ExpireStaleLeases,
           FindLeasesOnUnhealthyGateways, ExpireLeasesOnUnhealthyGateways, Expire,
           SweepError, RevokeDevice, FindRevokedLeases, ExpireRevokedLeases, RevokeError, Crash
  <2> QED
    BY <2>1, <2>2, <2>3, <2>4
<1>2. Spec => [](TypeInv /\ LockDiscipline)
  BY TypeInit, LockInit, TypeStep, LockStep, PTL DEF Spec
<1>3. [][\A x \in Conns : Active(x) /\ state'[x] = "released" => Replaced(x)]_vars
        => ReconnectIsAtomic
  BY DEF ReconnectIsAtomic, Replaced
<1> HIDE DEF Replaced
<1> QED
  BY <1>1, <1>2, <1>3, PTL DEF Spec

\* The row of a committed lease, active or ended, keeps its device, gateway and address.
LEMMA CommittedRowsAreFixed ==
  ASSUME TypeInv, [Next]_vars, NEW x \in Conns, state[x] # "none"
  PROVE  dev'[x] = dev[x] /\ chosen'[x] = chosen[x] /\ addr'[x] = addr[x]
<1> USE DEF txVars
<1>1. pc[x] = "committed"
  BY DEF TypeInv, Locals
<1>2. ASSUME NEW c \in Conns, CreateConnection(c)
      PROVE  dev'[x] = dev[x] /\ chosen'[x] = chosen[x] /\ addr'[x] = addr[x]
  <2> USE DEF TypeInv, TypeOK
  <2>1. ASSUME c # x, Rollback(c)
        PROVE  dev'[x] = dev[x] /\ chosen'[x] = chosen[x] /\ addr'[x] = addr[x]
    BY <2>1 DEF Rollback
  <2> QED
    BY <1>1, <1>2, <2>1
       DEF CreateConnection, CheckDevice, FindOwnLeases, ReleaseOwnLeases, SelectGateway,
           NoGatewayAvailable, LockGateway, AllocateHost, GatewayFull, InsertLease, TxError,
           InFlight
<1>3. CASE Crash
  BY <1>1, <1>3 DEF Crash, InFlight
<1>4. [Next]_vars => \/ \E c \in Conns : CreateConnection(c)
                     \/ Crash
                     \/ UNCHANGED txVars
  BY DEF vars, Next, Reap, Revoke, Tick, ReleaseConnection, RenewConnection, RegisterGateway,
         Heartbeat, DeregisterGateway, MarkStaleUnhealthy, FindStaleLeases,
         ExpireStaleLeases, FindLeasesOnUnhealthyGateways, ExpireLeasesOnUnhealthyGateways,
         SweepError, RevokeDevice, FindRevokedLeases, ExpireRevokedLeases, RevokeError
<1> QED
  BY <1>2, <1>3, <1>4

\* What the sweeps and the revocations carry from their read to their write:
\* the clock of a sweep is not ahead of the database's, and the leases that
\* a revocation has found are rows of a device that is revoked.
SweepInv ==
  /\ sweptAt <= now
  /\ \A d \in Devices :
       /\ revokePc[d] # "idle" => d \in revoked
       /\ \A x \in revokeSet[d] : dev[x] = d /\ state[x] # "none"

LEMMA SweepInit == Init => SweepInv
BY DEF Init, SweepInv

LEMMA SweepStep == TypeInv /\ SweepInv /\ [Next]_vars => SweepInv'
<1> SUFFICES ASSUME TypeInv, SweepInv, [Next]_vars PROVE SweepInv'
  OBVIOUS
<1> USE DEF gatewayVars, txVars, leaseVars, revokeVars, sweepVars
<1>1. sweptAt' <= now'
  <2>1. /\ sweptAt' \in {sweptAt, now, 0}
        /\ now' \in {now, now + 1}
    BY DEF vars, Next, Reap, Revoke, Tick, CreateConnection, CheckDevice, FindOwnLeases,
           ReleaseOwnLeases, SelectGateway, NoGatewayAvailable, LockGateway, AllocateHost,
           GatewayFull, InsertLease, TxError, Rollback, ReleaseConnection, RenewConnection,
           RegisterGateway, Heartbeat, DeregisterGateway, MarkStaleUnhealthy,
           FindStaleLeases, ExpireStaleLeases, FindLeasesOnUnhealthyGateways,
           ExpireLeasesOnUnhealthyGateways, SweepError, RevokeDevice, FindRevokedLeases,
           ExpireRevokedLeases, RevokeError, Crash
  <2> QED
    BY <2>1 DEF TypeInv, TypeOK, SweepInv
<1>2. ASSUME NEW x \in Conns, state[x] # "none"
      PROVE  state'[x] # "none" /\ dev'[x] = dev[x]
  <2>1. pc[x] = "committed" /\ TypeInv'
    BY <1>2, TypeStep DEF TypeInv, Locals
  <2>2. pc'[x] = "committed"
    <3>1. ASSUME NEW c \in Conns, CreateConnection(c) PROVE pc'[x] = "committed"
      BY <2>1, <3>1
         DEF TypeInv, TypeOK, CreateConnection, CheckDevice, FindOwnLeases, ReleaseOwnLeases,
             SelectGateway, NoGatewayAvailable, LockGateway, AllocateHost, GatewayFull,
             InsertLease, TxError, Rollback, InFlight
    <3>2. CASE Crash
      BY <2>1, <3>2 DEF Crash, InFlight
    <3>3. \/ \E c \in Conns : CreateConnection(c)
          \/ Crash
          \/ pc' = pc
      BY DEF vars, Next, Reap, Revoke, Tick, ReleaseConnection, RenewConnection,
             RegisterGateway, Heartbeat, DeregisterGateway, MarkStaleUnhealthy,
             FindStaleLeases, ExpireStaleLeases, FindLeasesOnUnhealthyGateways,
             ExpireLeasesOnUnhealthyGateways, SweepError, RevokeDevice, FindRevokedLeases,
             ExpireRevokedLeases, RevokeError
    <3> QED
      BY <2>1, <3>1, <3>2, <3>3
  <2>3. dev'[x] = dev[x]
    BY <1>2, CommittedRowsAreFixed
  <2> QED
    BY <2>1, <2>2, <2>3 DEF TypeInv, Locals
<1>3. ASSUME NEW d \in Devices
      PROVE  /\ revokePc'[d] # "idle" => d \in revoked'
             /\ revokeSet'[d] \subseteq revokeSet[d] \cup LeasesOf(d)
  <2> USE DEF TypeInv, TypeOK, SweepInv
  <2>1. ASSUME NEW e \in Devices, Revoke(e)
        PROVE  /\ revokePc'[d] # "idle" => d \in revoked'
               /\ revokeSet'[d] \subseteq revokeSet[d] \cup LeasesOf(d)
    BY <2>1 DEF Revoke, RevokeDevice, FindRevokedLeases, ExpireRevokedLeases, RevokeError
  <2>2. CASE Crash
    BY <2>2 DEF Crash
  <2>3. CASE UNCHANGED revokeVars
    BY <2>3
  <2>4. \/ \E e \in Devices : Revoke(e)
        \/ Crash
        \/ UNCHANGED revokeVars
    BY DEF vars, Next, Reap, Tick, CreateConnection, CheckDevice, FindOwnLeases,
           ReleaseOwnLeases, SelectGateway, NoGatewayAvailable, LockGateway, AllocateHost,
           GatewayFull, InsertLease, TxError, Rollback, ReleaseConnection, RenewConnection,
           RegisterGateway, Heartbeat, DeregisterGateway, MarkStaleUnhealthy,
           FindStaleLeases, ExpireStaleLeases, FindLeasesOnUnhealthyGateways,
           ExpireLeasesOnUnhealthyGateways, SweepError
  <2> QED
    BY <2>1, <2>2, <2>3, <2>4
<1>4. ASSUME NEW d \in Devices, NEW x \in revokeSet'[d]
      PROVE  dev'[x] = d /\ state'[x] # "none"
  <2>1. x \in Conns /\ dev[x] = d /\ state[x] # "none"
    BY <1>3, <1>4 DEF SweepInv, LeasesOf, Active, TypeInv, TypeOK
  <2> QED
    BY <1>2, <2>1
<1> QED
  BY <1>1, <1>3, <1>4 DEF SweepInv

\* The keep-alive holds against the sweeps: an active lease is expired only
\* if it is overdue by the database clock in that very step (a renewal that
\* came after the sweep's read counts), by the failover sweep that found it,
\* or because its own device is revoked.
THEOREM LeasesExpireInTime == Spec => NoPrematureExpiry
<1> DEFINE Due(x) ==
      \/ Overdue(x)
      \/ reaper = "failoverApply" /\ x \in swept
      \/ dev[x] \in revoked
<1>1. TypeInv /\ SweepInv /\ [Next]_vars =>
        [\A x \in Conns : Active(x) /\ state'[x] = "expired" => Due(x)]_vars
  <2> SUFFICES ASSUME TypeInv, SweepInv, [Next]_vars, NEW x \in Conns,
                      Active(x), state'[x] = "expired"
               PROVE  Due(x)
    BY DEF Due
  <2> USE DEF gatewayVars, txVars, leaseVars, revokeVars, sweepVars, TypeInv, TypeOK, Active
  <2>1. CASE ExpireStaleLeases
    <3>1. OverdueAt(x, sweptAt)
      BY <2>1 DEF ExpireStaleLeases, Expire
    <3>2. Overdue(x)
      BY <3>1 DEF Overdue, OverdueAt, SweepInv
    <3> QED
      BY <3>2
  <2>2. CASE ExpireLeasesOnUnhealthyGateways
    BY <2>2 DEF ExpireLeasesOnUnhealthyGateways, Expire
  <2>3. ASSUME NEW d \in Devices, ExpireRevokedLeases(d) PROVE Due(x)
    BY <2>3 DEF ExpireRevokedLeases, Expire, SweepInv
  <2>4. \/ ExpireStaleLeases
        \/ ExpireLeasesOnUnhealthyGateways
        \/ \E d \in Devices : ExpireRevokedLeases(d)
    BY DEF vars, Next, Reap, Revoke, Tick, CreateConnection, CheckDevice, FindOwnLeases,
           ReleaseOwnLeases, SelectGateway, NoGatewayAvailable, LockGateway, AllocateHost,
           GatewayFull, InsertLease, TxError, Rollback, ReleaseConnection, RenewConnection,
           RegisterGateway, Heartbeat, DeregisterGateway, MarkStaleUnhealthy,
           FindStaleLeases, FindLeasesOnUnhealthyGateways, SweepError, RevokeDevice,
           FindRevokedLeases, RevokeError, Crash
  <2> QED
    BY <2>1, <2>2, <2>3, <2>4
<1>2. Spec => [](TypeInv /\ SweepInv)
  BY TypeInit, SweepInit, TypeStep, SweepStep, PTL DEF Spec
<1>3. [][\A x \in Conns : Active(x) /\ state'[x] = "expired" => Due(x)]_vars
        => NoPrematureExpiry
  BY DEF NoPrematureExpiry, Due
<1> HIDE DEF Due
<1> QED
  BY <1>1, <1>2, <1>3, PTL DEF Spec

-----------------------------------------------------------------------------
(***************************************************************************)
(* The store implements the ledger.                                        *)
(***************************************************************************)

\* Refinement: for every value of the constants, the behaviours of the store
\* are behaviours of the ledger under the mapping of ImplementsLedger.
THEOREM StoreImplementsLedger == Spec => ImplementsLedger
<1> DEFINE Ledg == {GrantOf(c) : c \in {x \in Conns : Active(x)}}
           Iss  == {c \in Conns : state[c] # "none"}
<1>1. Init => Ledger!Init
  BY DEF Init, Ledger!Init, Active
<1>2. TypeInv /\ LockDiscipline /\ AddressInv /\ [Next]_vars
        => [Ledger!Next]_<<Ledg, Iss>>
  <2> SUFFICES ASSUME TypeInv, LockDiscipline, AddressInv, [Next]_vars
               PROVE  Ledger!Grant \/ Ledger!Withdraw
    BY DEF Ledger!Next
  <2>1. \A x \in Conns : Active(x) => GrantOf(x)' = GrantOf(x)
    BY CommittedRowsAreFixed DEF GrantOf, Active
  <2>2. ASSUME NEW c \in Conns, state[c] = "none", InsertLease(c),
               \A x \in freed[c] : Active(x) /\ dev[x] = dev[c]
        PROVE  Ledger!Grant
    <3> DEFINE new == GrantOf(c)
               old == {GrantOf(x) : x \in freed[c]}
    <3>1. new \in Ledger!Grants /\ new.conn = c /\ new.dev = dev[c]
          /\ new.gw = chosen[c] /\ new.addr = addr[c]
      BY <2>2 DEF GrantOf, Ledger!Grants, InsertLease, TypeInv, Locals
    <3>2. c \notin Iss /\ Iss' = Iss \cup {c}
      BY <2>2 DEF InsertLease, Active, TypeInv, TypeOK
    <3>3. old \in SUBSET {e \in Ledg : e.dev = new.dev}
      BY <2>2, <3>1 DEF GrantOf, TypeInv, TypeOK
    <3>4. \A e \in Ledg \ old : ~ (e.gw = new.gw /\ e.addr = new.addr)
      <4> SUFFICES ASSUME NEW x \in Conns, Active(x), x \notin freed[c]
                   PROVE  ~ (chosen[x] = chosen[c] /\ addr[x] = addr[c])
        BY <3>1 DEF GrantOf
      <4> QED
        BY <2>2 DEF InsertLease, AddressInv, AddressStillFree, LeasesOn, ActiveFor
    <3>5. GrantOf(c)' = GrantOf(c)
      BY <2>2 DEF InsertLease, GrantOf
    <3>6. \A x \in Conns : Active(x)' <=> x = c \/ (Active(x) /\ x \notin freed[c])
      BY <2>2 DEF InsertLease, Active, TypeInv, TypeOK
    <3>7. Ledg' = {GrantOf(x)' : x \in {y \in Conns : Active(y)'}}
      OBVIOUS
    <3>8. Ledg' = {GrantOf(x) : x \in {y \in Conns : Active(y) /\ y \notin freed[c]}} \cup {new}
      BY <2>1, <3>5, <3>6, <3>7
    <3>9. \A x, y \in Conns : GrantOf(x) = GrantOf(y) => x = y
      BY DEF GrantOf
    <3>10. Ledg' = (Ledg \ old) \cup {new}
      <4> DEFINE kept == {GrantOf(x) : x \in {y \in Conns : Active(y) /\ y \notin freed[c]}}
      <4>1. freed[c] \subseteq Conns
        BY DEF TypeInv, TypeOK
      <4>2. kept = Ledg \ old
        BY <3>9, <4>1
      <4> HIDE DEF kept, Ledg, old, new
      <4> QED
        BY <3>8, <4>2 DEF kept, new
    <3> QED
      BY <3>1, <3>2, <3>3, <3>4, <3>10 DEF Ledger!Grant
  <2>3. ASSUME \A x \in Conns : state'[x] # state[x] =>
                 Active(x) /\ state'[x] \in {"released", "expired"}
        PROVE  Ledger!Withdraw
    <3>1. \A x \in Conns : Active(x)' => Active(x)
      BY <2>3 DEF Active
    <3>2. Ledg' \subseteq Ledg
      BY <2>1, <3>1
    <3>3. Iss' = Iss
      BY <2>3 DEF Active
    <3> QED
      BY <3>2, <3>3 DEF Ledger!Withdraw
  <2> QED
    BY <2>2, <2>3, LeaseSteps
<1>3. Spec => [](TypeInv /\ LockDiscipline /\ AddressInv)
  BY TypeInit, LockInit, AddressInit, TypeStep, LockStep, AddressStep, PTL DEF Spec
<1> QED
  BY <1>1, <1>2, <1>3, PTL DEF Spec, ImplementsLedger, Ledger!Spec

=============================================================================
