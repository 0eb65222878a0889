----------------------------- MODULE LeaseStore -----------------------------
(***************************************************************************)
(* The control plane's lease store: CreateConnection, ReleaseConnection,   *)
(* RenewConnection and the lease sweeps (store/connections.go), the        *)
(* gateway registry they read (store/gateways.go), RevokeDevice            *)
(* (store/identity.go) and the reaper loop that drives the sweeps          *)
(* (cmd/aevora-controld/main.go), over PostgreSQL at its default isolation *)
(* level, READ COMMITTED:                                                  *)
(*                                                                         *)
(*  - every statement reads what is committed when it starts, plus the     *)
(*    writes of its own transaction;                                       *)
(*  - now() is the start of the transaction;                               *)
(*  - an UPDATE finds its rows in the statement's snapshot, waits for the  *)
(*    transactions that hold them, and evaluates its WHERE clause again on *)
(*    the row it then finds: a row that no longer matches is skipped, a    *)
(*    row that was inserted meanwhile is missed.                           *)
(*                                                                         *)
(* An element of Conns is one call of CreateConnection.  A call inserts at *)
(* most one lease, so Conns also names the rows of the table leases.  The  *)
(* transaction of a call goes through the statements of CreateConnection,  *)
(* one action each, and may fail at any of them.                           *)
(*                                                                         *)
(* The partial unique index uq_lease_gw_ip_active is left out on purpose:  *)
(* NoSharedAddress shows that the row lock alone never lets an INSERT meet *)
(* it, so the model with and without the index are the same.               *)
(***************************************************************************)
EXTENDS Integers, FiniteSets, AddressPool, Selection

CONSTANTS
  Conns,          \* calls of CreateConnection, and the leases they insert
  Devices,
  Gateways,       \* gateway names (unique in the registry)
  Countries,
  CountryOf,      \* the location each gateway registers with
  Registrations,  \* metadata an agent may register with
  TrafficLevels,  \* rx + tx values a heartbeat may report
  LeaseTTL,       \* ticks; AEVORA_LEASE_TTL
  HeartbeatTTL,   \* ticks; AEVORA_HEARTBEAT_TTL
  MaxTime,        \* bound on the clock
  None            \* no gateway, no holder, no address

Registration == [subnet : Subnet, capacity : Nat \ {0}, bandwidth : Nat]

ASSUME StoreAssumption ==
  /\ CountryOf \in [Gateways -> Countries]
  /\ Registrations \subseteq Registration
  /\ TrafficLevels \subseteq Nat
  /\ LeaseTTL \in Nat \ {0}
  /\ HeartbeatTTL \in Nat \ {0}
  /\ MaxTime \in Nat
  /\ None \notin Conns
  /\ None \notin Gateways
  /\ None \notin Word
  /\ None \notin Registrations

Never == -1   \* last_heartbeat_at IS NULL

VARIABLES
  now,       \* the database clock, in ticks
  status,    \* gateways.status ("absent": no row yet)
  beat,      \* gateways.last_heartbeat_at
  traffic,   \* gateways.rx_bps + tx_bps
  meta,      \* the registration metadata of the row
  gwLock,    \* the transaction holding the gateway's row lock, or None
  revoked,   \* devices with revoked_at set
  revokePc,  \* progress of RevokeDevice for each device
  pc,        \* next statement of each CreateConnection
  dev,       \* its device
  started,   \* its now()
  seen,      \* the leases its dedupe UPDATE found
  freed,     \* the leases it has released and not committed (row locks)
  chosen,    \* the gateway it selected
  subnet,    \* that gateway's subnet, as read by the candidate query
  addr,      \* the address it allocated
  state,     \* leases.state ("none": no row yet)
  expires,   \* leases.expires_at
  reaper,    \* next statement of the reaper loop
  swept,     \* the leases found by the sweep that is running
  sweptAt,   \* now() of that sweep
  revokeSet  \* the leases found by the last statement of RevokeDevice

gatewayVars == <<status, beat, traffic, meta>>
txVars == <<pc, dev, started, seen, freed, chosen, subnet, addr, gwLock>>
leaseVars == <<state, expires>>
revokeVars == <<revoked, revokePc, revokeSet>>
sweepVars == <<reaper, swept, sweptAt>>
vars == <<now, gatewayVars, txVars, leaseVars, revokeVars, sweepVars>>

Statuses == {"absent", "pending", "healthy", "unhealthy", "disabled"}
TxSteps == {"init", "dedupe", "release", "select", "lock", "alloc", "insert",
            "committed", "failed"}
LeaseStates == {"none", "active", "released", "expired"}
RevokeSteps == {"idle", "leases", "apply", "done", "error"}
ReaperSteps == {"gateways", "stale", "staleApply", "failover", "failoverApply"}

TypeOK ==
  /\ now \in Nat
  /\ status \in [Gateways -> Statuses]
  /\ beat \in [Gateways -> Nat \cup {Never}]
  /\ traffic \in [Gateways -> TrafficLevels \cup {0}]
  /\ meta \in [Gateways -> Registrations \cup {None}]
  /\ gwLock \in [Gateways -> Conns \cup {None}]
  /\ revoked \subseteq Devices
  /\ revokePc \in [Devices -> RevokeSteps]
  /\ pc \in [Conns -> TxSteps]
  /\ dev \in [Conns -> Devices \cup {None}]
  /\ started \in [Conns -> Nat]
  /\ seen \in [Conns -> SUBSET Conns]
  /\ freed \in [Conns -> SUBSET Conns]
  /\ chosen \in [Conns -> Gateways \cup {None}]
  /\ subnet \in [Conns -> Subnet \cup {None}]
  /\ addr \in [Conns -> Word \cup {None}]
  /\ state \in [Conns -> LeaseStates]
  /\ expires \in [Conns -> Nat]
  /\ reaper \in ReaperSteps
  /\ swept \subseteq Conns
  /\ sweptAt \in Nat
  /\ revokeSet \in [Devices -> SUBSET Conns]

Init ==
  /\ now = 0
  /\ status = [g \in Gateways |-> "absent"]
  /\ beat = [g \in Gateways |-> Never]
  /\ traffic = [g \in Gateways |-> 0]
  /\ meta = [g \in Gateways |-> None]
  /\ gwLock = [g \in Gateways |-> None]
  /\ revoked = {}
  /\ revokePc = [d \in Devices |-> "idle"]
  /\ revokeSet = [d \in Devices |-> {}]
  /\ pc = [c \in Conns |-> "init"]
  /\ dev = [c \in Conns |-> None]
  /\ started = [c \in Conns |-> 0]
  /\ seen = [c \in Conns |-> {}]
  /\ freed = [c \in Conns |-> {}]
  /\ chosen = [c \in Conns |-> None]
  /\ subnet = [c \in Conns |-> None]
  /\ addr = [c \in Conns |-> None]
  /\ state = [c \in Conns |-> "none"]
  /\ expires = [c \in Conns |-> 0]
  /\ reaper = "gateways"
  /\ swept = {}
  /\ sweptAt = 0

Tick ==
  /\ now < MaxTime
  /\ now' = now + 1
  /\ UNCHANGED <<gatewayVars, txVars, leaseVars, revokeVars, sweepVars>>

-----------------------------------------------------------------------------
(***************************************************************************)
(* What a statement of transaction c reads, and the locks.                 *)
(***************************************************************************)

Active(x) == state[x] = "active"

\* c's own releases hide a lease from c before they are committed.
ActiveFor(c, x) == Active(x) /\ x \notin freed[c]

\* No transaction holds the row of lease x.
RowFree(x) == \A c \in Conns : x \notin freed[c]

LeasesOf(d) == {x \in Conns : Active(x) /\ dev[x] = d}

LeasesOn(c, g) == {x \in Conns : ActiveFor(c, x) /\ chosen[x] = g}

UnexpiredHostAddrs(c, g) ==
  {addr[x] : x \in {y \in LeasesOn(c, g) : expires[y] > started[c]}}

UsedHostAddrs(c, g) == {addr[x] : x \in LeasesOn(c, g)}

InFlight(c) == pc[c] \in {"dedupe", "release", "select", "lock", "alloc", "insert"}

KeepLocks(c) == UNCHANGED <<freed, gwLock>>

\* Rollback, and the end of every transaction: its locks are dropped.
DropLocks(c) ==
  /\ freed' = [freed EXCEPT ![c] = {}]
  /\ gwLock' = [g \in Gateways |-> IF gwLock[g] = c THEN None ELSE gwLock[g]]

\* An error return of CreateConnection: the deferred tx.Rollback.  The call
\* ends, and with it its local variables.
Rollback(c) ==
  /\ pc' = [pc EXCEPT ![c] = "failed"]
  /\ dev' = [dev EXCEPT ![c] = None]
  /\ started' = [started EXCEPT ![c] = 0]
  /\ seen' = [seen EXCEPT ![c] = {}]
  /\ chosen' = [chosen EXCEPT ![c] = None]
  /\ subnet' = [subnet EXCEPT ![c] = None]
  /\ addr' = [addr EXCEPT ![c] = None]
  /\ DropLocks(c)
  /\ UNCHANGED <<now, gatewayVars, leaseVars, revokeVars, sweepVars>>

-----------------------------------------------------------------------------
(***************************************************************************)
(* CreateConnection, one action per statement.                             *)
(***************************************************************************)

\* 1. BEGIN and the ownership/revocation check, which takes no lock.
CheckDevice(c, d) ==
  /\ pc[c] = "init"
  /\ d \notin revoked
  /\ pc' = [pc EXCEPT ![c] = "dedupe"]
  /\ dev' = [dev EXCEPT ![c] = d]
  /\ started' = [started EXCEPT ![c] = now]
  /\ UNCHANGED <<now, gatewayVars, leaseVars, revokeVars, sweepVars,
                 seen, freed, chosen, subnet, addr, gwLock>>

\* 1b. The UPDATE that releases the device's leases: the rows it finds ...
FindOwnLeases(c) ==
  /\ pc[c] = "dedupe"
  /\ pc' = [pc EXCEPT ![c] = "release"]
  /\ seen' = [seen EXCEPT ![c] = LeasesOf(dev[c])]
  /\ UNCHANGED <<now, gatewayVars, leaseVars, revokeVars, sweepVars,
                 dev, started, freed, chosen, subnet, addr, gwLock>>

ReleaseUnlockedLeases(c) ==
  /\ pc[c] = "release"
  /\ pc' = [pc EXCEPT ![c] = "select"]
  /\ freed' = [freed EXCEPT ![c] = {x \in seen[c] : Active(x) /\ RowFree(x)}]
  /\ UNCHANGED <<now, gatewayVars, leaseVars, revokeVars, sweepVars,
                 dev, started, seen, chosen, subnet, addr, gwLock>>

ReleaseAutocommit(c) ==
  /\ pc[c] = "release"
  /\ \A x \in seen[c] : RowFree(x)
  /\ pc' = [pc EXCEPT ![c] = "select"]
  /\ state' = [x \in Conns |-> IF x \in seen[c] /\ Active(x) THEN "released"
                               ELSE state[x]]
  /\ UNCHANGED <<now, gatewayVars, expires, revokeVars, sweepVars,
                 dev, started, seen, freed, chosen, subnet, addr, gwLock>>

\* ... and, once no other transaction holds one of them, the rows it
\* releases: those that are still active.  Nobody sees it before COMMIT.
ReleaseOwnLeases(c) ==
  /\ pc[c] = "release"
  /\ \A x \in seen[c] : RowFree(x)
  /\ pc' = [pc EXCEPT ![c] = "select"]
  /\ freed' = [freed EXCEPT ![c] = {x \in seen[c] : Active(x)}]
  /\ UNCHANGED <<now, gatewayVars, leaseVars, revokeVars, sweepVars,
                 dev, started, seen, chosen, subnet, addr, gwLock>>

\* 2. The candidate query: healthy gateways of the country whose heartbeat
\* was fresh when the transaction began.
Candidates(c, country) ==
  {g \in Gateways : /\ CountryOf[g] = country
                    /\ status[g] = "healthy"
                    /\ beat[g] # Never
                    /\ beat[g] >= started[c] - HeartbeatTTL}

CandidateRow(c) ==
  [g \in Gateways |->
    [active    |-> Cardinality(LeasesOn(c, g)),
     capacity  |-> IF meta[g] = None THEN 0 ELSE meta[g].capacity,
     bandwidth |-> IF meta[g] = None THEN 0 ELSE meta[g].bandwidth,
     traffic   |-> traffic[g]]]

\* selection.Best over the rows, whose order the query leaves open.  The
\* subnet is carried in the Go variable "chosen" from here on.
SelectGateway(c, country) ==
  /\ pc[c] = "select"
  /\ \E g \in BestOf(Candidates(c, country), CandidateRow(c)) :
       /\ chosen' = [chosen EXCEPT ![c] = g]
       /\ subnet' = [subnet EXCEPT ![c] = meta[g].subnet]
  /\ pc' = [pc EXCEPT ![c] = "lock"]
  /\ UNCHANGED <<now, gatewayVars, leaseVars, revokeVars, sweepVars,
                 dev, started, seen, freed, addr, gwLock>>

\* ErrNoGatewayAvailable.
NoGatewayAvailable(c, country) ==
  /\ pc[c] = "select"
  /\ BestOf(Candidates(c, country), CandidateRow(c)) = {}
  /\ Rollback(c)

LockGatewayShared(c) ==
  /\ pc[c] = "lock"
  /\ gwLock' = [gwLock EXCEPT ![chosen[c]] = c]
  /\ pc' = [pc EXCEPT ![c] = "alloc"]
  /\ UNCHANGED <<now, gatewayVars, leaseVars, revokeVars, sweepVars,
                 dev, started, seen, freed, chosen, subnet, addr>>

\* 3. SELECT ... FOR UPDATE: waits for the holder of the row.
LockGateway(c) ==
  /\ pc[c] = "lock"
  /\ gwLock[chosen[c]] = None
  /\ gwLock' = [gwLock EXCEPT ![chosen[c]] = c]
  /\ pc' = [pc EXCEPT ![c] = "alloc"]
  /\ UNCHANGED <<now, gatewayVars, leaseVars, revokeVars, sweepVars,
                 dev, started, seen, freed, chosen, subnet, addr>>

\* 4., 5. usedHostAddrs and allocateHost: the lowest address of the subnet
\* that was read in step 2 and that no lease of the gateway uses now.
AllocateHost(c) ==
  /\ pc[c] = "alloc"
  /\ \E h \in HostOffsets(subnet[c]) :
       /\ IsLowestFree(subnet[c], UsedHostAddrs(c, chosen[c]), h)
       /\ addr' = [addr EXCEPT ![c] = HostAddr(subnet[c], h)]
  /\ pc' = [pc EXCEPT ![c] = "insert"]
  /\ UNCHANGED <<now, gatewayVars, leaseVars, revokeVars, sweepVars,
                 dev, started, seen, freed, chosen, subnet, gwLock>>

\* ErrGatewayFull.
GatewayFull(c) ==
  /\ pc[c] = "alloc"
  /\ PoolExhausted(subnet[c], UsedHostAddrs(c, chosen[c]))
  /\ Rollback(c)

\* 6. INSERT and COMMIT: the new lease and the releases become visible at
\* once and the locks are dropped.
InsertLease(c) ==
  /\ pc[c] = "insert"
  /\ pc' = [pc EXCEPT ![c] = "committed"]
  /\ state' = [x \in Conns |-> IF x = c THEN "active"
                               ELSE IF x \in freed[c] THEN "released"
                               ELSE state[x]]
  /\ expires' = [expires EXCEPT ![c] = started[c] + LeaseTTL]
  /\ started' = [started EXCEPT ![c] = 0]
  /\ subnet' = [subnet EXCEPT ![c] = None]
  /\ DropLocks(c)
  /\ UNCHANGED <<now, gatewayVars, revokeVars, sweepVars,
                 dev, seen, chosen, addr>>

\* A statement fails, the request is cancelled, or the process dies: the
\* database rolls the transaction back.
TxError(c) == InFlight(c) /\ Rollback(c)

CreateConnection(c) ==
  \/ \E d \in Devices : CheckDevice(c, d)
  \/ FindOwnLeases(c)
  \/ ReleaseOwnLeases(c)
  \/ \E country \in Countries : SelectGateway(c, country)
  \/ \E country \in Countries : NoGatewayAvailable(c, country)
  \/ LockGateway(c)
  \/ AllocateHost(c)
  \/ GatewayFull(c)
  \/ InsertLease(c)
  \/ TxError(c)

-----------------------------------------------------------------------------
(***************************************************************************)
(* ReleaseConnection and RenewConnection: one UPDATE of one row, which     *)
(* waits for a transaction that holds the row.  A call that finds no       *)
(* active lease returns ErrNotFound and changes nothing.                   *)
(***************************************************************************)

ReleaseConnection(x) ==
  /\ Active(x)
  /\ RowFree(x)
  /\ state' = [state EXCEPT ![x] = "released"]
  /\ UNCHANGED <<now, gatewayVars, txVars, expires, revokeVars, sweepVars>>

RenewAnyLease(x) ==
  /\ state[x] # "none"
  /\ RowFree(x)
  /\ expires' = [expires EXCEPT ![x] = now + LeaseTTL]
  /\ UNCHANGED <<now, gatewayVars, txVars, state, revokeVars, sweepVars>>

RenewConnection(x) ==
  /\ Active(x)
  /\ RowFree(x)
  /\ expires' = [expires EXCEPT ![x] = now + LeaseTTL]
  /\ UNCHANGED <<now, gatewayVars, txVars, state, revokeVars, sweepVars>>

-----------------------------------------------------------------------------
(***************************************************************************)
(* The gateway registry.  Each operation updates one row and waits for a   *)
(* transaction that holds its lock.  Only calls that carry the row's       *)
(* current node token are actions: any other returns ErrInvalidToken and   *)
(* changes nothing.                                                        *)
(***************************************************************************)

\* The upsert by name; last_heartbeat_at and the metrics are not reset.
RegisterGateway(g, r) ==
  /\ gwLock[g] = None
  /\ status' = [status EXCEPT ![g] = "pending"]
  /\ meta' = [meta EXCEPT ![g] = r]
  /\ UNCHANGED <<now, beat, traffic, txVars, leaseVars, revokeVars, sweepVars>>

Heartbeat(g, load) ==
  /\ status[g] \notin {"absent", "disabled"}
  /\ gwLock[g] = None
  /\ status' = [status EXCEPT ![g] = "healthy"]
  /\ beat' = [beat EXCEPT ![g] = now]
  /\ traffic' = [traffic EXCEPT ![g] = load]
  /\ UNCHANGED <<now, meta, txVars, leaseVars, revokeVars, sweepVars>>

DeregisterDraining(g) ==
  /\ status[g] # "absent"
  /\ gwLock[g] = None
  /\ status' = [status EXCEPT ![g] = "draining"]
  /\ UNCHANGED <<now, beat, traffic, meta, txVars, leaseVars, revokeVars, sweepVars>>

DeregisterGateway(g) ==
  /\ status[g] # "absent"
  /\ gwLock[g] = None
  /\ status' = [status EXCEPT ![g] = "disabled"]
  /\ UNCHANGED <<now, beat, traffic, meta, txVars, leaseVars, revokeVars, sweepVars>>

-----------------------------------------------------------------------------
(***************************************************************************)
(* The reaper loop: on every tick of its timer three sweeps, in this       *)
(* order.  An error of one of them is logged and the next one runs.        *)
(***************************************************************************)

StaleGateways ==
  {g \in Gateways : /\ status[g] = "healthy"
                    /\ (beat[g] = Never \/ beat[g] < now - HeartbeatTTL)}

MarkStaleUnhealthy ==
  /\ reaper = "gateways"
  /\ \A g \in StaleGateways : gwLock[g] = None
  /\ status' = [g \in Gateways |-> IF g \in StaleGateways THEN "unhealthy"
                                   ELSE status[g]]
  /\ reaper' = "stale"
  /\ UNCHANGED <<now, beat, traffic, meta, txVars, leaseVars, revokeVars, swept, sweptAt>>

OverdueAt(x, t) == Active(x) /\ expires[x] < t
Overdue(x) == OverdueAt(x, now)

FindFreshLeases ==
  /\ reaper = "stale"
  /\ swept' = {x \in Conns : Active(x) /\ expires[x] > now}
  /\ sweptAt' = now
  /\ reaper' = "staleApply"
  /\ UNCHANGED <<now, gatewayVars, txVars, leaseVars, revokeVars>>

\* The UPDATE of ExpireStaleLeases finds its rows ...
FindStaleLeases ==
  /\ reaper = "stale"
  /\ swept' = {x \in Conns : Overdue(x)}
  /\ sweptAt' = now
  /\ reaper' = "staleApply"
  /\ UNCHANGED <<now, gatewayVars, txVars, leaseVars, revokeVars>>

Expire(S) == state' = [x \in Conns |-> IF x \in S THEN "expired" ELSE state[x]]

ExpireFoundLeases ==
  /\ reaper = "staleApply"
  /\ \A x \in swept : RowFree(x)
  /\ Expire({x \in swept : Active(x)})
  /\ swept' = {}
  /\ sweptAt' = 0
  /\ reaper' = "failover"
  /\ UNCHANGED <<now, gatewayVars, txVars, expires, revokeVars>>

\* ... and changes those that are still active and overdue when it gets
\* them, by the clock of its start.
ExpireStaleLeases ==
  /\ reaper = "staleApply"
  /\ \A x \in swept : RowFree(x)
  /\ Expire({x \in swept : OverdueAt(x, sweptAt)})
  /\ swept' = {}
  /\ sweptAt' = 0
  /\ reaper' = "failover"
  /\ UNCHANGED <<now, gatewayVars, txVars, expires, revokeVars>>

FindLeasesOnLostGateways ==
  /\ reaper = "failover"
  /\ swept' = {x \in Conns : Active(x) /\ status[chosen[x]] = "unhealthy"}
  /\ reaper' = "failoverApply"
  /\ UNCHANGED <<now, gatewayVars, txVars, leaseVars, revokeVars, sweptAt>>

\* ExpireLeasesOnUnhealthyGateways: the status is read in the snapshot only.
FindLeasesOnUnhealthyGateways ==
  /\ reaper = "failover"
  /\ swept' = {x \in Conns : Active(x) /\ status[chosen[x]] # "healthy"}
  /\ reaper' = "failoverApply"
  /\ UNCHANGED <<now, gatewayVars, txVars, leaseVars, revokeVars, sweptAt>>

ExpireLeasesOnUnhealthyGateways ==
  /\ reaper = "failoverApply"
  /\ \A x \in swept : RowFree(x)
  /\ Expire({x \in swept : Active(x)})
  /\ swept' = {}
  /\ reaper' = "gateways"
  /\ UNCHANGED <<now, gatewayVars, txVars, expires, revokeVars, sweptAt>>

\* A sweep returns an error: nothing is changed, the loop goes on.
SweepError ==
  /\ \/ reaper = "gateways"      /\ reaper' = "stale"
     \/ reaper = "staleApply"    /\ reaper' = "failover"
     \/ reaper = "failoverApply" /\ reaper' = "gateways"
  /\ swept' = {}
  /\ sweptAt' = 0
  /\ UNCHANGED <<now, gatewayVars, txVars, leaseVars, revokeVars>>

-----------------------------------------------------------------------------
(***************************************************************************)
(* RevokeDevice: three statements, each its own transaction.  The second   *)
(* one, on refresh_tokens, touches nothing that is modelled here; it can   *)
(* fail like the third.                                                    *)
(***************************************************************************)

RevokeDevice(d) ==
  /\ d \notin revoked
  /\ revoked' = revoked \cup {d}
  /\ revokePc' = [revokePc EXCEPT ![d] = "leases"]
  /\ UNCHANGED <<now, gatewayVars, txVars, leaseVars, sweepVars, revokeSet>>

FindRevokedLeases(d) ==
  /\ revokePc[d] = "leases"
  /\ revokeSet' = [revokeSet EXCEPT ![d] = LeasesOf(d)]
  /\ revokePc' = [revokePc EXCEPT ![d] = "apply"]
  /\ UNCHANGED <<now, gatewayVars, txVars, leaseVars, sweepVars, revoked>>

ExpireRevokedLeases(d) ==
  /\ revokePc[d] = "apply"
  /\ \A x \in revokeSet[d] : RowFree(x)
  /\ Expire({x \in revokeSet[d] : Active(x)})
  /\ revokeSet' = [revokeSet EXCEPT ![d] = {}]
  /\ revokePc' = [revokePc EXCEPT ![d] = "done"]
  /\ UNCHANGED <<now, gatewayVars, txVars, expires, sweepVars, revoked>>

\* A later statement fails: the call returns the error, the device stays
\* revoked, and a second call finds no unrevoked device (ErrNotFound).
RevokeError(d) ==
  /\ revokePc[d] \in {"leases", "apply"}
  /\ revokePc' = [revokePc EXCEPT ![d] = "error"]
  /\ revokeSet' = [revokeSet EXCEPT ![d] = {}]
  /\ UNCHANGED <<now, gatewayVars, txVars, leaseVars, sweepVars, revoked>>

-----------------------------------------------------------------------------
\* The control plane dies and is started again: open transactions roll back,
\* calls in progress are lost, the reaper starts over.
Crash ==
  /\ LET Lost(f, v) == [c \in Conns |-> IF InFlight(c) THEN v ELSE f[c]]
     IN /\ pc' = Lost(pc, "failed")
        /\ dev' = Lost(dev, None)
        /\ started' = Lost(started, 0)
        /\ seen' = Lost(seen, {})
        /\ chosen' = Lost(chosen, None)
        /\ subnet' = Lost(subnet, None)
        /\ addr' = Lost(addr, None)
  /\ freed' = [c \in Conns |-> {}]
  /\ gwLock' = [g \in Gateways |-> None]
  /\ reaper' = "gateways"
  /\ swept' = {}
  /\ sweptAt' = 0
  /\ revokePc' = [d \in Devices |-> IF revokePc[d] \in {"leases", "apply"}
                                    THEN "error" ELSE revokePc[d]]
  /\ revokeSet' = [d \in Devices |-> {}]
  /\ UNCHANGED <<now, gatewayVars, leaseVars, revoked>>

Reap == \/ MarkStaleUnhealthy
        \/ FindStaleLeases
        \/ ExpireStaleLeases
        \/ FindLeasesOnUnhealthyGateways
        \/ ExpireLeasesOnUnhealthyGateways

Revoke(d) == \/ RevokeDevice(d)
             \/ FindRevokedLeases(d)
             \/ ExpireRevokedLeases(d)
             \/ RevokeError(d)

Next == \/ Tick
        \/ \E c \in Conns : CreateConnection(c)
        \/ \E x \in Conns : ReleaseConnection(x)
        \/ \E x \in Conns : RenewConnection(x)
        \/ \E g \in Gateways, r \in Registrations : RegisterGateway(g, r)
        \/ \E g \in Gateways, l \in TrafficLevels : Heartbeat(g, l)
        \/ \E g \in Gateways : DeregisterGateway(g)
        \/ Reap
        \/ SweepError
        \/ \E d \in Devices : Revoke(d)
        \/ Crash

Spec == Init /\ [][Next]_vars

-----------------------------------------------------------------------------
(***************************************************************************)
(* Safety.                                                                 *)
(***************************************************************************)

\* The locks of CreateConnection are what the code takes them for: from the
\* FOR UPDATE to its end a connect holds the row of the gateway it selected
\* and nobody else does; no lock outlives its transaction; a lease row that
\* is being released belongs to the connect's device, is still active for
\* everybody else and is held by one connect only.
LockDiscipline ==
  /\ \A c \in Conns : pc[c] \in {"alloc", "insert"} => gwLock[chosen[c]] = c
  /\ \A g \in Gateways, c \in Conns :
       gwLock[g] = c => pc[c] \in {"alloc", "insert"} /\ chosen[c] = g
  /\ \A c \in Conns : \A x \in freed[c] : InFlight(c) /\ Active(x) /\ dev[x] = dev[c]
  /\ \A b, c \in Conns : b # c => freed[b] \cap freed[c] = {}

\* No two active leases share an address on a gateway: "two concurrent
\* connects cannot claim the same address" (CreateConnection), whatever
\* the order of connects, renewals, sweeps, revocations and crashes, and
\* without help from the unique index.
NoSharedAddress ==
  \A x, y \in Conns :
    Active(x) /\ Active(y) /\ x # y /\ chosen[x] = chosen[y] => addr[x] # addr[y]

\* Between usedHostAddrs and COMMIT the address stays free: whatever other
\* requests and sweeps do meanwhile, the INSERT never meets an active lease
\* of the same gateway with the address it carries.
AddressStillFree ==
  \A c \in Conns : pc[c] = "insert" =>
    \A x \in LeasesOn(c, chosen[c]) : addr[x] # addr[c]

\* Step 1b of CreateConnection: once a connect has committed, no lease that
\* its UPDATE found is still active, also when the row was held by another
\* connect of the same device that rolled back.
FoundLeasesReplaced ==
  \A c \in Conns : pc[c] = "committed" => \A x \in seen[c] : ~ Active(x)

\* A reconnect is all or nothing: the store releases a lease on behalf of a
\* connect only in the step that makes another lease of the same device
\* active; a connect that fails (no gateway, pool exhausted, error, crash)
\* leaves the old lease alone.
ReconnectIsAtomic ==
  [][\A x \in Conns :
       Active(x) /\ state'[x] = "released" =>
         \/ \E c \in Conns : /\ state[c] = "none" /\ state'[c] = "active"
                             /\ dev[c] = dev[x]
         \/ UNCHANGED <<pc, freed>>]_vars

\* The keep-alive works against the sweep: an active lease is expired only
\* if it is overdue in that very moment, its gateway was not healthy when
\* the failover sweep looked, or its device is revoked.  A renewal that
\* comes between the sweep's read and its write is honoured.
NoPrematureExpiry ==
  [][\A x \in Conns :
       Active(x) /\ state'[x] = "expired" =>
         \/ Overdue(x)
         \/ reaper = "failoverApply" /\ x \in swept
         \/ dev[x] \in revoked]_vars

\* A lease that is over stays over: released and expired rows never change
\* again, neither by a late renewal nor by a sweep that found them active.
EndedLeasesAreFrozen ==
  [][\A x \in Conns : state[x] \in {"released", "expired"} =>
       state'[x] = state[x] /\ expires'[x] = expires[x]]_vars

-----------------------------------------------------------------------------
(***************************************************************************)
(* The store implements the ledger of LeaseLedger: a grant is in force     *)
(* when its row is committed and active.                                   *)
(***************************************************************************)

GrantOf(c) == [conn |-> c, dev |-> dev[c], gw |-> chosen[c], addr |-> addr[c]]

Ledger == INSTANCE LeaseLedger WITH
  Addrs  <- Word,
  ledger <- {GrantOf(c) : c \in {x \in Conns : Active(x)}},
  issued <- {c \in Conns : state[c] # "none"}

\* Seen from outside, every interleaving of connects, renewals, sweeps,
\* revocations, failures and crashes is a sequence of the ledger's grants
\* and withdrawals.
ImplementsLedger == Ledger!Spec

-----------------------------------------------------------------------------
(***************************************************************************)
(* Statements of the repository that the code does not keep.               *)
(***************************************************************************)

\* "so a device never holds two peers" (connections.go, step 1b).
OneLeasePerDevice ==
  \A x, y \in Conns : Active(x) /\ Active(y) /\ dev[x] = dev[y] => x = y

\* Capacity is the "max concurrent peers" of a gateway (model.go).
WithinCapacity ==
  \A g \in Gateways : meta[g] # None =>
    Cardinality({x \in Conns : Active(x) /\ chosen[x] = g}) <= meta[g].capacity

\* "Device revocation immediately revokes the device's refresh tokens and
\* expires its active connections" (docs/SECURITY.md).
RevokedHasNoLease ==
  \A d \in Devices : revokePc[d] = "done" => LeasesOf(d) = {}

\* The failover sweep expires leases of gateways that are "no longer
\* healthy (unhealthy/draining/disabled)".
FailoverOnlyFromLostGateways ==
  [][\A x \in Conns :
       reaper = "failover" /\ x \in swept' =>
         status[chosen[x]] \in {"unhealthy", "draining", "disabled"}]_vars

-----------------------------------------------------------------------------
(***************************************************************************)
(* Liveness.  The statements of a request are executed one after the       *)
(* other by its goroutine: weak fairness.  The reaper's timer keeps        *)
(* firing; errors and restarts may interrupt its sweeps any number of      *)
(* times, but not every time: strong fairness of its statements.  New      *)
(* requests, renewals, heartbeats, registrations and the clock are not     *)
(* fair.                                                                   *)
(***************************************************************************)

Serve(c) ==
  \/ FindOwnLeases(c)
  \/ ReleaseOwnLeases(c)
  \/ \E country \in Countries : SelectGateway(c, country)
  \/ \E country \in Countries : NoGatewayAvailable(c, country)
  \/ LockGateway(c)
  \/ AllocateHost(c)
  \/ GatewayFull(c)
  \/ InsertLease(c)

Fairness ==
  /\ \A c \in Conns : WF_vars(Serve(c))
  /\ SF_vars(MarkStaleUnhealthy)
  /\ SF_vars(FindStaleLeases)
  /\ SF_vars(ExpireStaleLeases)
  /\ SF_vars(FindLeasesOnUnhealthyGateways)
  /\ SF_vars(ExpireLeasesOnUnhealthyGateways)

FairSpec == Spec /\ Fairness

\* No connect waits for ever on the row locks of the others (lease rows
\* first, then one gateway row).
ConnectsFinish ==
  \A c \in Conns : InFlight(c) ~> ~ InFlight(c)

\* A lease that is overdue does not stay active: it is renewed or its
\* address is freed, also when sweeps fail and the control plane restarts.
OverdueLeasesEnd ==
  \A x \in Conns : Overdue(x) ~> ~ Overdue(x)

\* Failover: a lease on a gateway that is not healthy ends, or the gateway
\* comes back; also for a lease that was granted after the gateway was lost,
\* by a connect that had selected it before.
FailoverHappens ==
  \A x \in Conns :
    (Active(x) /\ status[chosen[x]] # "healthy")
      ~> (~ Active(x) \/ status[chosen[x]] = "healthy")

=============================================================================
