# Aevora in TLA+

Aevora is a VPN service: a **control plane** (Go, PostgreSQL) that leases
tunnel addresses to devices, a **node agent** (Go) on every gateway that turns
leases into WireGuard peers, and a **client core** (Rust) that the Apple,
Android and Windows apps drive through FFI. This directory models the parts
that carry state and run concurrently, checks them with TLC on small instances
and proves the central safety properties with TLAPS for all instances.

`PROJECT.json` lists the components, the runs, the mapping from definitions to
source lines, the hazards, and the theorems.

## 1. Inventory

| Component | State | Operations | What makes it hard |
|---|---|---|---|
| Lease store (`store/connections.go`) | tables `leases`, `gateways`, `devices` | `CreateConnection`, `ReleaseConnection`, `RenewConnection`, `GatewayPeers`, `ExpireStaleLeases`, `ExpireLeasesOnUnhealthyGateways` | several statements per transaction at READ COMMITTED, row locks taken late, sweeps and renewals of the same rows, failures between statements |
| Address allocation (`allocateHost`) | none | lowest free host of a CIDR block | unsigned 32-bit arithmetic at the ends of the range |
| Gateway selection (`selection/selection.go`) | none | `Fitness`, `Best` | ties, full gateways |
| Gateway registry (`store/gateways.go`) | status, last heartbeat, token hash, metadata | register, heartbeat, deregister, mark stale | registration resets status and metadata while leases exist |
| Reaper (`cmd/aevora-controld`) | a ticker | three sweeps, in order | sweeps fail or the process dies half way |
| Revocation (`store/identity.go`) | `devices.revoked_at` | three separate statements | races with a connect, a refresh or a renewal of the device; partial failure |
| Node agent (`agent/`) | token file, WireGuard interface | register, heartbeat, fetch peers, diff, apply, deregister | both its sides outlive it; lost answers; half-applied plans |
| Client core (`client/core`) | `ConnectionState`, connection id, session | prepare, mark connected/failed, disconnect, report statistics, keep alive | calls of several threads release the mutex while they wait for the network; OS callbacks at any time |
| Identity (`store/identity.go`, `auth/`, `api/handlers_identity.go`, `api/handlers_auth.go`) | users, devices, invites, refresh and access tokens | enrol, create/list devices, refresh, login, set password, create invite | concurrent use of one invite or key; answers lost after commit; tokens that outlive what they were issued for |
| Rate limiter (`ratelimit/`) | token bucket per key | `Allow`, `Cleanup` | eviction against refill |
| Load meter (`agent/internal/sysload`) | the previous readings | `Sample` | unreadable sources, counters that restart or go back |
| Apps (Apple, Android, Windows) | a phase for the UI, the OS tunnel | connect, disconnect, status callbacks | the phase and the core's state are set in different places |

**Interaction.** A client calls `POST /v1/connections`; the store picks a
gateway and inserts a lease. Every three seconds the gateway's agent sends a
heartbeat, fetches the gateway's leases and makes the interface match. The
client renews its lease with its statistics. The reaper marks gateways without
heartbeat unhealthy, expires overdue leases, and expires the leases of
gateways that are not healthy (failover). Nothing is pushed to clients or
agents: each learns of a change with its next request.

**What has to be right.** Two active leases of a gateway never have one address
(WireGuard would route one client's traffic to the other). A device has one
lease. A reconnect that fails does not cost the old lease. A renewed lease is
not expired; an overdue one is. The interface converges to the leases. The
client can always be brought to a defined state, and "disconnected" means that
the tunnel is gone and the lease given back. The properties below are these, one by one; the
`hazards` of `PROJECT.json` give the lines where they could break.

## 2. Modules

| Module | Models | Kind |
|---|---|---|
| `AddressPool` | `allocateHost`: blocks, host offsets, lowest free host | operators |
| `Selection` | `FitnessWithWeights`, `Best` | operators (`Scan`, the loop of `Best`, is a recursive function) |
| `LeaseStore` | lease store, registry, reaper, revocation | state machine |
| `LeaseLedger` | what the lease store promises: grants of free addresses, withdrawals | abstract specification |
| `NodeAgent` | node agent, its row in the control plane, its interface | state machine |
| `ClientCore` | `VpnClient` with its callers, callbacks and leases | state machine |
| `AppleApp` | the Apple view model and system tunnel around `ClientCore` | state machine, EXTENDS `ClientCore` |
| `Identity` | registrations, invites, tokens, revocation | state machine |
| `RateLimiter` | limiter, its configuration, its key, its cleanup | state machine |
| `TokenBucket` | what the limiter promises: one bucket per client for all time | abstract specification |
| `LoadMeter` | `Sample` between a host and the heartbeat | state machine |
| `LeaseStoreProofs`, `NodeAgentProofs`, `ClientCoreProofs`, `IdentityProofs`, `RateLimiterProofs`, `LoadMeterProofs`, `AddressPoolProofs`, `SelectionProofs` | theorems | proofs |
| `MC*` | instances for TLC; `MCAlgorithms` also holds the reference definitions of the address pool and the selection and drives the sequential components | instances |

`LeaseStore` EXTENDS `AddressPool` and `Selection` and instantiates
`LeaseLedger` with a refinement mapping. `NodeAgent` takes the leases as its
environment and relies on one fact about them, that an address belongs to at
most one lease, which is `NoSharedAddress` of `LeaseStore`.

### LeaseStore

One action per SQL statement of `CreateConnection`, one per single-statement
operation, and two per multi-row `UPDATE` that can wait (find the rows, then
change them once they are free). This is READ COMMITTED: a statement sees what
is committed when it starts and its own transaction's writes; an `UPDATE`
waits for rows held by others and evaluates its condition again on what it then
finds. `now()` is the start of the transaction (`started`, `sweptAt`).

| Actions | Code |
|---|---|
| `CheckDevice`, `FindOwnLeases`, `ReleaseOwnLeases`, `SelectGateway` / `NoGatewayAvailable`, `LockGateway`, `AllocateHost` / `GatewayFull`, `InsertLease` | steps 1, 1b, 2, 3, 4+5, 6 and commit of `CreateConnection` |
| `TxError` | an error at any statement, and the deferred `Rollback` |
| `ReleaseConnection`, `RenewConnection` | the operations of those names |
| `RegisterGateway`, `Heartbeat`, `DeregisterGateway`, `MarkStaleUnhealthy` | `store/gateways.go` |
| `FindStaleLeases`+`ExpireStaleLeases`, `FindLeasesOnUnhealthyGateways`+`ExpireLeasesOnUnhealthyGateways`, `SweepError` | the sweeps in `runReaper`'s order; a failing sweep is logged and the next one runs |
| `RevokeDevice`, `FindRevokedLeases`+`ExpireRevokedLeases`, `RevokeError` | the statements of `RevokeDevice` |
| `Crash` | the process dies and starts again; open transactions roll back |

Abstractions. The unique index `uq_lease_gw_ip_active` is left out, so that
`NoSharedAddress` shows what the row lock does on its own; by
`AddressStillFree` an INSERT never meets it. A gateway's country is fixed and its
`enabled` flag is true. A multi-row `UPDATE` takes its row locks at once; the
deadlock aborts that PostgreSQL could produce otherwise are `TxError` and
`SweepError`. A single-statement operation gets its row in the tick it starts.
Calls with a wrong token or an unknown id change nothing and are left out. No
code sets the status `draining`, so it is not a status of the model. Scores are
exact fractions, so floating-point ties are real ties. IPv6 addresses follow
the same offset and are not modelled.

### NodeAgent

The agent's start (`Start`, `Register`, `SaveToken`), its sync (`ListPeers`,
`Heartbeat`, `FetchPeers`, one `SetPeer` or `RemovePeer` per `wg` command,
`FinishSync`), and everything that can cut it short (`Unauthorized`,
`SyncFails`, `HeartbeatAnswerLost`, `SaveTokenFails`, `Kill`, `Reboot`,
`Stop`). The interface is WireGuard's: a set of peers and a table that gives
each address to at most one peer, so configuring an address on one peer takes
it from another. Adds come before removals, as in `Apply`; within each group
the model allows any order, the code sorts by key. The two statements of
`GatewayPeers` are one step.

### ClientCore

Each call of `VpnClient` is cut where the code releases the mutex.
`mark_connected` and `mark_failed` come from the platform at any time once it
has been given a tunnel configuration, late ones included. An API call, with
the one retry after a token refresh, is one step that succeeds, fails, or acts
and loses its answer. `connect`, the convenience call, is `prepare_connection`
followed by `mark_connected` or a failure, and needs no actions of its own.
`DownMayFail = FALSE` is the FFI build, whose `NoopProvider` never fails.
The numbers in the statistics are left out. A connect replaces the device's
leases that it finds; `missed` holds those that an overlapping connect got
meanwhile, which it may or may not find (`TwoLeasesPerDevice`). `abandoned`
records the leases whose `DELETE` failed and those whose 201 was lost; only
properties read it. The core lets `restore` and `enroll` replace a session at
any time while it keeps the connection id; the apps do one of the two, once
(`AppModel.swift:41-66`, `AevoraViewModel.kt:53-60`), and so does `Enroll`.

### AppleApp

The view model's blocks on the main actor are one action each; a detached task
is a thread of `ClientCore`, whose actions it takes as they are (`PrepareGoesOn`
and `DisconnectGoesOn` are the core's `CallStep`). The system changes the
tunnel's status (`OsMoves`) and posts it to the main queue, where one `Status…`
action per case of `handleStatus` takes it out later. A tunnel that is up may
reassert itself, which the view model shows as connecting. The system ignores a
start while a tunnel is not down. Locations, the timer and what is displayed are left out.
The Android and Windows view models have the same shape over the same core.

### Identity

`Calls` are registrations; each inserts at most one device, so they also name
devices and the clients that own them.

| Actions | Code |
|---|---|
| `BeginEnroll`, `LockInvite` / `InviteInvalid`, `UpsertUser`, `InsertDevice` / `DeviceKeyTaken`, `Commit` | `handleEnroll` and the statements of `Enroll` |
| `BeginCreateDevice`, then `InsertDevice` on | `handleDeviceCreate`, `CreateDevice` |
| `Answer`, `AnswerLost`, `TxError` | the 201 with its tokens, or the answer lost after COMMIT; an error at any statement |
| `CreateInvite`, `SetPassword`, `Login` | the handlers of those names |
| `RefreshAccess`, then `issueAccess` or `RefreshLost` | `handleRefresh`, cut between check and signature |
| `RevokeDevice`, `RevokeTokens`, `RevokeLeases`, `RevokeError` | the statements of `RevokeDevice` |
| `ConnectCheck`, then `ConnectInsert` or `ConnectFails`; `RenewConnection`, `ReleaseConnection`, `ExpireStaleLeases` | what a token of the device's user does with its connection, reduced from `LeaseStore` |
| `Tick`, `InviteRunsOut`, `RefreshRunsOut` | the clocks |

An `INSERT` waits for a transaction that has inserted the same key or user, as
a unique index makes it do; rows of a transaction become visible at `COMMIT`. An
access token names the user and not the device (`authUser`), so the token of
one device, or of a login, registers and revokes the user's devices, connects
them, and renews and releases their connections; it is kept with the client
that holds it. Only `CreateConnection` and `RefreshAccess` ask whether the
device is revoked. Signatures and hashes are left out: a token that was not
issued is not accepted. No code suspends a user, so every status is `active`.

### RateLimiter and LoadMeter

`RateLimiter` measures tokens in ticks of refill, so that a bucket holds
`Burst * Interval` and an event costs `Interval`. The history variable `window`
opens at any moment for any key. The assumption `Cap <= TTL` says that a bucket is full
before it is evicted: 30 seconds against 10 minutes with the defaults. It fails
for `AEVORA_AUTH_BURST` above ten times `AEVORA_AUTH_RATE_PER_MIN`, and then
eviction hands out a burst early.

`LoadMeter` has three CPU fields (busy, idle, iowait) and two byte counters that
may restart at 0. On Linux iowait may go back (`IowaitGoesBack`); the code then
reports a share above 100, and `ShareInRange` leaves out just the samples
between whose readings the idle fields went back. Rates are floored to whole bits per second, as the code's conversion does.
`MaxCounter < MeterWord` says that the byte counters do not pass 2^64, which
would take centuries of traffic.

## 3. Runs

| Run | Instance | Checks |
|---|---|---|
| `LeaseSafety` | all of `LeaseStore`: 2 connects of 1 device, 1 gateway, clock 0..2 | `TypeOK`, `LockDiscipline`, `NoSharedAddress`, `AddressStillFree`, `ReconnectIsAtomic`, `NoPrematureExpiry`, `EndedLeasesAreFrozen`, `ImplementsLedger` |
| `LeaseContention` | requests and agents only: 3 connects, 2 devices, 2 gateways with blocks of 1 or 5 hosts that may change | `NoSharedAddress`, `AddressStillFree`, `FoundLeasesReplaced` (which takes three connects to break) and `ReconnectIsAtomic`, with pools that run full and blocks that change under a connect |
| `LeaseLiveness` | 2 connects, reaper, failures, restarts, clock 0..2 | `ConnectsFinish`, `OverdueLeasesEnd`, `FailoverHappens` |
| `Algorithms` | one component per behaviour. Address pool: every CIDR block of a 16-value word, every history. Selection: every list of up to 3 candidates with fields 0..2. Load meter: 3 seconds, 2 units in one direction and 1 in the other. Limiter: 2 keys, burst 2, 2 ticks per event, clock 0..10 | `FullOnlyWhenFull`, `AllocatesLowestFreeHost`; `BestIsFirstMaximum`, `LessLoadKeepsWinning`; `RateIsTrue`, `ShareInRange`; `TypeOK`, `WindowBound`, `ImplementsTokenBucket` |
| `Agent` | 2 keys, 2 addresses, 2 faults, 4 lease changes, 1 clean stop | `TypeOK`, `TokenIsCurrent`, `SyncIsExact`, `PeersInUseAreLeftAlone`, `Converges`, `RunningBecomesHealthy` |
| `Client` | 3 threads, 4 leases, 2 faults (failed releases and lost answers; requests that fail outright are not bounded); either calls at the same time and the FFI build's provider, or (`serial`) one call at a time and a provider that may fail | `TypeOK`, `NeverStuck`; with one call at a time `NoStrayLease`, `OffMeansOff` |
| `Identity` | 2 registrations, 2 invites, 2 keys, 1 user, TTLs of one tick; one device is followed after its registration | `TypeOK`, `RegistrationsAreExact`, `DarkStaysDark`, `RevokedCannotCarryOn`, `RegistrationsFinish` |
| `TwoLeasesPerDevice` | 2 connects of 1 device | **violated**: `OneLeasePerDevice` |
| `OverCapacity` | 2 connects of 2 devices, capacity 1 | **violated**: `WithinCapacity` |
| `DisabledForever` | 1 clean stop, no faults | **violated**: `RestartedBecomesHealthy` |
| `LossUnnoticed` | 1 thread, 1 lease | **violated**: `LossIsNoticed` |
| `AppStopsRenewing` | 2 tasks, 2 leases, 3 waiting notifications | **violated**: `TicksRenewTheLease` |

**Bounds.** Two connects are enough for every conflict between two
transactions; the third in `LeaseContention` lets one wait for another that
waits. The two gateways matter because only connects that select the same one
are serialized. The clock 0..2 with TTLs of one tick contains "not yet due", "due"
and "overdue" (`expires_at < now()` is strict) for a lease granted at 0 and the
same for heartbeats. A 16-value word has every prefix length from /0 to a
single address, with the same wrap-around as 32 bits. Two keys and two
addresses let two peers swap addresses; the proof of `SyncIsExact` covers
chains and cycles of any length. Faults and lease changes are bounded so that
"eventually" has an end to wait for, and two faults can hit one registration and
the sync after it. One clean stop is all that `DisabledForever` needs. Three
threads let a third call slip between the two halves of two others.
Two registrations are enough for every conflict over an invite, a user or a
key, and two of each let them conflict in one and not in the other; one user
lets the two devices act for each other. The proofs cover any number. Following
one device (`Watched`) keeps the lifetimes of the second from multiplying the
states; the second still registers, and its token still works. The limiter's
clock runs over twice the TTL, so that buckets are filled, evicted and used
again.

`LeaseSafety`, `LeaseContention` and `Client` use symmetry; they check
no liveness. `CHECK_DEADLOCK FALSE` is set where calls and clock are finite and
the model simply comes to its end; the agent and the client never stop.

**Fairness.** `LeaseLiveness`: the statements of a request are executed one
after the other by its goroutine (weak fairness of `Serve`), so a connect that
is not waiting goes on. The reaper's ticker keeps firing; errors and
restarts may interrupt sweeps, though not every one for ever (strong fairness of its
statements). Clients, agents, the clock, renewals and errors owe nothing.
`Agent`: the service manager restarts the process (`Restart=always` in
`deploy/systemd/aevora-agent.service`) and the loop runs (weak fairness of
`Start` and `AgentStep`); faults are bounded. `LossUnnoticed`: calls that have
begun go on, and the app's three-second timer keeps reporting statistics.
Callbacks and leases owe nothing. `Identity`: time passes, the reaper's ticker
fires, and a registration, refresh or connect that has begun is executed to its
end by its goroutine (weak fairness of each). Clients, users and the remaining
statements of a revocation owe nothing.

### What the runs show

The row lock on the gateway is enough for unique addresses, in every
interleaving of connects, sweeps, revocation and crashes; reconnects are
atomic; a renewal always wins against a sweep that has already found the lease;
overdue leases and leases on lost gateways end. The agent always ends up with
the right token and, until it is stopped cleanly, with the right peers; a plan
never touches a peer that is as the fetched list wants it. The
client core can never be wedged in the FFI build. With one call at a time
disconnecting does what it says, with two exceptions that the code accepts: a
`DELETE` that fails is ignored and its lease stays behind, as does a lease
whose grant never reached the client (`NoStrayLease`). Registrations are exact
whatever they lose or wait for. A revoked device cannot carry on by itself,
even if its revocation stops after the first statement: connects and refreshes
look at the device, so what was past a check finishes, the token runs out, and
the lease with it (`RevokedCannotCarryOn`). Renewals do not look at the device:
if a lease survives the revocation, another token of the user, of a second
device or a login, can keep it alive for as long as such a token exists. Once
the device is dark nothing lights it again (`DarkStaysDark`). Neither eviction nor
lazy refill can be noticed by a client of the limiter.

Five statements of the repository are not kept (findings in `PROJECT.json`):

* **One lease per device** (`TwoLeasesPerDevice`). The dedupe `UPDATE` of
  `CreateConnection` cannot see a lease that a concurrent connect has not yet
  committed, and nothing locks the device.
* **Capacity** (`OverCapacity`). It is tested before the gateway is locked and
  not again.
* **Restart after a clean stop** (`DisabledForever`). `Stop` disables the row
  and keeps the token file; the next start reuses the token, and `Heartbeat`
  refuses disabled rows.
* **Failover reaches the client** (`LossUnnoticed`). The client ignores the
  answer to its renewals.
* **The app's reports renew the lease** (`AppStopsRenewing`). A disconnect does
  not cancel a tunnel start that is on its way. The tunnel comes up over a core
  that is Disconnected; the app shows Connected, and `report_tunnel_stats`
  renews nothing. A late `.disconnected` of the previous tunnel has the same
  effect during a connect.

Further statements are defined in the modules and refuted when checked in place
of the property of one of those runs: `RevokedHasNoLease` (LeaseStore; a
connect commits after the revocation), `RevokedGoesDark` (Identity; "device
revocation immediately revokes the device's refresh tokens and expires its
active connections", `docs/SECURITY.md:47-48`, read as "at some time": a
revocation that fails half-way, or a connect past its check, leaves a lease
that another token of the user renews; what holds instead is
`RevokedCannotCarryOn`), `FailoverOnlyFromLostGateways`
(LeaseStore; `status <> 'healthy'` includes `pending`), `OrphansAreRemoved`
(NodeAgent; the interface after a clean stop), `TransitionsAllowed`
(ClientCore; `set_state`, `fail` and `mark_failed` do not consult
`can_transition_to`), and `NoStrayLease` and `OffMeansOff` (MCClientCore)
without `serial`: a `disconnect` that overlaps a connect finds
no connection id, or resets one it did not release.

Each property of a passing run has a mutant (`mutants` in `PROJECT.json`): a
variant of a mapped definition, written beside it, that TLC must catch.

## 4. Proofs

Every invariant and every action property that a passing run checks is also a
theorem. They hold for every value of the constants under the `ASSUME`s of the
modules, which ask for types and for `None` to be fresh. Two ask for more:
`RateLimiter`, that a bucket is full before it can be evicted, and `LoadMeter`,
that the counters stay below the word (both above). TLC finds every inductive
invariant to hold on the instances of the runs, too.

**LeaseStoreProofs.** Four layers, each inductive relative to the ones before
it. `TypeInv`: `TypeOK`, and what the local variables of a connect hold in each
phase (`Locals`: a connect past selection has a gateway, past allocation an
address; an active lease has all of them). `LockDiscipline`. `AddressInv`:
`AddressStillFree` and `NoSharedAddress` together, neither of which is inductive
alone: a connect between allocation and commit holds its gateway's row, so
nobody else can insert there, and leases that end only make addresses free; so
its address stays free and its commit shares nothing. `FoundInv`: after its
`UPDATE` a lease that a dedupe found is over or held by that connect, which
gives `FoundLeasesReplaced` at commit. From the same invariants: the action
properties `EndedLeasesAreFrozen` and `ReconnectIsAtomic`, and the refinement
`StoreImplementsLedger` (each commit is a `Grant` with the leases it replaces
withdrawn in the same step, every other step a `Withdraw` or a stutter).
`LeasesExpireInTime` (`NoPrematureExpiry`) needs `SweepInv`, what sweeps and
revocations carry from their read to their write: the sweep's clock is not
ahead of the database's, so a lease overdue for the sweep is overdue now, and
the leases found by a revocation belong to a revoked device, whose rows do not
change hands (`CommittedRowsAreFixed`).

**NodeAgentProofs.** `AgentInv` joins `TypeOK`, `LeasesDistinct` (the lease
store's guarantee, kept by the environment), `TokenInv` and `PlanInv`.
`TokenInv`: the token file, if there is one, holds the row's token; a reply on
its way carries it; an agent registers only without a file. `PlanInv`: in the
middle of `Apply`, every desired key that is no longer to be added has its peer
and exactly its address, every peer that is not desired is still to be removed,
and no two desired keys want one address. So an executed `SetPeer` is never
undone by a later one, and an empty plan is `SyncIsExact`. The same uniqueness
gives `SyncsLeavePeersAlone`: a `SetPeer` that takes an address from a peer
takes one that the list gives to somebody else.

**ClientCoreProofs.** `NeverStuck` under the assumption that `down()` cannot
fail, for any number of threads: a call about to store a connection id holds
one (part of `TypeOK`), and a state other than Disconnected and Failed always has
an id or a thread that will move it on. `ClientLeavesNoStrayLease` and
`OffStaysOff` are about an app that makes one call at a time, with any provider,
failing requests and lost answers. Neither statement is inductive: between the
request and the store of `prepare_connection` a lease exists that no id in the
client names, and between the release and the reset of `disconnect` an id that
names no lease. `SerialInv` follows the lease through the call: `OneCall`,
`LeaseAccounted` (what the control plane serves and was not abandoned is the
stored id, or the local one of the call that is about to store it, or nothing
after the release; no connect misses a lease) and `StateAccounted` (which states
go with which id, and that a client told "off" has nothing on its way).

**IdentityProofs.** `TypeInv` adds to `TypeOK` what a request leaves behind in
each phase (`RequestInv`). `ExactInv` is what makes `RegistrationsAreExact`
inductive: an enrolment past its `SELECT ... FOR UPDATE` holds the row of its
invite and the invite is not used (`LockInv`), and keys are unique among all
inserted rows, committed or not (`KeyInv`). `DarkStaysDark` needs only that a
revoked device is committed (`RevokedInv`).

**RateLimiterProofs.** The type invariant with the order of the times in a
visitor; from it, that an evicted bucket was full; so the mapping of a visitor
to its tokens at this moment, and of a missing one to a full bucket, turns
`Cleanup` into a stutter and each answer into one of `TokenBucket`
(`LimiterImplementsTokenBucket`). `WindowBound` is proved with the stronger fact
that what a window has allowed plus what the bucket still holds is at most the
burst plus the time since the window was opened.

**LoadMeterProofs.** `MeterInv`: the reading kept by the meter plus what was
moved since then is the counter, as long as the interface was not re-created;
afterwards the counter is at most what was moved; busy jiffies only grow. `MeterRateIsTrue` and `MeterShareInRange` follow with lemmas on integer
division (`QuotientMonotone`, `PercentInRange`, `RateAtMost`), since the
provers know little about `\div` by a variable.

**AddressPoolProofs.** For every word size and every block that divides it: the
bounds of `allocateHost`'s loop, computed in words that wrap, run over exactly
the hosts of the block (`PrefixArithmetic`, `LoopVisitsTheHosts`), also where
the size of the whole word wraps to 0 and where a block is too small to have a
host. Then `PoolFullOnlyWhenFull` and `PoolAllocatesLowest` hold because
addresses in use are hosts (`PoolInv`). That block sizes are powers of two is
not needed and not assumed.

**SelectionProofs.** `BestReturnsFirstMaximum` is a fact about a loop over a list
of any length, so it is an induction. The library's induction rule cannot be
used (it takes an operator as parameter); instead `InductionUpTo` states
induction for a set of numbers, from the least element of the complement
(`WFMin`). `ScanExists` shows that the recursive function exists and `ScanIterates`
gives its equation. `FirstBest` is the loop invariant: the best so far is the
first of the highest scores among the rows seen. `LessLoadWins` adds that the
score of a gateway only grows when its load falls, so that it stays the first of
the best.

**Only model-checked.** Liveness: `ConnectsFinish`, `OverdueLeasesEnd`,
`FailoverHappens`, `Converges`, `RunningBecomesHealthy`, `RevokedCannotCarryOn`,
`RegistrationsFinish`. They rest on fairness and `ENABLED`, which the prover does
not handle; the safety half of each argument is among the theorems
(`SyncsAreExact` for `Converges`, `DarkDevicesStayDark` for
`RevokedCannotCarryOn`). The
violated properties of the five findings are refuted by TLC's traces and need
no proof. `MeterRateIsTrue` and `MeterShareInRange` are stated for `MeterSpec`,
the limiter's theorems for `RateLimiter`'s `Spec`: the run `Algorithms` checks
them as parts of one specification in which the other parts rest.

## 5. Not modelled

The Android and Windows view models (the Apple one stands for them), the packet
tunnel extension and the agent's probe, metrics, configuration, listings,
request encoding, cryptography; reasons in `PROJECT.json`. WireGuardKit is
vendored. Several control-plane processes at once are not modelled; nothing in
`LeaseStore` but `Crash` and the single reaper depends on there being one, and
the rate limiter is per process by its own comment. A restart of the control
plane forgets the limiter's buckets; that is not an action of `RateLimiter`.

## 6. Plan

Done: `AddressPool`, `Selection`, `LeaseStore` with `LeaseLedger`, `NodeAgent`,
`ClientCore`, `AppleApp`, `Identity`, `RateLimiter` with `TokenBucket`,
`LoadMeter`; their runs; both refinements; a theorem for every invariant and
every action property of the passing runs.

1. Proofs: an abstract specification of the node agent (the interface as a
   variable that is set to a fetched lease set, one peer at a time) that
   `NodeAgent` implements.
2. A composition of client, lease store and agent for failover end to end.
3. The client's byte rates with counter resets.
