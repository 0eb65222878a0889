----------------------------- MODULE NodeAgent -----------------------------
(***************************************************************************)
(* The node agent of one gateway (agent/cmd/aevora-agent, internal/cp,     *)
(* internal/reconcile, internal/wg) with the two things it works between:  *)
(* the gateway's row in the control plane, reached by requests that may be *)
(* lost before or after the server has acted, and the WireGuard interface, *)
(* which outlives the agent process.                                       *)
(*                                                                         *)
(* The leases of the gateway are the environment here: they come and go as *)
(* LeaseStore allows.  What is used of LeaseStore is NoSharedAddress (an   *)
(* address belongs to at most one lease) and nothing more; in particular a *)
(* key may have two leases.  A lease's IPv4 and IPv6 address are assigned  *)
(* together and are one address here.                                      *)
(*                                                                         *)
(* Faults (lost requests, failing commands, kills, reboots) and changes of *)
(* the leases are counted and bounded, so that "eventually" can be asked.  *)
(***************************************************************************)
EXTENDS Naturals

CONSTANTS
  Keys,         \* public keys of clients
  Addrs,        \* host addresses of the gateway's subnet
  None,         \* no key, no address
  MaxFaults,    \* bound on faults
  MaxChanges,   \* bound on lease changes
  MaxStops      \* bound on clean shutdowns

ASSUME AgentAssumption ==
  /\ None \notin Keys
  /\ None \notin Addrs
  /\ MaxFaults \in Nat
  /\ MaxChanges \in Nat
  /\ MaxStops \in Nat

VARIABLES
  rowStatus,   \* gateways.status of this gateway
  rowToken,    \* the token whose hash the row holds (0: no row)
  leases,      \* active, unexpired leases: pairs <<key, address>>
  file,        \* node token file (0: missing or empty)
  token,       \* the running agent's token
  apc,         \* what the agent is doing
  reply,       \* node token on its way back from a registration (0: none)
  current,     \* ListPeers result of the running sync
  want,        \* index(desired): the address of each desired key
  add, remove, \* what is left of the plan
  wgPeers,     \* peers configured on the interface
  route,       \* allowed-IPs table: the peer each address belongs to
  faults, changes, stops

rowVars == <<rowStatus, rowToken>>
agentVars == <<file, token, apc, reply, current, want, add, remove>>
wgVars == <<wgPeers, route>>
boundVars == <<faults, changes, stops>>
vars == <<rowVars, leases, agentVars, wgVars, boundVars>>

Interface == [peers : SUBSET Keys, route : [Addrs -> Keys \cup {None}]]
NoInterface == [peers |-> {}, route |-> [a \in Addrs |-> None]]
NoWant == [k \in Keys |-> None]

AllowedIPs(i, k) == {a \in Addrs : i.route[a] = k}

TypeOK ==
  /\ rowStatus \in {"absent", "pending", "healthy", "unhealthy", "disabled"}
  /\ rowToken \in Nat
  /\ leases \subseteq Keys \X Addrs
  /\ file \in Nat
  /\ token \in Nat
  /\ apc \in {"down", "register", "await", "idle", "heartbeat", "peers", "apply"}
  /\ reply \in Nat
  /\ current \in Interface
  /\ want \in [Keys -> Addrs \cup {None}]
  /\ add \subseteq Keys
  /\ remove \subseteq Keys
  /\ wgPeers \subseteq Keys
  /\ route \in [Addrs -> Keys \cup {None}]
  /\ faults \in 0 .. MaxFaults
  /\ changes \in 0 .. MaxChanges
  /\ stops \in 0 .. MaxStops

Init ==
  /\ rowStatus = "absent" /\ rowToken = 0
  /\ leases = {}
  /\ file = 0 /\ token = 0 /\ apc = "down" /\ reply = 0
  /\ current = NoInterface /\ want = NoWant /\ add = {} /\ remove = {}
  /\ wgPeers = {} /\ route = [a \in Addrs |-> None]
  /\ faults = 0 /\ changes = 0 /\ stops = 0

Fault ==
  /\ faults < MaxFaults
  /\ faults' = faults + 1
  /\ UNCHANGED <<changes, stops>>

\* The end of a sync or of the process: its local variables are gone.
ForgetSync ==
  /\ current' = NoInterface
  /\ want' = NoWant
  /\ add' = {}
  /\ remove' = {}

-----------------------------------------------------------------------------
(***************************************************************************)
(* ensureRegistered.                                                       *)
(***************************************************************************)

\* The process starts: a saved token that is not empty is used as it is.
Start ==
  /\ apc = "down"
  /\ IF file # 0 THEN token' = file /\ apc' = "idle"
                 ELSE token' = 0 /\ apc' = "register"
  /\ UNCHANGED <<rowVars, leases, file, reply, current, want, add, remove, wgVars, boundVars>>

\* A retried registration of which the first answer is kept.
RegisterTwice ==
  /\ apc = "register"
  /\ rowStatus' = "pending"
  /\ rowToken' = rowToken + 2
  /\ reply' = rowToken + 1
  /\ apc' = "await"
  /\ UNCHANGED <<leases, file, token, current, want, add, remove, wgVars, boundVars>>

\* RegisterGateway in the control plane: a fresh token, status pending.
Register ==
  /\ apc = "register"
  /\ rowStatus' = "pending"
  /\ rowToken' = rowToken + 1
  /\ reply' = rowToken + 1
  /\ apc' = "await"
  /\ UNCHANGED <<leases, file, token, current, want, add, remove, wgVars, boundVars>>

\* The response arrives and the token file is written ...
SaveToken ==
  /\ apc = "await"
  /\ token' = reply
  /\ file' = reply
  /\ reply' = 0
  /\ apc' = "idle"
  /\ UNCHANGED <<rowVars, leases, current, want, add, remove, wgVars, boundVars>>

\* ... or writing fails: a warning, and the token lives in memory only.
SaveTokenFails ==
  /\ apc = "await"
  /\ Fault
  /\ token' = reply
  /\ reply' = 0
  /\ apc' = "idle"
  /\ UNCHANGED <<rowVars, leases, file, current, want, add, remove, wgVars>>

-----------------------------------------------------------------------------
(***************************************************************************)
(* syncOnce.  The control plane answers 401 unless the token is the row's  *)
(* and the gateway is not disabled; any error ends the sync and the ticker *)
(* starts the next one.                                                    *)
(***************************************************************************)

Authorized == token = rowToken /\ rowStatus # "disabled"

EndSync ==
  /\ apc' = "idle"
  /\ ForgetSync
  /\ UNCHANGED <<file, token, reply>>

ListPeers ==
  /\ apc = "idle"
  /\ current' = [peers |-> wgPeers, route |-> route]
  /\ apc' = "heartbeat"
  /\ UNCHANGED <<rowVars, leases, file, token, reply, want, add, remove, wgVars, boundVars>>

HeartbeatKeepsUnhealthy ==
  /\ apc = "heartbeat"
  /\ Authorized
  /\ rowStatus' = IF rowStatus = "unhealthy" THEN "unhealthy" ELSE "healthy"
  /\ apc' = "peers"
  /\ UNCHANGED <<rowToken, leases, file, token, reply, current, want, add, remove,
                 wgVars, boundVars>>

Heartbeat ==
  /\ apc = "heartbeat"
  /\ Authorized
  /\ rowStatus' = "healthy"
  /\ apc' = "peers"
  /\ UNCHANGED <<rowToken, leases, file, token, reply, current, want, add, remove,
                 wgVars, boundVars>>

Unauthorized ==
  /\ apc \in {"heartbeat", "peers"}
  /\ ~ Authorized
  /\ EndSync
  /\ UNCHANGED <<rowVars, leases, wgVars, boundVars>>

\* index: one address per key; if the rows hold a key twice the last one of
\* an unspecified order counts.
Index(w) ==
  /\ w \in [Keys -> Addrs \cup {None}]
  /\ \A k \in Keys : IF \E a \in Addrs : <<k, a>> \in leases
                     THEN <<k, w[k]>> \in leases ELSE w[k] = None

\* Diff: the keys to set and the keys to remove.
DiffAddMissing(i, w) == {k \in Keys : w[k] # None /\ k \notin i.peers}
DiffAdd(i, w) == {k \in Keys : w[k] # None /\ (k \notin i.peers \/ AllowedIPs(i, k) # {w[k]})}
DiffRemoveUpdated(i, w) == {k \in i.peers : w[k] = None \/ k \in DiffAdd(i, w)}
DiffRemove(i, w) == {k \in i.peers : w[k] = None}

FetchPeers ==
  /\ apc = "peers"
  /\ Authorized
  /\ \E w \in [Keys -> Addrs \cup {None}] :
       /\ Index(w)
       /\ want' = w
       /\ add' = DiffAdd(current, w)
       /\ remove' = DiffRemove(current, w)
  /\ apc' = "apply"
  /\ UNCHANGED <<rowVars, leases, file, token, reply, current, wgVars, boundVars>>

\* wg set peer ... allowed-ips: the peer's list is replaced, and an address
\* that belonged to another peer is taken from it.
SetPeer(k) ==
  /\ apc = "apply"
  /\ k \in add
  /\ add' = add \ {k}
  /\ wgPeers' = wgPeers \cup {k}
  /\ route' = [a \in Addrs |-> IF a = want[k] THEN k
                               ELSE IF route[a] = k THEN None ELSE route[a]]
  /\ UNCHANGED <<rowVars, leases, file, token, apc, reply, current, want, remove, boundVars>>

\* wg set peer ... remove, after all additions (Apply).
RemovePeer(k) ==
  /\ apc = "apply"
  /\ add = {}
  /\ k \in remove
  /\ remove' = remove \ {k}
  /\ wgPeers' = wgPeers \ {k}
  /\ route' = [a \in Addrs |-> IF route[a] = k THEN None ELSE route[a]]
  /\ UNCHANGED <<rowVars, leases, file, token, apc, reply, current, want, add, boundVars>>

FinishSync ==
  /\ apc = "apply"
  /\ add = {} /\ remove = {}
  /\ EndSync
  /\ UNCHANGED <<rowVars, leases, wgVars, boundVars>>

-----------------------------------------------------------------------------
(***************************************************************************)
(* Failures.                                                               *)
(***************************************************************************)

\* A request of the sync fails before the server acts, or a wg command fails:
\* Apply stops at the first error and leaves the rest of the plan undone.
SyncFails ==
  /\ apc \in {"heartbeat", "peers", "apply"}
  /\ Fault
  /\ EndSync
  /\ UNCHANGED <<rowVars, leases, wgVars>>

\* The heartbeat is recorded, its answer is lost.
HeartbeatAnswerLost ==
  /\ apc = "heartbeat"
  /\ Authorized
  /\ Fault
  /\ rowStatus' = "healthy"
  /\ EndSync
  /\ UNCHANGED <<rowToken, leases, wgVars>>

\* The process ends without deregistering: killed, or its registration
\* failed (before or after the server acted) and run returned the error.
Die ==
  /\ apc' = "down"
  /\ token' = 0
  /\ reply' = 0
  /\ ForgetSync
  /\ UNCHANGED <<rowVars, leases, file>>

Kill ==
  /\ apc # "down"
  /\ Fault
  /\ Die
  /\ UNCHANGED wgVars

\* The host restarts: the interface comes back without client peers.
Reboot ==
  /\ Fault
  /\ Die
  /\ wgPeers' = {}
  /\ route' = [a \in Addrs |-> None]

\* SIGTERM: Deregister, whose error is ignored, and exit.  The token file
\* and the interface stay as they are.
Stop ==
  /\ apc = "idle"
  /\ stops < MaxStops
  /\ stops' = stops + 1
  /\ \/ token = rowToken /\ rowStatus' = "disabled"
     \/ UNCHANGED rowStatus
  /\ apc' = "down"
  /\ token' = 0
  /\ UNCHANGED <<rowToken, leases, file, reply, current, want, add, remove, wgVars,
                 faults, changes>>

-----------------------------------------------------------------------------
(***************************************************************************)
(* The environment: the reaper and the leases of this gateway.             *)
(***************************************************************************)

MarkStaleDraining ==
  /\ rowStatus = "healthy"
  /\ rowStatus' = "draining"
  /\ UNCHANGED <<rowToken, leases, agentVars, wgVars, boundVars>>

\* MarkStaleUnhealthy, at any time: there is no clock here.
MarkStaleUnhealthy ==
  /\ rowStatus = "healthy"
  /\ rowStatus' = "unhealthy"
  /\ UNCHANGED <<rowToken, leases, agentVars, wgVars, boundVars>>

LeaseGranted(k, a) ==
  /\ rowStatus # "absent"
  /\ \A l \in leases : l[2] # a
  /\ changes < MaxChanges
  /\ changes' = changes + 1
  /\ leases' = leases \cup {<<k, a>>}
  /\ UNCHANGED <<rowVars, agentVars, wgVars, faults, stops>>

LeaseEnded(l) ==
  /\ changes < MaxChanges
  /\ changes' = changes + 1
  /\ leases' = leases \ {l}
  /\ UNCHANGED <<rowVars, agentVars, wgVars, faults, stops>>

AgentStep ==
  \/ Register
  \/ SaveToken
  \/ ListPeers
  \/ Heartbeat
  \/ Unauthorized
  \/ FetchPeers
  \/ \E k \in Keys : SetPeer(k)
  \/ \E k \in Keys : RemovePeer(k)
  \/ FinishSync

Next ==
  \/ Start
  \/ AgentStep
  \/ SaveTokenFails
  \/ SyncFails
  \/ HeartbeatAnswerLost
  \/ Kill
  \/ Reboot
  \/ Stop
  \/ MarkStaleUnhealthy
  \/ \E k \in Keys, a \in Addrs : LeaseGranted(k, a)
  \/ \E l \in leases : LeaseEnded(l)

Spec == Init /\ [][Next]_vars

\* The service manager starts the agent again, and the agent's loop runs.
FairSpec == Spec /\ WF_vars(Start) /\ WF_vars(AgentStep)

-----------------------------------------------------------------------------
(***************************************************************************)
(* Properties.                                                             *)
(***************************************************************************)

Running == apc \in {"idle", "heartbeat", "peers", "apply"}

\* Lost registrations, a token file that could not be written, kills and
\* restarts never leave the agent running with a token the control plane
\* has already replaced.
TokenIsCurrent == Running => token = rowToken

\* Apply brings the interface exactly to what the control plane asked for:
\* when the plan is done, the peers are the desired keys and each desired
\* address is routed to its key, in whatever order addresses were taken from
\* one peer and given to another, and whatever an earlier sync left behind.
SyncIsExact ==
  apc = "apply" /\ add = {} /\ remove = {} =>
    /\ wgPeers = {k \in Keys : want[k] # None}
    /\ \A k \in Keys : want[k] # None => AllowedIPs([peers |-> wgPeers, route |-> route], k) = {want[k]}

\* Syncs leave working tunnels alone: an address is taken from a peer only by a
\* plan whose peer list no longer gives it to that peer, or by a reboot.  So
\* a client whose lease is in the list keeps its traffic while other peers
\* move, swap or leave, in whatever order, and whenever the plan breaks off.
PeersInUseAreLeftAlone ==
  [][\A a \in Addrs :
       route[a] # None /\ route'[a] # route[a] =>
         Reboot \/ (apc = "apply" /\ want[route[a]] # a)]_vars

\* The peers are those of the leases.
InSync ==
  /\ wgPeers = {l[1] : l \in leases}
  /\ \A k \in wgPeers : \E a \in Addrs :
       <<k, a>> \in leases /\ {b \in Addrs : route[b] = k} = {a}

\* Once leases stop changing and faults stop, the interface converges to the
\* leases and stays there (kills, reboots, lost answers and half-applied plans
\* included), as long as the agent has not been stopped cleanly.
Converges == <>[](InSync \/ stops > 0)

\* An agent that runs gets its gateway back to healthy, also after the reaper
\* has marked it unhealthy; again up to a clean stop.
RunningBecomesHealthy ==
  (Running /\ stops = 0) ~> (rowStatus = "healthy" \/ stops > 0)

\* "Re-registration (agent restart) updates metadata, resets status to
\* pending" (gateways.go): an agent that runs again after a clean stop gets
\* its gateway back to healthy, too.
RestartedBecomesHealthy == Running ~> rowStatus = "healthy"

\* "No orphaned peers" (docs/SECURITY.md): a peer without a lease is removed.
OrphansAreRemoved ==
  \A k \in Keys :
    (k \in wgPeers /\ \A a \in Addrs : <<k, a>> \notin leases)
      ~> (k \notin wgPeers \/ \E a \in Addrs : <<k, a>> \in leases)

=============================================================================
