----------------------------- MODULE ClientCore -----------------------------
(***************************************************************************)
(* The shared client core, VpnClient (client/core/src/client.rs), as the   *)
(* apps drive it through FFI: calls run on any thread, block on the        *)
(* network, and take the mutex only for the short pieces that are single   *)
(* actions here.  Between two such pieces anything may happen, also the    *)
(* tunnel callbacks of the operating system (mark_connected, mark_failed). *)
(*                                                                         *)
(* An API call is one action: it succeeds, fails before the control plane  *)
(* acts, or its answer is lost after it acted; the one retry that authed   *)
(* makes after a refreshed access token is inside it.  The control plane   *)
(* keeps the device's active leases: a connect replaces the ones it finds, *)
(* which need not include one that an overlapping connect is about to      *)
(* commit (LeaseStore), and the reaper may end one at any time.            *)
(* Statistics are left out; what they do to a lease (renew) is kept.       *)
(***************************************************************************)
EXTENDS Naturals

CONSTANTS
  Threads,      \* threads of the app that call the core
  Leases,       \* connection ids the control plane may hand out
  None,         \* no connection id
  DownMayFail,  \* TRUE: a TunnelProvider whose down() can fail; FALSE: the
                \* NoopProvider of the FFI build
  MaxFaults     \* bound on lost answers and failed releases

ASSUME ClientAssumption ==
  /\ None \notin Leases
  /\ DownMayFail \in BOOLEAN
  /\ MaxFaults \in Nat

VARIABLES
  state,     \* Inner.state
  activeId,  \* Inner.active_connection_id
  enrolled,  \* Inner.session is set
  tunnel,    \* the platform has been given a tunnel config, so callbacks of
             \* the operating system may come, late ones included
  call,      \* what each thread is about to do
  id,        \* the connection id it holds in a local variable
  served,    \* active leases of the device in the control plane
  issued,    \* connection ids handed out so far
  missed,    \* leases granted to other calls since the request of a call went
             \* out, which it need not find
  abandoned, \* leases whose release failed or whose grant never reached the
             \* client; recorded for the properties only
  off,       \* the last finished disconnect returned Ok and no connect has
             \* begun since: what the user was told
  faults

coreVars == <<state, activeId, enrolled, tunnel>>
serverVars == <<served, issued, missed, abandoned>>
vars == <<coreVars, call, id, serverVars, off, faults>>

States == {"Disconnected", "Connecting", "Connected", "Disconnecting", "Failed"}
Calls == {"idle", "set", "request", "store", "disconnecting", "down", "release",
          "reset", "report", "renew"}

\* Steps that work on the connection id in the local variable.
HoldsId(t) ==
  call[t] \in {"store", "disconnecting", "down", "release", "reset", "renew"}

\* The types; among them, that a call that is about to store, release or renew
\* a connection has its id (the code clones it out of an Option).
TypeOK ==
  /\ state \in States
  /\ activeId \in Leases \cup {None}
  /\ enrolled \in BOOLEAN
  /\ tunnel \in BOOLEAN
  /\ call \in [Threads -> Calls]
  /\ id \in [Threads -> Leases \cup {None}]
  /\ \A t \in Threads : HoldsId(t) => id[t] \in Leases
  /\ served \subseteq issued
  /\ issued \subseteq Leases
  /\ missed \in [Threads -> SUBSET Leases]
  /\ abandoned \subseteq Leases
  /\ off \in BOOLEAN
  /\ faults \in 0 .. MaxFaults

Init ==
  /\ state = "Disconnected"
  /\ activeId = None
  /\ enrolled = FALSE
  /\ tunnel = FALSE
  /\ call = [t \in Threads |-> "idle"]
  /\ id = [t \in Threads |-> None]
  /\ served = {} /\ issued = {} /\ abandoned = {}
  /\ missed = [t \in Threads |-> {}]
  /\ off = FALSE
  /\ faults = 0

\* ConnectionState::can_transition_to.
CanTransition(from, to) ==
  <<from, to>> \in
    {<<"Disconnected", "Connecting">>,
     <<"Connecting", "Connected">>, <<"Connecting", "Failed">>, <<"Connecting", "Disconnecting">>,
     <<"Connected", "Disconnecting">>, <<"Connected", "Failed">>,
     <<"Disconnecting", "Disconnected">>, <<"Disconnecting", "Failed">>,
     <<"Failed", "Connecting">>, <<"Failed", "Disconnected">>}

Goto(t, step) == call' = [call EXCEPT ![t] = step]

\* The call returns; its local variables are gone.
Return(t) == Goto(t, "idle") /\ id' = [id EXCEPT ![t] = None]

Fault == faults < MaxFaults /\ faults' = faults + 1

\* enroll and restore.  The core would let a session be replaced at any time;
\* the apps restore one when they start or enroll when they have none, and do
\* neither again.
Enroll ==
  /\ ~ enrolled
  /\ enrolled' = TRUE
  /\ UNCHANGED <<state, activeId, tunnel, call, id, serverVars, off, faults>>

-----------------------------------------------------------------------------
(***************************************************************************)
(* prepare_connection.                                                     *)
(***************************************************************************)

\* The state and the session are checked under the mutex ...
PrepareCheck(t) ==
  /\ call[t] = "idle"
  /\ CanTransition(state, "Connecting")
  /\ enrolled
  /\ Goto(t, "set")
  /\ off' = FALSE
  /\ UNCHANGED <<coreVars, id, serverVars, faults>>

\* ... the mutex is released and taken again to set Connecting.
PrepareSet(t) ==
  /\ call[t] = "set"
  /\ state' = "Connecting"
  /\ Goto(t, "request")
  /\ UNCHANGED <<activeId, enrolled, tunnel, id, serverVars, off, faults>>

\* POST /v1/connections in the control plane: a fresh lease, in place of the
\* device's others that the call finds.
Grant(t, new) ==
  /\ new \notin issued
  /\ issued' = issued \cup {new}
  /\ \E kept \in SUBSET (served \cap missed[t]) : served' = kept \cup {new}
  /\ missed' = [u \in Threads |-> IF u # t /\ call[u] = "request"
                                 THEN missed[u] \cup {new} ELSE {}]

ConnectGranted(t, new) ==
  /\ call[t] = "request"
  /\ Grant(t, new)
  /\ id' = [id EXCEPT ![t] = new]
  /\ Goto(t, "store")
  /\ UNCHANGED <<coreVars, abandoned, off, faults>>

ConnectFailsSilently(t) ==
  /\ call[t] = "request"
  /\ Return(t)
  /\ missed' = [missed EXCEPT ![t] = {}]
  /\ UNCHANGED <<coreVars, served, issued, abandoned, off, faults>>

\* No gateway, not authenticated, network down: fail(&e).
ConnectFails(t) ==
  /\ call[t] = "request"
  /\ state' = "Failed"
  /\ Return(t)
  /\ missed' = [missed EXCEPT ![t] = {}]
  /\ UNCHANGED <<activeId, enrolled, tunnel, served, issued, abandoned, off, faults>>

\* The same for the client, but the control plane has granted a lease.
ConnectAnswerLost(t, new) ==
  /\ call[t] = "request"
  /\ Fault
  /\ Grant(t, new)
  /\ abandoned' = abandoned \cup {new}
  /\ state' = "Failed"
  /\ Return(t)
  /\ UNCHANGED <<activeId, enrolled, tunnel, off>>

PrepareStore(t) ==
  /\ call[t] = "store"
  /\ activeId' = id[t]
  /\ tunnel' = TRUE
  /\ Return(t)
  /\ UNCHANGED <<state, enrolled, serverVars, off, faults>>

-----------------------------------------------------------------------------
(***************************************************************************)
(* The platform reports on the tunnel: mark_connected is guarded,          *)
(* mark_failed is not.                                                     *)
(***************************************************************************)

MarkConnectedUnguarded ==
  /\ tunnel
  /\ state # "Connected"
  /\ state' = "Connected"
  /\ UNCHANGED <<activeId, enrolled, tunnel, call, id, serverVars, off, faults>>

MarkConnected ==
  /\ tunnel
  /\ CanTransition(state, "Connected")
  /\ state' = "Connected"
  /\ UNCHANGED <<activeId, enrolled, tunnel, call, id, serverVars, off, faults>>

MarkFailed ==
  /\ tunnel
  /\ state' = "Failed"
  /\ UNCHANGED <<activeId, enrolled, tunnel, call, id, serverVars, off, faults>>

-----------------------------------------------------------------------------
(***************************************************************************)
(* disconnect.                                                             *)
(***************************************************************************)

\* No connection id: "already disconnected".
DisconnectNothing(t) ==
  /\ call[t] = "idle"
  /\ activeId = None
  /\ off' = TRUE
  /\ UNCHANGED <<coreVars, call, id, serverVars, faults>>

DisconnectRead(t) ==
  /\ call[t] = "idle"
  /\ activeId # None
  /\ id' = [id EXCEPT ![t] = activeId]
  /\ Goto(t, "disconnecting")
  /\ UNCHANGED <<coreVars, serverVars, off, faults>>

DisconnectSet(t) ==
  /\ call[t] = "disconnecting"
  /\ state' = "Disconnecting"
  /\ Goto(t, "down")
  /\ UNCHANGED <<activeId, enrolled, tunnel, id, serverVars, off, faults>>

ProviderDown(t) ==
  /\ call[t] = "down"
  /\ Goto(t, "release")
  /\ UNCHANGED <<coreVars, id, serverVars, off, faults>>

\* provider.down()? returns early; the state stays Disconnecting.
ProviderDownFails(t) ==
  /\ call[t] = "down"
  /\ DownMayFail
  /\ Return(t)
  /\ UNCHANGED <<coreVars, serverVars, off, faults>>

\* DELETE /v1/connections/{id}; its error is ignored.
ReleaseSkipped(t) ==
  /\ call[t] = "release"
  /\ Goto(t, "reset")
  /\ UNCHANGED <<coreVars, id, serverVars, off, faults>>

ReleaseLease(t) ==
  /\ call[t] = "release"
  /\ served' = served \ {id[t]}
  /\ Goto(t, "reset")
  /\ UNCHANGED <<coreVars, id, issued, missed, abandoned, off, faults>>

ReleaseFails(t) ==
  /\ call[t] = "release"
  /\ Fault
  /\ abandoned' = abandoned \cup {id[t]}
  /\ Goto(t, "reset")
  /\ UNCHANGED <<coreVars, id, served, issued, missed, off>>

DisconnectReset(t) ==
  /\ call[t] = "reset"
  /\ state' = "Disconnected"
  /\ activeId' = None
  /\ Return(t)
  /\ off' = TRUE
  /\ UNCHANGED <<enrolled, tunnel, serverVars, faults>>

-----------------------------------------------------------------------------
(***************************************************************************)
(* report_tunnel_stats, with its two looks at the state, and keep_alive,   *)
(* with one.  Both end in the renewal of the connection they read; report  *)
(* ignores its error, and neither changes the state.                       *)
(***************************************************************************)

ReportCheck(t) ==
  /\ call[t] = "idle"
  /\ state = "Connected"
  /\ Goto(t, "report")
  /\ UNCHANGED <<coreVars, id, serverVars, off, faults>>

ReportSample(t) ==
  /\ call[t] = "report"
  /\ IF state = "Connected" /\ activeId # None
     THEN Goto(t, "renew") /\ id' = [id EXCEPT ![t] = activeId]
     ELSE Return(t)
  /\ UNCHANGED <<coreVars, serverVars, off, faults>>

KeepAliveUnchecked(t) ==
  /\ call[t] = "idle"
  /\ state = "Connected"
  /\ id' = [id EXCEPT ![t] = activeId]
  /\ Goto(t, "renew")
  /\ UNCHANGED <<coreVars, serverVars, off, faults>>

KeepAlive(t) ==
  /\ call[t] = "idle"
  /\ state = "Connected"
  /\ activeId # None
  /\ id' = [id EXCEPT ![t] = activeId]
  /\ Goto(t, "renew")
  /\ UNCHANGED <<coreVars, serverVars, off, faults>>

\* The lease gets a new expiry, or the answer is 404 or an error.
Renew(t) ==
  /\ call[t] = "renew"
  /\ Return(t)
  /\ UNCHANGED <<coreVars, serverVars, off, faults>>

\* The control plane: a sweep ends the lease (TTL or failover).
LeaseReaped(x) ==
  /\ x \in served
  /\ served' = served \ {x}
  /\ UNCHANGED <<coreVars, call, id, issued, missed, abandoned, off, faults>>

-----------------------------------------------------------------------------
\* A call that has begun goes on.
CallStep(t) ==
  \/ PrepareSet(t)
  \/ \E new \in Leases : ConnectGranted(t, new)
  \/ ConnectFails(t)
  \/ \E new \in Leases : ConnectAnswerLost(t, new)
  \/ PrepareStore(t)
  \/ DisconnectSet(t)
  \/ ProviderDown(t)
  \/ ProviderDownFails(t)
  \/ ReleaseLease(t)
  \/ ReleaseFails(t)
  \/ DisconnectReset(t)
  \/ ReportSample(t)
  \/ Renew(t)

\* A thread calls the core.
CallStart(t) ==
  \/ PrepareCheck(t)
  \/ DisconnectNothing(t)
  \/ DisconnectRead(t)
  \/ ReportCheck(t)
  \/ KeepAlive(t)

Next ==
  \/ Enroll
  \/ \E t \in Threads : CallStart(t) \/ CallStep(t)
  \/ MarkConnected
  \/ MarkFailed
  \/ \E x \in Leases : LeaseReaped(x)

Spec == Init /\ [][Next]_vars

\* Calls go on, and the app's three-second timer keeps reporting statistics.
FairSpec ==
  /\ Spec
  /\ \A t \in Threads : WF_vars(CallStep(t))
  /\ WF_vars(\E t \in Threads : ReportCheck(t))

-----------------------------------------------------------------------------
(***************************************************************************)
(* Properties.                                                             *)
(***************************************************************************)

\* A call that still has to bring the state to an end.
Busy(t) == call[t] \in {"request", "store", "down", "release", "reset"}

\* The client cannot lock itself out: when no call is on its way, either
\* connect is allowed or disconnect has a connection id to work with.
\* (With neither, connect is refused and disconnect does nothing, for ever.)
\* Holds for the FFI build, whose provider's down() cannot fail.
NeverStuck ==
  state \in {"Disconnected", "Failed"} \/ activeId # None \/ \E t \in Threads : Busy(t)

\* The state moves along the edges of can_transition_to (state.rs).
TransitionsAllowed == [][state' # state => CanTransition(state, state')]_vars

\* "The lease is released and the client reconnects" (the comment on
\* ExpireLeasesOnUnhealthyGateways): a client whose lease has been ended by
\* the control plane does not stay Connected on it.
LossIsNoticed ==
  \A x \in Leases :
    (state = "Connected" /\ activeId = x /\ x \notin served)
      ~> ~ (state = "Connected" /\ activeId = x)

=============================================================================
