-------------------------- MODULE NodeAgentProofs --------------------------
(***************************************************************************)
(* Proofs about NodeAgent, for any sets of keys and addresses and any      *)
(* number of faults, lease changes and restarts.                           *)
(***************************************************************************)
EXTENDS NodeAgent, TLAPS

\* The environment keeps what LeaseStore guarantees.
LeasesDistinct == \A l, m \in leases : l[2] = m[2] => l = m

\* Every copy of the node token that can still be used is the row's.
TokenInv ==
  /\ TokenIsCurrent
  /\ apc = "await" => reply = rowToken
  /\ file # 0 => file = rowToken
  /\ apc \in {"register", "await"} => file = 0

\* A plan half-way through: what is no longer to be added is in place, and
\* what does not belong there is still to be removed.
PlanInv ==
  /\ apc \in {"heartbeat", "peers"} => current = [peers |-> wgPeers, route |-> route]
  /\ apc = "apply" =>
       /\ \A j, k \in Keys : want[j] # None /\ want[j] = want[k] => j = k
       /\ \A k \in Keys \ add : want[k] # None =>
            k \in wgPeers /\ {a \in Addrs : route[a] = k} = {want[k]}
       /\ \A k \in wgPeers : want[k] = None => k \in remove
       /\ \A k \in add : want[k] # None
       /\ \A k \in remove : want[k] = None

AgentInv == TypeOK /\ LeasesDistinct /\ TokenInv /\ PlanInv

LEMMA AgentInit == Init => AgentInv
BY AgentAssumption
   DEF Init, AgentInv, TypeOK, LeasesDistinct, TokenInv, TokenIsCurrent, Running, PlanInv,
       Interface, NoInterface, NoWant

LEMMA TypeStep == TypeOK /\ [Next]_vars => TypeOK'
<1> SUFFICES ASSUME TypeOK, [Next]_vars PROVE TypeOK'
  OBVIOUS
<1> USE AgentAssumption DEF TypeOK, rowVars, agentVars, wgVars, boundVars, Interface,
        NoInterface, NoWant, ForgetSync, EndSync, Die, Fault
<1>1. CASE Start
  BY <1>1 DEF Start
<1>2. CASE Register
  BY <1>2 DEF Register
<1>3. CASE SaveToken \/ SaveTokenFails
  BY <1>3 DEF SaveToken, SaveTokenFails
<1>4. CASE ListPeers
  BY <1>4 DEF ListPeers
<1>5. CASE Heartbeat
  BY <1>5 DEF Heartbeat
<1>6. CASE Unauthorized
  BY <1>6 DEF Unauthorized
<1>7. CASE FetchPeers
  BY <1>7 DEF FetchPeers, DiffAdd, DiffRemove
<1>8. ASSUME NEW k \in Keys, SetPeer(k) PROVE TypeOK'
  BY <1>8 DEF SetPeer
<1>9. ASSUME NEW k \in Keys, RemovePeer(k) PROVE TypeOK'
  BY <1>9 DEF RemovePeer
<1>10. CASE FinishSync
  BY <1>10 DEF FinishSync
<1>11. CASE SyncFails
  BY <1>11 DEF SyncFails
<1>12. CASE HeartbeatAnswerLost
  BY <1>12 DEF HeartbeatAnswerLost
<1>13. CASE Kill \/ Reboot
  BY <1>13 DEF Kill, Reboot
<1>14. CASE Stop
  BY <1>14 DEF Stop
<1>15. CASE MarkStaleUnhealthy
  BY <1>15 DEF MarkStaleUnhealthy
<1>16. ASSUME NEW k \in Keys, NEW a \in Addrs, LeaseGranted(k, a) PROVE TypeOK'
  BY <1>16 DEF LeaseGranted
<1>17. ASSUME NEW l \in leases, LeaseEnded(l) PROVE TypeOK'
  BY <1>17 DEF LeaseEnded
<1>18. CASE UNCHANGED vars
  BY <1>18 DEF vars
<1> QED
  BY <1>1, <1>2, <1>3, <1>4, <1>5, <1>6, <1>7, <1>8, <1>9, <1>10, <1>11, <1>12, <1>13,
     <1>14, <1>15, <1>16, <1>17, <1>18 DEF Next, AgentStep

LEMMA LeasesStep == TypeOK /\ LeasesDistinct /\ [Next]_vars => LeasesDistinct'
<1> SUFFICES ASSUME TypeOK, LeasesDistinct, [Next]_vars PROVE LeasesDistinct'
  OBVIOUS
<1>1. ASSUME NEW k \in Keys, NEW a \in Addrs, LeaseGranted(k, a) PROVE LeasesDistinct'
  BY <1>1 DEF LeaseGranted, LeasesDistinct, TypeOK
<1>2. ASSUME NEW l \in leases, LeaseEnded(l) PROVE LeasesDistinct'
  BY <1>2 DEF LeaseEnded, LeasesDistinct
<1>3. CASE UNCHANGED leases
  BY <1>3 DEF LeasesDistinct
<1>4. [Next]_vars => \/ \E k \in Keys, a \in Addrs : LeaseGranted(k, a)
                     \/ \E l \in leases : LeaseEnded(l)
                     \/ UNCHANGED leases
  BY DEF vars, Next, AgentStep, Start, Register, SaveToken, SaveTokenFails, ListPeers,
         Heartbeat, Unauthorized, FetchPeers, SetPeer, RemovePeer, FinishSync, SyncFails,
         HeartbeatAnswerLost, Kill, Reboot, Die, Stop, MarkStaleUnhealthy
<1> QED
  BY <1>1, <1>2, <1>3, <1>4

LEMMA TokenStep == TypeOK /\ TokenInv /\ [Next]_vars => TokenInv'
<1> SUFFICES ASSUME TypeOK, TokenInv, [Next]_vars PROVE TokenInv'
  OBVIOUS
<1> USE DEF TypeOK, TokenInv, TokenIsCurrent, Running, rowVars, agentVars, EndSync, Die
<1>1. CASE Start \/ Register \/ SaveToken \/ SaveTokenFails
  BY <1>1 DEF Start, Register, SaveToken, SaveTokenFails
<1>2. CASE ListPeers \/ Heartbeat \/ Unauthorized \/ FetchPeers \/ FinishSync
  BY <1>2 DEF ListPeers, Heartbeat, Unauthorized, FetchPeers, FinishSync
<1>3. ASSUME NEW k \in Keys, SetPeer(k) \/ RemovePeer(k) PROVE TokenInv'
  BY <1>3 DEF SetPeer, RemovePeer
<1>4. CASE SyncFails \/ HeartbeatAnswerLost \/ Kill \/ Reboot
  BY <1>4 DEF SyncFails, HeartbeatAnswerLost, Kill, Reboot
<1>5. CASE Stop
  BY <1>5 DEF Stop
<1>6. CASE UNCHANGED <<rowToken, agentVars>>
  BY <1>6
<1>7. [Next]_vars => \/ Start \/ Register \/ SaveToken \/ SaveTokenFails
                     \/ ListPeers \/ Heartbeat \/ Unauthorized \/ FetchPeers \/ FinishSync
                     \/ \E k \in Keys : SetPeer(k) \/ RemovePeer(k)
                     \/ SyncFails \/ HeartbeatAnswerLost \/ Kill \/ Reboot \/ Stop
                     \/ UNCHANGED <<rowToken, agentVars>>
  BY DEF vars, Next, AgentStep, MarkStaleUnhealthy, LeaseGranted, LeaseEnded
<1> QED
  BY <1>1, <1>2, <1>3, <1>4, <1>5, <1>6, <1>7

LEMMA PlanStep ==
  TypeOK /\ LeasesDistinct /\ PlanInv /\ [Next]_vars => PlanInv'
<1> SUFFICES ASSUME TypeOK, LeasesDistinct, PlanInv, [Next]_vars PROVE PlanInv'
  OBVIOUS
<1>1. CASE ListPeers
  BY <1>1 DEF ListPeers, PlanInv, wgVars
<1>2. CASE Heartbeat
  BY <1>2 DEF Heartbeat, PlanInv, wgVars
<1>3. CASE FetchPeers
  <2>1. PICK w \in [Keys -> Addrs \cup {None}] :
          /\ Index(w)
          /\ want' = w
          /\ add' = DiffAdd(current, w)
          /\ remove' = DiffRemove(current, w)
    BY <1>3 DEF FetchPeers
  <2>2. apc' = "apply" /\ UNCHANGED wgVars
        /\ current.peers = wgPeers /\ current.route = route
    BY <1>3 DEF FetchPeers, PlanInv
  <2>3. \A j, k \in Keys : w[j] # None /\ w[j] = w[k] => j = k
    <3> SUFFICES ASSUME NEW j \in Keys, NEW k \in Keys, w[j] # None, w[j] = w[k]
                 PROVE  j = k
      OBVIOUS
    <3>1. <<j, w[j]>> \in leases /\ <<k, w[k]>> \in leases
      BY <2>1 DEF Index
    <3> QED
      BY <3>1 DEF LeasesDistinct
  <2>4. \A k \in Keys \ add' : w[k] # None =>
          k \in wgPeers /\ {a \in Addrs : route[a] = k} = {w[k]}
    BY <2>1, <2>2 DEF DiffAdd, AllowedIPs
  <2>5. /\ \A k \in wgPeers : w[k] = None => k \in remove'
        /\ \A k \in add' : w[k] # None
        /\ \A k \in remove' : w[k] = None
    BY <2>1, <2>2 DEF DiffAdd, DiffRemove
  <2> QED
    BY <2>1, <2>2, <2>3, <2>4, <2>5 DEF PlanInv, wgVars
<1>4. ASSUME NEW k \in Keys, SetPeer(k) PROVE PlanInv'
  <2>1. apc = "apply" /\ k \in add /\ add' = add \ {k} /\ wgPeers' = wgPeers \cup {k}
        /\ UNCHANGED <<apc, want, remove>> /\ want[k] # None /\ want[k] \in Addrs
    BY <1>4 DEF SetPeer, PlanInv, TypeOK
  <2>2. \A a \in Addrs : route'[a] = (IF a = want[k] THEN k
                                      ELSE IF route[a] = k THEN None ELSE route[a])
    BY <1>4 DEF SetPeer
  <2>3. {a \in Addrs : route'[a] = k} = {want[k]}
    BY <2>1, <2>2, AgentAssumption
  <2>4. ASSUME NEW j \in Keys \ add, want[j] # None
        PROVE  {a \in Addrs : route'[a] = j} = {want[j]}
    <3>1. j # k /\ want[j] # want[k] /\ {a \in Addrs : route[a] = j} = {want[j]}
      BY <2>1, <2>4 DEF PlanInv
    <3> QED
      BY <2>2, <3>1, AgentAssumption
  <2>5. \A j \in Keys \ add' : want[j] # None =>
          j \in wgPeers' /\ {a \in Addrs : route'[a] = j} = {want[j]}
    BY <2>1, <2>3, <2>4 DEF PlanInv
  <2> QED
    BY <2>1, <2>5 DEF PlanInv
<1>5. ASSUME NEW k \in Keys, RemovePeer(k) PROVE PlanInv'
  <2>1. apc = "apply" /\ add = {} /\ k \in remove /\ want[k] = None
        /\ remove' = remove \ {k} /\ wgPeers' = wgPeers \ {k}
        /\ UNCHANGED <<apc, want, add>>
    BY <1>5 DEF RemovePeer, PlanInv
  <2>2. \A a \in Addrs : route'[a] = (IF route[a] = k THEN None ELSE route[a])
    BY <1>5 DEF RemovePeer
  <2>3. ASSUME NEW j \in Keys, want[j] # None
        PROVE  j \in wgPeers' /\ {a \in Addrs : route'[a] = j} = {want[j]}
    <3>1. j # k /\ j \in wgPeers /\ {a \in Addrs : route[a] = j} = {want[j]}
      BY <2>1, <2>3 DEF PlanInv
    <3> QED
      BY <2>1, <2>2, <3>1, AgentAssumption
  <2> QED
    BY <2>1, <2>3 DEF PlanInv
<1>6. CASE apc' \notin {"heartbeat", "peers", "apply"}
  BY <1>6 DEF PlanInv
<1>7. CASE UNCHANGED <<agentVars, wgVars>>
  BY <1>7 DEF PlanInv, agentVars, wgVars
<1>8. [Next]_vars => \/ ListPeers \/ Heartbeat \/ FetchPeers
                     \/ \E k \in Keys : SetPeer(k) \/ RemovePeer(k)
                     \/ apc' \notin {"heartbeat", "peers", "apply"}
                     \/ UNCHANGED <<agentVars, wgVars>>
  BY DEF vars, Next, AgentStep, Start, Register, SaveToken, SaveTokenFails, Unauthorized,
         FinishSync, SyncFails, HeartbeatAnswerLost, Kill, Reboot, Die, Stop, EndSync,
         MarkStaleUnhealthy, LeaseGranted, LeaseEnded
<1> QED
  BY <1>1, <1>2, <1>3, <1>4, <1>5, <1>6, <1>7, <1>8

LEMMA AgentInductive == Spec => []AgentInv
<1>1. AgentInv /\ [Next]_vars => AgentInv'
  BY TypeStep, LeasesStep, TokenStep, PlanStep DEF AgentInv
<1> QED
  BY AgentInit, <1>1, PTL DEF Spec

\* Type correctness of the agent, its interface and its row.
THEOREM AgentTypeCorrect == Spec => []TypeOK
<1>1. AgentInv => TypeOK
  BY DEF AgentInv
<1> QED
  BY <1>1, AgentInductive, PTL

\* ensureRegistered never leaves a running agent with a replaced token.
THEOREM TokenStaysCurrent == Spec => []TokenIsCurrent
<1>1. AgentInv => TokenIsCurrent
  BY DEF AgentInv, TokenInv
<1> QED
  BY <1>1, AgentInductive, PTL

\* Diff followed by a completed Apply makes the interface exactly the desired
\* peer set, for any numbers of peers and moved addresses.
THEOREM SyncsAreExact == Spec => []SyncIsExact
<1>1. AgentInv => SyncIsExact
  <2> SUFFICES ASSUME AgentInv, apc = "apply", add = {}, remove = {}
               PROVE  /\ wgPeers = {k \in Keys : want[k] # None}
                      /\ \A k \in Keys : want[k] # None =>
                           AllowedIPs([peers |-> wgPeers, route |-> route], k) = {want[k]}
    BY DEF SyncIsExact
  <2>1. \A k \in Keys : want[k] # None =>
          k \in wgPeers /\ {a \in Addrs : route[a] = k} = {want[k]}
    BY DEF AgentInv, PlanInv
  <2>2. wgPeers \subseteq {k \in Keys : want[k] # None}
    BY DEF AgentInv, PlanInv, TypeOK
  <2> QED
    BY <2>1, <2>2 DEF AllowedIPs
<1> QED
  BY <1>1, AgentInductive, PTL

\* An executed plan, complete or not, never takes from a peer an address that
\* the fetched list gives to it, for any numbers of peers and addresses.
THEOREM SyncsLeavePeersAlone == Spec => PeersInUseAreLeftAlone
<1> DEFINE Allowed(a) == Reboot \/ (apc = "apply" /\ want[route[a]] # a)
           Kept == \A a \in Addrs :
                     route[a] # None /\ route'[a] # route[a] => Allowed(a)
<1>1. AgentInv /\ [Next]_vars => [Kept]_vars
  <2> SUFFICES ASSUME AgentInv, Next, NEW a \in Addrs,
                      route[a] # None, route'[a] # route[a]
               PROVE  Allowed(a)
    OBVIOUS
  <2>1. route[a] \in Keys
    BY DEF AgentInv, TypeOK
  <2>2. ASSUME NEW k \in Keys, SetPeer(k) PROVE Allowed(a)
    <3>1. apc = "apply" /\ k \in add /\ want[k] # None
      BY <2>2 DEF SetPeer, AgentInv, PlanInv
    <3>2. route'[a] = (IF a = want[k] THEN k ELSE IF route[a] = k THEN None ELSE route[a])
      BY <2>2 DEF SetPeer
    <3>3. CASE a = want[k]
      BY <2>1, <3>1, <3>2, <3>3 DEF AgentInv, PlanInv
    <3>4. CASE a # want[k]
      BY <3>1, <3>2, <3>4
    <3> QED
      BY <3>3, <3>4
  <2>3. ASSUME NEW k \in Keys, RemovePeer(k) PROVE Allowed(a)
    <3>1. apc = "apply" /\ k \in remove /\ want[k] = None /\ route[a] = k
      BY <2>3 DEF RemovePeer, AgentInv, PlanInv
    <3> QED
      BY <3>1, AgentAssumption
  <2>4. Reboot \/ \E k \in Keys : SetPeer(k) \/ RemovePeer(k)
    BY DEF Next, AgentStep, Start, Register, SaveToken, SaveTokenFails, ListPeers, Heartbeat,
           Unauthorized, FetchPeers, FinishSync, SyncFails, HeartbeatAnswerLost, Kill, Stop,
           MarkStaleUnhealthy, LeaseGranted, LeaseEnded, wgVars
  <2> QED
    BY <2>2, <2>3, <2>4
<1> QED
  BY <1>1, AgentInductive, PTL DEF Spec, PeersInUseAreLeftAlone

=============================================================================
