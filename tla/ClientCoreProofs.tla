-------------------------- MODULE ClientCoreProofs --------------------------
(***************************************************************************)
(* Proofs about ClientCore, for any number of threads, connection ids and  *)
(* faults, and about an app that makes one call at a time.                 *)
(***************************************************************************)
EXTENDS MCClientCore, TLAPS

LEMMA TypeInit == Init => TypeOK
<1> SUFFICES ASSUME Init PROVE TypeOK
  OBVIOUS
<1>1. enrolled \in BOOLEAN /\ tunnel \in BOOLEAN /\ off \in BOOLEAN
  BY Zenon DEF Init
<1>2. faults \in 0 .. MaxFaults
  BY ClientAssumption DEF Init
<1>3. \A t \in Threads : HoldsId(t) => id[t] \in Leases
  BY DEF Init, HoldsId
<1>4. state \in States /\ call \in [Threads -> Calls] /\ id \in [Threads -> Leases \cup {None}]
  BY DEF Init, States, Calls
<1>5. activeId \in Leases \cup {None} /\ served \subseteq issued /\ issued \subseteq Leases
        /\ missed \in [Threads -> SUBSET Leases] /\ abandoned \subseteq Leases
  BY DEF Init
<1> QED
  BY <1>1, <1>2, <1>3, <1>4, <1>5 DEF TypeOK

\* A step of the call of one thread keeps TypeOK.
LEMMA CallsKeepTypes ==
  ASSUME TypeOK, NEW t \in Threads, CallStart(t) \/ CallStep(t)
  PROVE  TypeOK'
<1> USE DEF TypeOK, HoldsId, States, Calls, coreVars, serverVars, Goto, Return
<1>1. CASE PrepareCheck(t)
  BY <1>1 DEF PrepareCheck
<1>2. CASE PrepareSet(t)
  BY <1>2 DEF PrepareSet
<1>3. ASSUME NEW new \in Leases, ConnectGranted(t, new) PROVE TypeOK'
  BY <1>3 DEF ConnectGranted, Grant
<1>4. CASE ConnectFails(t)
  BY <1>4 DEF ConnectFails
<1>5. ASSUME NEW new \in Leases, ConnectAnswerLost(t, new) PROVE TypeOK'
  BY <1>5, ClientAssumption DEF ConnectAnswerLost, Grant, Fault
<1>6. CASE PrepareStore(t)
  BY <1>6 DEF PrepareStore
<1>7. CASE DisconnectNothing(t)
  BY <1>7 DEF DisconnectNothing
<1>8. CASE DisconnectRead(t)
  BY <1>8 DEF DisconnectRead
<1>9. CASE DisconnectSet(t)
  BY <1>9 DEF DisconnectSet
<1>10. CASE ProviderDown(t)
  BY <1>10 DEF ProviderDown
<1>11. CASE ProviderDownFails(t)
  BY <1>11 DEF ProviderDownFails
<1>12. CASE ReleaseLease(t)
  BY <1>12 DEF ReleaseLease
<1>13. CASE ReleaseFails(t)
  BY <1>13, ClientAssumption DEF ReleaseFails, Fault
<1>14. CASE DisconnectReset(t)
  BY <1>14 DEF DisconnectReset
<1>15. CASE ReportCheck(t)
  BY <1>15 DEF ReportCheck
<1>16. CASE ReportSample(t)
  BY <1>16 DEF ReportSample
<1>17. CASE KeepAlive(t)
  BY <1>17 DEF KeepAlive
<1>18. CASE Renew(t)
  BY <1>18 DEF Renew
<1> QED
  BY <1>1, <1>2, <1>3, <1>4, <1>5, <1>6, <1>7, <1>8, <1>9, <1>10, <1>11, <1>12,
     <1>13, <1>14, <1>15, <1>16, <1>17, <1>18 DEF CallStart, CallStep

LEMMA TypeStep == TypeOK /\ [Next]_vars => TypeOK'
<1> SUFFICES ASSUME TypeOK, [Next]_vars PROVE TypeOK'
  OBVIOUS
<1> USE DEF TypeOK, HoldsId, States, Calls, coreVars, serverVars
<1>1. CASE Enroll
  BY <1>1 DEF Enroll
<1>2. ASSUME NEW t \in Threads, CallStart(t) \/ CallStep(t) PROVE TypeOK'
  BY <1>2, CallsKeepTypes
<1>3. CASE MarkConnected
  BY <1>3 DEF MarkConnected
<1>4. CASE MarkFailed
  BY <1>4 DEF MarkFailed
<1>5. ASSUME NEW x \in Leases, LeaseReaped(x) PROVE TypeOK'
  BY <1>5 DEF LeaseReaped
<1>6. CASE UNCHANGED vars
  BY <1>6 DEF vars
<1> QED
  BY <1>1, <1>2, <1>3, <1>4, <1>5, <1>6 DEF Next

\* The core's fields keep their types whatever calls and callbacks interleave,
\* and the control plane never serves an id it has not issued.
THEOREM ClientTypeCorrect == Spec => []TypeOK
  BY TypeInit, TypeStep, PTL DEF Spec

-----------------------------------------------------------------------------
(***************************************************************************)
(* NeverStuck.  A call that makes the client leave Disconnected and Failed *)
(* stays busy until it has stored an id, set Failed or set Disconnected;   *)
(* the id is only taken away in the step that sets Disconnected.           *)
(***************************************************************************)

LEMMA NeverStuckStep ==
  ASSUME ~ DownMayFail, TypeOK, NeverStuck, [Next]_vars
  PROVE  NeverStuck'
<1> USE DEF coreVars, serverVars, Goto, Return
<1>1. ASSUME UNCHANGED <<state, activeId>>,
             \A t \in Threads : Busy(t) => Busy(t)'
      PROVE  NeverStuck'
  BY <1>1 DEF NeverStuck
<1>2. ASSUME NEW t \in Threads, CallStart(t) \/ CallStep(t) PROVE NeverStuck'
  <2> USE DEF TypeOK, HoldsId
  <2>1. CASE PrepareCheck(t)
    BY <2>1, <1>1 DEF PrepareCheck, Busy
  <2>2. CASE PrepareSet(t)
    BY <2>2 DEF PrepareSet, NeverStuck, Busy
  <2>3. ASSUME NEW new \in Leases, ConnectGranted(t, new) PROVE NeverStuck'
    BY <2>3, <1>1 DEF ConnectGranted, Busy
  <2>4. CASE ConnectFails(t) \/ \E new \in Leases : ConnectAnswerLost(t, new)
    BY <2>4 DEF ConnectFails, ConnectAnswerLost, NeverStuck
  <2>5. CASE PrepareStore(t)
    <3>1. activeId' \in Leases
      BY <2>5 DEF PrepareStore
    <3> QED
      BY <3>1, ClientAssumption DEF NeverStuck
  <2>6. CASE DisconnectNothing(t)
    BY <2>6, <1>1 DEF DisconnectNothing, Busy
  <2>7. CASE DisconnectRead(t)
    BY <2>7, <1>1 DEF DisconnectRead, Busy
  <2>8. CASE DisconnectSet(t)
    BY <2>8 DEF DisconnectSet, NeverStuck, Busy
  <2>9. CASE ProviderDown(t)
    BY <2>9, <1>1 DEF ProviderDown, Busy
  <2>10. CASE ReleaseLease(t)
    BY <2>10, <1>1 DEF ReleaseLease, Busy
  <2>11. CASE ReleaseFails(t)
    BY <2>11, <1>1 DEF ReleaseFails, Busy
  <2>12. CASE DisconnectReset(t)
    BY <2>12 DEF DisconnectReset, NeverStuck
  <2>13. CASE ReportCheck(t)
    BY <2>13, <1>1 DEF ReportCheck, Busy
  <2>14. CASE ReportSample(t)
    BY <2>14, <1>1 DEF ReportSample, Busy
  <2>15. CASE KeepAlive(t)
    BY <2>15, <1>1 DEF KeepAlive, Busy
  <2>16. CASE Renew(t)
    BY <2>16, <1>1 DEF Renew, Busy
  <2> QED
    BY <1>2, <2>1, <2>2, <2>3, <2>4, <2>5, <2>6, <2>7, <2>8, <2>9, <2>10, <2>11,
       <2>12, <2>13, <2>14, <2>15, <2>16
       DEF CallStart, CallStep, ProviderDownFails
<1>3. CASE Enroll \/ (\E x \in Leases : LeaseReaped(x)) \/ UNCHANGED vars
  BY <1>3, <1>1 DEF Enroll, LeaseReaped, vars, Busy
<1>4. CASE MarkConnected
  \* From Connecting, which is not a resting state either.
  BY <1>4 DEF MarkConnected, CanTransition, NeverStuck, Busy
<1>5. CASE MarkFailed
  BY <1>5 DEF MarkFailed, NeverStuck
<1> QED
  BY <1>2, <1>3, <1>4, <1>5 DEF Next

\* With the provider of the FFI build, no interleaving of calls, callbacks,
\* failures and lost answers leaves the client in a state that neither
\* connect nor disconnect can leave.
THEOREM ClientNeverStuck ==
  ASSUME ~ DownMayFail
  PROVE  Spec => []NeverStuck
<1>1. Init => NeverStuck
  BY DEF Init, NeverStuck
<1>2. TypeOK /\ NeverStuck /\ [Next]_vars => NeverStuck'
  BY NeverStuckStep
<1> QED
  BY <1>1, <1>2, TypeInit, TypeStep, PTL DEF Spec

-----------------------------------------------------------------------------
(***************************************************************************)
(* One call at a time.  What a call has in hand accounts for the lease     *)
(* that the control plane serves: the stored id, except between the        *)
(* request and the store of prepare_connection, where it is the local one, *)
(* and after the release of disconnect, where there is none.  Abandoned    *)
(* leases are outside this account: the release failed, or the answer of   *)
(* the connect was lost.  No other request is under way when one goes out, *)
(* so a connect finds every lease of the device.                           *)
(***************************************************************************)

\* The threads take turns.
OneCall == \A t, u \in Threads : call[t] # "idle" /\ call[u] # "idle" => t = u

LeaseAccounted ==
  /\ (\A t \in Threads : call[t] # "store") => served \ abandoned \subseteq {activeId}
  /\ \A t \in Threads :
       /\ missed[t] = {}
       /\ call[t] = "store" => served \ abandoned \subseteq {id[t]}
       /\ call[t] \in {"disconnecting", "down", "release"} => id[t] = activeId
       /\ call[t] \in {"disconnecting", "down", "release"} => activeId # None
       /\ call[t] = "reset" => served \subseteq abandoned

\* A disconnected client has no id, a client on its way up or connected has
\* one or is about to get one, and a user who was told "off" has neither.
StateAccounted ==
  /\ state = "Disconnected" => activeId = None
  /\ \A t \in Threads : call[t] \in {"request", "store"} => state # "Disconnected"
  /\ state \in {"Connecting", "Connected"} =>
       activeId # None \/ \E t \in Threads : call[t] \in {"request", "store"}
  /\ \A t \in Threads :
       call[t] \in {"down", "release", "reset"} => state \in {"Disconnecting", "Failed"}
  /\ off => /\ activeId = None
            /\ state \notin {"Connecting", "Connected"}
            /\ \A t \in Threads : call[t] \notin {"set", "request", "store"}

SerialInv == serial => OneCall /\ LeaseAccounted /\ StateAccounted

\* The call that is running goes on.
LEMMA CallStepKeepsSerial ==
  ASSUME TypeOK, OneCall, LeaseAccounted, StateAccounted,
         NEW t \in Threads, CallStep(t)
  PROVE  OneCall' /\ LeaseAccounted' /\ StateAccounted'
<1> USE DEF TypeOK, HoldsId, OneCall, LeaseAccounted, StateAccounted, coreVars,
            serverVars, Goto, Return
<1>1. ASSUME NEW u \in Threads, u # t, call[t] # "idle" PROVE call[u] = "idle"
  BY <1>1
<1>2. ASSUME NEW new \in Leases, ConnectGranted(t, new)
      PROVE  OneCall' /\ LeaseAccounted' /\ StateAccounted'
  BY <1>1, <1>2 DEF ConnectGranted, Grant
<1>3. CASE PrepareSet(t)
  BY <1>1, <1>3, ClientAssumption DEF PrepareSet
<1>4. CASE ConnectFails(t)
  BY <1>1, <1>4, ClientAssumption DEF ConnectFails
<1>5. CASE PrepareStore(t)
  BY <1>1, <1>5, ClientAssumption DEF PrepareStore
<1>6. CASE DisconnectSet(t)
  BY <1>1, <1>6, ClientAssumption DEF DisconnectSet
<1>7. CASE ProviderDown(t)
  BY <1>1, <1>7, ClientAssumption DEF ProviderDown
<1>8. CASE ProviderDownFails(t)
  BY <1>1, <1>8, ClientAssumption DEF ProviderDownFails
<1>9. CASE ReleaseLease(t)
  BY <1>1, <1>9, ClientAssumption DEF ReleaseLease
<1>10. CASE DisconnectReset(t)
  BY <1>1, <1>10, ClientAssumption DEF DisconnectReset
<1>11. CASE ReportSample(t)
  BY <1>1, <1>11, ClientAssumption DEF ReportSample
<1>12. CASE Renew(t)
  BY <1>1, <1>12, ClientAssumption DEF Renew
<1>13. CASE ReleaseFails(t)
  BY <1>1, <1>13, ClientAssumption DEF ReleaseFails
<1>14. ASSUME NEW new \in Leases, ConnectAnswerLost(t, new)
       PROVE  OneCall' /\ LeaseAccounted' /\ StateAccounted'
  BY <1>1, <1>14, ClientAssumption DEF ConnectAnswerLost, Grant
<1> QED
  BY <1>2, <1>3, <1>4, <1>5, <1>6, <1>7, <1>8, <1>9, <1>10, <1>11, <1>12, <1>13, <1>14
     DEF CallStep

\* A call begins while no other one is running.
LEMMA CallStartKeepsSerial ==
  ASSUME TypeOK, LeaseAccounted, StateAccounted,
         NEW t \in Threads, CallStart(t), \A u \in Threads : call[u] = "idle"
  PROVE  OneCall' /\ LeaseAccounted' /\ StateAccounted'
<1> USE DEF TypeOK, OneCall, LeaseAccounted, StateAccounted, coreVars,
            serverVars, Goto
<1>1. CASE PrepareCheck(t)
  BY <1>1 DEF PrepareCheck
<1>2. CASE DisconnectNothing(t)
  BY <1>2 DEF DisconnectNothing
<1>3. CASE DisconnectRead(t)
  BY <1>3 DEF DisconnectRead
<1>4. CASE ReportCheck(t)
  BY <1>4 DEF ReportCheck
<1>5. CASE KeepAlive(t)
  BY <1>5 DEF KeepAlive
<1> QED
  BY <1>1, <1>2, <1>3, <1>4, <1>5 DEF CallStart

LEMMA SerialStepKeepsInv ==
  TypeOK /\ SerialInv /\ [AppsNext]_<<vars, serial>> => SerialInv'
<1> SUFFICES ASSUME TypeOK, SerialInv, [AppsNext]_<<vars, serial>>, serial'
             PROVE  OneCall' /\ LeaseAccounted' /\ StateAccounted'
  BY DEF SerialInv
<1>1. serial /\ OneCall /\ LeaseAccounted /\ StateAccounted
  BY DEF SerialInv, AppsNext
<1>2. CASE UNCHANGED vars
  BY <1>1, <1>2
     DEF OneCall, LeaseAccounted, StateAccounted, vars, coreVars, serverVars
<1>3. CASE Next /\ SerialStep
  <2>1. ASSUME NEW t \in Threads, CallStart(t)
        PROVE  OneCall' /\ LeaseAccounted' /\ StateAccounted'
    BY <1>1, <1>3, <2>1, CallStartKeepsSerial DEF SerialStep
  <2>2. ASSUME NEW t \in Threads, CallStep(t)
        PROVE  OneCall' /\ LeaseAccounted' /\ StateAccounted'
    BY <1>1, <1>3, <2>2, CallStepKeepsSerial DEF SerialStep
  <2>3. CASE Enroll
    BY <1>1, <2>3 DEF OneCall, LeaseAccounted, StateAccounted, Enroll, serverVars
  <2>4. CASE MarkConnected
    BY <1>1, <2>4
       DEF OneCall, LeaseAccounted, StateAccounted, MarkConnected, CanTransition, serverVars
  <2>5. CASE MarkFailed
    BY <1>1, <2>5 DEF OneCall, LeaseAccounted, StateAccounted, MarkFailed, serverVars
  <2>6. ASSUME NEW x \in Leases, LeaseReaped(x)
        PROVE  OneCall' /\ LeaseAccounted' /\ StateAccounted'
    BY <1>1, <2>6 DEF OneCall, LeaseAccounted, StateAccounted, LeaseReaped, coreVars
  <2> QED
    BY <1>3, <2>1, <2>2, <2>3, <2>4, <2>5, <2>6 DEF Next
<1> QED
  BY <1>1, <1>2, <1>3 DEF AppsNext

LEMMA SerialInductive == AppsSpec => [](TypeOK /\ SerialInv)
<1>1. AppsInit => TypeOK /\ SerialInv
  <2>1. AppsInit => TypeOK
    BY TypeInit DEF AppsInit
  <2>2. AppsInit => SerialInv
    BY DEF AppsInit, Init, SerialInv, OneCall, LeaseAccounted, StateAccounted
  <2> QED
    BY <2>1, <2>2
<1>2. TypeOK /\ SerialInv /\ [AppsNext]_<<vars, serial>> => TypeOK' /\ SerialInv'
  <2>1. [AppsNext]_<<vars, serial>> => [Next]_vars
    BY DEF AppsNext
  <2> QED
    BY <2>1, TypeStep, SerialStepKeepsInv
<1> QED
  BY <1>1, <1>2, PTL DEF AppsSpec

\* With one call at a time, a client at rest leaves no lease behind in the
\* control plane but the one it would release next, and none when it is
\* Disconnected, whatever the tunnel callbacks, the reaper, failing requests
\* and a provider whose down() fails do in between; except for a lease whose
\* DELETE failed, which disconnect ignores, or whose grant never reached the
\* client.
THEOREM ClientLeavesNoStrayLease == AppsSpec => []NoStrayLease
<1>1. TypeOK /\ SerialInv => NoStrayLease
  BY ClientAssumption
     DEF TypeOK, SerialInv, LeaseAccounted, StateAccounted, NoStrayLease
<1> QED
  BY <1>1, SerialInductive, PTL

\* With one call at a time, a client whose user was told "disconnected" is not
\* brought to Connected by a late callback.
THEOREM OffStaysOff == AppsSpec => []OffMeansOff
<1>1. SerialInv => OffMeansOff
  BY DEF SerialInv, StateAccounted, OffMeansOff
<1> QED
  BY <1>1, SerialInductive, PTL
=============================================================================
