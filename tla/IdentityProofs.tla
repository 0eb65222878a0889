--------------------------- MODULE IdentityProofs ---------------------------
(***************************************************************************)
(* Proofs about Identity, for any number of registrations, invites, users  *)
(* and keys and any lifetimes.                                             *)
(***************************************************************************)
EXTENDS Identity, TLAPS

\* What the request of a registration has left behind in each phase.
RequestInv ==
  \A c \in Calls :
    /\ pc[c] = "idle" => code[c] = None
    /\ pc[c] \in {"invite", "locked"} => code[c] \in Invites
    /\ pc[c] \notin {"idle", "failed"} => owner[c] \in Emails

TypeInv == TypeOK /\ RequestInv

LEMMA TypeInvInit == Init => TypeInv
<1> SUFFICES ASSUME Init PROVE TypeInv
  OBVIOUS
<1>1. /\ session \in [Emails -> 0 .. AccessTTL]
      /\ access \in [Calls -> 0 .. AccessTTL]
      /\ left \in [Calls -> -1 .. LeaseTTL]
  BY IdentityAssumption DEF Init
<1>2. TypeOK
  BY <1>1 DEF Init, TypeOK, InviteStates, CallSteps, RefreshStates, RevokeSteps
<1>3. RequestInv
  BY DEF Init, RequestInv
<1> QED
  BY <1>2, <1>3 DEF TypeInv

\* A step of one registration.
LEMMA RegistrationKeepsTypes ==
  ASSUME TypeInv, NEW c \in Calls,
         Register(c) \/ Answer(c) \/ AnswerLost(c) \/ TxError(c)
  PROVE  TypeInv'
<1> USE IdentityAssumption
    DEF TypeInv, RequestInv, TypeOK, InviteStates, CallSteps, RefreshStates,
        RevokeSteps, inviteVars, userVars, callVars, tokenVars, revokeVars, leaseVars
<1>1. ASSUME Rollback(c) PROVE TypeInv'
  BY <1>1 DEF Rollback, DropInviteLock
<1>2. CASE LockInvite(c)
  BY <1>2 DEF LockInvite, Redeemable
<1>3. CASE InviteInvalid(c) \/ DeviceKeyTaken(c) \/ TxError(c)
  BY <1>1, <1>3 DEF InviteInvalid, DeviceKeyTaken, TxError
<1>4. CASE UpsertUser(c) \/ InsertDevice(c)
  BY <1>4 DEF UpsertUser, InsertDevice
<1>5. CASE Commit(c)
  BY <1>5 DEF Commit, DropInviteLock
<1>6. CASE Answer(c)
  BY <1>6 DEF Answer, IssueJWT
<1>7. CASE AnswerLost(c)
  BY <1>7 DEF AnswerLost
<1> QED
  BY <1>2, <1>3, <1>4, <1>5, <1>6, <1>7 DEF Register

\* A step of a device's client, or of a revocation of the device.
LEMMA DeviceKeepsTypes ==
  ASSUME TypeInv, NEW c \in Calls, Client(c) \/ Revoke(c) \/ RefreshRunsOut(c)
  PROVE  TypeInv'
<1> USE IdentityAssumption
    DEF TypeInv, RequestInv, TypeOK, InviteStates, CallSteps, RefreshStates,
        RevokeSteps, inviteVars, userVars, callVars, tokenVars, revokeVars, leaseVars
<1>1. CASE RefreshAccess(c) \/ RefreshLost(c)
  BY <1>1 DEF RefreshAccess, RefreshLost
<1>2. CASE issueAccess(c)
  BY <1>2 DEF issueAccess, IssueJWT
<1>3. CASE ConnectCheck(c) \/ ConnectFails(c)
  BY <1>3 DEF ConnectCheck, ConnectFails
<1>4. CASE ConnectInsert(c)
  BY <1>4 DEF ConnectInsert
<1>5. CASE RenewConnection(c)
  BY <1>5 DEF RenewConnection
<1>6. CASE ReleaseConnection(c)
  BY <1>6 DEF ReleaseConnection
<1>7. CASE RevokeDevice(c)
  BY <1>7 DEF RevokeDevice
<1>8. CASE RevokeTokens(c)
  BY <1>8 DEF RevokeTokens
<1>9. CASE RevokeLeases(c)
  BY <1>9 DEF RevokeLeases
<1>10. CASE RevokeError(c)
  BY <1>10 DEF RevokeError
<1>11. CASE RefreshRunsOut(c)
  BY <1>11 DEF RefreshRunsOut
<1> QED
  BY <1>1, <1>2, <1>3, <1>4, <1>5, <1>6, <1>7, <1>8, <1>9, <1>10, <1>11
  DEF Client, Revoke

LEMMA TypeInvStep == TypeInv /\ [Next]_vars => TypeInv'
<1> SUFFICES ASSUME TypeInv, [Next]_vars PROVE TypeInv'
  OBVIOUS
<1> USE IdentityAssumption
    DEF TypeInv, RequestInv, TypeOK, InviteStates, CallSteps, RefreshStates,
        RevokeSteps, inviteVars, userVars, callVars, tokenVars, revokeVars, leaseVars
<1>1. CASE Tick
  BY <1>1 DEF Tick
<1>2. CASE ExpireStaleLeases
  BY <1>2 DEF ExpireStaleLeases
<1>3. ASSUME NEW i \in Invites, InviteRunsOut(i) PROVE TypeInv'
  BY <1>3 DEF InviteRunsOut
<1>4. ASSUME NEW i \in Invites, NEW v \in InviteStates, CreateInvite(i, v) PROVE TypeInv'
  BY <1>4 DEF CreateInvite
<1>5. ASSUME NEW u \in Emails, SetPassword(u) \/ Login(u) PROVE TypeInv'
  BY <1>5 DEF SetPassword, Login, IssueJWT
<1>6. ASSUME NEW c \in Calls, NEW i \in Invites, NEW u \in Emails, NEW k \in Keys,
             BeginEnroll(c, i, u, k)
      PROVE  TypeInv'
  BY <1>6 DEF BeginEnroll
<1>7. ASSUME NEW c \in Calls, NEW u \in Emails, NEW k \in Keys, BeginCreateDevice(c, u, k)
      PROVE  TypeInv'
  BY <1>7 DEF BeginCreateDevice
<1>8. ASSUME NEW c \in Calls, Register(c) \/ Answer(c) \/ AnswerLost(c) \/ TxError(c)
      PROVE  TypeInv'
  BY <1>8, RegistrationKeepsTypes
<1>9. ASSUME NEW c \in Calls, Client(c) \/ Revoke(c) \/ RefreshRunsOut(c) PROVE TypeInv'
  BY <1>9, DeviceKeepsTypes
<1>10. CASE UNCHANGED vars
  BY <1>10 DEF vars
<1> QED
  BY <1>1, <1>2, <1>3, <1>4, <1>5, <1>6, <1>7, <1>8, <1>9, <1>10 DEF Next

\* The tables and tokens of identity are well-typed, whatever the requests do.
THEOREM IdentityTypeOK == Spec => []TypeOK
<1>1. TypeInv => TypeOK
  BY DEF TypeInv
<1> QED
  BY <1>1, TypeInvInit, TypeInvStep, PTL DEF Spec

-----------------------------------------------------------------------------
(***************************************************************************)
(* RegistrationsAreExact.  An enrolment past its SELECT ... FOR UPDATE     *)
(* holds the row of its invite, which therefore nobody else marks used;    *)
(* and the unique index counts rows that are not committed yet.            *)
(***************************************************************************)

LockInv ==
  \A c \in Calls :
    pc[c] \in {"locked", "user", "device"} /\ code[c] # None =>
      inviteLock[code[c]] = c /\ invite[code[c]] # "used"

KeyInv == \A b, c \in Inserted : b # c => key[b] # key[c]

UsedInv == \A i \in Invites : invite[i] = "used" <=> Enrolled(i) # {}

CodeInv ==
  \A b, c \in Calls :
    HasDevice(b) /\ HasDevice(c) /\ b # c /\ code[b] # None => code[b] # code[c]

OwnerInv == \A c \in Calls : HasDevice(c) => owner[c] \in users

ExactInv == LockInv /\ KeyInv /\ UsedInv /\ CodeInv /\ OwnerInv

LEMMA ExactInvInit == Init => ExactInv
  BY DEF Init, ExactInv, LockInv, KeyInv, UsedInv, CodeInv, OwnerInv, Enrolled,
         HasDevice, Inserted

\* Only registrations and the life of invites can disturb it.
LEMMA OthersKeepExactInv ==
  ASSUME ExactInv, UNCHANGED <<invite, inviteLock, users, pc, code, owner, key>>
  PROVE  ExactInv'
  BY DEF ExactInv, LockInv, KeyInv, UsedInv, CodeInv, OwnerInv, Enrolled,
         HasDevice, Inserted

LEMMA RegistrationKeepsExactInv ==
  ASSUME TypeInv, ExactInv, NEW c \in Calls,
         Register(c) \/ Answer(c) \/ AnswerLost(c) \/ TxError(c)
  PROVE  ExactInv'
<1> USE IdentityAssumption
    DEF TypeInv, RequestInv, TypeOK, InviteStates, CallSteps, inviteVars, userVars,
        callVars, ExactInv, LockInv, KeyInv, UsedInv, CodeInv, OwnerInv, Enrolled,
        HasDevice, Inserted, InFlight
<1>1. ASSUME InFlight(c), Rollback(c) PROVE ExactInv'
  BY <1>1 DEF Rollback, DropInviteLock
<1>2. CASE LockInvite(c)
  BY <1>2 DEF LockInvite, Redeemable
<1>3. CASE InviteInvalid(c) \/ DeviceKeyTaken(c) \/ TxError(c)
  BY <1>1, <1>3 DEF InviteInvalid, DeviceKeyTaken, TxError
<1>4. CASE UpsertUser(c)
  BY <1>4 DEF UpsertUser
<1>5. CASE InsertDevice(c)
  BY <1>5 DEF InsertDevice
<1>6. CASE Commit(c)
  <2>1. LockInv'
    BY <1>6 DEF Commit, DropInviteLock
  <2>2. KeyInv'
    BY <1>6 DEF Commit
  <2>3. UsedInv'
    BY <1>6 DEF Commit
  <2>4. CodeInv'
    BY <1>6 DEF Commit
  <2>5. OwnerInv'
    BY <1>6 DEF Commit
  <2> QED
    BY <2>1, <2>2, <2>3, <2>4, <2>5
<1>7. CASE Answer(c) \/ AnswerLost(c)
  BY <1>7 DEF Answer, AnswerLost
<1> QED
  BY <1>2, <1>3, <1>4, <1>5, <1>6, <1>7 DEF Register

LEMMA ExactInvStep == TypeInv /\ ExactInv /\ [Next]_vars => ExactInv'
<1> SUFFICES ASSUME TypeInv, ExactInv, [Next]_vars PROVE ExactInv'
  OBVIOUS
<1> USE DEF inviteVars, userVars, callVars
<1>1. CASE Tick \/ ExpireStaleLeases
  BY <1>1, OthersKeepExactInv DEF Tick, ExpireStaleLeases
<1>2. ASSUME NEW i \in Invites,
             InviteRunsOut(i) \/ \E v \in InviteStates : CreateInvite(i, v)
      PROVE  ExactInv'
  BY <1>2 DEF InviteRunsOut, CreateInvite, TypeInv, TypeOK, ExactInv, LockInv, KeyInv,
              UsedInv, CodeInv, OwnerInv, Enrolled, HasDevice, Inserted
<1>3. ASSUME NEW u \in Emails, SetPassword(u) \/ Login(u) PROVE ExactInv'
  BY <1>3, OthersKeepExactInv DEF SetPassword, Login
<1>4. ASSUME NEW c \in Calls, NEW i \in Invites, NEW u \in Emails, NEW k \in Keys,
             BeginEnroll(c, i, u, k)
      PROVE  ExactInv'
  BY <1>4 DEF BeginEnroll, TypeInv, TypeOK, ExactInv, LockInv, KeyInv, UsedInv, CodeInv,
              OwnerInv, Enrolled, HasDevice, Inserted
<1>5. ASSUME NEW c \in Calls, NEW u \in Emails, NEW k \in Keys, BeginCreateDevice(c, u, k)
      PROVE  ExactInv'
  BY <1>5 DEF BeginCreateDevice, TypeInv, RequestInv, TypeOK, ExactInv, LockInv, KeyInv,
              UsedInv, CodeInv, OwnerInv, Enrolled, HasDevice, Inserted
<1>6. ASSUME NEW c \in Calls, Register(c) \/ Answer(c) \/ AnswerLost(c) \/ TxError(c)
      PROVE  ExactInv'
  BY <1>6, RegistrationKeepsExactInv
<1>7. ASSUME NEW c \in Calls, Client(c) PROVE ExactInv'
  BY <1>7, OthersKeepExactInv
  DEF Client, RefreshAccess, issueAccess, RefreshLost, ConnectCheck, ConnectInsert,
      ConnectFails, RenewConnection, ReleaseConnection
<1>8. ASSUME NEW c \in Calls, Revoke(c) \/ RefreshRunsOut(c) PROVE ExactInv'
  BY <1>8, OthersKeepExactInv
  DEF Revoke, RevokeDevice, RevokeTokens, RevokeLeases, RevokeError, RefreshRunsOut
<1>9. CASE UNCHANGED vars
  BY <1>9, OthersKeepExactInv DEF vars
<1> QED
  BY <1>1, <1>2, <1>3, <1>4, <1>5, <1>6, <1>7, <1>8, <1>9 DEF Next

\* However many enrolments and device creations interleave, wait for each
\* other, fail and are retried (Enroll, CreateDevice): an invite is used
\* exactly when one device was enrolled with it, no two devices share a
\* public key, and every device has its user.
THEOREM RegistrationsStayExact == Spec => []RegistrationsAreExact
<1>1. TypeInv /\ ExactInv => RegistrationsAreExact
  BY DEF TypeInv, TypeOK, ExactInv, KeyInv, UsedInv, CodeInv, OwnerInv,
         RegistrationsAreExact, HasDevice, Inserted
<1> QED
  BY <1>1, TypeInvInit, TypeInvStep, ExactInvInit, ExactInvStep, PTL DEF Spec

-----------------------------------------------------------------------------
(***************************************************************************)
(* DarkStaysDark.  Access tokens are minted at the end of an enrolment, of *)
(* a refresh that was past its check, and of a login, whose token is not   *)
(* the device's; a revoked device passes no check again.                   *)
(***************************************************************************)

\* Only a device that is committed can be revoked.
RevokedInv == \A c \in revoked : HasDevice(c)

LEMMA RevokedInvStep == TypeInv /\ RevokedInv /\ [Next]_vars => RevokedInv'
<1> SUFFICES ASSUME TypeInv, RevokedInv, [Next]_vars PROVE RevokedInv'
  OBVIOUS
<1> USE DEF TypeInv, TypeOK, RevokedInv, HasDevice, inviteVars, userVars, callVars,
            tokenVars, revokeVars, leaseVars
<1>1. CASE UNCHANGED <<pc, revoked>>
  BY <1>1
<1>2. CASE Tick \/ ExpireStaleLeases
  BY <1>1, <1>2 DEF Tick, ExpireStaleLeases
<1>3. ASSUME NEW i \in Invites,
             InviteRunsOut(i) \/ \E v \in InviteStates : CreateInvite(i, v)
      PROVE  RevokedInv'
  BY <1>1, <1>3 DEF InviteRunsOut, CreateInvite
<1>4. ASSUME NEW u \in Emails, SetPassword(u) \/ Login(u) PROVE RevokedInv'
  BY <1>1, <1>4 DEF SetPassword, Login
<1>5. ASSUME NEW c \in Calls,
             \/ \E i \in Invites, u \in Emails, k \in Keys : BeginEnroll(c, i, u, k)
             \/ \E u \in Emails, k \in Keys : BeginCreateDevice(c, u, k)
      PROVE  RevokedInv'
  BY <1>5 DEF BeginEnroll, BeginCreateDevice
<1>6. ASSUME NEW c \in Calls, Register(c) \/ Answer(c) \/ AnswerLost(c) \/ TxError(c)
      PROVE  RevokedInv'
  BY <1>6 DEF Register, LockInvite, InviteInvalid, UpsertUser, InsertDevice,
              DeviceKeyTaken, Commit, Answer, AnswerLost, TxError, InFlight, Rollback
<1>7. ASSUME NEW c \in Calls, Client(c) PROVE RevokedInv'
  BY <1>1, <1>7
  DEF Client, RefreshAccess, issueAccess, RefreshLost, ConnectCheck, ConnectInsert,
      ConnectFails, RenewConnection, ReleaseConnection
<1>8. ASSUME NEW c \in Calls, Revoke(c) \/ RefreshRunsOut(c) PROVE RevokedInv'
  BY <1>1, <1>8
  DEF Revoke, RevokeDevice, RevokeTokens, RevokeLeases, RevokeError, RefreshRunsOut
<1>9. CASE UNCHANGED vars
  BY <1>1, <1>9 DEF vars
<1> QED
  BY <1>2, <1>3, <1>4, <1>5, <1>6, <1>7, <1>8, <1>9 DEF Next

LEMMA DarkStep ==
  ASSUME TypeInv, RevokedInv, NEW d \in Calls, Dark(d), [Next]_vars
  PROVE  Dark(d)'
<1> USE DEF TypeInv, TypeOK, RevokedInv, HasDevice, Dark, inviteVars, userVars, callVars,
            tokenVars, revokeVars, leaseVars
<1>1. CASE UNCHANGED <<pc, revoked, active, connecting, refreshing, access>>
  BY <1>1
<1>2. CASE Tick \/ ExpireStaleLeases
  BY <1>2 DEF Tick, ExpireStaleLeases
<1>3. ASSUME NEW i \in Invites,
             InviteRunsOut(i) \/ \E v \in InviteStates : CreateInvite(i, v)
      PROVE  Dark(d)'
  BY <1>1, <1>3 DEF InviteRunsOut, CreateInvite
<1>4. ASSUME NEW u \in Emails, SetPassword(u) \/ Login(u) PROVE Dark(d)'
  BY <1>1, <1>4 DEF SetPassword, Login
<1>5. ASSUME NEW c \in Calls,
             \/ \E i \in Invites, u \in Emails, k \in Keys : BeginEnroll(c, i, u, k)
             \/ \E u \in Emails, k \in Keys : BeginCreateDevice(c, u, k)
      PROVE  Dark(d)'
  BY <1>5 DEF BeginEnroll, BeginCreateDevice
<1>6. ASSUME NEW c \in Calls, Register(c) \/ Answer(c) \/ AnswerLost(c) \/ TxError(c)
      PROVE  Dark(d)'
  BY <1>6 DEF Register, LockInvite, InviteInvalid, UpsertUser, InsertDevice,
              DeviceKeyTaken, Commit, Answer, AnswerLost, TxError, InFlight, Rollback
<1>7. ASSUME NEW c \in Calls, Client(c) PROVE Dark(d)'
  BY <1>7
  DEF Client, RefreshAccess, issueAccess, RefreshLost, ConnectCheck, ConnectInsert,
      ConnectFails, RenewConnection, ReleaseConnection
<1>8. ASSUME NEW c \in Calls, Revoke(c) \/ RefreshRunsOut(c) PROVE Dark(d)'
  BY <1>8
  DEF Revoke, RevokeDevice, RevokeTokens, RevokeLeases, RevokeError, RefreshRunsOut
<1>9. CASE UNCHANGED vars
  BY <1>1, <1>9 DEF vars
<1> QED
  BY <1>2, <1>3, <1>4, <1>5, <1>6, <1>7, <1>8, <1>9 DEF Next

\* A revoked device without lease, token or request on its way (RevokeDevice)
\* never gets one again, also when its revocation stopped after its first
\* statement.
THEOREM DarkDevicesStayDark == Spec => DarkStaysDark
<1>1. Init => RevokedInv
  BY DEF Init, RevokedInv
<1>2. TypeInv /\ RevokedInv /\ [Next]_vars => [\A c \in Calls : Dark(c) => Dark(c)']_vars
  BY DarkStep
<1> QED
  BY <1>1, <1>2, TypeInvInit, TypeInvStep, RevokedInvStep, PTL DEF Spec, DarkStaysDark

=============================================================================
