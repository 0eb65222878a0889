------------------------------ MODULE Identity ------------------------------
(***************************************************************************)
(* Identity in the control plane (store/identity.go, the handlers of       *)
(* handlers_identity.go and handlers_auth.go, auth/jwt.go): invites,       *)
(* enrolment, further devices, refresh and access tokens, passwords and    *)
(* device revocation, with what a device may do while it is authorized:    *)
(* connect, renew, release (handlers_connections.go).                      *)
(*                                                                         *)
(* An element of Calls is one registration, a call of Enroll or of         *)
(* CreateDevice.  A registration inserts at most one device, so Calls also *)
(* names the rows of the table devices and the clients that own them.  The *)
(* transactions of registrations interleave statement by statement; their  *)
(* writes are visible at COMMIT; a unique index makes an insert wait for a *)
(* transaction that has inserted the same value.                           *)
(*                                                                         *)
(* What runs out is a countdown: the ticks that are left of it.  The lease *)
(* of a device is the one that lasts longest; LeaseStore has the table.    *)
(***************************************************************************)
EXTENDS Integers

CONSTANTS
  Calls,      \* registrations, their devices, and the devices' clients
  Invites,    \* invite codes
  Emails,     \* users, by their unique email
  Keys,       \* WireGuard public keys
  AccessTTL,  \* ticks; AEVORA_ACCESS_TTL
  LeaseTTL,   \* ticks; AEVORA_LEASE_TTL
  None        \* no invite, no user, no key, no lock holder

ASSUME IdentityAssumption ==
  /\ AccessTTL \in Nat \ {0}
  /\ LeaseTTL \in Nat \ {0}
  /\ None \notin Calls \cup Invites \cup Emails \cup Keys

VARIABLES
  invite,      \* invite_codes: used_at and expires_at of each code
  inviteLock,  \* the transaction that holds the row of an invite
  users,       \* emails with a committed row
  password,    \* users with a password_hash
  session,     \* ticks left of a user's access token from a login
  pc,          \* next statement of each registration
  code,        \* the invite of an enrolment (None: CreateDevice)
  owner,       \* devices.user_id, known from the upsert on
  key,         \* devices.public_key, known from the request on
  refresh,     \* refresh_tokens row of a device
  revoked,     \* devices with revoked_at set
  revokePc,    \* progress of RevokeDevice
  access,      \* ticks left of the access token a device's client holds
  refreshing,  \* clients between RefreshAccess and issueAccess
  connecting,  \* devices with a connect past its device check
  active,      \* devices with an active lease
  left         \* ticks until that lease expires

inviteVars == <<invite, inviteLock>>
userVars == <<users, password, session>>
callVars == <<pc, code, owner, key>>
tokenVars == <<refresh, access, refreshing>>
revokeVars == <<revoked, revokePc>>
leaseVars == <<connecting, active, left>>
vars == <<inviteVars, userVars, callVars, tokenVars, revokeVars, leaseVars>>

InviteStates == {"absent", "lasting", "timed", "expired", "used"}
CallSteps == {"idle", "invite", "locked", "user", "device", "committed",
              "done", "orphan", "failed"}
RefreshStates == {"none", "valid", "expired", "revoked"}
RevokeSteps == {"idle", "tokens", "leases", "done", "error"}

TypeOK ==
  /\ invite \in [Invites -> InviteStates]
  /\ inviteLock \in [Invites -> Calls \cup {None}]
  /\ users \subseteq Emails
  /\ password \subseteq Emails
  /\ session \in [Emails -> 0 .. AccessTTL]
  /\ pc \in [Calls -> CallSteps]
  /\ code \in [Calls -> Invites \cup {None}]
  /\ owner \in [Calls -> Emails \cup {None}]
  /\ key \in [Calls -> Keys \cup {None}]
  /\ refresh \in [Calls -> RefreshStates]
  /\ revoked \subseteq Calls
  /\ revokePc \in [Calls -> RevokeSteps]
  /\ access \in [Calls -> 0 .. AccessTTL]
  /\ refreshing \subseteq Calls
  /\ connecting \subseteq Calls
  /\ active \subseteq Calls
  /\ left \in [Calls -> -1 .. LeaseTTL]

Init ==
  /\ invite = [i \in Invites |-> "absent"]
  /\ inviteLock = [i \in Invites |-> None]
  /\ users = {}
  /\ password = {}
  /\ session = [u \in Emails |-> 0]
  /\ pc = [c \in Calls |-> "idle"]
  /\ code = [c \in Calls |-> None]
  /\ owner = [c \in Calls |-> None]
  /\ key = [c \in Calls |-> None]
  /\ refresh = [c \in Calls |-> "none"]
  /\ revoked = {}
  /\ revokePc = [c \in Calls |-> "idle"]
  /\ access = [c \in Calls |-> 0]
  /\ refreshing = {}
  /\ connecting = {}
  /\ active = {}
  /\ left = [c \in Calls |-> 0]

-----------------------------------------------------------------------------
(***************************************************************************)
(* Time.  A lease is overdue when expires_at < now(), one tick after its   *)
(* countdown reaches 0.                                                    *)
(***************************************************************************)

Tick ==
  /\ access' = [c \in Calls |-> IF access[c] > 0 THEN access[c] - 1 ELSE 0]
  /\ session' = [u \in Emails |-> IF session[u] > 0 THEN session[u] - 1 ELSE 0]
  /\ left' = [c \in Calls |-> IF c \in active /\ left[c] >= 0 THEN left[c] - 1
                              ELSE left[c]]
  /\ UNCHANGED <<inviteVars, users, password, callVars, refresh, refreshing,
                 revokeVars, connecting, active>>

\* The clock passes expires_at of an invite, or of a refresh token.
InviteRunsOut(i) ==
  /\ invite[i] = "timed"
  /\ invite' = [invite EXCEPT ![i] = "expired"]
  /\ UNCHANGED <<inviteLock, userVars, callVars, tokenVars, revokeVars, leaseVars>>

RefreshRunsOut(c) ==
  /\ refresh[c] = "valid"
  /\ refresh' = [refresh EXCEPT ![c] = "expired"]
  /\ UNCHANGED <<inviteVars, userVars, callVars, access, refreshing, revokeVars, leaseVars>>

-----------------------------------------------------------------------------
(***************************************************************************)
(* Users: authUser accepts any access token of the user that is not        *)
(* expired; a token names the user and not the device.                     *)
(***************************************************************************)

HasDevice(c) == pc[c] \in {"committed", "done", "orphan"}

\* exp = now + ttl; a token is refused from now >= exp on.  What matters of a
\* token whose signature is right is how long it still lasts.
IssueJWT == AccessTTL
ParseJWT(ticks) == ticks > 0

authUser(u) ==
  \/ ParseJWT(session[u])
  \/ \E c \in Calls : owner[c] = u /\ ParseJWT(access[c])

\* handleInviteCreate: the ttl is optional and any Go duration, so that the
\* invite may be expired at once.
CreateInvite(i, validity) ==
  /\ invite[i] = "absent"
  /\ validity \in {"lasting", "timed", "expired"}
  /\ invite' = [invite EXCEPT ![i] = validity]
  /\ UNCHANGED <<inviteLock, userVars, callVars, tokenVars, revokeVars, leaseVars>>

SetPassword(u) ==
  /\ authUser(u)
  /\ u \in users
  /\ password' = password \cup {u}
  /\ UNCHANGED <<inviteVars, users, session, callVars, tokenVars, revokeVars, leaseVars>>

GetCredentialsByEmail(u) == u \in users /\ u \in password

\* handleLogin with the right password.
Login(u) ==
  /\ GetCredentialsByEmail(u)
  /\ session' = [session EXCEPT ![u] = IssueJWT]
  /\ UNCHANGED <<inviteVars, users, password, callVars, tokenVars, revokeVars, leaseVars>>

-----------------------------------------------------------------------------
(***************************************************************************)
(* Enroll and CreateDevice, one action per statement that can wait.        *)
(***************************************************************************)

InFlight(c) == pc[c] \in {"invite", "locked", "user", "device"}

\* Calls whose row of devices exists, committed or not.
Inserted == {c \in Calls : pc[c] \in {"device", "committed", "done", "orphan"}}

\* The transaction has written the user's row: only an enrolment does.
HoldsUser(c, u) ==
  pc[c] \in {"user", "device"} /\ code[c] # None /\ owner[c] = u

KeepInviteLock(c) == UNCHANGED inviteLock

DropInviteLock(c) ==
  inviteLock' = [i \in Invites |-> IF inviteLock[i] = c THEN None ELSE inviteLock[i]]

\* An error return: the deferred tx.Rollback.
Rollback(c) ==
  /\ pc' = [pc EXCEPT ![c] = "failed"]
  /\ code' = [code EXCEPT ![c] = None]
  /\ owner' = [owner EXCEPT ![c] = None]
  /\ key' = [key EXCEPT ![c] = None]
  /\ DropInviteLock(c)
  /\ UNCHANGED <<invite, userVars, tokenVars, revokeVars, leaseVars>>

BeginEnroll(c, i, u, k) ==
  /\ pc[c] = "idle"
  /\ pc' = [pc EXCEPT ![c] = "invite"]
  /\ code' = [code EXCEPT ![c] = i]
  /\ owner' = [owner EXCEPT ![c] = u]
  /\ key' = [key EXCEPT ![c] = k]
  /\ UNCHANGED <<inviteVars, userVars, tokenVars, revokeVars, leaseVars>>

Redeemable(i) == invite[i] \in {"lasting", "timed"}

ReadInvite(c) ==
  /\ pc[c] = "invite"
  /\ Redeemable(code[c])
  /\ pc' = [pc EXCEPT ![c] = "locked"]
  /\ UNCHANGED <<inviteVars, userVars, code, owner, key, tokenVars, revokeVars, leaseVars>>

\* SELECT ... FOR UPDATE: waits for the enrolment that holds the invite and
\* then sees what it committed.
LockInvite(c) ==
  /\ pc[c] = "invite"
  /\ Redeemable(code[c])
  /\ inviteLock[code[c]] = None
  /\ inviteLock' = [inviteLock EXCEPT ![code[c]] = c]
  /\ pc' = [pc EXCEPT ![c] = "locked"]
  /\ UNCHANGED <<invite, userVars, code, owner, key, tokenVars, revokeVars, leaseVars>>

\* ErrInviteInvalid.
InviteInvalid(c) ==
  /\ pc[c] = "invite"
  /\ ~ Redeemable(code[c])
  /\ inviteLock[code[c]] = None
  /\ Rollback(c)

\* The upsert by email waits for an enrolment that has written the same row.
UpsertUser(c) ==
  /\ pc[c] = "locked"
  /\ \A b \in Calls : ~ HoldsUser(b, owner[c])
  /\ pc' = [pc EXCEPT ![c] = "user"]
  /\ UNCHANGED <<inviteVars, userVars, code, owner, key, tokenVars, revokeVars, leaseVars>>

\* handleDeviceCreate, up to its first statement.
BeginCreateDevice(c, u, k) ==
  /\ pc[c] = "idle"
  /\ authUser(u)
  /\ pc' = [pc EXCEPT ![c] = "user"]
  /\ owner' = [owner EXCEPT ![c] = u]
  /\ key' = [key EXCEPT ![c] = k]
  /\ UNCHANGED <<inviteVars, userVars, code, tokenVars, revokeVars, leaseVars>>

InsertDevice(c) ==
  /\ pc[c] = "user"
  /\ \A b \in Inserted : key[b] # key[c]
  /\ pc' = [pc EXCEPT ![c] = "device"]
  /\ UNCHANGED <<inviteVars, userVars, code, owner, key, tokenVars, revokeVars, leaseVars>>

\* ErrDeviceKeyTaken, once the row with the key is committed.
DeviceKeyTaken(c) ==
  /\ pc[c] = "user"
  /\ \E b \in Calls : HasDevice(b) /\ key[b] = key[c]
  /\ Rollback(c)

\* The invite is marked used, the refresh token is inserted, COMMIT.
Commit(c) ==
  /\ pc[c] = "device"
  /\ pc' = [pc EXCEPT ![c] = "committed"]
  /\ invite' = [i \in Invites |-> IF i = code[c] THEN "used" ELSE invite[i]]
  /\ users' = users \cup {owner[c]}
  /\ refresh' = [refresh EXCEPT ![c] = "valid"]
  /\ DropInviteLock(c)
  /\ UNCHANGED <<password, session, code, owner, key, access, refreshing, revokeVars, leaseVars>>

\* The 201: handleEnroll also mints an access token.
Answer(c) ==
  /\ pc[c] = "committed"
  /\ pc' = [pc EXCEPT ![c] = "done"]
  /\ access' = [access EXCEPT ![c] = IF code[c] = None THEN 0 ELSE IssueJWT]
  /\ UNCHANGED <<inviteVars, userVars, code, owner, key, refresh, refreshing,
                 revokeVars, leaseVars>>

\* The answer never arrives: the device exists and nobody has its tokens.
AnswerLost(c) ==
  /\ pc[c] = "committed"
  /\ pc' = [pc EXCEPT ![c] = "orphan"]
  /\ UNCHANGED <<inviteVars, userVars, code, owner, key, tokenVars, revokeVars, leaseVars>>

TxError(c) == InFlight(c) /\ Rollback(c)

Register(c) ==
  \/ LockInvite(c)
  \/ InviteInvalid(c)
  \/ UpsertUser(c)
  \/ InsertDevice(c)
  \/ DeviceKeyTaken(c)
  \/ Commit(c)

-----------------------------------------------------------------------------
(***************************************************************************)
(* RevokeDevice: three statements, each its own transaction.  A failure or *)
(* a restart in between leaves the rest undone for good, since a retry     *)
(* finds the device revoked and returns ErrNotFound.                       *)
(***************************************************************************)

RevokeDevice(c) ==
  /\ HasDevice(c)
  /\ authUser(owner[c])
  /\ c \notin revoked
  /\ revoked' = revoked \cup {c}
  /\ revokePc' = [revokePc EXCEPT ![c] = "tokens"]
  /\ UNCHANGED <<inviteVars, userVars, callVars, tokenVars, leaseVars>>

RevokeTokens(c) ==
  /\ revokePc[c] = "tokens"
  /\ refresh' = [refresh EXCEPT ![c] = "revoked"]
  /\ revokePc' = [revokePc EXCEPT ![c] = "leases"]
  /\ UNCHANGED <<inviteVars, userVars, callVars, access, refreshing, revoked, leaseVars>>

RevokeLeases(c) ==
  /\ revokePc[c] = "leases"
  /\ active' = active \ {c}
  /\ left' = [left EXCEPT ![c] = 0]
  /\ revokePc' = [revokePc EXCEPT ![c] = "done"]
  /\ UNCHANGED <<inviteVars, userVars, callVars, tokenVars, revoked, connecting>>

RevokeError(c) ==
  /\ revokePc[c] \in {"tokens", "leases"}
  /\ revokePc' = [revokePc EXCEPT ![c] = "error"]
  /\ UNCHANGED <<inviteVars, userVars, callVars, tokenVars, revoked, leaseVars>>

-----------------------------------------------------------------------------
(***************************************************************************)
(* What a device's refresh token is good for, from the 201 on; and what    *)
(* any access token of its user is good for: to connect the device, to     *)
(* renew its lease and to release it (handlers_connections.go).            *)
(***************************************************************************)

RefreshUnlessTokenRevoked(c) ==
  /\ pc[c] = "done"
  /\ refresh[c] = "valid"
  /\ refreshing' = refreshing \cup {c}
  /\ UNCHANGED <<inviteVars, userVars, callVars, refresh, access, revokeVars, leaseVars>>

RefreshAccess(c) ==
  /\ pc[c] = "done"
  /\ refresh[c] = "valid"
  /\ c \notin revoked
  /\ refreshing' = refreshing \cup {c}
  /\ UNCHANGED <<inviteVars, userVars, callVars, refresh, access, revokeVars, leaseVars>>

issueAccessOnTop(c) ==
  /\ c \in refreshing
  /\ refreshing' = refreshing \ {c}
  /\ access' = [access EXCEPT ![c] = @ + IssueJWT]
  /\ UNCHANGED <<inviteVars, userVars, callVars, refresh, revokeVars, leaseVars>>

issueAccess(c) ==
  /\ c \in refreshing
  /\ refreshing' = refreshing \ {c}
  /\ access' = [access EXCEPT ![c] = IssueJWT]
  /\ UNCHANGED <<inviteVars, userVars, callVars, refresh, revokeVars, leaseVars>>

RefreshLost(c) ==
  /\ c \in refreshing
  /\ refreshing' = refreshing \ {c}
  /\ UNCHANGED <<inviteVars, userVars, callVars, refresh, access, revokeVars, leaseVars>>

\* CreateConnection reads the device and inserts the lease a few statements
\* later, without holding the device's row.
ConnectCheck(c) ==
  /\ HasDevice(c)
  /\ authUser(owner[c])
  /\ c \notin revoked
  /\ connecting' = connecting \cup {c}
  /\ UNCHANGED <<inviteVars, userVars, callVars, tokenVars, revokeVars, active, left>>

ConnectInsert(c) ==
  /\ c \in connecting
  /\ connecting' = connecting \ {c}
  /\ active' = active \cup {c}
  /\ left' = [left EXCEPT ![c] = LeaseTTL]
  /\ UNCHANGED <<inviteVars, userVars, callVars, tokenVars, revokeVars>>

ConnectFails(c) ==
  /\ c \in connecting
  /\ connecting' = connecting \ {c}
  /\ UNCHANGED <<inviteVars, userVars, callVars, tokenVars, revokeVars, active, left>>

RenewUnauthenticated(c) ==
  /\ c \in active
  /\ left' = [left EXCEPT ![c] = LeaseTTL]
  /\ UNCHANGED <<inviteVars, userVars, callVars, tokenVars, revokeVars, connecting, active>>

\* The lease has to be of a device of the user; whether that device is revoked
\* is not asked.
RenewConnection(c) ==
  /\ c \in active
  /\ authUser(owner[c])
  /\ left' = [left EXCEPT ![c] = LeaseTTL]
  /\ UNCHANGED <<inviteVars, userVars, callVars, tokenVars, revokeVars, connecting, active>>

ReleaseConnection(c) ==
  /\ c \in active
  /\ authUser(owner[c])
  /\ active' = active \ {c}
  /\ left' = [left EXCEPT ![c] = 0]
  /\ UNCHANGED <<inviteVars, userVars, callVars, tokenVars, revokeVars, connecting>>

\* The reaper's ExpireStaleLeases.
ExpireStaleLeases ==
  /\ active' = {c \in active : left[c] >= 0}
  /\ left' = [c \in Calls |-> IF left[c] < 0 THEN 0 ELSE left[c]]
  /\ UNCHANGED <<inviteVars, userVars, callVars, tokenVars, revokeVars, connecting>>

Client(c) ==
  \/ RefreshAccess(c) \/ issueAccess(c) \/ RefreshLost(c)
  \/ ConnectCheck(c) \/ ConnectInsert(c) \/ ConnectFails(c)
  \/ RenewConnection(c) \/ ReleaseConnection(c)

Revoke(c) == RevokeDevice(c) \/ RevokeTokens(c) \/ RevokeLeases(c) \/ RevokeError(c)

Next ==
  \/ Tick
  \/ ExpireStaleLeases
  \/ \E i \in Invites : InviteRunsOut(i)
  \/ \E i \in Invites, v \in InviteStates : CreateInvite(i, v)
  \/ \E u \in Emails : SetPassword(u) \/ Login(u)
  \/ \E c \in Calls :
       \/ RefreshRunsOut(c)
       \/ \E i \in Invites, u \in Emails, k \in Keys : BeginEnroll(c, i, u, k)
       \/ \E u \in Emails, k \in Keys : BeginCreateDevice(c, u, k)
       \/ Register(c)
       \/ Answer(c)
       \/ AnswerLost(c)
       \/ TxError(c)
       \/ Client(c)
       \/ Revoke(c)

Spec == Init /\ [][Next]_vars

-----------------------------------------------------------------------------
(***************************************************************************)
(* Safety.                                                                 *)
(***************************************************************************)

Enrolled(i) == {c \in Calls : HasDevice(c) /\ code[c] = i}

\* Registrations are exact, however they interleave, wait and fail: an invite
\* is used if and only if one committed device was enrolled with it (never
\* two devices, and never an invite burnt by an enrolment that failed); two
\* devices never share a public key; a device has a user.
RegistrationsAreExact ==
  /\ \A i \in Invites : invite[i] = "used" <=> Enrolled(i) # {}
  /\ \A b, c \in Calls : HasDevice(b) /\ HasDevice(c) /\ b # c =>
       /\ key[b] # key[c]
       /\ code[b] # None => code[b] # code[c]
  /\ \A c \in Calls : HasDevice(c) => owner[c] \in users

\* Nothing of the device is left on the server or in flight, and its client
\* holds no access token: it cannot reach the tunnel.
Dark(c) ==
  /\ c \in revoked
  /\ pc[c] # "committed"
  /\ c \notin active \cup connecting \cup refreshing
  /\ access[c] = 0

\* A revoked device that has gone dark stays dark, although a revocation that
\* failed half-way leaves its refresh token unrevoked: nothing its client, the
\* other devices, logins or new registrations of its user do lights it again.
DarkStaysDark == [][\A c \in Calls : Dark(c) => Dark(c)']_vars

-----------------------------------------------------------------------------
(***************************************************************************)
(* Liveness.  Time passes, the reaper's timer keeps firing, and a request  *)
(* that has been accepted is executed by its goroutine.  Clients, users    *)
(* and the remaining statements of a revocation need not take a step.      *)
(***************************************************************************)

Fairness ==
  /\ WF_vars(Tick)
  /\ WF_vars(ExpireStaleLeases)
  /\ \A c \in Calls : /\ WF_vars(Register(c))
                      /\ WF_vars(Answer(c) \/ AnswerLost(c))
                      /\ WF_vars(issueAccess(c) \/ RefreshLost(c))
                      /\ WF_vars(ConnectInsert(c) \/ ConnectFails(c))

FairSpec == Spec /\ Fairness

\* The tokens with which others act for the user of c have run out.
OnItsOwn(c) ==
  /\ ~ ParseJWT(session[owner[c]])
  /\ \A b \in Calls \ {c} : owner[b] = owner[c] => ~ ParseJWT(access[b])

\* A revoked device cannot carry on by itself: it goes dark for good, although
\* connects and refreshes that were past their checks still succeed, the token
\* it holds keeps renewing the lease for a while, and the statements that
\* revoke tokens and expire leases may never run.
RevokedCannotCarryOn ==
  \A c \in Calls : <>[](c \in revoked /\ OnItsOwn(c)) => <>[] Dark(c)

\* "Device revocation immediately revokes the device's refresh tokens and
\* expires its active connections" (docs/SECURITY.md), read as generously as
\* possible: at some time the device has gone dark.  A lease that survives the
\* revocation is renewed with any other token of the user.
RevokedGoesDark == \A c \in Calls : c \in revoked ~> [] Dark(c)

\* Registrations never wait on each other for ever: the rows are taken in the
\* order invite, user, device key and every error path lets them go.
RegistrationsFinish == \A c \in Calls : InFlight(c) ~> ~ InFlight(c)

=============================================================================
