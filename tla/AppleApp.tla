------------------------------ MODULE AppleApp ------------------------------
(***************************************************************************)
(* The Apple app around the client core: the view model (AppModel.swift)   *)
(* on the main actor, its detached tasks that call the blocking core, and  *)
(* the system tunnel (VPNController.swift), whose status reaches the view  *)
(* model through the main queue, later than it changes.                    *)
(*                                                                         *)
(* A thread of ClientCore is a detached task here.  A block on the main    *)
(* actor is one action.  Locations and everything shown but the phase are  *)
(* left out; the three-second report of the tunnel counters is left out    *)
(* too, since it does not change what is kept: the property says what it   *)
(* finds.                                                                  *)
(***************************************************************************)
EXTENDS ClientCore, Sequences

CONSTANTS
  MaxNotes   \* bound on the status changes waiting in the main queue

VARIABLES
  phase,   \* AppModel.phase: "needsEnrollment", "disconnected", "connecting",
           \* "connected" or "failed"
  task,    \* what each detached task is at
  os,      \* NEVPNStatus of the one tunnel manager: "disconnected",
           \* "connecting", "connected", "reasserting" or "disconnecting"
  notes    \* statuses read by statusChanged and not yet handled

appVars == <<phase, task, os, notes>>

Tasks == {"free", "connect", "preparing", "prepared",
          "disconnect", "releasing", "released", "failed"}

AppInit ==
  /\ Init
  /\ phase = "needsEnrollment"
  /\ task = [t \in Threads |-> "free"]
  /\ os = "disconnected"
  /\ notes = <<>>

TaskGoes(t, step) == task' = [task EXCEPT ![t] = step]

\* statusChanged: the new status is posted to the main queue.
OsBecomes(status) ==
  /\ Len(notes) < MaxNotes
  /\ os' = status
  /\ notes' = Append(notes, status)

\* init with a stored session, and enroll, which saves one.
Restore ==
  /\ Enroll
  /\ phase' = "disconnected"
  /\ UNCHANGED <<task, os, notes>>

-----------------------------------------------------------------------------
(***************************************************************************)
(* connect.                                                                *)
(***************************************************************************)

\* The button calls connect unless the phase is connected or connecting.
UserConnect(t) ==
  /\ phase \in {"disconnected", "failed"}
  /\ task[t] = "free"
  /\ phase' = "connecting"
  /\ TaskGoes(t, "connect")
  /\ UNCHANGED <<vars, os, notes>>

\* prepareConnection, off the main actor.
PrepareBegins(t) ==
  /\ task[t] = "connect"
  /\ PrepareCheck(t)
  /\ TaskGoes(t, "preparing")
  /\ UNCHANGED <<phase, os, notes>>

PrepareRefused(t) ==
  /\ task[t] = "connect"
  /\ ~ (CanTransition(state, "Connecting") /\ enrolled)
  /\ TaskGoes(t, "failed")
  /\ UNCHANGED <<vars, phase, os, notes>>

PrepareGoesOn(t) ==
  /\ task[t] = "preparing"
  /\ CallStep(t)
  /\ TaskGoes(t, IF call'[t] # "idle" THEN "preparing"
                 ELSE IF call[t] = "store" THEN "prepared" ELSE "failed")
  /\ UNCHANGED <<phase, os, notes>>

\* thenValue: vpn.start installs the configuration and starts the tunnel; the
\* system ignores the call while the tunnel is not down.
StartTunnel(t) ==
  /\ task[t] = "prepared"
  /\ TaskGoes(t, "free")
  /\ IF os = "disconnected" THEN OsBecomes("connecting") ELSE UNCHANGED <<os, notes>>
  /\ UNCHANGED <<vars, phase>>

\* vpn.start throws: keychain or preferences.
StartFails(t) ==
  /\ task[t] = "prepared"
  /\ MarkFailed
  /\ phase' = "failed"
  /\ TaskGoes(t, "free")
  /\ UNCHANGED <<os, notes>>

\* fail(error) on the main actor.
CallFailed(t) ==
  /\ task[t] = "failed"
  /\ phase' = IF phase = "connecting" THEN "failed" ELSE phase
  /\ TaskGoes(t, "free")
  /\ UNCHANGED <<vars, os, notes>>

-----------------------------------------------------------------------------
(***************************************************************************)
(* disconnect: vpn.stop, then the core's disconnect in a task of its own.  *)
(***************************************************************************)

UserDisconnect(t) ==
  /\ phase \in {"connected", "connecting"}
  /\ task[t] = "free"
  /\ IF os \in {"connecting", "connected", "reasserting"}
     THEN OsBecomes("disconnecting") ELSE UNCHANGED <<os, notes>>
  /\ TaskGoes(t, "disconnect")
  /\ UNCHANGED <<vars, phase>>

DisconnectBegins(t) ==
  /\ task[t] = "disconnect"
  /\ \/ DisconnectNothing(t) /\ TaskGoes(t, "released")
     \/ DisconnectRead(t) /\ TaskGoes(t, "releasing")
  /\ UNCHANGED <<phase, os, notes>>

DisconnectGoesOn(t) ==
  /\ task[t] = "releasing"
  /\ CallStep(t)
  /\ TaskGoes(t, IF call'[t] = "idle" THEN "released" ELSE "releasing")
  /\ UNCHANGED <<phase, os, notes>>

Released(t) ==
  /\ task[t] = "released"
  /\ phase' = "disconnected"
  /\ TaskGoes(t, "free")
  /\ UNCHANGED <<vars, os, notes>>

-----------------------------------------------------------------------------
\* The system: the tunnel comes up, reconnects by itself (reasserting), ends by
\* itself or as asked, and is down.
OsMoves ==
  /\ \/ os \in {"connecting", "reasserting"} /\ OsBecomes("connected")
     \/ os = "connected" /\ OsBecomes("reasserting")
     \/ os \in {"connecting", "connected", "reasserting"} /\ OsBecomes("disconnecting")
     \/ os = "disconnecting" /\ OsBecomes("disconnected")
  /\ UNCHANGED <<vars, phase, task>>

(***************************************************************************)
(* handleStatus on the main actor, one action per case.                    *)
(***************************************************************************)

Handles(status) == notes # <<>> /\ Head(notes) = status /\ notes' = Tail(notes)

\* mark_connected is refused, without a sign, where the state machine of the
\* core does not allow it.
StatusConnected ==
  /\ Handles("connected")
  /\ IF CanTransition(state, "Connected") THEN MarkConnected ELSE UNCHANGED vars
  /\ phase' = "connected"
  /\ UNCHANGED <<task, os>>

\* "The tunnel dropped before it came up."
StatusDropped ==
  /\ Handles("disconnected")
  /\ phase = "connecting"
  /\ MarkFailed
  /\ phase' = "failed"
  /\ UNCHANGED <<task, os>>

StatusDown ==
  /\ Handles("disconnected")
  /\ phase # "connecting"
  /\ phase' = "disconnected"
  /\ UNCHANGED <<vars, task, os>>

StatusComingUp ==
  /\ Handles("connecting") \/ Handles("reasserting")
  /\ phase' = "connecting"
  /\ UNCHANGED <<vars, task, os>>

StatusIgnored ==
  /\ Handles("disconnecting")
  /\ UNCHANGED <<vars, phase, task, os>>

-----------------------------------------------------------------------------
TaskStep(t) ==
  \/ PrepareBegins(t) \/ PrepareRefused(t) \/ PrepareGoesOn(t)
  \/ StartTunnel(t) \/ StartFails(t) \/ CallFailed(t)
  \/ DisconnectBegins(t) \/ DisconnectGoesOn(t) \/ Released(t)

AppNext ==
  \/ Restore
  \/ \E t \in Threads : UserConnect(t) \/ UserDisconnect(t) \/ TaskStep(t)
  \/ OsMoves
  \/ StatusConnected \/ StatusDropped \/ StatusDown \/ StatusComingUp \/ StatusIgnored
  \/ \E x \in Leases : LeaseReaped(x) /\ UNCHANGED appVars

AppSpec == AppInit /\ [][AppNext]_<<vars, appVars>>

\* While the app shows Connected, its timer feeds the tunnel counters "to the
\* core, which computes download/upload rates and renews the lease"
\* (AppModel.swift, tick).  report_tunnel_stats does so only in the state
\* Connected: once nothing is on its way any more, an app that shows Connected
\* over a tunnel that is up has a core that is Connected.
TicksRenewTheLease ==
  ( /\ phase = "connected" /\ os = "connected" /\ notes = <<>>
    /\ \A t \in Threads : task[t] = "free" )
  => state = "Connected"

=============================================================================
