----------------------------- MODULE MCIdentity -----------------------------
(* Instances of Identity for TLC. *)
EXTENDS Identity

CONSTANT Watched   \* the devices that are followed after their registration

\* Everything, with connections, refreshes, revocations and the end of the
\* refresh token for the watched devices only; the others register and hold
\* their first tokens.
WatchedNext ==
  /\ Next
  /\ connecting' \cup refreshing' \cup revoked' \subseteq Watched
  /\ \A c \in Calls \ Watched : refresh'[c] # "expired"

WatchedSpec == Init /\ [][WatchedNext]_vars /\ Fairness
=============================================================================
