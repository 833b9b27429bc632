-------------------------- MODULE MCNotifications --------------------------
(***************************************************************************)
(* Notification routes for TLC: owners escalate to oncall, and the wait    *)
(* after a failed attempt doubles.                                         *)
(***************************************************************************)
EXTENDS Notifications

CONSTANTS owners, oncall

OwnersEscalate == [r \in {owners} |-> oncall]

Doubling == [k \in 1..MaxAttempts |-> 2 ^ (k - 1)]
=============================================================================
