--------------------------- MODULE MCGovernedPair ---------------------------
(***************************************************************************)
(* The safety of the executor in two settings: one action, through every   *)
(* failure and every order of expiry and reconciliation; or all the        *)
(* actions in one Poll, at the limit of the journal, when the bounds of    *)
(* time and failures are used up as the agents enrol.                      *)
(***************************************************************************)
EXTENDS MCGoverned

CONSTANT first

PairInit ==
  /\ ExecutionInit
  /\ \/ Installed(0) /\ faults = 0
     \/ Installed(MaxTime) /\ faults = MaxFaults

InstalledLate == Used(col, "COLLECTOR", 1, MaxTime) \in bootstraps

PairNext ==
  \/ PollNext \/ FailureNext \/ WorldNext
  \/ FleetStep /\ UNCHANGED <<executionVars, executorVars, lateVars, clusterVars>>
  \/ /\ PeopleNext /\ UNCHANGED <<fleetVars, executorVars, lateVars, clusterVars>>
     /\ InstalledLate \/ \A a \in Actions \ {first} : actions'[a].state = "NONE"

PairSpec == PairInit /\ [][PairNext]_vars
=============================================================================
