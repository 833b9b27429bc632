---------------------------- MODULE MCGoverned -----------------------------
(***************************************************************************)
(* The executor, the orchestrator and the cluster, from an installation    *)
(* whose collector and executor have just enrolled.                        *)
(***************************************************************************)
EXTENDS GovernedExecution

CONSTANTS col, home

\* Bootstrap and Enroll of both agents at time t: tokens 1 to 4 are drawn.
Row(role, tok, t) ==
  [generation |-> 1, token |-> tok, role |-> role, uid |-> home, epoch |-> 1,
   expiresAt |-> t + CredentialTTL, revoked |-> FALSE]

Used(i, role, tok, t) ==
  [token |-> tok, id |-> i, role |-> role, uid |-> home, epoch |-> 1,
   expiresAt |-> t + BootstrapTTL, consumed |-> TRUE]

Installed(t) ==
  /\ now = t
  /\ epoch = 1
  /\ agents = [i \in AgentIds |-> IF i = col THEN Row("COLLECTOR", 2, t) ELSE Row("EXECUTOR", 4, t)]
  /\ bootstraps = {Used(col, "COLLECTOR", 1, t), Used(Executor, "EXECUTOR", 3, t)}
  /\ revocations = {}
  /\ tokens = 4
  /\ credentials = {CredentialOf(col, Row("COLLECTOR", 2, t), 1),
                    CredentialOf(Executor, Row("EXECUTOR", 4, t), 3)}
  /\ pc = "idle"
  /\ credential = CredentialOf(Executor, Row("EXECUTOR", 4, t), 3)
  /\ bootFile = 3
  /\ journal = [a \in Actions |-> NoAttempt]
  /\ listed = {}
  /\ cur = CHOOSE a \in Actions : TRUE
  /\ resume = "flush"
  /\ ticket = 0
  /\ outcome = "AMBIGUOUS"
  /\ deadline = 0
  /\ lateClaims = {} /\ lateReceipts = {} /\ lateEnrolls = {} /\ lateRenewals = {} /\ lateDeletes = {}
  /\ pods = [e \in Items |-> [version |-> 0, unhealthy |-> TRUE]]
  /\ sick = [e \in Items |-> {0}]
  /\ issued = [a \in Actions |-> 0]
  /\ effect = [a \in Actions |-> FALSE]

MCInit == Installed(0) /\ ExecutionInit /\ faults = 0

MCSpec == MCInit /\ [][Next]_vars
MCFairSpec == MCSpec /\ WF_vars(PollNext)
=============================================================================
