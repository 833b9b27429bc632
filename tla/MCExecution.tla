---------------------------- MODULE MCExecution ----------------------------
(***************************************************************************)
(* The orchestrator's actions under any sequence of calls, from an         *)
(* installation whose collector and executor have just enrolled.           *)
(***************************************************************************)
EXTENDS Execution

CONSTANTS col, ex, home

\* Bootstrap and Enroll of both agents at time 0: tokens 1 to 4 are drawn.
Row(role, tok) ==
  [generation |-> 1, token |-> tok, role |-> role, uid |-> home, epoch |-> 1,
   expiresAt |-> CredentialTTL, revoked |-> FALSE]

Used(i, role, tok) ==
  [token |-> tok, id |-> i, role |-> role, uid |-> home, epoch |-> 1,
   expiresAt |-> BootstrapTTL, consumed |-> TRUE]

MCInit ==
  /\ now = 0
  /\ epoch = 1
  /\ agents = [i \in AgentIds |-> IF i = col THEN Row("COLLECTOR", 2) ELSE Row("EXECUTOR", 4)]
  /\ bootstraps = {Used(col, "COLLECTOR", 1), Used(ex, "EXECUTOR", 3)}
  /\ revocations = {}
  /\ tokens = 4
  /\ credentials = {CredentialOf(col, Row("COLLECTOR", 2), 1), CredentialOf(ex, Row("EXECUTOR", 4), 3)}
  /\ ExecutionInit

MCSpec == MCInit /\ [][ExecutionNext]_<<fleetVars, executionVars>>
=============================================================================
