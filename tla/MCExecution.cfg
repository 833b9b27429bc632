SPECIFICATION MCSpec
CONSTANTS
  col = col
  ex = ex
  home = u1
  AgentIds = {col, ex}
  ClusterUIDs = {u1, u2}
  BootstrapTTL = 1
  CredentialTTL = 2
  MaxTime = 2
  MaxTokens = 6
  MaxGeneration = 1
  MaxEpoch = 2
  Actions = {a1}
  Items = {e1}
  PlanTTL = 2
  EvidenceTTL = 2
  ApprovalTTL = 1
  ReconcileAfter = 1
  MaxEvidence = 1
  MaxTarget = 0
  MaxPolicy = 2
PROPERTIES
  SubmittedInOneCluster
  OutcomeFromClaimant
CHECK_DEADLOCK FALSE
