SPECIFICATION MCFairSpec
CONSTANTS
  col = col
  home = u1
  Executor = ex
  AgentIds = {col, ex}
  ClusterUIDs = {u1}
  BootstrapTTL = 1
  CredentialTTL = 2
  MaxTime = 1
  MaxTokens = 6
  MaxGeneration = 1
  MaxEpoch = 1
  Actions = {a1}
  Items = {e1}
  PlanTTL = 2
  EvidenceTTL = 2
  ApprovalTTL = 1
  ReconcileAfter = 1
  MaxEvidence = 1
  MaxTarget = 0
  MaxPolicy = 1
  PollTimeout = 1
  RenewBefore = 2
  JournalMax = 2
  CompactAt = 2
  CompactTo = 1
  MaxFaults = 1
PROPERTIES
  ReceiptsAreFlushed
CHECK_DEADLOCK FALSE
