SPECIFICATION PairSpec
CONSTANTS
  col = col
  home = u1
  Executor = ex
  AgentIds = {col, ex}
  ClusterUIDs = {u1}
  BootstrapTTL = 1
  CredentialTTL = 3
  MaxTime = 2
  MaxTokens = 4
  MaxGeneration = 0
  MaxEpoch = 2
  first = a1
  Actions = {a1, a2}
  Items = {e1}
  PlanTTL = 2
  EvidenceTTL = 2
  ApprovalTTL = 1
  ReconcileAfter = 1
  MaxEvidence = 1
  MaxTarget = 1
  MaxPolicy = 1
  PollTimeout = 1
  RenewBefore = 1
  JournalMax = 1
  CompactAt = 1
  CompactTo = 0
  MaxFaults = 2
INVARIANTS
  DeletedAtMostOnce
  UncertaintyIsJournaled
PROPERTIES
  NoDeleteAfterReconcile
  KeepsPromise
CHECK_DEADLOCK FALSE
