SPECIFICATION RemediationSpec
CONSTANTS
  Issues = {i1}
  Protected = {}
  Manual = {}
  Nominal = {}
  Approvers = {a1}
  Workers = {w1, w2}
  QueueSize = 1
  MaxProposals = 2
  MaxVersions = 2
  MaxRestarts = 1
  MaxWriteFailures = 0
INVARIANT
  InterruptedIsFailed
CHECK_DEADLOCK FALSE
