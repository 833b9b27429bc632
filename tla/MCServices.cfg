SPECIFICATION MCSpec
SYMMETRY MCSymmetry
CONSTANTS
  Issues = {i1, i2, i3, i4}
  Protected = {i2}
  Manual = {i3}
  Nominal = {i4}
  Approvers = {a1}
  Workers = {w1, w2}
  QueueSize = 1
  MaxProposals = 2
  MaxVersions = 2
  MaxRestarts = 1
  MaxWriteFailures = 1
  Questions <- MCQuestions
  Oversized <- MCOversized
  Clients = {"serve", "ask", "again"}
  Instances = {"service", "cli"}
  InstanceOf <- MCInstanceOf
  MaxEntries = 1
  TTL = 1
  MaxClock = 1
  Starters = {s1, s2}
  Stoppers = {t1, t2}
  PluginCalls = {k1, k2}
  MaxConcurrent = 2
INVARIANTS
  MutatedAtMostOnce
  ProposalOutcomeIsTrue
  OneActiveProposal
  ServedIsFresh
  NearlyBounded
  StoppedIsClean
  NoConnectionLeaks
PROPERTY
  KeepsProposalPromise
CHECK_DEADLOCK FALSE
