SPECIFICATION Spec
CONSTANTS
  Incidents = {i1}
  Profiles = {p1}
  Agents = {a1, a2}
  Serves <- ServeAll
  MaxJobs = 1
  MaxActive = 1
  Lifetime = 3
  LeaseTime = 1
  WorkTime = 2
  MaxRefreshes = 1
  MaxAttempts = 3
  MaxEvidence = 2
  MaxEnvironment = 2
  MaxGeneration = 1
  MaxLate = 1
SYMMETRY AgentsAlike
INVARIANTS
  ParentsWereAssessed
  OutcomeIsWhole
PROPERTIES
  RecordedIsCurrent
