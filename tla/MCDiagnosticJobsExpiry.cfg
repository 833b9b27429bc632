SPECIFICATION FairSpec
CONSTANTS
  Incidents = {i1, i2}
  Profiles = {p1}
  Agents = {a1}
  Serves <- ServeAll
  MaxJobs = 2
  MaxActive = 2
  Lifetime = 2
  LeaseTime = 1
  WorkTime = 1
  MaxRefreshes = 0
  MaxAttempts = 3
  MaxEvidence = 1
  MaxEnvironment = 1
  MaxGeneration = 0
  MaxLate = 1
PROPERTIES
  ExpiredIsTerminal
