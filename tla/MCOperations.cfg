SPECIFICATION MCSpec
CONSTANTS
  NoRow = NoRow
  Sources = {src1, src2}
  Malformed = {src2}
  Contents <- MCContents
  SettingsSet <- MCSettings
  Floors <- MCFloors
  Calls = {c1, c2}
  MaxVersion = 2
  MaxIssued = 1
  NoUid = NoUid
  FindingIds = {"crash", "oom"}
  AnalyzersOf <- MCAnalyzersOf
  ObjectOf <- MCObjectOf
  IssueRank <- MCIssueRank
  NamespaceOf <- MCNamespaceOf
  Typed = {"pod"}
  Dynamic = {"log"}
  Scopes = {{}}
  Scanners = {s1, s2}
  MaxScans = 2
  MaxUid = 2
  Objects <- MCObjects
  Warnings <- MCWarnings
  BasePlans <- MCBasePlans
  Capacity = 1
  Debounces = {FALSE, TRUE}
  MaxChanges = 2
  MaxPeriods = 1
  MaxProcesses = 2
  Starters = {st1, st2}
  Stoppers = {sp1}
  Requests = {q1}
  MaxStarts = 2
  Clients = {cl1, cl2}
  n1 = n1
  Names = {n1}
  None = None
  Bad = Bad
  EmptyValue = EmptyValue
  UserFiles <- MCUserFiles
  Inputs <- MCInputs
  MaxCommands = 3
  DefaultInterval = 3
INVARIANTS
  ProposalsAreGrounded
  ImportIsOne
  LearnedIsVerified
  SeenStaysActive
  RemovedStaysRemoved
  SilenceIsAnObservation
  NoTriggerLost
  AnnouncedOnce
  ShutdownIsQuiet
  FileIsSound
  
CHECK_DEADLOCK FALSE
