SPECIFICATION MCSpec
CONSTANTS
  AgentIds = {i1}
  ClusterUIDs = {u1, u2}
  BootstrapTTL = 1
  CredentialTTL = 2
  MaxTime = 2
  MaxTokens = 4
  MaxGeneration = 3
  MaxEpoch = 2
  People = {p1, p2}
  InGroup = {p1}
  LoginStates = {l1}
  BrowserIDs = {b1}
  Callbacks = {k1, k2}
  Chatters = {c1, c2}
  Chats = {h1}
  ApiToken = ApiToken
  Bearers = {ApiToken, p1}
  Nothing = Nothing
  ChallengeLife = 1
  SessionLife = 1
  IdentityLife = 1
  ChatLife = 1
  MaxTurns = 2
  Remembered = 1
  LastMoment = 1
  Handles = {1}
  Window = 1
  MaximumGap = 1
  MinimumSamples = 2
  EvidenceLife = 2
  Readings = {"ready", "short", "failing"}
  LastTime = 3
  MaxDisputed = 1
  LastEpisode = 2
  LastCredential = 2
  Stewards = {w1, w2}
  Cases = {1}
  Inquiries = {1}
  MinEvidence = 1
  LastVersion = 1
  MaxClaims = 3
  MaxSetbacks = 1
  LastGeneration = 3
SYMMETRY NamesAlike
INVARIANTS
  CredentialsAreSound
  OneSessionPerLogin
  SignedOutStaysOut
  ConversationIsWhole
  RecoveredIsSustained
  EligibleIsSound
PROPERTIES
  RetiredStaysRetired
  CommitsAreSound
CHECK_DEADLOCK FALSE
