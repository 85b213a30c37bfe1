SPECIFICATION ServiceSpec
CONSTANTS
  a1 = a1  o1 = o1
  Artifacts = {a1}
  Plans <- OnePlan
  TaskIds = {t1}
  InspectionIds = {i1, i2}
  ActionIds = {x1}
  Codes = {1}
  Outcomes <- OneOutcome
  Keys = {k1, k2, k3}
  LegacyKeys = {}
  Fingerprints <- Digests
  NoInspection = NoInspection
  NoKey = NoKey
  Draw <- MintOne
  Mint <- MintOne
  MaxSubmissions = 1
  c1 = c1  c2 = c2
  Clients = {c1, c2}
  Careful = {c1}
  Roles <- Planning
  Combined = Combined
  NoTime = NoTime
  Dates = {NoTime, 1}
  Early = 1
  Late = 1
  MaxTime = 1
INVARIANTS AnswersFit
PROPERTIES RetryInTimeIsReplayed
