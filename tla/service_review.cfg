SPECIFICATION ServiceSpec
CONSTANTS
  a1 = a1  o1 = o1
  Artifacts = {a1}
  Plans <- OnePlan
  TaskIds = {t1}
  InspectionIds = {i1}
  ActionIds = {x1}
  Codes = {1}
  Outcomes <- OneOutcome
  Keys = {k1, k2, k3}
  LegacyKeys = {}
  Fingerprints <- Digests
  NoInspection = NoInspection
  NoKey = NoKey
  Draw <- All
  Mint <- MintOne
  MaxSubmissions = 2
  c1 = c1  c2 = c2
  Clients = {c1, c2}
  Careful = {c1}
  Roles <- OwnerAndStaff
  Combined = Combined
  NoTime = NoTime
  Dates = {NoTime}
  Early = 1
  Late = 1
  MaxTime = 0
PROPERTIES ImplementsStore SeenIsActedOn
