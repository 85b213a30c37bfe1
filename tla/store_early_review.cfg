SPECIFICATION Spec
CONSTANTS
  a1 = a1  a2 = a2  o1 = o1  o2 = o2
  Artifacts = {a1}
  Plans <- OnePlan
  TaskIds = {t1}
  InspectionIds = {i1, i2}
  ActionIds = {x1, x2}
  Codes = {1, 2}
  Outcomes <- GrowingOutcomes
  Keys = {k1, k2, k3, k4, k5}
  LegacyKeys = {}
  Fingerprints = {f}
  NoInspection = NoInspection
  NoKey = NoKey
  Draw <- DrawOne
  MaxSubmissions = 2
INVARIANTS UncoveredStaysAssignable
