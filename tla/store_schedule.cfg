SPECIFICATION Spec
CONSTANTS
  a1 = a1  a2 = a2  o1 = o1  o2 = o2
  Artifacts = {a1, a2}
  Plans <- ClashingPlans
  TaskIds = {t1, t2, t3}
  InspectionIds = {i1, i2}
  ActionIds = {x1, x2}
  Codes = {1}
  Outcomes <- OneOutcome
  Keys = {k0, k1, k2, k3, k4, k5, k6, k7}
  LegacyKeys = {k0}
  Fingerprints = {f}
  NoInspection = NoInspection
  NoKey = NoKey
  Draw <- DrawOne
  MaxSubmissions = 1
INVARIANTS ScheduleExclusive
PROPERTIES KeepsSchedule
