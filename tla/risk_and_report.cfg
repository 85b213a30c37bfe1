SPECIFICATION Spec
CONSTANTS
  Kinds = 2
  NoReading = NoReading
  NoRequest = NoRequest
  NoTask = NoTask
  IntMax <- LargestInt
  OutOfRange <- SmallestInt
  Readings <- PlanReadings
  MaxIssues = 4
  Planned <- LowRisk
  Trim <- TrimStrings
  RawCodes = {" environment", "appearance", "vault"}
  RawRefs = {"photo-1", " photo-1", "photo-2"}
  ValidRefs = {"photo-1", "photo-2"}
  Values <- AroundLimits
  MaxFacts = 3
CHECK_DEADLOCK FALSE
INVARIANTS DetailsAddUp DeviationIsScored InspectionAgreesWithRisk OrderDoesNotMatter AbnormalHasEvidenceInNewForm
PROPERTIES WorseIsNotBetter
