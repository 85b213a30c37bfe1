SPECIFICATION Spec
CONSTANTS
  Kinds = 2
  NoReading = NoReading
  NoRequest = NoRequest
  NoTask = NoTask
  IntMax <- LargestInt
  OutOfRange <- SmallestInt
  Readings <- NoReadings
  MaxIssues = 0
  Planned <- LowRisk
  Trim <- TrimStrings
  RawCodes = {"environment", "appearance"}
  RawRefs = {"photo-1", " photo-1", "photo-2"}
  ValidRefs = {"photo-1", "photo-2"}
  Values <- AroundLimits
  MaxFacts = 2
CHECK_DEADLOCK FALSE
INVARIANTS AbnormalHasEvidence
