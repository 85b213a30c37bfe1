SPECIFICATION ReadersSpec
CONSTANTS
  EventTypes = {"inspection_recorded", "inspection_corrected"}
  Texts = {"plain", "bytes", "replacement"}
  Rewritten <- ThroughTheFile
  MaxEvents = 4
  Verifiers = {v1, v2}
  Viewers = {w1}
  Empty = ""
SYMMETRY VerifiersAlike
CHECK_DEADLOCK FALSE
INVARIANTS ChangeIsReported FailureNamesChange UntouchedAuditPasses NamesAreWhole
