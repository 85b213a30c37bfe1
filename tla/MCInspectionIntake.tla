-------------------------- MODULE MCInspectionIntake --------------------------
(* Finite instances of RiskAssessment and InspectionIntake for TLC. *)
EXTENDS InspectionIntake

\* The ints of the instance end at 2^20; three times the last deviation exceeds that.
LargestInt == 1048575
SmallestInt == -1048576

\* At a limit, a tenth beyond it, past the point where the cap is reached, and far out.
PlanReadings ==
  [temperature |-> {159, 180, 211, 240, 261, 4000000},
   humidity |-> {280, 419, 450, 521, 800},
   illuminance |-> {35, 51, 150, 420}]
NoReadings == [m \in ToSet(Metrics) |-> {}]

LowRisk == {[group |-> "metal", high |-> TRUE, level |-> "low"]}

\* At the limits of each metric, beyond them, and beyond what can be measured.
AroundLimits ==
  [temperature |-> {179, 240}, humidity |-> {551, 1001}, illuminance |-> {150, 151}]

Strings == ToSet(Metrics) \cup {"environment", "appearance", "material", "vault", "photo-1", "photo-2"}
Padded == {" environment", " photo-1"}
TrimStrings ==
  [s \in Strings \cup Padded |->
     CASE s = " environment" -> "environment" [] s = " photo-1" -> "photo-1" [] OTHER -> s]
=============================================================================
