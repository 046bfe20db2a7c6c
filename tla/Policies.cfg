SPECIFICATION Spec
CONSTANTS
  MaxIrqs = 2
  MaxBytes = 1
  MaxOpen = 2
  MaxStreak = 4
INVARIANTS WatchdogPoliciesAgree DiagnosisAgreesWithIdris ExportScoresAlike
