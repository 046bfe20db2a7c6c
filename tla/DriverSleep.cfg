SPECIFICATION Spec
CONSTANTS
  Tasks = {t1}
  Inputs = {touchpad, trackpoint}
  Ops = {"recover", "calibrate", "update_fw"}
  Events = {"suspend", "unbind"}
  SuspendOrder = "patch"
  WatchdogEnabled = TRUE
  Threshold = 3
  MaxErrors = 3
  RecoveriesWrap = 3
SYMMETRY InputSymmetry
INVARIANTS
  ControlExclusive SleepUndisturbed RecoveryRestoresChip
  IrqBalanced DisarmedWhenClosed NoUseAfterFree NoCircularWait
PROPERTIES CountsRestored KeepsCounter
