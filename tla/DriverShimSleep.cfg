SPECIFICATION Spec
CONSTANTS
  Tasks = {t1}
  Inputs = {touchpad}
  Ops = {"recover"}
  Events = {"suspend"}
  SuspendOrder = "shim"
  WatchdogEnabled = TRUE
  Threshold = 3
  MaxErrors = 3
  RecoveriesWrap = 2
INVARIANT ControlExclusive
