SPECIFICATION LiveSpec
CONSTANTS
  Tasks = {t1}
  Inputs = {touchpad}
  Ops = {"recover", "update_fw"}
  Events = {"suspend"}
  SuspendOrder = "shim"
  WatchdogEnabled = TRUE
  Threshold = 3
  MaxErrors = 3
  RecoveriesWrap = 2
INVARIANT OverlapConfined
PROPERTIES ErrorLimitAnswered MutexReleased CloseReturns SuspendSettles
