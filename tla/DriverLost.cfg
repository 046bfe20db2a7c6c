SPECIFICATION LiveSpec
CONSTANTS
  Tasks = {t1}
  Inputs = {touchpad, trackpoint}
  Ops = {"read"}
  Events = {}
  SuspendOrder = "shim"
  WatchdogEnabled = TRUE
  Threshold = 3
  MaxErrors = 3
  RecoveriesWrap = 2
PROPERTY ErrorLimitAnswered
