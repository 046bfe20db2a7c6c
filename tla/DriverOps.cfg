SPECIFICATION Spec
CONSTANTS
  Tasks = {t1, t2}
  Inputs = {touchpad}
  Ops = {"recover", "calibrate", "acquire", "update_fw", "read"}
  Events = {}
  SuspendOrder = "shim"
  WatchdogEnabled = TRUE
  Threshold = 3
  MaxErrors = 3
  RecoveriesWrap = 2
SYMMETRY TaskSymmetry
INVARIANTS TypeOK CalibrationConfined BaselineCoherent InputsReleased
