SPECIFICATION LiveSpec
CONSTANTS
  Controllers = {e1, e2}
  Commands = {}
  Services = {"monitor"}
  BindTries = 2
  MaxCount = 2
PROPERTIES OnlyRecovered  RecoveryAnswered
