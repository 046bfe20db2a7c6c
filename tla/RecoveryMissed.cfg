SPECIFICATION LiveSpec
CONSTANTS
  Controllers = {e1}
  Commands = {u1}
  Services = {"monitor"}
  BindTries = 2
  MaxCount = 2
PROPERTY RecoveryAnswered
