SPECIFICATION LiveSpec
CONSTANTS
  Controllers = {e1, e2}
  Commands = {u1}
  Services = {"activator"}
  BindTries = 2
  MaxCount = 0
INVARIANT Attended
PROPERTY RebindReturns
