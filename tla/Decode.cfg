SPECIFICATION Spec
CONSTANTS
  MaxContacts = 2
  MaxX = 1
  MaxY = 1
  MaxPressure = 3
  Reduce = 2
  Devices <- MCDevices
  Fingers <- MCFingers
  Areas <- MCAreas
  Presses <- MCPresses
INVARIANT TypeOK
PROPERTIES EmitsLikeC WholePackets
