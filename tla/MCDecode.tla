------------------------------- MODULE MCDecode -------------------------------
(* ElanDecode with the devices the two transports describe, wide traces and *)
(* narrow ones, and fingers at, within and beyond the largest coordinates.  *)
EXTENDS ElanDecode

Device(len, features, trackpoint, width) ==
  [reportLen |-> len, features |-> features, trackpoint |-> trackpoint,
   widthX |-> width, widthY |-> width + 1, adjustment |-> 1]

\* I2C of pattern 1 and 2, SMBus of pattern 1 and 2
MCDevices == {Device(34, TRUE, FALSE, 4), Device(39, TRUE, TRUE, 4),
              Device(32, TRUE, TRUE, 1),  Device(32, FALSE, TRUE, 4)}

Area(x, y) == [x |-> x, y |-> y]
MCAreas == {Area(0, 0), Area(2, 1), Area(1, 2)}

FingerAt(x, y, pressure, area) ==
  [x |-> x, y |-> y, pressure |-> pressure, area |-> area]

MCFingers == {FingerAt(0, 1, 0, Area(1, 2)), FingerAt(1, 0, 3, Area(0, 0)),
              FingerAt(2, 0, 1, Area(2, 1)), FingerAt(0, 2, 2, Area(2, 1))}

MCPresses == {[buttons |-> {}, hover |-> FALSE],
              [buttons |-> {"left", "middle"}, hover |-> TRUE]}

=============================================================================
