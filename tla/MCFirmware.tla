------------------------------ MODULE MCFirmware ------------------------------
(* Controllers of every page size on both transports, and an unknown one. *)
EXTENDS ElanFirmware

Controller(bus, ic, iap, base, app) ==
  [bus |-> bus, ic |-> ic, iap |-> iap, base |-> base, app |-> app]

MCDevices ==
  {Controller("i2c", "old", 0, 3, 1),   Controller("smbus", "old", 0, 3, 1),
   Controller("i2c", "0D", 1, 6, 3),    Controller("smbus", "0D", 1, 4, 0),
   Controller("i2c", "14_15", 2, 24, 8), Controller("i2c", "0D", 0, 2, 0),
   Controller("i2c", "old", 0, 0, 0)}
=============================================================================
