---------------------------- MODULE RecoveryCounter ----------------------------
(***************************************************************************)
(* What a controller's recoveries= field of runtime_watchdog promises to   *)
(* whoever reads it: it is there while the driver is bound, starts at zero *)
(* with each probe, and goes up by one with each automatic recovery.  The  *)
(* kernel driver (ElanDriver) is shown to keep this promise, the programs  *)
(* in user space (GuardianRebind) to assume no more of the kernel.         *)
(***************************************************************************)
EXTENDS Integers

CONSTANT Wrap      \* the counter wraps around at this

VARIABLE reading   \* what the attribute reads, or Absent

Absent == -1

Init == reading = 0

Probe   == reading = Absent /\ reading' = 0
Recover == reading # Absent /\ reading' = (reading + 1) % Wrap
Remove  == reading # Absent /\ reading' = Absent

Next == Probe \/ Recover \/ Remove

vars == reading

Spec == Init /\ [][Next]_vars
=============================================================================
