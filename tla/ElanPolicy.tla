------------------------------ MODULE ElanPolicy ------------------------------
(***************************************************************************)
(* The pure decisions of the project, as the several languages of the      *)
(* repository write them: the watchdog policy and the recovery sequencer   *)
(* the kernel module calls, and the diagnosis of a recorded trace.  The    *)
(* Rust definitions are the ones that run; Agda, Idris and Fortran carry   *)
(* independent statements of the same policy.                              *)
(***************************************************************************)
EXTENDS Integers

---------------------------------------------------------------------------
(* Kernel decisions *)

(* Mutant: the threshold itself is not yet an error limit. *)
WatchdogActionLate(openCount, probeStatus, errors, threshold) ==
  IF openCount = 0 THEN "disarmed"
  ELSE IF probeStatus < 0 \/ (threshold # 0 /\ errors > threshold)
       THEN "recover"
       ELSE "observe"

(* The watchdog policy of the kernel module's Rust core. *)
WatchdogAction(openCount, probeStatus, errors, threshold) ==
  IF openCount = 0 THEN "disarmed"
  ELSE IF probeStatus < 0 \/ (threshold # 0 /\ errors >= threshold)
       THEN "recover"
       ELSE "observe"

(* The phases of an in-place recovery, in order. *)
RecoveryOrder ==
  [ idle          |-> "release_input",
    release_input |-> "reinitialize",
    reinitialize  |-> "verify",
    verify        |-> "restore_mode",
    restore_mode  |-> "complete",
    complete      |-> "idle",
    failed        |-> "failed" ]

RecoveryPhases == DOMAIN RecoveryOrder

(* Mutant: the status of the operation is not looked at. *)
RecoveryNextBlind(phase, status) == RecoveryOrder[phase]

(* The phase after `phase`, given the status of its operation: any negative *)
(* status ends the recovery.                                               *)
RecoveryNext(phase, status) ==
  IF status < 0 THEN "failed" ELSE RecoveryOrder[phase]

---------------------------------------------------------------------------
(* The other statements of the watchdog policy *)

(* The library's policy (src/policy.rs), REPORT_ERROR_LIMIT = 3. *)
UserWatchdogAction(inputOpen, probeOk, errors) ==
  IF ~inputOpen THEN "disarmed"
  ELSE IF ~probeOk \/ errors >= 3 THEN "recover" ELSE "observe"

(* Idris tests the probe before the error count. *)
IdrisWatchdog(inputOpen, probeOk, errors) ==
  CASE ~inputOpen                         -> "disarmed"
    [] inputOpen /\ ~probeOk              -> "recover"
    [] inputOpen /\ probeOk /\ errors >= 3 -> "recover"
    [] OTHER                              -> "observe"

(* Agda abstracts the error count to whether the limit is reached. *)
AgdaWatchdog(use, probe, health) ==
  CASE use = "closed"                             -> "disarmed"
    [] use = "opened" /\ probe = "unreachable"    -> "recover"
    [] use = "opened" /\ health = "failureLimit"  -> "recover"
    [] OTHER                                      -> "observe"

FortranWatchdog(inputOpen, probeOk, errors) ==
  IF inputOpen
  THEN IF probeOk /\ errors < 3 THEN "observe" ELSE "recover"
  ELSE "disarmed"

---------------------------------------------------------------------------
(* Diagnosis of a trace *)

Unknown == -1   \* an IRQ total that could not be read (None in the code)

(* u64::saturating_sub *)
SaturatingSub(a, b) == IF a > b THEN a - b ELSE 0

(* The IRQ delta of a trace exists when its first and last sample have one. *)
IrqDelta(first, last) ==
  IF first = Unknown \/ last = Unknown THEN Unknown
  ELSE SaturatingSub(last, first)

(* Mutant: silence is a transport fault even without an IRQ counter. *)
DiagnoseSilence(irqs, bytes, expectMotion, cursorStalled) ==
  CASE ~expectMotion                                -> "inconclusive"
    [] expectMotion /\ bytes > 0 /\ cursorStalled   -> "consumer-stalled"
    [] expectMotion /\ bytes > 0 /\ ~cursorStalled  -> "healthy"
    [] expectMotion /\ bytes = 0 /\ irqs > 0        -> "driver-stalled"
    [] OTHER                                        -> "transport-stalled"

(* analyze_trace: `irqs` is the delta or Unknown, `bytes` the evdev bytes. *)
Diagnose(irqs, bytes, expectMotion, cursorStalled) ==
  CASE ~expectMotion                                -> "inconclusive"
    [] expectMotion /\ bytes > 0 /\ cursorStalled   -> "consumer-stalled"
    [] expectMotion /\ bytes > 0 /\ ~cursorStalled  -> "healthy"
    [] expectMotion /\ bytes = 0 /\ irqs > 0        -> "driver-stalled"
    [] expectMotion /\ bytes = 0 /\ irqs = 0        -> "transport-stalled"
    [] OTHER                                        -> "inconclusive"

IdrisDiagnose(irqs, bytes, expectMotion, cursorStalled, irqKnown) ==
  IF ~expectMotion THEN "inconclusive"
  ELSE IF bytes > 0
       THEN IF cursorStalled THEN "consumer-stalled" ELSE "healthy"
       ELSE IF ~irqKnown THEN "inconclusive"
            ELSE IF irqs > 0 THEN "driver-stalled" ELSE "transport-stalled"

(* export_features writes an unknown IRQ delta as 0. *)
ExportedIrqDelta(irqs) == IF irqs = Unknown THEN 0 ELSE irqs

(* Mutant: the IRQ delta is tested before the evdev bytes. *)
FortranClassifyIrqFirst(irqs, bytes, expectMotion, cursorStalled) ==
  IF ~expectMotion THEN "inconclusive"
  ELSE IF irqs > 0 THEN "driver-stalled"
       ELSE IF bytes = 0 THEN "transport-stalled"
            ELSE IF cursorStalled THEN "consumer-stalled" ELSE "healthy"

FortranClassify(irqs, bytes, expectMotion, cursorStalled) ==
  IF ~expectMotion THEN "inconclusive"
  ELSE IF bytes > 0
       THEN IF cursorStalled THEN "consumer-stalled" ELSE "healthy"
       ELSE IF irqs > 0 THEN "driver-stalled" ELSE "transport-stalled"

=============================================================================
