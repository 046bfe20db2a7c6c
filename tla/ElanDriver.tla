------------------------------ MODULE ElanDriver ------------------------------
(***************************************************************************)
(* The elan_i2c kernel driver of kernel/rust-shim: the threaded interrupt  *)
(* handler that reads reports, the watchdog work that recovers a faulted   *)
(* controller, the sysfs stores and shows, opening and closing of the      *)
(* input devices, system suspend and resume, and probe and removal.  They  *)
(* share one controller, one mutex (sysfs_mutex) and one interrupt line.   *)
(*                                                                         *)
(* Each thread has a label: where it will continue.  A step is the code    *)
(* between two points at which another thread can matter.  Transfers on    *)
(* the bus succeed or fail nondeterministically, retries included, except  *)
(* that a controller without power never answers.                          *)
(***************************************************************************)
EXTENDS Integers, FiniteSets, ElanPolicy

CONSTANTS
  Tasks,           \* user processes that call the sysfs attributes
  Inputs,          \* the input devices: touchpad and, with it, TrackPoint
  Ops,             \* the sysfs operations the tasks may call
  Events,          \* system events that may happen: "suspend", "unbind"
  SuspendOrder,    \* whose elan_suspend: "shim" (rust-shim) or "patch" (0001)
  WatchdogEnabled, \* watchdog_enabled: device property or DMI match
  Threshold,       \* ETP_WATCHDOG_REPORT_ERRORS
  MaxErrors,       \* report_errors is counted up to this bound, and stays
  RecoveriesWrap   \* watchdog_recoveries counts modulo this (2^32 in C)

AllOps    == {"recover", "calibrate", "acquire", "update_fw", "read"}
AllEvents == {"suspend", "unbind"}

ASSUME TasksAssumption    == IsFiniteSet(Tasks)
ASSUME InputsAssumption   == IsFiniteSet(Inputs)
ASSUME ChoiceAssumption   == /\ Ops \subseteq AllOps
                             /\ Events \subseteq AllEvents
                             /\ SuspendOrder \in {"shim", "patch"}
                             /\ WatchdogEnabled \in BOOLEAN
ASSUME CountersAssumption == /\ Threshold \in Nat \ {0}
                             /\ MaxErrors \in Nat
                             /\ MaxErrors >= Threshold
                             /\ RecoveriesWrap \in Nat \ {0, 1}
ASSUME OwnerAssumption    == /\ {"free", "worker", "pm", "isr", "removal"}
                                  \cap (Tasks \cup Inputs) = {}
                             /\ Tasks \cap Inputs = {}

VARIABLES
  dev,           \* how far the driver is bound to the device
  pm,            \* label of the thread that suspends and resumes the device
  wakeup,        \* device_may_wakeup() during the current suspend
  mutex,         \* owner of sysfs_mutex
  irqDepth,      \* disable depth of the interrupt line
  isr,           \* label of elan_isr
  pending,       \* watchdog_work is queued
  worker,        \* label of elan_watchdog_work
  op, at,        \* per task: the sysfs call it is in ("none"), and its label
  input,         \* per input device: "closed", "open" or "closing"
  openCount,     \* open_count
  reportErrors,  \* report_errors
  recoveries,    \* watchdog_recoveries
  pressed,       \* a contact or button is reported down to the input core
  mode,          \* data->mode: bits ETP_ENABLE_ABS and ETP_ENABLE_CALIBRATE
  chipMode,      \* the mode register of the controller
  chipPower,     \* controller power: "on", "asleep" (answers) or "off"
  inFwUpdate,    \* in_fw_update
  fwDone,        \* fw_completion is complete
  baselineReady, \* baseline_ready
  baseline       \* which of max_, min_baseline the last acquisition wrote

chipVars  == <<mode, chipMode, chipPower>>
countVars == <<reportErrors, recoveries, pressed>>
fwVars    == <<inFwUpdate, fwDone>>
inputVars == <<input, openCount>>
taskVars  == <<op, at>>
baseVars  == <<baselineReady, baseline>>
pmVars    == <<dev, pm, wakeup>>
lockVars  == <<mutex, irqDepth>>
workVars  == <<pending, worker>>

vars == <<pmVars, lockVars, isr, workVars, taskVars, inputVars, countVars,
          chipVars, fwVars, baseVars>>

---------------------------------------------------------------------------
(* Labels *)

DevStates == {"bound", "no_sysfs", "no_input", "no_irq", "no_power", "unbound"}

PmLabels == {"awake", "mask", "cancel", "lock", "power", "enter", "abort",
             "abort_unlock", "asleep", "power_on", "init", "unmask"}

IsrLabels == {"idle", "reading", "recheck", "schedule"}

(* Inside elan_recover_locked: the phase whose operation comes next. *)
RecoveryLabels == RecoveryPhases \ {"idle"}

WorkerLabels == {"idle", "lock", "decide", "mask", "unlock"} \cup RecoveryLabels

FwLabels == {"fw_flash", "fw_finish", "fw_reset", "fw_wait", "fw_mask_ok",
             "fw_mask_err", "fw_abort", "fw_reinit", "fw_done"}

(* The part of finish_fw_update in which the interrupt line is enabled. *)
FwWindow == {"fw_reset", "fw_wait", "fw_mask_ok", "fw_mask_err"}

CalLabels == {"cal_on", "cal_run", "acq_max", "acq_min", "cal_off"}

TaskLabels == {"idle", "lock", "mask", "show", "unmask", "unlock"}
                \cup RecoveryLabels \cup FwLabels \cup CalLabels

(* Where a thread holds sysfs_mutex, where it holds the line disabled, and *)
(* where it is driving the controller through a sequence of commands.      *)
TaskLocked   == TaskLabels \ {"idle", "lock"}
TaskMasked   == (TaskLocked \ {"mask", "show", "unlock"}) \ FwWindow
TaskControls == TaskLocked \ {"mask", "show", "unlock"}

WorkerLocked   == WorkerLabels \ {"idle", "lock"}
WorkerMasked   == RecoveryLabels
WorkerControls == RecoveryLabels

PmLocked == IF SuspendOrder = "shim"
            THEN {"mask", "power", "enter", "abort", "abort_unlock"}
            ELSE {"power", "enter", "abort", "abort_unlock"}
PmMasked == {"power", "enter", "abort", "asleep", "power_on", "init", "unmask"}
              \cup (IF SuspendOrder = "shim" THEN {} ELSE {"cancel", "lock"})
PmControls == {"power", "enter", "asleep", "power_on", "init"}

---------------------------------------------------------------------------
(* The controller and the small operations every thread is built from *)

Reachable == chipPower # "off"

(* elan_initialize: reset, query, absolute mode, wake; retried as a whole. *)
InitializeOk ==
  /\ Reachable
  /\ mode' = mode \cup {"abs"}
  /\ chipMode' = mode'
  /\ chipPower' = "on"

(* It may give up after any of its commands, with an earlier attempt having *)
(* got further than the last one.                                           *)
InitializeFails ==
  \/ UNCHANGED chipVars
  \/ /\ Reachable
     /\ mode' \in {mode, mode \cup {"abs"}}
     /\ chipMode' \in {chipMode, {}, mode'}
     /\ chipPower' \in {chipPower, "on"}

(* Mutant: disable_irq_nosync. *)
DisableIrqNoSync == irqDepth' = irqDepth + 1

(* disable_irq returns once no handler is running; enable_irq undoes one. *)
DisableIrq == isr = "idle" /\ irqDepth' = irqDepth + 1
EnableIrq  == irqDepth' = irqDepth - 1

Lock(owner) == mutex = "free" /\ mutex' = owner
Unlock      == mutex' = "free"

(* cancel_work_sync: dequeues the work and waits for a running instance. *)
CancelWorkSync == worker = "idle" /\ pending' = FALSE /\ UNCHANGED worker

IrqRequested == dev \in {"bound", "no_sysfs", "no_input"}

OpenInputs == {i \in Inputs : input[i] = "open"}

---------------------------------------------------------------------------
(* A controller just probed *)

Fresh ==
  /\ mutex = "free" /\ irqDepth = 0
  /\ pending = FALSE /\ worker = "idle" /\ isr = "idle"
  /\ input = [i \in Inputs |-> "closed"] /\ openCount = 0
  /\ reportErrors = 0 /\ recoveries = 0 /\ pressed = FALSE
  /\ mode = {"abs"} /\ chipMode = {"abs"} /\ chipPower = "on"
  /\ inFwUpdate = FALSE /\ fwDone = FALSE
  /\ baselineReady = FALSE /\ baseline = {}

Init ==
  /\ dev = "bound" /\ pm = "awake" /\ wakeup = FALSE
  /\ op = [t \in Tasks |-> "none"] /\ at = [t \in Tasks |-> "idle"]
  /\ Fresh

---------------------------------------------------------------------------
(* elan_isr *)

(* While firmware is being written an interrupt only completes the wait. *)
IsrFirmware ==
  /\ IrqRequested /\ irqDepth = 0 /\ isr = "idle" /\ inFwUpdate
  /\ fwDone' = TRUE
  /\ UNCHANGED <<pmVars, lockVars, isr, workVars, taskVars, inputVars,
                 countVars, chipVars, inFwUpdate, baseVars>>

IsrStart ==
  /\ IrqRequested /\ irqDepth = 0 /\ isr = "idle" /\ ~inFwUpdate
  /\ isr' = "reading"
  /\ UNCHANGED <<pmVars, lockVars, workVars, taskVars, inputVars, countVars,
                 chipVars, fwVars, baseVars>>

(* A good report ends the error streak and is handed to the decoder. *)
IsrReport ==
  /\ isr = "reading" /\ chipPower = "on"
  /\ isr' = "idle"
  /\ reportErrors' = 0
  /\ pressed' \in BOOLEAN
  /\ UNCHANGED <<pmVars, lockVars, workVars, taskVars, inputVars, recoveries,
                 chipVars, fwVars, baseVars>>

IsrReadError ==
  /\ isr = "reading"
  /\ reportErrors' = IF reportErrors < MaxErrors THEN reportErrors + 1
                                                 ELSE MaxErrors
  /\ isr' = IF WatchdogEnabled /\ WatchdogAction(openCount, 0, reportErrors',
                                                 Threshold) = "recover"
            THEN "recheck" ELSE "idle"
  /\ UNCHANGED <<pmVars, lockVars, workVars, taskVars, inputVars, recoveries,
                 pressed, chipVars, fwVars, baseVars>>

(* elan_queue_watchdog looks at open_count again, then queues the work. *)
IsrRecheck ==
  /\ isr = "recheck"
  /\ isr' = IF openCount > 0 THEN "schedule" ELSE "idle"
  /\ UNCHANGED <<pmVars, lockVars, workVars, taskVars, inputVars, countVars,
                 chipVars, fwVars, baseVars>>

IsrSchedule ==
  /\ isr = "schedule"
  /\ isr' = "idle"
  /\ pending' = TRUE
  /\ UNCHANGED <<pmVars, lockVars, worker, taskVars, inputVars, countVars,
                 chipVars, fwVars, baseVars>>

Isr == \/ IsrFirmware \/ IsrStart \/ IsrReport \/ IsrReadError
       \/ IsrRecheck \/ IsrSchedule

---------------------------------------------------------------------------
(* elan_recover_locked, shared by the watchdog work and recover_store *)

(* Mutant: report_errors survives the recovery. *)
ReleaseInputKeepErrors(phase, next) ==
  /\ phase = "release_input"
  /\ next = RecoveryNext(phase, 0)
  /\ pressed' = FALSE
  /\ UNCHANGED <<reportErrors, chipVars>>

ReleaseInput(phase, next) ==
  /\ phase = "release_input"
  /\ next = RecoveryNext(phase, 0)
  /\ pressed' = FALSE
  /\ reportErrors' = 0
  /\ UNCHANGED chipVars

Reinitialize(phase, next) ==
  /\ phase = "reinitialize"
  /\ \/ InitializeOk /\ next = RecoveryNext(phase, 0)
     \/ InitializeFails /\ next = RecoveryNext(phase, -1)
  /\ UNCHANGED <<pressed, reportErrors>>

(* elan_watchdog_ping: a few health checks, one of which must be answered. *)
Verify(phase, next) ==
  /\ phase = "verify"
  /\ \/ Reachable /\ next = RecoveryNext(phase, 0)
     \/ next = RecoveryNext(phase, -1)
  /\ UNCHANGED <<pressed, reportErrors, chipVars>>

RestoreMode(phase, next) ==
  /\ phase = "restore_mode"
  /\ \/ Reachable /\ chipMode' = mode /\ next = RecoveryNext(phase, 0)
     \/ chipMode' = chipMode /\ next = RecoveryNext(phase, -1)
  /\ UNCHANGED <<pressed, reportErrors, mode, chipPower>>

RecoverLocked(phase, next) ==
  \/ ReleaseInput(phase, next) \/ Reinitialize(phase, next)
  \/ Verify(phase, next) \/ RestoreMode(phase, next)

---------------------------------------------------------------------------
(* elan_watchdog_work *)

WorkStart ==
  /\ pending /\ worker = "idle"
  /\ pending' = FALSE
  /\ worker' = "lock"
  /\ UNCHANGED <<pmVars, lockVars, isr, taskVars, inputVars, countVars,
                 chipVars, fwVars, baseVars>>

WorkLock ==
  /\ worker = "lock" /\ Lock("worker")
  /\ worker' = "decide"
  /\ UNCHANGED <<pmVars, irqDepth, isr, pending, taskVars, inputVars,
                 countVars, chipVars, fwVars, baseVars>>

(* Mutant: an early return with the mutex held when nothing is to be done. *)
WorkDecideLeak ==
  /\ worker = "decide"
  /\ worker' = IF WatchdogAction(openCount, 0, reportErrors, Threshold)
                    = "recover"
               THEN "mask" ELSE "idle"
  /\ UNCHANGED <<pmVars, lockVars, isr, pending, taskVars, inputVars,
                 countVars, chipVars, fwVars, baseVars>>

WorkDecide ==
  /\ worker = "decide"
  /\ worker' = IF WatchdogAction(openCount, 0, reportErrors, Threshold)
                    = "recover"
               THEN "mask" ELSE "unlock"
  /\ UNCHANGED <<pmVars, lockVars, isr, pending, taskVars, inputVars,
                 countVars, chipVars, fwVars, baseVars>>

WorkMask ==
  /\ worker = "mask" /\ DisableIrq
  /\ worker' = RecoveryNext("idle", 0)
  /\ UNCHANGED <<pmVars, mutex, isr, pending, taskVars, inputVars, countVars,
                 chipVars, fwVars, baseVars>>

WorkRecover ==
  /\ \E next \in RecoveryLabels : RecoverLocked(worker, next) /\ worker' = next
  /\ UNCHANGED <<pmVars, lockVars, isr, pending, taskVars, inputVars,
                 recoveries, fwVars, baseVars>>

(* Mutant: attempts are counted. *)
WorkFinishCountAll ==
  /\ worker \in {"complete", "failed"}
  /\ recoveries' = (recoveries + 1) % RecoveriesWrap
  /\ EnableIrq
  /\ worker' = "unlock"
  /\ UNCHANGED <<pmVars, mutex, isr, pending, taskVars, inputVars,
                 reportErrors, pressed, chipVars, fwVars, baseVars>>

(* Only a completed recovery is counted. *)
WorkFinish ==
  /\ worker \in {"complete", "failed"}
  /\ recoveries' = IF worker = "complete"
                   THEN (recoveries + 1) % RecoveriesWrap ELSE recoveries
  /\ EnableIrq
  /\ worker' = "unlock"
  /\ UNCHANGED <<pmVars, mutex, isr, pending, taskVars, inputVars,
                 reportErrors, pressed, chipVars, fwVars, baseVars>>

WorkUnlock ==
  /\ worker = "unlock" /\ Unlock
  /\ worker' = "idle"
  /\ UNCHANGED <<pmVars, irqDepth, isr, pending, taskVars, inputVars,
                 countVars, chipVars, fwVars, baseVars>>

Work == \/ WorkStart \/ WorkLock \/ WorkDecide \/ WorkMask \/ WorkRecover
        \/ WorkFinish \/ WorkUnlock

---------------------------------------------------------------------------
(* The sysfs attributes *)

(* Move task t between labels, everything but the label held. *)
Goto(t, from, to) == at[t] = from /\ at' = [at EXCEPT ![t] = to]

TaskCall(t) ==
  /\ dev = "bound" /\ pm = "awake"
  /\ Goto(t, "idle", "lock")
  /\ \E o \in Ops : op' = [op EXCEPT ![t] = o]
  /\ UNCHANGED <<pmVars, lockVars, isr, workVars, inputVars, countVars,
                 chipVars, fwVars, baseVars>>

TaskLock(t) ==
  /\ Lock(t)
  /\ Goto(t, "lock", IF op[t] = "read" THEN "show" ELSE "mask")
  /\ UNCHANGED <<pmVars, irqDepth, isr, workVars, op, inputVars, countVars,
                 chipVars, fwVars, baseVars>>

(* A signal ends the wait for the mutex: mutex_lock_interruptible. *)
TaskInterrupted(t) ==
  /\ mutex # "free"
  /\ Goto(t, "lock", "idle")
  /\ op' = [op EXCEPT ![t] = "none"]
  /\ UNCHANGED <<pmVars, lockVars, isr, workVars, inputVars, countVars,
                 chipVars, fwVars, baseVars>>

(* mode, min and max only read under the mutex. *)
TaskShow(t) ==
  /\ Goto(t, "show", "unlock")
  /\ UNCHANGED <<pmVars, lockVars, isr, workVars, op, inputVars, countVars,
                 chipVars, fwVars, baseVars>>

(* A store disables the interrupt before its first command. *)
TaskMask(t) ==
  /\ DisableIrq
  /\ Goto(t, "mask", CASE op[t] = "recover"   -> RecoveryNext("idle", 0)
                       [] op[t] = "update_fw" -> "fw_flash"
                       [] OTHER               -> "cal_on")
  /\ inFwUpdate' = (op[t] = "update_fw")
  /\ UNCHANGED <<pmVars, mutex, isr, workVars, op, inputVars, countVars,
                 chipVars, fwDone, baseVars>>

TaskUnmask(t) ==
  /\ \E l \in {"complete", "failed", "unmask"} : Goto(t, l, "unlock")
  /\ EnableIrq
  /\ UNCHANGED <<pmVars, mutex, isr, workVars, op, inputVars, countVars,
                 chipVars, fwVars, baseVars>>

TaskUnlock(t) ==
  /\ Goto(t, "unlock", "idle") /\ Unlock
  /\ op' = [op EXCEPT ![t] = "none"]
  /\ UNCHANGED <<pmVars, irqDepth, isr, workVars, inputVars, countVars,
                 chipVars, fwVars, baseVars>>

(* recover_store *)
RecoverStore(t) ==
  /\ \E next \in RecoveryLabels :
        RecoverLocked(at[t], next) /\ at' = [at EXCEPT ![t] = next]
  /\ UNCHANGED <<pmVars, lockVars, isr, workVars, op, inputVars, recoveries,
                 fwVars, baseVars>>

(* Mutant: the calibration bit stays set when the controller refuses it. *)
CalibrateOnKeepBit(t) ==
  /\ \/ /\ Reachable
        /\ mode' = mode \cup {"cal"} /\ chipMode' = mode'
        /\ Goto(t, "cal_on", IF op[t] = "acquire" THEN "acq_max" ELSE "cal_run")
     \/ /\ mode' = mode \cup {"cal"} /\ UNCHANGED chipMode
        /\ Goto(t, "cal_on", "unmask")
  /\ IF op[t] = "acquire" THEN baselineReady' = FALSE /\ baseline' = {}
                          ELSE UNCHANGED baseVars
  /\ UNCHANGED <<pmVars, lockVars, isr, workVars, op, inputVars, countVars,
                 chipPower, fwVars>>

(* Mutant: baseline_ready is not reset when an acquisition begins. *)
CalibrateOnStayReady(t) ==
  /\ \/ /\ Reachable
        /\ mode' = mode \cup {"cal"} /\ chipMode' = mode'
        /\ Goto(t, "cal_on", IF op[t] = "acquire" THEN "acq_max" ELSE "cal_run")
     \/ /\ mode' = mode \ {"cal"} /\ UNCHANGED chipMode
        /\ Goto(t, "cal_on", "unmask")
  /\ baseline' = IF op[t] = "acquire" THEN {} ELSE baseline
  /\ UNCHANGED <<pmVars, lockVars, isr, workVars, op, inputVars, countVars,
                 chipPower, fwVars, baselineReady>>

(* calibrate_store and acquire_store: calibration mode on, calibrate or   *)
(* read both baselines, mode off.  An acquisition outdates the baselines.  *)
CalibrateOn(t) ==
  /\ \/ /\ Reachable
        /\ mode' = mode \cup {"cal"} /\ chipMode' = mode'
        /\ Goto(t, "cal_on", IF op[t] = "acquire" THEN "acq_max" ELSE "cal_run")
     \/ /\ mode' = mode \ {"cal"} /\ UNCHANGED chipMode
        /\ Goto(t, "cal_on", "unmask")
  /\ IF op[t] = "acquire" THEN baselineReady' = FALSE /\ baseline' = {}
                          ELSE UNCHANGED baseVars
  /\ UNCHANGED <<pmVars, lockVars, isr, workVars, op, inputVars, countVars,
                 chipPower, fwVars>>

CalibrateRun(t) ==   \* whatever comes of it, the mode is switched back
  /\ Goto(t, "cal_run", "cal_off")
  /\ UNCHANGED <<pmVars, lockVars, isr, workVars, op, inputVars, countVars,
                 chipVars, fwVars, baseVars>>

AcquireMax(t) ==
  /\ \/ Reachable /\ Goto(t, "acq_max", "acq_min")
        /\ baseline' = baseline \cup {"max"}
     \/ Goto(t, "acq_max", "cal_off") /\ UNCHANGED baseline
  /\ UNCHANGED <<pmVars, lockVars, isr, workVars, op, inputVars, countVars,
                 chipVars, fwVars, baselineReady>>

AcquireMin(t) ==
  /\ Goto(t, "acq_min", "cal_off")
  /\ \/ Reachable /\ baseline' = baseline \cup {"min"} /\ baselineReady' = TRUE
     \/ UNCHANGED baseVars
  /\ UNCHANGED <<pmVars, lockVars, isr, workVars, op, inputVars, countVars,
                 chipVars, fwVars>>

CalibrateOff(t) ==
  /\ Goto(t, "cal_off", "unmask")
  /\ mode' = mode \ {"cal"}
  /\ \/ Reachable /\ chipMode' = mode'
     \/ UNCHANGED chipMode
  /\ UNCHANGED <<pmVars, lockVars, isr, workVars, op, inputVars, countVars,
                 chipPower, fwVars, baseVars>>

Calibrate(t) == \/ CalibrateOn(t) \/ CalibrateRun(t) \/ AcquireMax(t)
                \/ AcquireMin(t) \/ CalibrateOff(t)

(* elan_update_firmware: flashing ends in a controller of unknown mode.   *)
(* SMBus needs no handshake afterwards: finish_fw_update does nothing.    *)
FirmwareFlash(t) ==
  /\ \E l \in {"fw_finish", "fw_reinit", "fw_abort"} :
        /\ Goto(t, "fw_flash", l)
        /\ l # "fw_abort" => Reachable
  /\ chipMode' \in {chipMode, {}}
  /\ UNCHANGED <<pmVars, lockVars, isr, workVars, op, inputVars, countVars,
                 mode, chipPower, fwVars, baseVars>>

(* On I2C the controller answers the reset with an interrupt, so the line *)
(* is enabled for as long as the answer is awaited.                       *)
FirmwareFinish(t) ==
  /\ Goto(t, "fw_finish", "fw_reset")
  /\ fwDone' = FALSE
  /\ EnableIrq
  /\ UNCHANGED <<pmVars, mutex, isr, workVars, op, inputVars, countVars,
                 chipVars, inFwUpdate, baseVars>>

FirmwareReset(t) ==
  /\ \/ /\ Reachable /\ chipMode' = {}
        /\ Goto(t, "fw_reset", "fw_wait")
     \/ UNCHANGED chipMode /\ Goto(t, "fw_reset", "fw_mask_err")
  /\ UNCHANGED <<pmVars, lockVars, isr, workVars, op, inputVars, countVars,
                 mode, chipPower, fwVars, baseVars>>

(* Mutant: wait_for_completion without a timeout. *)
FirmwareWaitForever(t) ==
  /\ fwDone /\ Goto(t, "fw_wait", "fw_mask_ok") /\ fwDone' = FALSE
  /\ UNCHANGED <<pmVars, lockVars, isr, workVars, op, inputVars, countVars,
                 chipVars, inFwUpdate, baseVars>>

FirmwareWait(t) ==
  /\ \/ fwDone /\ Goto(t, "fw_wait", "fw_mask_ok") /\ fwDone' = FALSE
     \/ Goto(t, "fw_wait", "fw_mask_err") /\ UNCHANGED fwDone   \* 700 ms
  /\ UNCHANGED <<pmVars, lockVars, isr, workVars, op, inputVars, countVars,
                 chipVars, inFwUpdate, baseVars>>

(* Mutant: the interrupt is not disabled again after the wait. *)
FirmwareMaskMissing(t) ==
  /\ \/ Reachable /\ Goto(t, "fw_mask_ok", "fw_reinit")
     \/ Goto(t, "fw_mask_ok", "fw_abort")
     \/ Goto(t, "fw_mask_err", "fw_abort")
  /\ UNCHANGED <<pmVars, lockVars, isr, workVars, op, inputVars, countVars,
                 chipVars, fwVars, baseVars>>

(* Disabled again; the answer read and the checksum compared may yet fail. *)
FirmwareMask(t) ==
  /\ DisableIrq
  /\ \/ Reachable /\ Goto(t, "fw_mask_ok", "fw_reinit")
     \/ Goto(t, "fw_mask_ok", "fw_abort")
     \/ Goto(t, "fw_mask_err", "fw_abort")
  /\ UNCHANGED <<pmVars, mutex, isr, workVars, op, inputVars, countVars,
                 chipVars, fwVars, baseVars>>

(* iap_reset or elan_initialize; neither outcome is looked at. *)
FirmwareEnd(t) ==
  /\ \/ /\ Goto(t, "fw_abort", "fw_done")
        /\ chipMode' \in {chipMode, {}} /\ UNCHANGED <<mode, chipPower>>
     \/ /\ Goto(t, "fw_reinit", "fw_done")
        /\ InitializeOk \/ InitializeFails
  /\ UNCHANGED <<pmVars, lockVars, isr, workVars, op, inputVars, countVars,
                 fwVars, baseVars>>

FirmwareDone(t) ==
  /\ Goto(t, "fw_done", "unlock")
  /\ inFwUpdate' = FALSE
  /\ EnableIrq
  /\ UNCHANGED <<pmVars, mutex, isr, workVars, op, inputVars, countVars,
                 chipVars, fwDone, baseVars>>

UpdateFirmware(t) ==
  \/ FirmwareFlash(t) \/ FirmwareFinish(t) \/ FirmwareReset(t)
  \/ FirmwareWait(t) \/ FirmwareMask(t) \/ FirmwareEnd(t) \/ FirmwareDone(t)

Task(t) == \/ TaskCall(t) \/ TaskLock(t) \/ TaskInterrupted(t) \/ TaskShow(t)
           \/ TaskMask(t) \/ TaskUnmask(t) \/ TaskUnlock(t)
           \/ RecoverStore(t) \/ Calibrate(t) \/ UpdateFirmware(t)

---------------------------------------------------------------------------
(* Opening and closing of the input devices *)

InputOpen(i) ==
  /\ dev \in {"bound", "no_sysfs"} /\ pm = "awake"
  /\ input[i] = "closed"
  /\ input' = [input EXCEPT ![i] = "open"]
  /\ openCount' = openCount + 1
  /\ UNCHANGED <<pmVars, lockVars, isr, workVars, taskVars, countVars,
                 chipVars, fwVars, baseVars>>

(* The last one to close waits until the watchdog work is out of the way. *)
InputClose(i) ==
  /\ pm = "awake"
  /\ input[i] = "open"
  /\ openCount' = openCount - 1
  /\ input' = [input EXCEPT ![i] = IF openCount' = 0 THEN "closing"
                                                     ELSE "closed"]
  /\ UNCHANGED <<pmVars, lockVars, isr, workVars, taskVars, countVars,
                 chipVars, fwVars, baseVars>>

(* Mutant: cancel_work, which does not wait for the running work. *)
InputCloseNoWait(i) ==
  /\ input[i] = "closing" /\ pending' = FALSE
  /\ input' = [input EXCEPT ![i] = "closed"]
  /\ UNCHANGED <<pmVars, lockVars, isr, worker, taskVars, openCount, countVars,
                 chipVars, fwVars, baseVars>>

InputCloseCancel(i) ==
  /\ input[i] = "closing" /\ CancelWorkSync
  /\ input' = [input EXCEPT ![i] = "closed"]
  /\ UNCHANGED <<pmVars, lockVars, isr, taskVars, openCount, countVars,
                 chipVars, fwVars, baseVars>>

InputUse(i) == InputOpen(i) \/ InputClose(i) \/ InputCloseCancel(i)

---------------------------------------------------------------------------
(* System sleep.  User tasks are frozen before a device is suspended, out *)
(* of any system call that waits interruptibly, and thawed after resume;  *)
(* the system workqueue and the interrupt thread keep running.            *)

PmGoto(from, to) == pm = from /\ pm' = to /\ UNCHANGED dev

(* The end of a suspend attempt or of a resume. *)
PmReturn(from) == PmGoto(from, "awake") /\ wakeup' = FALSE

SuspendBegin ==
  /\ "suspend" \in Events
  /\ dev = "bound"
  /\ \A t \in Tasks : at[t] = "idle"
  /\ \A i \in Inputs : input[i] # "closing"
  /\ PmGoto("awake", IF SuspendOrder = "shim" THEN "cancel" ELSE "mask")
  /\ wakeup' \in BOOLEAN
  /\ UNCHANGED <<lockVars, isr, workVars, taskVars, inputVars, countVars,
                 chipVars, fwVars, baseVars>>

(* Mutant: suspend does not cancel the watchdog work. *)
SuspendCancelMissing ==
  /\ PmGoto("cancel", "lock")
  /\ UNCHANGED <<wakeup, lockVars, isr, workVars, taskVars, inputVars,
                 countVars, chipVars, fwVars, baseVars>>

SuspendCancel ==
  /\ PmGoto("cancel", "lock")
  /\ CancelWorkSync
  /\ UNCHANGED <<wakeup, lockVars, isr, taskVars, inputVars, countVars,
                 chipVars, fwVars, baseVars>>

(* Mutant: suspend goes on without the mutex. *)
SuspendLockMissing ==
  /\ PmGoto("lock", IF SuspendOrder = "shim" THEN "mask" ELSE "power")
  /\ UNCHANGED <<wakeup, lockVars, isr, workVars, taskVars, inputVars,
                 countVars, chipVars, fwVars, baseVars>>

SuspendLock ==
  /\ PmGoto("lock", IF SuspendOrder = "shim" THEN "mask" ELSE "power")
  /\ Lock("pm")
  /\ UNCHANGED <<wakeup, irqDepth, isr, workVars, taskVars, inputVars,
                 countVars, chipVars, fwVars, baseVars>>

(* The mutex is taken interruptibly; the patch re-enables the interrupt. *)
SuspendInterrupted ==
  /\ mutex # "free"
  /\ PmReturn("lock")
  /\ IF SuspendOrder = "shim" THEN UNCHANGED irqDepth ELSE EnableIrq
  /\ UNCHANGED <<mutex, isr, workVars, taskVars, inputVars, countVars,
                 chipVars, fwVars, baseVars>>

(* Mutant: the mutex is taken before the work is cancelled. *)
SuspendMaskLocked ==
  /\ PmGoto("mask", IF SuspendOrder = "shim" THEN "power" ELSE "cancel")
  /\ DisableIrq /\ Lock("pm")
  /\ UNCHANGED <<wakeup, isr, workVars, taskVars, inputVars, countVars,
                 chipVars, fwVars, baseVars>>

(* Mutant: suspend does not wait for the running handler. *)
SuspendMaskNoSync ==
  /\ PmGoto("mask", IF SuspendOrder = "shim" THEN "power" ELSE "cancel")
  /\ irqDepth' = irqDepth + 1
  /\ UNCHANGED <<wakeup, mutex, isr, workVars, taskVars, inputVars, countVars,
                 chipVars, fwVars, baseVars>>

SuspendMask ==
  /\ PmGoto("mask", IF SuspendOrder = "shim" THEN "power" ELSE "cancel")
  /\ DisableIrq
  /\ UNCHANGED <<wakeup, mutex, isr, workVars, taskVars, inputVars, countVars,
                 chipVars, fwVars, baseVars>>

(* A wakeup source is put to sleep, anything else loses its supply.  If the *)
(* supply cannot be disabled the controller is told to power up again.      *)
SuspendPower ==
  /\ \/ /\ Reachable
        /\ PmGoto("power", "enter")
        /\ IF wakeup THEN chipPower' = "asleep" /\ UNCHANGED chipMode
                     ELSE chipPower' = "off" /\ chipMode' = {}
     \/ /\ PmGoto("power", "abort")
        /\ chipPower' \in {chipPower} \cup
                          (IF ~wakeup /\ Reachable THEN {"asleep"} ELSE {})
        /\ UNCHANGED chipMode
  /\ UNCHANGED <<wakeup, lockVars, isr, workVars, taskVars, inputVars,
                 countVars, mode, fwVars, baseVars>>

SuspendEnter ==
  /\ PmGoto("enter", "asleep")
  /\ Unlock
  /\ UNCHANGED <<wakeup, irqDepth, isr, workVars, taskVars, inputVars,
                 countVars, chipVars, fwVars, baseVars>>

(* Mutant: a failed suspend leaves the interrupt disabled. *)
SuspendAbortMasked ==
  /\ PmGoto("abort", "abort_unlock")
  /\ UNCHANGED <<wakeup, lockVars, isr, workVars, taskVars, inputVars,
                 countVars, chipVars, fwVars, baseVars>>

SuspendAbort ==
  /\ PmGoto("abort", "abort_unlock")
  /\ EnableIrq
  /\ UNCHANGED <<wakeup, mutex, isr, workVars, taskVars, inputVars, countVars,
                 chipVars, fwVars, baseVars>>

SuspendAbortUnlock ==
  /\ PmReturn("abort_unlock")
  /\ Unlock
  /\ UNCHANGED <<irqDepth, isr, workVars, taskVars, inputVars,
                 countVars, chipVars, fwVars, baseVars>>

(* elan_resume takes no lock.  Any failure skips to enabling the interrupt. *)
ResumeSupply ==
  /\ \/ /\ PmGoto("asleep", "power_on")
        /\ IF ~wakeup /\ chipPower = "off" THEN chipPower' = "asleep"
                                           ELSE UNCHANGED chipPower
     \/ ~wakeup /\ PmGoto("asleep", "unmask") /\ UNCHANGED chipPower
  /\ UNCHANGED <<wakeup, lockVars, isr, workVars, taskVars, inputVars,
                 countVars, mode, chipMode, fwVars, baseVars>>

ResumePowerOn ==
  /\ \/ Reachable /\ PmGoto("power_on", "init")
     \/ PmGoto("power_on", "unmask")
  /\ UNCHANGED <<wakeup, lockVars, isr, workVars, taskVars, inputVars,
                 countVars, chipVars, fwVars, baseVars>>

ResumeInit ==
  /\ PmGoto("init", "unmask")
  /\ InitializeOk \/ InitializeFails
  /\ UNCHANGED <<wakeup, lockVars, isr, workVars, taskVars, inputVars,
                 countVars, fwVars, baseVars>>

ResumeUnmask ==
  /\ PmReturn("unmask")
  /\ EnableIrq
  /\ UNCHANGED <<mutex, isr, workVars, taskVars, inputVars, countVars,
                 chipVars, fwVars, baseVars>>

Suspend == \/ SuspendBegin \/ SuspendCancel \/ SuspendLock \/ SuspendInterrupted
           \/ SuspendMask \/ SuspendPower \/ SuspendEnter \/ SuspendAbort
           \/ SuspendAbortUnlock
Resume  == ResumeSupply \/ ResumePowerOn \/ ResumeInit \/ ResumeUnmask

---------------------------------------------------------------------------
(* Removal and probe.  The managed resources are released in the reverse  *)
(* of the order in which elan_probe acquired them.                        *)

DevGoto(from, to) == /\ pm = "awake" /\ dev = from /\ dev' = to
                     /\ UNCHANGED <<pm, wakeup>>

(* Removing an attribute waits for the calls in progress. *)
RemoveSysfs ==
  /\ "unbind" \in Events
  /\ DevGoto("bound", "no_sysfs")
  /\ \A t \in Tasks : at[t] = "idle"
  /\ UNCHANGED <<lockVars, isr, workVars, taskVars, inputVars, countVars,
                 chipVars, fwVars, baseVars>>

(* Unregistering an input device closes it first (InputClose). *)
RemoveInputs ==
  /\ DevGoto("no_sysfs", "no_input")
  /\ \A i \in Inputs : input[i] = "closed"
  /\ UNCHANGED <<lockVars, isr, workVars, taskVars, inputVars, countVars,
                 chipVars, fwVars, baseVars>>

RemoveIrq ==
  /\ DevGoto("no_input", "no_irq")
  /\ isr = "idle"
  /\ UNCHANGED <<lockVars, isr, workVars, taskVars, inputVars, countVars,
                 chipVars, fwVars, baseVars>>

RemoveSupply ==
  /\ DevGoto("no_irq", "no_power")
  /\ chipPower' = "off" /\ chipMode' = {}
  /\ UNCHANGED <<lockVars, isr, workVars, taskVars, inputVars, countVars,
                 mode, fwVars, baseVars>>

(* Mutant: removal does not cancel the work. *)
RemoveWorkMissing ==
  /\ DevGoto("no_power", "unbound")
  /\ UNCHANGED <<lockVars, isr, workVars, taskVars, inputVars, countVars,
                 chipVars, fwVars, baseVars>>

RemoveWork ==   \* elan_cancel_watchdog, then the data is freed
  /\ DevGoto("no_power", "unbound")
  /\ CancelWorkSync
  /\ UNCHANGED <<lockVars, isr, taskVars, inputVars, countVars, chipVars,
                 fwVars, baseVars>>

Remove == \/ RemoveSysfs \/ RemoveInputs \/ RemoveIrq \/ RemoveSupply
          \/ RemoveWork

(* Mutant: the counts survive from one probe to the next. *)
CountsKept == UNCHANGED <<reportErrors, recoveries>>

(* elan_probe allocates its data cleared. *)
CountsCleared == reportErrors' = 0 /\ recoveries' = 0

(* A probe that fails releases what it acquired and leaves "unbound". *)
Probe ==
  /\ DevGoto("unbound", "bound")
  /\ pending' = FALSE /\ input' = [i \in Inputs |-> "closed"] /\ openCount' = 0
  /\ mutex' = "free" /\ irqDepth' = 0
  /\ CountsCleared /\ pressed' = FALSE
  /\ mode' = {"abs"} /\ chipMode' = {"abs"} /\ chipPower' = "on"
  /\ inFwUpdate' = FALSE /\ fwDone' = FALSE
  /\ baselineReady' = FALSE /\ baseline' = {}
  /\ UNCHANGED <<isr, worker, taskVars>>

---------------------------------------------------------------------------

Next == \/ Isr \/ Work
        \/ \E t \in Tasks : Task(t)
        \/ \E i \in Inputs : InputUse(i)
        \/ Suspend \/ Resume \/ Remove \/ Probe

Spec == Init /\ [][Next]_vars
---------------------------------------------------------------------------
(* Safety *)

(* Every variable stays in its type. *)
TypeOK ==
  /\ dev \in DevStates /\ pm \in PmLabels /\ wakeup \in BOOLEAN
  /\ mutex \in Tasks \cup {"free", "worker", "pm"}
  /\ irqDepth \in Nat
  /\ isr \in IsrLabels
  /\ pending \in BOOLEAN /\ worker \in WorkerLabels
  /\ op \in [Tasks -> AllOps \cup {"none"}] /\ at \in [Tasks -> TaskLabels]
  /\ input \in [Inputs -> {"closed", "open", "closing"}]
  /\ openCount \in Nat
  /\ reportErrors \in 0 .. MaxErrors
  /\ recoveries \in 0 .. (RecoveriesWrap - 1)
  /\ pressed \in BOOLEAN
  /\ mode \in SUBSET {"abs", "cal"} /\ chipMode \in SUBSET {"abs", "cal"}
  /\ chipPower \in {"on", "asleep", "off"}
  /\ inFwUpdate \in BOOLEAN /\ fwDone \in BOOLEAN
  /\ baselineReady \in BOOLEAN /\ baseline \in SUBSET {"max", "min"}

One(P) == IF P THEN 1 ELSE 0

(* Every disable_irq is undone by the thread that made it, on every path:  *)
(* the line is enabled exactly when nobody holds it disabled, so no failed *)
(* store, recovery, suspend or resume leaves the touchpad deaf or enables  *)
(* the interrupt under someone else's sequence of commands.                *)
IrqBalanced ==
  irqDepth = One(\E t \in Tasks : at[t] \in TaskMasked)
             + One(worker \in WorkerMasked) + One(pm \in PmMasked)

Controls(a) == CASE a = "worker" -> worker \in WorkerControls
                 [] a = "pm"     -> pm \in PmControls
                 [] OTHER        -> at[a] \in TaskControls

(* Recovery, calibration, firmware update, suspend and resume never drive  *)
(* the controller at the same time, nor while a report is being read.      *)
ControlExclusive ==
  \A a, b \in Tasks \cup {"worker", "pm"} :
     Controls(a) => /\ Controls(b) => a = b
                    /\ isr = "idle"

(* Whatever the order of suspend, the only commands that can interleave are *)
(* those of the watchdog's recovery and of a controller put to sleep and   *)
(* resumed: elan_resume takes no mutex, but everything else does, and no   *)
(* report is read meanwhile.                                               *)
OverlapConfined ==
  \A a, b \in Tasks \cup {"worker", "pm"} :
     Controls(a) => /\ isr = "idle"
                    /\ Controls(b) /\ a # b =>
                         {a, b} = {"worker", "pm"} /\ pm \notin PmLocked

(* A suspended controller is left in the state suspend put it in. *)
SleepUndisturbed ==
  pm = "asleep" => chipPower = IF wakeup THEN "asleep" ELSE "off"

(* Once the last close has returned no automatic recovery runs or is about *)
(* to: the watchdog is armed only while an input node is open.             *)
DisarmedWhenClosed ==
  openCount = 0 /\ (\A i \in Inputs : input[i] # "closing")
     => worker \notin WorkerControls \cup {"mask"}

(* open_count is the number of input devices that are open. *)
OpenCounted == openCount = Cardinality(OpenInputs)

(* The calibration bit is set only while a calibration is in progress, so  *)
(* nothing else ever writes it to the controller.                          *)
CalibrationConfined ==
  "cal" \in mode => \E t \in Tasks : at[t] \in CalLabels \ {"cal_on"}

(* A recovery that reports success, automatic or requested, has left the  *)
(* controller awake and reporting in absolute mode.                       *)
RecoveryRestoresChip ==
  (worker = "complete" \/ \E t \in Tasks : at[t] = "complete")
     => chipPower = "on" /\ chipMode = {"abs"}

(* From the release of the inputs to the end of a recovery nothing is held *)
(* down towards userspace and no error is counted.                         *)
InputsReleased ==
  (\/ worker \in RecoveryLabels \ {"release_input"}
   \/ \E t \in Tasks : at[t] \in RecoveryLabels \ {"release_input"})
     => ~pressed /\ reportErrors = 0

(* The baselines min_show and max_show may read were both taken by the same *)
(* acquisition: a failed one never leaves one old and one new value behind. *)
BaselineCoherent == baselineReady => baseline = {"max", "min"}

(* When the device is unbound and its data freed, neither the work nor the *)
(* interrupt handler that use that data are queued or running.             *)
NoUseAfterFree ==
  dev = "unbound" => /\ ~pending /\ worker = "idle" /\ isr = "idle"
                     /\ \A t \in Tasks : at[t] = "idle"

(* Who waits for the mutex, for a running handler (disable_irq, free_irq), *)
(* and for a running work (cancel_work_sync).                              *)
Threads == Tasks \cup Inputs \cup {"worker", "pm", "isr", "removal"}

LockWaiters == {t \in Tasks : at[t] = "lock"}
                 \cup {a \in {"worker"} : worker = "lock"}
                 \cup {a \in {"pm"} : pm = "lock"}
IsrWaiters  == {t \in Tasks : at[t] \in {"mask", "fw_mask_ok", "fw_mask_err"}}
                 \cup {a \in {"worker"} : worker = "mask"}
                 \cup {a \in {"pm"} : pm = "mask"}
                 \cup {a \in {"removal"} : dev = "no_input"}
Closing     == {i \in Inputs : input[i] = "closing"}
WorkWaiters == Closing
                 \cup {a \in {"pm"} : pm = "cancel"}
                 \cup {a \in {"removal"} : dev = "no_power"}

(* Freezing the tasks before a suspend waits for their calls and closes,   *)
(* removal for the calls, for the inputs, and for a suspend in progress.   *)
InCalls  == {t \in Tasks : at[t] # "idle"}
Unclosed == {i \in Inputs : input[i] # "closed"}

WaitsFor(a, b) ==
  \/ a \in LockWaiters /\ b = mutex
  \/ a \in IsrWaiters  /\ b = "isr" /\ isr # "idle"
  \/ a \in WorkWaiters /\ b = "worker" /\ worker # "idle"
  \/ a = "pm" /\ pm = "awake" /\ b \in InCalls \cup Closing
  \/ a = "removal" /\ \/ dev = "bound" /\ b \in InCalls
                      \/ dev = "no_sysfs" /\ b \in Unclosed
                      \/ pm # "awake" /\ b = "pm"

Waiting == {a \in Threads : \E b \in Threads : WaitsFor(a, b)}

(* Threads never wait for each other in a circle: nothing that needs the   *)
(* mutex, or an interrupt handler that does, is waited for under it.       *)
NoCircularWait ==
  \A S \in SUBSET Waiting :
     S # {} => \E a \in S : \A b \in S : ~WaitsFor(a, b)

(* recoveries changes only when a recovery has restored the controller.    *)
CountsRestored ==
  [][recoveries' # recoveries =>
       \/ dev = "unbound"
       \/ chipPower = "on" /\ chipMode = {"abs"} /\ reportErrors = 0]_vars

(* The contract of the recoveries= field that user space reads.            *)
Counter == INSTANCE RecoveryCounter
             WITH Wrap <- RecoveriesWrap,
                  reading <- IF dev = "bound" THEN recoveries ELSE -1

(* While the attributes exist the count starts with a probe and goes up by *)
(* one, so elan-guardian can tell recoveries from probes by reading it.    *)
KeepsCounter == Counter!Spec

---------------------------------------------------------------------------
(* Liveness *)

(* Every thread runs on, and a wait ends once what it waits for keeps      *)
(* coming: the kernel queues the waiters of a mutex, disable_irq and       *)
(* cancel_work_sync keep new instances from starting while they wait.      *)
(* Hence strong fairness of each thread.  Nothing obliges users to call or *)
(* close, interrupts to arrive or the system to go to sleep.               *)
TaskProgress(t) ==
  \/ TaskLock(t) \/ TaskShow(t) \/ TaskMask(t) \/ TaskUnmask(t)
  \/ TaskUnlock(t) \/ RecoverStore(t) \/ Calibrate(t) \/ UpdateFirmware(t)

PmProgress ==
  \/ SuspendCancel \/ SuspendLock \/ SuspendMask \/ SuspendPower
  \/ SuspendEnter \/ SuspendAbort \/ SuspendAbortUnlock \/ Resume

Fairness ==
  /\ WF_vars(IsrReport \/ IsrReadError \/ IsrRecheck \/ IsrSchedule)
  /\ SF_vars(Work)
  /\ \A t \in Tasks : SF_vars(TaskProgress(t))
  /\ \A i \in Inputs : SF_vars(InputCloseCancel(i))
  /\ SF_vars(PmProgress)

LiveSpec == Spec /\ Fairness

(* A request for recovery queued at the error limit is carried out, unless *)
(* a good report came first or the device is closed, suspended or unbound. *)
ErrorLimitAnswered ==
  (pending /\ reportErrors >= Threshold)
     ~> (reportErrors = 0 \/ openCount = 0 \/ pm # "awake" \/ dev # "bound")

(* Whoever takes sysfs_mutex gives it back: waiting for the interrupt      *)
(* handler, the work or the firmware's answer under it never locks up.     *)
MutexReleased == mutex # "free" ~> mutex = "free"

(* Closing an input device and suspending return. *)
CloseReturns   == \A i \in Inputs : input[i] = "closing" ~> input[i] = "closed"
SuspendSettles == pm # "awake" ~> pm \in {"awake", "asleep"}

=============================================================================
