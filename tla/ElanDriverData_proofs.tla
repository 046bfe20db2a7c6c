------------------------- MODULE ElanDriverData_proofs -------------------------
(***************************************************************************)
(* Proofs about the data the threads of ElanDriver share: the calibration  *)
(* bit, the baselines, what is reported down, and the controller a         *)
(* recovery leaves behind.  They rest on DriverInv, which says who may be  *)
(* driving the controller; here is what it does with that.                 *)
(***************************************************************************)
EXTENDS ElanDriver_proofs

---------------------------------------------------------------------------
(* The invariants *)

(* The mode is switched back at the end of these. *)
Calibrating == CalLabels \ {"cal_on"}

(* A minimum is only taken where the maximum was. *)
BaseInv == /\ BaselineCoherent
           /\ \A t \in Tasks : at[t] = "acq_min" => "max" \in baseline

(* Recovery labels behind the release of the inputs. *)
Released == RecoveryLabels \ {"release_input"}

(* Input devices that are gone were closed. *)
ClosedInv == dev \notin {"bound", "no_sysfs"} =>
               \A i \in Inputs : input[i] = "closed"

(* What a recovery has achieved by label l. *)
Restored == {"verify", "restore_mode", "complete"}
Restoring(l) == /\ l \in Restored => chipPower = "on" /\ "abs" \in mode
                /\ l = "complete" => chipMode = {"abs"}

RestoreInv == Serialized =>
                Restoring(worker) /\ \A t \in Tasks : Restoring(at[t])

DataInv == /\ CalibrationConfined /\ BaseInv /\ InputsReleased
           /\ ClosedInv /\ RestoreInv

---------------------------------------------------------------------------
(* What the steps do to the data *)

(* A task moves alone. *)
LEMMA OthersStay ==
  ASSUME TypeOK, NEW t \in Tasks, NEW l \in TaskLabels, TaskMoves(t, l)
  PROVE  at'[t] = l /\ \A u \in Tasks \ {t} : at'[u] = at[u]
BY DEF TypeOK, TaskMoves

(* A task that is neither recovering nor calibrating only touches the      *)
(* controller under the mutex, and never sets the calibration bit.         *)
LEMMA TaskData ==
  ASSUME TypeOK, NEW t \in Tasks, Task(t), ~RecoverStore(t), ~Calibrate(t)
  PROVE  /\ UNCHANGED <<countVars, baseVars>>
         /\ UNCHANGED chipVars \/ at[t] \in TaskLocked
         /\ "cal" \in mode' => "cal" \in mode
         /\ at[t] \notin CalLabels /\ at'[t] \notin Calibrating
         /\ at'[t] \notin Released
<1> USE RecoveryLabelSet DEF TypeOK, Goto, chipVars, countVars, baseVars,
        CalLabels, Calibrating, Released, TaskLocked, TaskLabels, FwLabels
<1>1. CASE \/ TaskCall(t) \/ TaskLock(t) \/ TaskInterrupted(t) \/ TaskShow(t)
  BY <1>1 DEF TaskCall, TaskLock, TaskInterrupted, TaskShow
<1>2. CASE TaskMask(t)
  BY <1>2, RecoveryStart DEF TaskMask
<1>3. CASE TaskUnmask(t) \/ TaskUnlock(t)
  BY <1>3 DEF TaskUnmask, TaskUnlock
<1>4. CASE FirmwareFlash(t) \/ FirmwareFinish(t) \/ FirmwareReset(t)
  BY <1>4 DEF FirmwareFlash, FirmwareFinish, FirmwareReset
<1>5. CASE FirmwareWait(t) \/ FirmwareMask(t) \/ FirmwareDone(t)
  BY <1>5 DEF FirmwareWait, FirmwareMask, FirmwareDone
<1>6. CASE FirmwareEnd(t)
  BY <1>6 DEF FirmwareEnd, InitializeOk, InitializeFails
<1> QED
  BY <1>1, <1>2, <1>3, <1>4, <1>5, <1>6 DEF Task, UpdateFirmware

(* The work touches the data only while it recovers. *)
LEMMA WorkData ==
  ASSUME TypeOK, Work, ~WorkRecover
  PROVE  /\ UNCHANGED <<chipVars, baseVars, pressed, reportErrors>>
         /\ worker' \notin Released
         /\ recoveries' # recoveries => worker = "complete"
<1> USE RecoveryLabelSet DEF TypeOK, chipVars, countVars, baseVars, Released
<1>1. CASE WorkStart \/ WorkLock \/ WorkDecide \/ WorkUnlock
  BY <1>1 DEF WorkStart, WorkLock, WorkDecide, WorkUnlock
<1>2. CASE WorkMask
  BY <1>2, RecoveryStart DEF WorkMask
<1>3. CASE WorkFinish
  BY <1>3 DEF WorkFinish
<1> QED
  BY <1>1, <1>2, <1>3 DEF Work

(* Suspend and resume touch the controller alone, and only where they have *)
(* the interrupt disabled.                                                 *)
LEMMA PmData ==
  ASSUME TypeOK, Suspend \/ Resume
  PROVE  /\ UNCHANGED <<countVars, baseVars>>
         /\ UNCHANGED chipVars \/ pm \in {"power", "asleep", "init"}
         /\ "cal" \in mode' => "cal" \in mode
<1> USE DEF TypeOK, PmGoto, PmReturn, chipVars, countVars, baseVars
<1>1. CASE Suspend
  BY <1>1 DEF Suspend, SuspendBegin, SuspendCancel, SuspendLock,
              SuspendInterrupted, SuspendMask, SuspendPower, SuspendEnter,
              SuspendAbort, SuspendAbortUnlock
<1>2. CASE Resume
  BY <1>2 DEF Resume, ResumeSupply, ResumePowerOn, ResumeInit, ResumeUnmask,
              InitializeOk, InitializeFails
<1> QED
  BY <1>1, <1>2

(* The handler changes counts while it reads, removal the supply. *)
LEMMA OtherData ==
  ASSUME TypeOK, OtherStep
  PROVE  /\ UNCHANGED <<mode, baseVars, recoveries>>
         /\ UNCHANGED chipVars \/ dev = "no_irq"
         /\ UNCHANGED <<pressed, reportErrors>> \/ isr = "reading"
<1> USE DEF TypeOK, chipVars, countVars, baseVars
<1>1. CASE Isr
  BY <1>1 DEF Isr, IsrFirmware, IsrStart, IsrReport, IsrReadError, IsrRecheck,
              IsrSchedule
<1>2. CASE \E i \in Inputs : InputUse(i)
  BY <1>2 DEF InputUse, InputOpen, InputClose, InputCloseCancel
<1>3. CASE Remove
  BY <1>3 DEF Remove, DevGoto, RemoveSysfs, RemoveInputs, RemoveIrq,
              RemoveSupply, RemoveWork
<1> QED
  BY <1>1, <1>2, <1>3 DEF OtherStep

(* A recovery releases the inputs first, and sets no calibration bit. *)
LEMMA RecoveryData ==
  ASSUME TypeOK, NEW phase, NEW next, RecoverLocked(phase, next)
  PROVE  /\ "cal" \in mode' => "cal" \in mode
         /\ \/ ~pressed' /\ reportErrors' = 0
            \/ phase \in Released /\ UNCHANGED <<pressed, reportErrors>>
<1> USE RecoveryLabelSet DEF TypeOK, Released, chipVars
<1>1. CASE ReleaseInput(phase, next)
  BY <1>1 DEF ReleaseInput
<1>2. CASE Reinitialize(phase, next)
  BY <1>2 DEF Reinitialize, InitializeOk, InitializeFails
<1>3. CASE Verify(phase, next) \/ RestoreMode(phase, next)
  BY <1>3 DEF Verify, RestoreMode
<1> QED
  BY <1>1, <1>2, <1>3 DEF RecoverLocked

(* It goes on only after a success, with the controller awake and, when it *)
(* is complete, in the mode the driver wants.                              *)
LEMMA RecoveryRestores ==
  ASSUME TypeOK, NEW phase, NEW next, RecoverLocked(phase, next),
         Restoring(phase), "cal" \notin mode
  PROVE  Restoring(next)'
<1> USE RecoverySteps DEF TypeOK, Restoring, Restored, RecoveryNext,
        RecoveryOrder, chipVars
<1>1. CASE ReleaseInput(phase, next)
  BY <1>1 DEF ReleaseInput
<1>2. CASE Reinitialize(phase, next)
  BY <1>2 DEF Reinitialize, InitializeOk, InitializeFails
<1>3. CASE Verify(phase, next)
  BY <1>3 DEF Verify
<1>4. CASE RestoreMode(phase, next)
  <2>1. mode = {"abs"}
    <3>1. "abs" \in mode
      BY <1>4 DEF RestoreMode
    <3>2. \A m \in mode : m = "abs"
      OBVIOUS
    <3> QED
      BY <3>1, <3>2
  <2> QED
    BY <1>4, <2>1 DEF RestoreMode
<1> QED
  BY <1>1, <1>2, <1>3, <1>4 DEF RecoverLocked

---------------------------------------------------------------------------
(* Every step preserves the invariants *)

(* Whoever sets the calibration bit takes it back before going on. *)
LEMMA CalibrationStep ==
  ASSUME TypeOK, CalibrationConfined, [Next]_vars
  PROVE  CalibrationConfined'
<1> USE DEF CalibrationConfined, chipVars, taskVars
<1>1. ASSUME NEW t \in Tasks, Task(t), NEW l \in TaskLabels, TaskMoves(t, l)
      PROVE  CalibrationConfined'
  <2>1. at'[t] = l /\ \A u \in Tasks \ {t} : at'[u] = at[u]
    BY <1>1, OthersStay
  <2>2. "cal" \in mode' => \/ l \in Calibrating
                           \/ "cal" \in mode /\ at[t] \notin Calibrating
    <3>1. CASE Calibrate(t)
      BY <2>1, <3>1 DEF Calibrate, CalibrateOn, CalibrateRun, AcquireMax,
                        AcquireMin, CalibrateOff, Goto, TypeOK, Calibrating,
                        CalLabels
    <3>2. CASE RecoverStore(t)
      <4>1. PICK next \in RecoveryLabels : RecoverLocked(at[t], next)
        BY <3>2 DEF RecoverStore
      <4> QED
        BY <4>1, RecoveryData, RecoverySteps DEF Calibrating, CalLabels
    <3>3. CASE ~Calibrate(t) /\ ~RecoverStore(t)
      BY <1>1, <3>3, TaskData DEF Calibrating
    <3> QED
      BY <3>1, <3>2, <3>3
  <2> QED
    BY <2>1, <2>2 DEF Calibrating
<1>2. CASE Work
  <2>1. UNCHANGED at
    BY <1>2, WorkMove DEF WorkMoves
  <2>2. "cal" \in mode' => "cal" \in mode
    <3>1. CASE WorkRecover
      BY <3>1, RecoveryData DEF WorkRecover
    <3>2. CASE ~WorkRecover
      BY <1>2, <3>2, WorkData
    <3> QED
      BY <3>1, <3>2
  <2> QED
    BY <2>1, <2>2
<1>3. CASE Suspend \/ Resume
  BY <1>3, PmData, PmMove DEF PmMoves
<1>4. CASE OtherStep
  BY <1>4, OtherData, OtherMove
<1>5. CASE Probe
  BY <1>5 DEF Probe
<1>6. CASE UNCHANGED vars
  BY <1>6 DEF vars
<1> QED
  BY <1>1, <1>2, <1>3, <1>4, <1>5, <1>6, StepCases

(* One acquisition at a time: the mutex keeps another from starting over   *)
(* between the maximum and the minimum.                                    *)
LEMMA BaseStep ==
  ASSUME TypeOK, LockInv, DevInv, BaseInv, [Next]_vars
  PROVE  BaseInv'
<1> USE DEF BaseInv, BaselineCoherent, baseVars, taskVars
<1>1. ASSUME NEW t \in Tasks, Task(t), NEW l \in TaskLabels, TaskMoves(t, l)
      PROVE  BaseInv'
  <2>1. at'[t] = l /\ \A u \in Tasks \ {t} : at'[u] = at[u]
    BY <1>1, OthersStay
  <2>2. CASE Calibrate(t)
    <3>1. at[t] \in CalLabels
      BY <2>2 DEF Calibrate, CalibrateOn, CalibrateRun, AcquireMax, AcquireMin,
                  CalibrateOff, Goto, CalLabels
    <3>2. \A u \in Tasks \ {t} : at'[u] # "acq_min"
      BY <2>1, <3>1 DEF LockInv, TaskLocked, TaskLabels, CalLabels
    <3>3. /\ BaselineCoherent'
          /\ l = "acq_min" => "max" \in baseline'
      <4> USE <2>1 DEF Goto, TypeOK
      <4>1. CASE CalibrateOn(t)
        BY <4>1 DEF CalibrateOn
      <4>2. CASE CalibrateRun(t) \/ CalibrateOff(t)
        BY <4>2 DEF CalibrateRun, CalibrateOff
      <4>3. CASE AcquireMax(t)
        BY <4>3 DEF AcquireMax
      <4>4. CASE AcquireMin(t)
        <5>1. at[t] = "acq_min" /\ l # "acq_min"
          BY <4>4 DEF AcquireMin
        <5>2. CASE baseline' = baseline \cup {"min"}
          <6>1. baseline' = {"max", "min"}
            BY <5>1, <5>2
          <6> QED
            BY <5>1, <6>1
        <5>3. CASE UNCHANGED baseVars
          BY <5>1, <5>3
        <5> QED
          BY <4>4, <5>2, <5>3 DEF AcquireMin
      <4> QED
        BY <2>2, <4>1, <4>2, <4>3, <4>4 DEF Calibrate
    <3> QED
      BY <2>1, <3>2, <3>3
  <2>3. CASE RecoverStore(t)
    <3>1. PICK next \in RecoveryLabels :
             RecoverLocked(at[t], next) /\ at' = [at EXCEPT ![t] = next]
      BY <2>3 DEF RecoverStore
    <3>2. next # "acq_min" /\ UNCHANGED baseVars
      BY <2>3, <3>1, RecoverySteps DEF RecoverStore
    <3>3. l = next
      BY <2>1, <3>1 DEF TypeOK
    <3> QED
      BY <2>1, <3>2, <3>3
  <2>4. CASE ~Calibrate(t) /\ ~RecoverStore(t)
    <3>1. UNCHANGED baseVars /\ l # "acq_min"
      BY <1>1, <2>1, <2>4, TaskData DEF Calibrating, CalLabels
    <3> QED
      BY <2>1, <3>1
  <2> QED
    BY <2>2, <2>3, <2>4
<1>2. CASE Work
  <2>1. UNCHANGED at
    BY <1>2, WorkMove DEF WorkMoves
  <2>2. UNCHANGED baseVars
    BY <1>2, WorkData DEF WorkRecover
  <2> QED
    BY <2>1, <2>2
<1>3. CASE Suspend \/ Resume
  BY <1>3, PmData, PmMove DEF PmMoves
<1>4. CASE OtherStep
  BY <1>4, OtherData, OtherMove
<1>5. CASE Probe
  BY <1>5 DEF Probe, DevGoto, DevInv
<1>6. CASE UNCHANGED vars
  BY <1>6 DEF vars
<1> QED
  BY <1>1, <1>2, <1>3, <1>4, <1>5, <1>6, StepCases

(* No handler reads a report while a recovery has the line disabled. *)
LEMMA ReleasedStep ==
  ASSUME TypeOK, DevInv, IrqBalanced, IsrInv, InputsReleased, [Next]_vars
  PROVE  InputsReleased'
<1> USE DEF InputsReleased, Released, taskVars, countVars
<1>1. ASSUME NEW t \in Tasks, Task(t), NEW l \in TaskLabels, TaskMoves(t, l)
      PROVE  InputsReleased'
  <2>1. /\ at'[t] = l /\ \A u \in Tasks \ {t} : at'[u] = at[u]
        /\ UNCHANGED worker
    BY <1>1, OthersStay DEF TaskMoves, workVars
  <2>2. CASE RecoverStore(t)
    BY <2>1, <2>2, RecoveryData DEF RecoverStore
  <2>3. CASE Calibrate(t)
    <3>1. UNCHANGED countVars /\ l \notin Released
      BY <2>1, <2>3, RecoveryLabelSet
         DEF Calibrate, CalibrateOn, CalibrateRun, AcquireMax, AcquireMin,
             CalibrateOff, Goto, TypeOK
    <3> QED
      BY <2>1, <3>1
  <2>4. CASE ~Calibrate(t) /\ ~RecoverStore(t)
    BY <1>1, <2>1, <2>4, TaskData
  <2> QED
    BY <2>2, <2>3, <2>4
<1>2. CASE Work
  <2>1. UNCHANGED at
    BY <1>2, WorkMove DEF WorkMoves
  <2>2. CASE WorkRecover
    BY <2>1, <2>2, RecoveryData DEF WorkRecover
  <2>3. CASE ~WorkRecover
    BY <1>2, <2>1, <2>3, WorkData
  <2> QED
    BY <2>2, <2>3
<1>3. CASE Suspend \/ Resume
  BY <1>3, PmData, PmMove DEF PmMoves
<1>4. CASE OtherStep
  <2>1. UNCHANGED <<at, worker>>
    BY <1>4, OtherMove
  <2>2. CASE isr = "reading"
    <3>1. worker \notin WorkerMasked /\ \A t \in Tasks : at[t] \notin TaskMasked
      BY <2>2 DEF IsrInv, IrqBalanced, One
    <3>2. Released \subseteq TaskMasked
      BY RecoveryLabelSet DEF TaskMasked, TaskLocked, TaskLabels, FwWindow
    <3> QED
      BY <2>1, <3>1, <3>2 DEF WorkerMasked
  <2>3. CASE UNCHANGED <<pressed, reportErrors>>
    BY <2>1, <2>3
  <2> QED
    BY <1>4, <2>2, <2>3, OtherData
<1>5. CASE Probe
  <2>1. ~pressed' /\ reportErrors' = 0
    BY <1>5 DEF Probe, CountsCleared
  <2> QED
    BY <2>1
<1>6. CASE UNCHANGED vars
  <2>1. UNCHANGED <<at, worker, pressed, reportErrors>>
    BY <1>6 DEF vars, workVars
  <2> QED
    BY <2>1
<1> QED
  BY <1>1, <1>2, <1>3, <1>4, <1>5, <1>6, StepCases

(* No device is opened once the input devices are gone. *)
LEMMA ClosedStep ==
  ASSUME TypeOK, DevInv, ClosedInv, [Next]_vars
  PROVE  ClosedInv'
<1> USE DEF TypeOK, ClosedInv, pmVars, inputVars
<1>1. ASSUME NEW t \in Tasks, NEW l \in TaskLabels, TaskMoves(t, l)
      PROVE  ClosedInv'
  BY <1>1 DEF TaskMoves
<1>2. ASSUME NEW l \in WorkerLabels, WorkMoves(l)
      PROVE  ClosedInv'
  BY <1>2 DEF WorkMoves
<1>3. ASSUME NEW l \in PmLabels, PmMoves(l)
      PROVE  ClosedInv'
  BY <1>3 DEF PmMoves
<1>4. CASE Isr
  BY <1>4 DEF Isr, IsrFirmware, IsrStart, IsrReport, IsrReadError, IsrRecheck,
              IsrSchedule
<1>5. CASE \E i \in Inputs : InputUse(i)
  BY <1>5 DEF InputUse, InputOpen, InputClose, InputCloseCancel
<1>6. CASE Remove
  BY <1>6 DEF Remove, DevGoto, RemoveSysfs, RemoveInputs, RemoveIrq,
              RemoveSupply, RemoveWork
<1>7. CASE Probe
  BY <1>7 DEF Probe, DevGoto
<1>8. CASE UNCHANGED vars
  BY <1>8 DEF vars
<1> QED
  BY <1>1, <1>2, <1>3, <1>4, <1>5, <1>6, <1>7, <1>8, StepCases DEF OtherStep

(* Once the input devices are gone the work does not recover. *)
LEMMA NoneOpen ==
  ASSUME TypeOK, OpenCounted, DisarmedWhenClosed, ClosedInv, dev = "no_irq"
  PROVE  worker \notin RecoveryLabels
<1>1. OpenInputs = {} /\ \A i \in Inputs : input[i] # "closing"
  BY DEF ClosedInv, OpenInputs
<1>2. openCount = 0
  BY <1>1, FS_EmptySet DEF OpenCounted
<1> QED
  BY <1>1, <1>2 DEF DisarmedWhenClosed, WorkerControls

(* Where suspend keeps the work out nobody touches the controller under a  *)
(* recovery, which goes from success to success.                           *)
LEMMA RestoreStep ==
  ASSUME DriverInv, CalibrationConfined, ClosedInv, RestoreInv,
         Serialized, [Next]_vars
  PROVE  RestoreInv'
<1> USE DEF DriverInv, taskVars
<1>1. /\ Restored \subseteq Released
      /\ RecoveryLabels \subseteq TaskLocked \cap WorkerLocked
  BY RecoveryLabelSet
     DEF Restored, Released, TaskLocked, WorkerLocked, TaskLabels, WorkerLabels
<1>2. ASSUME NEW l, l \notin Restored
      PROVE  Restoring(l)'
  BY <1>2 DEF Restoring, Restored
<1>3. ASSUME UNCHANGED chipVars, NEW l, Restoring(l)
      PROVE  Restoring(l)'
  BY <1>3 DEF Restoring, chipVars
<1>4. ASSUME NEW t \in Tasks, Task(t), NEW l \in TaskLabels, TaskMoves(t, l)
      PROVE  RestoreInv'
  <2>1. /\ at'[t] = l /\ \A u \in Tasks \ {t} : at'[u] = at[u]
        /\ UNCHANGED worker
    BY <1>4, OthersStay DEF TaskMoves, workVars
  <2>2. ASSUME at[t] \in TaskLocked
        PROVE  /\ worker \notin Restored
               /\ \A u \in Tasks \ {t} : at[u] \notin TaskLocked
    BY <1>1, <2>2, OwnerAssumption DEF LockInv, Released
  <2>3. CASE RecoverStore(t)
    <3>1. RecoverLocked(at[t], l)
      BY <2>1, <2>3 DEF RecoverStore, TypeOK
    <3>2. at[t] \in TaskLocked /\ at[t] \notin CalLabels
      BY <1>1, <3>1, RecoverySteps, RecoveryLabelSet DEF CalLabels
    <3>3. "cal" \notin mode
      BY <2>2, <3>2 DEF CalibrationConfined, CalLabels, TaskLocked, TaskLabels
    <3>4. Restoring(at[t])
      BY DEF RestoreInv
    <3>5. Restoring(l)'
      BY <3>1, <3>3, <3>4, RecoveryRestores
    <3> QED
      BY <1>1, <1>2, <2>1, <2>2, <3>2, <3>5 DEF RestoreInv, Released
  <2>4. CASE Calibrate(t)
    <3>1. at[t] \in CalLabels /\ l \notin Restored
      BY <2>1, <2>4
         DEF Calibrate, CalibrateOn, CalibrateRun, AcquireMax, AcquireMin,
             CalibrateOff, Goto, TypeOK, CalLabels, Restored
    <3>2. at[t] \in TaskLocked
      BY <3>1 DEF CalLabels, TaskLocked, TaskLabels
    <3> QED
      BY <1>1, <1>2, <2>1, <2>2, <3>1, <3>2 DEF RestoreInv, Released
  <2>5. CASE ~Calibrate(t) /\ ~RecoverStore(t)
    <3>1. l \notin Restored /\ (UNCHANGED chipVars \/ at[t] \in TaskLocked)
      BY <1>1, <1>4, <2>1, <2>5, TaskData
    <3> QED
      BY <1>1, <1>2, <1>3, <2>1, <2>2, <3>1 DEF RestoreInv, Released
  <2> QED
    BY <2>3, <2>4, <2>5
<1>5. CASE Work
  <2>1. UNCHANGED at
    BY <1>5, WorkMove DEF WorkMoves
  <2>2. CASE WorkRecover
    <3>1. PICK next \in RecoveryLabels :
             RecoverLocked(worker, next) /\ worker' = next
      BY <2>2 DEF WorkRecover
    <3>2. worker \in WorkerLocked
      BY <1>1, <3>1, RecoverySteps, RecoveryLabelSet
    <3>3. \A t \in Tasks : at[t] \notin TaskLocked
      BY <3>2, OwnerAssumption DEF LockInv
    <3>4. "cal" \notin mode
      BY <3>3 DEF CalibrationConfined, CalLabels, TaskLocked, TaskLabels
    <3>5. Restoring(next)'
      BY <3>1, <3>4, RecoveryRestores DEF RestoreInv
    <3> QED
      BY <1>1, <1>2, <2>1, <3>1, <3>3, <3>5 DEF RestoreInv, Released
  <2>3. CASE ~WorkRecover
    <3>1. UNCHANGED chipVars /\ worker' \notin Restored
      BY <1>1, <1>5, <2>3, WorkData
    <3> QED
      BY <1>2, <1>3, <2>1, <3>1 DEF RestoreInv
  <2> QED
    BY <2>2, <2>3
<1>6. ASSUME UNCHANGED <<at, worker>>,
             \/ UNCHANGED chipVars
             \/ /\ worker \notin Restored
                /\ \A t \in Tasks : at[t] \notin Restored
      PROVE  RestoreInv'
  BY <1>2, <1>3, <1>6 DEF RestoreInv
<1>7. CASE Suspend \/ Resume
  <2>1. UNCHANGED <<at, worker>>
    BY <1>7, PmMove DEF PmMoves
  <2>2. CASE pm \in {"power", "asleep", "init"}
    BY <1>6, <2>1, <2>2
       DEF Serialized, PatchInv, AwakeInv, PmMasked, DevInv, Restored
  <2> QED
    BY <1>6, <1>7, <2>1, <2>2, PmData
<1>8. CASE OtherStep
  <2>1. UNCHANGED <<at, worker>>
    BY <1>8, OtherMove
  <2>2. CASE dev = "no_irq"
    BY <1>1, <1>6, <2>1, <2>2, NoneOpen DEF DevInv, Restored, Released
  <2> QED
    BY <1>6, <1>8, <2>1, <2>2, OtherData
<1>9. CASE Probe
  <2>1. UNCHANGED <<at, worker>> /\ dev = "unbound"
    BY <1>9 DEF Probe, DevGoto
  <2>2. worker = "idle" /\ \A t \in Tasks : at[t] = "idle"
    BY <2>1 DEF DevInv
  <2> QED
    BY <1>6, <2>1, <2>2 DEF Restored
<1>10. CASE UNCHANGED vars
  BY <1>6, <1>10 DEF vars, workVars
<1> QED
  BY <1>4, <1>5, <1>7, <1>8, <1>9, <1>10, StepCases

---------------------------------------------------------------------------
(* Theorems *)

LEMMA DataInit ==
  ASSUME Init
  PROVE  DataInv
<1> USE RecoveryLabelSet DEF Init, Fresh
<1>1. CalibrationConfined /\ BaseInv
  BY DEF CalibrationConfined, BaseInv, BaselineCoherent
<1>2. InputsReleased /\ ClosedInv
  BY DEF InputsReleased, ClosedInv
<1>3. RestoreInv
  BY DEF RestoreInv, Restoring, Restored
<1> QED
  BY <1>1, <1>2, <1>3 DEF DataInv

LEMMA DataNext ==
  ASSUME DriverInv, DataInv, [Next]_vars
  PROVE  DataInv'
<1> USE DEF DataInv
<1>1. TypeOK /\ LockInv /\ DevInv /\ IrqBalanced /\ IsrInv
  BY DEF DriverInv
<1>2. CalibrationConfined' /\ BaseInv' /\ InputsReleased' /\ ClosedInv'
  BY <1>1, CalibrationStep, BaseStep, ReleasedStep, ClosedStep
<1>3. RestoreInv'
  BY RestoreStep DEF RestoreInv
<1> QED
  BY <1>2, <1>3

(* What the threads do to the shared data is right in every reachable      *)
(* state.                                                                  *)
THEOREM DataInvariant == Spec => [](DriverInv /\ DataInv)
<1>1. Init => DataInv
  BY DataInit
<1>2. DriverInv /\ DataInv /\ [Next]_vars => DataInv'
  BY DataNext
<1> QED
  BY <1>1, <1>2, DriverInvariant, PTL DEF Spec

(* The calibration bit is set only while a calibrate_store or              *)
(* acquire_store that will take it back is in progress.                    *)
THEOREM CalibrationTakenBack == Spec => []CalibrationConfined
<1>1. DataInv => CalibrationConfined
  BY DEF DataInv
<1> QED
  BY <1>1, DataInvariant, PTL

(* min_show and max_show never see baselines of two acquisitions.          *)
THEOREM BaselinesOfOneAcquisition == Spec => []BaselineCoherent
<1>1. DataInv => BaselineCoherent
  BY DEF DataInv, BaseInv
<1> QED
  BY <1>1, DataInvariant, PTL

(* Until a recovery is over nothing is reported down again and no error is *)
(* counted: elan_isr is off all the while.                                 *)
THEOREM RecoveryReleasesInputs == Spec => []InputsReleased
<1>1. DataInv => InputsReleased
  BY DEF DataInv
<1> QED
  BY <1>1, DataInvariant, PTL

(* Where suspend keeps the work out a recovery that reports success has    *)
(* left the controller awake and in absolute mode.                         *)
THEOREM SerializedRestores ==
  ASSUME Serialized
  PROVE  Spec => []RecoveryRestoresChip
<1>1. DriverInv /\ DataInv => RecoveryRestoresChip
  BY DEF DataInv, RestoreInv, Restoring, Restored, RecoveryRestoresChip,
         DriverInv, TypeOK
<1> QED
  BY <1>1, DataInvariant, PTL

(* Nothing but the work counts recoveries, and nothing but a probe starts   *)
(* the count again.                                                        *)
LEMMA OnlyWorkCounts ==
  ASSUME TypeOK, [Next]_vars, ~Work, ~Probe
  PROVE  UNCHANGED recoveries
<1>1. ASSUME NEW t \in Tasks, Task(t)
      PROVE  UNCHANGED recoveries
  <2>1. CASE RecoverStore(t)
    BY <2>1 DEF RecoverStore
  <2>2. CASE Calibrate(t)
    BY <2>2 DEF Calibrate, CalibrateOn, CalibrateRun, AcquireMax, AcquireMin,
                CalibrateOff, countVars
  <2>3. CASE ~RecoverStore(t) /\ ~Calibrate(t)
    BY <1>1, <2>3, TaskData DEF countVars
  <2> QED
    BY <2>1, <2>2, <2>3
<1>2. Suspend \/ Resume \/ OtherStep => UNCHANGED recoveries
  BY PmData, OtherData DEF countVars
<1>3. UNCHANGED vars => UNCHANGED recoveries
  BY DEF vars, countVars
<1> QED
  BY <1>1, <1>2, <1>3, StepCases

(* There watchdog_recoveries counts nothing but recoveries that have       *)
(* restored the controller and ended the error streak.                     *)
THEOREM SerializedCounts ==
  ASSUME Serialized
  PROVE  Spec => CountsRestored
<1> DEFINE Counts == recoveries' # recoveries =>
                       \/ dev = "unbound"
                       \/ chipPower = "on" /\ chipMode = {"abs"} /\ reportErrors = 0
<1>1. DriverInv /\ DataInv /\ [Next]_vars => [Counts]_vars
  <2> SUFFICES ASSUME DriverInv, DataInv, [Next]_vars, recoveries' # recoveries
               PROVE  Counts
    OBVIOUS
  <2>1. TypeOK
    BY DEF DriverInv
  <2>2. CASE Work
    <3>1. worker = "complete"
      BY <2>1, <2>2, WorkData DEF WorkRecover
    <3> QED
      BY <3>1, RecoveryLabelSet
         DEF DataInv, RestoreInv, Restoring, Restored, InputsReleased
  <2>3. CASE Probe
    BY <2>3 DEF Probe, DevGoto
  <2> QED
    BY <2>1, <2>2, <2>3, OnlyWorkCounts
<1> QED
  BY <1>1, DataInvariant, PTL DEF Spec, CountsRestored

(* Whatever else happens to the controller, the recoveries= field starts   *)
(* at zero with a probe and goes up by one at a time: the driver keeps the *)
(* contract user space reads it by.                                        *)
THEOREM DriverKeepsCounter == Spec => KeepsCounter
<1> DEFINE reading == IF dev = "bound" THEN recoveries ELSE -1
<1>1. Init => Counter!Init
  BY DEF Init, Fresh, Counter!Init
<1>2. DriverInv /\ [Next]_vars => [Counter!Next]_(Counter!vars)
  <2> SUFFICES ASSUME DriverInv, [Next]_vars
               PROVE  Counter!Next \/ UNCHANGED reading
    BY DEF Counter!vars
  <2>1. TypeOK /\ recoveries \in Nat
    BY CountersAssumption DEF DriverInv, TypeOK
  <2>2. CASE Work
    <3>1. UNCHANGED dev
      BY <2>1, <2>2, WorkMove DEF WorkMoves, pmVars
    <3>2. \/ UNCHANGED recoveries
          \/ recoveries' = (recoveries + 1) % RecoveriesWrap
      BY <2>2 DEF Work, WorkStart, WorkLock, WorkDecide, WorkMask, WorkRecover,
                  WorkFinish, WorkUnlock, countVars
    <3> QED
      BY <2>1, <3>1, <3>2 DEF Counter!Next, Counter!Recover, Counter!Absent
  <2>3. CASE Probe
    BY <2>3 DEF Probe, DevGoto, CountsCleared, Counter!Next, Counter!Probe,
                Counter!Absent
  <2>4. CASE Remove
    <3>1. UNCHANGED recoveries
      BY <2>1, <2>4, OtherData DEF OtherStep
    <3>2. UNCHANGED reading \/ (dev = "bound" /\ dev' = "no_sysfs")
      BY <2>4, <3>1 DEF Remove, DevGoto, RemoveSysfs, RemoveInputs, RemoveIrq,
                        RemoveSupply, RemoveWork
    <3> QED
      BY <2>1, <3>1, <3>2 DEF Counter!Next, Counter!Remove, Counter!Absent
  <2>5. CASE ~Work /\ ~Probe /\ ~Remove
    <3>1. UNCHANGED dev
      BY <2>1, <2>5, StepCases
         DEF TaskMoves, PmMoves, OtherStep, Isr, IsrFirmware, IsrStart,
             IsrReport, IsrReadError, IsrRecheck, IsrSchedule, InputUse,
             InputOpen, InputClose, InputCloseCancel, vars, pmVars
    <3> QED
      BY <2>1, <2>5, <3>1, OnlyWorkCounts
  <2> QED
    BY <2>2, <2>3, <2>4, <2>5
<1> QED
  BY <1>1, <1>2, DriverInvariant, PTL DEF Spec, KeepsCounter, Counter!Spec

=============================================================================
