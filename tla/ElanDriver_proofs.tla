-------------------------- MODULE ElanDriver_proofs --------------------------
(***************************************************************************)
(* Proofs about ElanDriver for any number of tasks and input devices, any  *)
(* thresholds, and either order of suspend unless one is named.            *)
(*                                                                         *)
(* The argument is about ownership.  Each of the three kinds of thread     *)
(* that take sysfs_mutex or disable the interrupt line (a task, the work,  *)
(* the thread that suspends and resumes) moves from label to label, and a  *)
(* move takes the mutex or the line exactly when the new label is among    *)
(* those that hold it and the old one is not.  The lemmas TaskMove,        *)
(* WorkMove and PmMove say so of every action of the specification; the    *)
(* invariants follow from them without looking at the actions again.       *)
(***************************************************************************)
EXTENDS ElanDriver, TLAPS, FiniteSetTheorems

---------------------------------------------------------------------------
(* Ownership *)

(* A thread that holds the mutex at some labels moves between two of them. *)
LockMove(owner, before, after) ==
  \/ (before <=> after) /\ UNCHANGED mutex
  \/ ~before /\ after /\ mutex = "free" /\ mutex' = owner
  \/ before /\ ~after /\ mutex' = "free"

(* Likewise for the interrupt line, which is disabled with no handler       *)
(* running.                                                                *)
MaskMove(before, after) ==
  /\ irqDepth' = irqDepth - One(before) + One(after)
  /\ ~before /\ after => isr = "idle"

(* The labels at which the work recovers, or is about to. *)
WorkerArmed == {"mask"} \cup RecoveryLabels

TaskMoves(t, l) ==
  /\ at' = [at EXCEPT ![t] = l]
  /\ LockMove(t, at[t] \in TaskLocked, l \in TaskLocked)
  /\ MaskMove(at[t] \in TaskMasked, l \in TaskMasked)
  /\ at[t] = "idle" => UNCHANGED chipVars /\ dev = "bound" /\ pm = "awake"
  /\ l \in FwWindow => at[t] \in FwLabels
  /\ \/ (at[t] \in FwLabels <=> l \in FwLabels) /\ UNCHANGED inFwUpdate
     \/ at[t] \in TaskLocked /\ (inFwUpdate' <=> l \in FwLabels)
  /\ UNCHANGED <<pmVars, isr, workVars, inputVars>>

WorkMoves(l) ==
  /\ worker' = l
  /\ LockMove("worker", worker \in WorkerLocked, l \in WorkerLocked)
  /\ MaskMove(worker \in WorkerMasked, l \in WorkerMasked)
  /\ worker = "idle" => pending /\ UNCHANGED chipVars
  /\ l \in WorkerArmed => worker \in WorkerArmed \/ openCount # 0
  /\ pending' => pending
  /\ UNCHANGED <<pmVars, isr, taskVars, inputVars, fwVars>>

(* The power a sleeping controller is left in. *)
AsleepPower == chipPower = IF wakeup THEN "asleep" ELSE "off"

PmMoves(l) ==
  /\ pm' = l
  /\ LockMove("pm", pm \in PmLocked, l \in PmLocked)
  /\ MaskMove(pm \in PmMasked, l \in PmMasked)
  /\ pm = "awake" => /\ dev = "bound" /\ "suspend" \in Events
                     /\ \A t \in Tasks : at[t] = "idle"
  /\ pending' => pending
  /\ SuspendOrder = "patch" /\ l \in PmMasked \ {"cancel"} =>
        \/ pm \in PmMasked \ {"cancel"}
        \/ ~pending' /\ worker = "idle"
  /\ l \in {"enter", "asleep"} =>
        \/ AsleepPower'
        \/ pm = "enter" /\ UNCHANGED <<chipPower, wakeup>>
  /\ UNCHANGED <<dev, isr, worker, taskVars, inputVars, fwVars>>

(* The labels of a recovery, spelled out. *)
LEMMA RecoveryLabelSet ==
  RecoveryLabels = {"release_input", "reinitialize", "verify",
                    "restore_mode", "complete", "failed"}
BY DEF RecoveryLabels, RecoveryPhases, RecoveryOrder

(* elan_recover_locked starts at the release of the inputs, stops once it  *)
(* is complete or has failed, and goes forward in between.                 *)
LEMMA RecoveryStart == RecoveryNext("idle", 0) = "release_input"
BY DEF RecoveryNext, RecoveryOrder

LEMMA RecoverySteps ==
  ASSUME NEW phase, NEW next, RecoverLocked(phase, next)
  PROVE  /\ phase \in {"release_input", "reinitialize", "verify",
                       "restore_mode"}
         /\ next \in {"reinitialize", "verify", "restore_mode", "complete",
                      "failed"}
BY DEF RecoverLocked, ReleaseInput, Reinitialize, Verify, RestoreMode,
       RecoveryNext, RecoveryOrder

(* Every step of a sysfs call is a move of its task. *)
LEMMA TaskMove ==
  ASSUME TypeOK, NEW t \in Tasks, Task(t)
  PROVE  \E l \in TaskLabels : TaskMoves(t, l)
<1> USE RecoveryLabelSet DEF TypeOK, TaskMoves, LockMove, MaskMove, One,
        TaskLocked, TaskMasked, TaskLabels, FwLabels, FwWindow, CalLabels,
        Goto, Lock, Unlock, DisableIrq, EnableIrq, pmVars, lockVars, taskVars,
        inputVars, workVars, chipVars, fwVars
<1>1. CASE TaskCall(t)
  BY <1>1 DEF TaskCall
<1>2. CASE TaskLock(t)
  <2>1. CASE op[t] = "read"
    <3>1. TaskMoves(t, "show")
      BY <1>2, <2>1 DEF TaskLock
    <3> QED
      BY <3>1
  <2>2. CASE op[t] # "read"
    <3>1. TaskMoves(t, "mask")
      BY <1>2, <2>2 DEF TaskLock
    <3> QED
      BY <3>1
  <2> QED
    BY <2>1, <2>2
<1>3. CASE TaskInterrupted(t)
  BY <1>3 DEF TaskInterrupted
<1>4. CASE TaskShow(t)
  BY <1>4 DEF TaskShow
<1>5. CASE TaskMask(t)
  <2>1. PICK l \in {"release_input", "fw_flash", "cal_on"} :
           /\ at[t] = "mask" /\ at' = [at EXCEPT ![t] = l]
           /\ l = "fw_flash" <=> op[t] = "update_fw"
    BY <1>5, RecoveryStart DEF TaskMask
  <2>2. /\ isr = "idle" /\ irqDepth' = irqDepth + 1
        /\ inFwUpdate' <=> op[t] = "update_fw"
        /\ UNCHANGED <<pmVars, mutex, isr, workVars, inputVars>>
    BY <1>5 DEF TaskMask
  <2>3. TaskMoves(t, l)
    BY <2>1, <2>2
  <2> QED
    BY <2>1, <2>3
<1>6. CASE TaskUnmask(t)
  BY <1>6 DEF TaskUnmask
<1>7. CASE TaskUnlock(t)
  BY <1>7 DEF TaskUnlock
<1>8. CASE RecoverStore(t)
  <2>1. PICK next \in RecoveryLabels : /\ RecoverLocked(at[t], next)
                                       /\ at' = [at EXCEPT ![t] = next]
    BY <1>8 DEF RecoverStore
  <2>2. /\ at[t] \in {"release_input", "reinitialize", "verify",
                      "restore_mode"}
        /\ next \in {"reinitialize", "verify", "restore_mode", "complete",
                     "failed"}
    BY <2>1, RecoverySteps
  <2>3. TaskMoves(t, next)
    BY <1>8, <2>1, <2>2 DEF RecoverStore
  <2> QED
    BY <2>3
<1>9. CASE Calibrate(t)
  BY <1>9 DEF Calibrate, CalibrateOn, CalibrateRun, AcquireMax, AcquireMin,
              CalibrateOff
<1>10. CASE UpdateFirmware(t)
  <2>1. CASE FirmwareFlash(t)
    <3>1. PICK l \in {"fw_finish", "fw_reinit", "fw_abort"} :
             at[t] = "fw_flash" /\ at' = [at EXCEPT ![t] = l]
      BY <2>1 DEF FirmwareFlash
    <3>2. TaskMoves(t, l)
      BY <2>1, <3>1 DEF FirmwareFlash
    <3> QED
      BY <3>2
  <2>2. CASE FirmwareFinish(t)
    BY <2>2 DEF FirmwareFinish
  <2>3. CASE FirmwareReset(t)
    BY <2>3 DEF FirmwareReset
  <2>4. CASE FirmwareWait(t)
    BY <2>4 DEF FirmwareWait
  <2>5. CASE FirmwareMask(t)
    BY <2>5 DEF FirmwareMask
  <2>6. CASE FirmwareEnd(t)
    BY <2>6 DEF FirmwareEnd
  <2>7. CASE FirmwareDone(t)
    <3>1. TaskMoves(t, "unlock")
      BY <2>7 DEF FirmwareDone
    <3> QED
      BY <3>1
  <2> QED
    BY <1>10, <2>1, <2>2, <2>3, <2>4, <2>5, <2>6, <2>7 DEF UpdateFirmware
<1> QED
  BY <1>1, <1>2, <1>3, <1>4, <1>5, <1>6, <1>7, <1>8, <1>9, <1>10 DEF Task

(* Every step of the work is a move of the worker. *)
LEMMA WorkMove ==
  ASSUME TypeOK, Work
  PROVE  \E l \in WorkerLabels : WorkMoves(l)
<1> USE RecoveryLabelSet DEF TypeOK, WorkMoves, LockMove, MaskMove, One,
        WorkerLocked, WorkerMasked, WorkerLabels, Lock, Unlock, DisableIrq,
        EnableIrq, pmVars, lockVars, taskVars, inputVars, chipVars, fwVars,
        WorkerArmed
<1>1. CASE WorkStart
  BY <1>1 DEF WorkStart
<1>2. CASE WorkLock
  BY <1>2 DEF WorkLock
<1>3. CASE WorkDecide
  BY <1>3 DEF WorkDecide, WatchdogAction
<1>4. CASE WorkMask
  BY <1>4, RecoveryStart DEF WorkMask
<1>5. CASE WorkRecover
  <2>1. PICK next \in RecoveryLabels : /\ RecoverLocked(worker, next)
                                       /\ worker' = next
    BY <1>5 DEF WorkRecover
  <2>2. /\ worker \in {"release_input", "reinitialize", "verify",
                       "restore_mode"}
        /\ next \in {"reinitialize", "verify", "restore_mode", "complete",
                     "failed"}
    BY <2>1, RecoverySteps
  <2> QED
    BY <1>5, <2>1, <2>2 DEF WorkRecover
<1>6. CASE WorkFinish
  BY <1>6 DEF WorkFinish
<1>7. CASE WorkUnlock
  BY <1>7 DEF WorkUnlock
<1> QED
  BY <1>1, <1>2, <1>3, <1>4, <1>5, <1>6, <1>7 DEF Work

(* Every step of suspend and resume, in either order, is a move. *)
LEMMA PmMove ==
  ASSUME TypeOK, Suspend \/ Resume
  PROVE  \E l \in PmLabels : PmMoves(l)
<1> USE ChoiceAssumption DEF TypeOK, PmMoves, LockMove, MaskMove, One,
        PmLocked, PmMasked, PmLabels, PmGoto, PmReturn, Lock, Unlock,
        DisableIrq, EnableIrq, CancelWorkSync, lockVars, taskVars, inputVars,
        workVars, chipVars, fwVars, AsleepPower
<1>1. CASE SuspendBegin
  BY <1>1 DEF SuspendBegin
<1>2. CASE SuspendCancel
  BY <1>2 DEF SuspendCancel
<1>3. CASE SuspendLock
  BY <1>3 DEF SuspendLock
<1>4. CASE SuspendInterrupted
  BY <1>4 DEF SuspendInterrupted
<1>5. CASE SuspendMask
  BY <1>5 DEF SuspendMask
<1>6. CASE SuspendPower
  BY <1>6 DEF SuspendPower, Reachable
<1>7. CASE SuspendEnter
  BY <1>7 DEF SuspendEnter
<1>8. CASE SuspendAbort
  BY <1>8 DEF SuspendAbort
<1>9. CASE SuspendAbortUnlock
  BY <1>9 DEF SuspendAbortUnlock
<1>10. CASE ResumeSupply
  BY <1>10 DEF ResumeSupply
<1>11. CASE ResumePowerOn
  BY <1>11 DEF ResumePowerOn
<1>12. CASE ResumeInit
  BY <1>12 DEF ResumeInit
<1>13. CASE ResumeUnmask
  BY <1>13 DEF ResumeUnmask
<1> QED
  BY <1>1, <1>2, <1>3, <1>4, <1>5, <1>6, <1>7, <1>8, <1>9, <1>10, <1>11,
     <1>12, <1>13 DEF Suspend, Resume

(* No other step moves a thread, but a probe starts with a free mutex. *)
OtherStep == Isr \/ (\E i \in Inputs : InputUse(i)) \/ Remove

LEMMA OtherMove ==
  ASSUME TypeOK, OtherStep
  PROVE  UNCHANGED <<pm, wakeup, worker, lockVars, taskVars, inFwUpdate>>
<1> USE DEF pmVars, lockVars, taskVars, workVars, fwVars, CancelWorkSync
<1>1. CASE Isr
  BY <1>1 DEF Isr, IsrFirmware, IsrStart, IsrReport, IsrReadError, IsrRecheck,
              IsrSchedule
<1>2. CASE \E i \in Inputs : InputUse(i)
  BY <1>2 DEF InputUse, InputOpen, InputClose, InputCloseCancel
<1>3. CASE Remove
  BY <1>3 DEF Remove, DevGoto, RemoveSysfs, RemoveInputs, RemoveIrq,
              RemoveSupply, RemoveWork
<1> QED
  BY <1>1, <1>2, <1>3 DEF OtherStep

(* Every step is one of these. *)
LEMMA StepCases ==
  ASSUME TypeOK, [Next]_vars
  PROVE  \/ \E t \in Tasks : Task(t) /\ \E l \in TaskLabels : TaskMoves(t, l)
         \/ Work /\ \E l \in WorkerLabels : WorkMoves(l)
         \/ (Suspend \/ Resume) /\ \E l \in PmLabels : PmMoves(l)
         \/ OtherStep
         \/ Probe
         \/ UNCHANGED vars
BY TaskMove, WorkMove, PmMove DEF Next, OtherStep

---------------------------------------------------------------------------
(* The invariants *)

(* Who holds sysfs_mutex is told by the labels. *)
LockInv ==
  /\ \A t \in Tasks : at[t] \in TaskLocked <=> mutex = t
  /\ worker \in WorkerLocked <=> mutex = "worker"
  /\ pm \in PmLocked <=> mutex = "pm"

(* What is over at each stage of removal, and while the system sleeps. *)
DevInv ==
  /\ dev # "bound" => pm = "awake"
  /\ dev # "bound" \/ pm # "awake" => \A t \in Tasks : at[t] = "idle"
  /\ dev \in {"no_irq", "no_power", "unbound"} => isr = "idle"
  /\ dev = "unbound" => ~pending /\ worker = "idle"

(* The holders of the line are counted by irqDepth (IrqBalanced); while it *)
(* is disabled, and while firmware is awaited, no handler runs.            *)
IsrInv ==
  /\ irqDepth # 0 => isr = "idle"
  /\ inFwUpdate <=> \E t \in Tasks : at[t] \in FwLabels
  /\ \A t \in Tasks : at[t] \in FwWindow => isr = "idle"

(* The patch's order of suspend: once the work is cancelled it stays so, the *)
(* handler that would queue it being off.                                  *)
PatchInv ==
  SuspendOrder = "patch" /\ pm \in PmMasked \ {"cancel"}
     => ~pending /\ worker = "idle"

(* A system that never sleeps never leaves this label. *)
AwakeInv == "suspend" \notin Events => pm = "awake"

(* The controller keeps the power suspend left it with. *)
SleepInv == SuspendOrder = "patch" /\ pm \in {"enter", "asleep"} => AsleepPower

DriverInv == /\ TypeOK /\ LockInv /\ DevInv /\ IrqBalanced /\ OpenCounted
             /\ IsrInv /\ PatchInv /\ AwakeInv /\ SleepInv
             /\ DisarmedWhenClosed

(* The mutex has at most one holder, and it is the one the mutex names. *)
LEMMA LockStep ==
  ASSUME TypeOK, LockInv, DevInv, [Next]_vars
  PROVE  LockInv'
<1> USE OwnerAssumption DEF TypeOK, LockInv, LockMove, pmVars, workVars,
        taskVars, lockVars
<1>1. ASSUME NEW t \in Tasks, NEW l \in TaskLabels, TaskMoves(t, l)
      PROVE  LockInv'
  BY <1>1 DEF TaskMoves, PmLocked
<1>2. ASSUME NEW l \in WorkerLabels, WorkMoves(l)
      PROVE  LockInv'
  BY <1>2 DEF WorkMoves, PmLocked
<1>3. ASSUME NEW l \in PmLabels, PmMoves(l)
      PROVE  LockInv'
  BY <1>3 DEF PmMoves, PmLocked
<1>4. CASE OtherStep
  BY <1>4, OtherMove DEF PmLocked
<1>5. CASE Probe
  BY <1>5 DEF Probe, DevGoto, DevInv, TaskLocked, WorkerLocked, PmLocked
<1>6. CASE UNCHANGED vars
  BY <1>6 DEF vars, PmLocked
<1> QED
  BY <1>1, <1>2, <1>3, <1>4, <1>5, <1>6, StepCases

(* What removal and suspend have waited for stays over. *)
LEMMA DevStep ==
  ASSUME TypeOK, DevInv, [Next]_vars
  PROVE  DevInv'
<1> USE DEF TypeOK, DevInv, pmVars, workVars, taskVars
<1>1. ASSUME NEW t \in Tasks, NEW l \in TaskLabels, TaskMoves(t, l)
      PROVE  DevInv'
  BY <1>1 DEF TaskMoves
<1>2. ASSUME NEW l \in WorkerLabels, WorkMoves(l)
      PROVE  DevInv'
  BY <1>2 DEF WorkMoves
<1>3. ASSUME NEW l \in PmLabels, PmMoves(l)
      PROVE  DevInv'
  BY <1>3 DEF PmMoves
<1>4. CASE Isr
  BY <1>4 DEF Isr, IsrFirmware, IsrStart, IsrReport, IsrReadError, IsrRecheck,
              IsrSchedule, IrqRequested
<1>5. CASE \E i \in Inputs : InputUse(i)
  BY <1>5 DEF InputUse, InputOpen, InputClose, InputCloseCancel,
              CancelWorkSync
<1>6. CASE Remove
  BY <1>6 DEF Remove, DevGoto, RemoveSysfs, RemoveInputs, RemoveIrq,
              RemoveSupply, RemoveWork, CancelWorkSync
<1>7. CASE Probe
  BY <1>7 DEF Probe, DevGoto
<1>8. CASE UNCHANGED vars
  BY <1>8 DEF vars
<1> QED
  BY <1>1, <1>2, <1>3, <1>4, <1>5, <1>6, <1>7, <1>8, StepCases DEF OtherStep

(* Some task other than t holds the line disabled. *)
OtherMasks(t) == \E u \in Tasks \ {t} : at[u] \in TaskMasked

(* A task moves between the labels of the mutex alone, so the others' part *)
(* of the sum stands, and is nothing while the mover has the mutex.        *)
LEMMA MaskedTasks ==
  ASSUME TypeOK, LockInv, LockInv', NEW t \in Tasks, NEW l \in TaskLabels,
         TaskMoves(t, l)
  PROVE  /\ (\E u \in Tasks : at[u] \in TaskMasked)
               <=> at[t] \in TaskMasked \/ OtherMasks(t)
         /\ (\E u \in Tasks : at'[u] \in TaskMasked)
               <=> l \in TaskMasked \/ OtherMasks(t)
         /\ OtherMasks(t) => at[t] \notin TaskMasked /\ l \notin TaskMasked
<1>1. \A u \in Tasks \ {t} : at'[u] = at[u]
  BY DEF TypeOK, TaskMoves
<1>2. at'[t] = l
  BY DEF TypeOK, TaskMoves
<1>3. TaskMasked \subseteq TaskLocked
  BY DEF TaskMasked
<1>4. ASSUME NEW u \in Tasks \ {t}, at[u] \in TaskMasked
      PROVE  at[t] \notin TaskLocked /\ l \notin TaskLocked
  BY <1>1, <1>2, <1>3, <1>4 DEF LockInv
<1> QED
  BY <1>1, <1>2, <1>3, <1>4 DEF OtherMasks

(* Every disable of the line is counted, and undone once. *)
LEMMA IrqStep ==
  ASSUME TypeOK, LockInv, LockInv', DevInv, IrqBalanced, [Next]_vars
  PROVE  IrqBalanced'
<1> USE DEF TypeOK, IrqBalanced, MaskMove, One, pmVars, workVars, taskVars,
        lockVars
<1>1. ASSUME NEW t \in Tasks, NEW l \in TaskLabels, TaskMoves(t, l)
      PROVE  IrqBalanced'
  <2>1. /\ irqDepth' = irqDepth - One(at[t] \in TaskMasked)
                                + One(l \in TaskMasked)
        /\ UNCHANGED <<worker, pm>>
    BY <1>1 DEF TaskMoves
  <2> HIDE DEF TypeOK
  <2> QED
    BY <1>1, <2>1, MaskedTasks DEF PmMasked
<1>2. ASSUME NEW l \in WorkerLabels, WorkMoves(l)
      PROVE  IrqBalanced'
  BY <1>2 DEF WorkMoves, PmMasked
<1>3. ASSUME NEW l \in PmLabels, PmMoves(l)
      PROVE  IrqBalanced'
  BY <1>3 DEF PmMoves, PmMasked
<1>4. CASE OtherStep
  BY <1>4, OtherMove DEF PmMasked
<1>5. CASE Probe
  BY <1>5, RecoveryLabelSet
     DEF Probe, DevGoto, DevInv, TaskMasked, TaskLocked, WorkerMasked, PmMasked
<1>6. CASE UNCHANGED vars
  BY <1>6 DEF vars, PmMasked
<1> QED
  BY <1>1, <1>2, <1>3, <1>4, <1>5, <1>6, StepCases

(* open_count follows the devices that are open. *)
LEMMA OpenStep ==
  ASSUME TypeOK, OpenCounted, [Next]_vars
  PROVE  OpenCounted'
<1> USE DEF TypeOK, OpenCounted, inputVars
<1>1. IsFiniteSet(OpenInputs)
  BY InputsAssumption, FS_Subset DEF OpenInputs
<1>2. ASSUME UNCHANGED inputVars
      PROVE  OpenCounted'
  BY <1>2 DEF OpenInputs
<1>3. ASSUME NEW i \in Inputs, InputOpen(i)
      PROVE  OpenCounted'
  <2>1. OpenInputs' = OpenInputs \cup {i} /\ i \notin OpenInputs
    BY <1>3 DEF InputOpen, OpenInputs
  <2> QED
    BY <1>1, <1>3, <2>1, FS_AddElement DEF InputOpen
<1>4. ASSUME NEW i \in Inputs, InputClose(i)
      PROVE  OpenCounted'
  <2>1. OpenInputs' = OpenInputs \ {i} /\ i \in OpenInputs
    BY <1>4 DEF InputClose, OpenInputs
  <2> QED
    BY <1>1, <1>4, <2>1, FS_RemoveElement DEF InputClose
<1>5. ASSUME NEW i \in Inputs, InputCloseCancel(i)
      PROVE  OpenCounted'
  <2>1. OpenInputs' = OpenInputs
    BY <1>5 DEF InputCloseCancel, OpenInputs
  <2> QED
    BY <1>5, <2>1 DEF InputCloseCancel
<1>6. CASE Probe
  <2>1. OpenInputs' = {}
    BY <1>6 DEF Probe, OpenInputs
  <2> QED
    BY <1>6, <2>1, FS_EmptySet DEF Probe
<1>7. CASE Isr \/ Remove
  <2>1. UNCHANGED inputVars
    BY <1>7 DEF Isr, IsrFirmware, IsrStart, IsrReport, IsrReadError,
                IsrRecheck, IsrSchedule, Remove, RemoveSysfs, RemoveInputs,
                RemoveIrq, RemoveSupply, RemoveWork
  <2> QED
    BY <1>2, <2>1
<1>8. CASE \/ \E t \in Tasks : \E l \in TaskLabels : TaskMoves(t, l)
           \/ \E l \in WorkerLabels : WorkMoves(l)
           \/ \E l \in PmLabels : PmMoves(l)
           \/ UNCHANGED vars
  BY <1>2, <1>8 DEF TaskMoves, WorkMoves, PmMoves, vars
<1> QED
  BY <1>3, <1>4, <1>5, <1>6, <1>7, <1>8, StepCases DEF OtherStep, InputUse

(* No handler is started while the line is disabled or firmware awaited,   *)
(* and none is running when either begins.                                 *)
LEMMA IsrStep ==
  ASSUME TypeOK, LockInv, IrqBalanced, DevInv, IsrInv, [Next]_vars
  PROVE  IsrInv'
<1> USE DEF TypeOK, IsrInv, pmVars, workVars, taskVars, lockVars, fwVars
<1>0. /\ \A t \in Tasks : at[t] \in TaskMasked => irqDepth # 0
      /\ worker \in WorkerMasked \/ pm \in PmMasked => irqDepth # 0
  BY DEF IrqBalanced, One
<1>1. ASSUME NEW t \in Tasks, NEW l \in TaskLabels, TaskMoves(t, l)
      PROVE  IsrInv'
  <2>1. /\ \A u \in Tasks \ {t} : at'[u] = at[u]
        /\ at'[t] = l /\ isr' = isr
    BY <1>1 DEF TaskMoves
  <2>2. irqDepth' # 0 => isr' = "idle"
    BY <1>0, <1>1 DEF TaskMoves, MaskMove, One
  <2>3. inFwUpdate' <=> \E u \in Tasks : at'[u] \in FwLabels
    <3>1. FwLabels \subseteq TaskLocked
      BY DEF FwLabels, TaskLocked, TaskLabels
    <3>2. CASE UNCHANGED inFwUpdate /\ (at[t] \in FwLabels <=> l \in FwLabels)
      BY <2>1, <3>2
    <3>3. CASE at[t] \in TaskLocked /\ (inFwUpdate' <=> l \in FwLabels)
      BY <2>1, <3>1, <3>3 DEF LockInv
    <3> QED
      BY <1>1, <3>2, <3>3 DEF TaskMoves
  <2>4. l \in FwWindow => isr = "idle"
    <3>1. FwLabels \subseteq FwWindow \cup TaskMasked
      BY DEF FwLabels, FwWindow, TaskMasked, TaskLocked, TaskLabels
    <3> QED
      BY <1>0, <1>1, <3>1 DEF TaskMoves
  <2> QED
    BY <2>1, <2>2, <2>3, <2>4
<1>2. ASSUME NEW l \in WorkerLabels, WorkMoves(l)
      PROVE  IsrInv'
  BY <1>0, <1>2 DEF WorkMoves, MaskMove, One
<1>3. ASSUME NEW l \in PmLabels, PmMoves(l)
      PROVE  IsrInv'
  BY <1>0, <1>3 DEF PmMoves, MaskMove, One
<1>4. CASE OtherStep
  <2>1. UNCHANGED <<irqDepth, at, inFwUpdate>>
    BY <1>4, OtherMove
  <2>2. isr' # "idle" => isr # "idle" \/ (irqDepth = 0 /\ ~inFwUpdate)
    BY <1>4 DEF OtherStep, Isr, IsrFirmware, IsrStart, IsrReport, IsrReadError,
                IsrRecheck, IsrSchedule, InputUse, InputOpen, InputClose,
                InputCloseCancel, Remove, RemoveSysfs, RemoveInputs, RemoveIrq,
                RemoveSupply, RemoveWork
  <2>3. FwWindow \subseteq FwLabels
    BY DEF FwWindow, FwLabels
  <2>4. isr \in IsrLabels /\ isr' # "idle" => isr # "idle" \/ ~inFwUpdate
    BY <2>2
  <2> QED
    BY <2>1, <2>2, <2>3, <2>4
<1>5. CASE Probe
  BY <1>5 DEF Probe, DevGoto, DevInv, FwLabels, FwWindow
<1>6. CASE UNCHANGED vars
  BY <1>6 DEF vars
<1> QED
  BY <1>1, <1>2, <1>3, <1>4, <1>5, <1>6, StepCases

(* Nothing queues or runs the work between its cancellation and the end of *)
(* a suspend in the patch's order, which has disabled the interrupt first. *)
LEMMA PatchStep ==
  ASSUME TypeOK, IrqBalanced, DevInv, IsrInv, PatchInv, [Next]_vars
  PROVE  PatchInv'
<1> USE DEF TypeOK, PatchInv, PmMasked, pmVars, workVars
<1>1. ASSUME NEW t \in Tasks, NEW l \in TaskLabels, TaskMoves(t, l)
      PROVE  PatchInv'
  BY <1>1 DEF TaskMoves
<1>2. ASSUME NEW l \in WorkerLabels, WorkMoves(l)
      PROVE  PatchInv'
  BY <1>2 DEF WorkMoves
<1>3. ASSUME NEW l \in PmLabels, PmMoves(l)
      PROVE  PatchInv'
  BY <1>3 DEF PmMoves
<1>4. CASE OtherStep
  <2>1. UNCHANGED <<pm, worker>>
    BY <1>4, OtherMove
  <2>2. pm \in PmMasked => isr = "idle"
    BY DEF IsrInv, IrqBalanced, One
  <2>3. pending' => pending \/ isr = "schedule"
    BY <1>4 DEF OtherStep, Isr, IsrFirmware, IsrStart, IsrReport, IsrReadError,
                IsrRecheck, IsrSchedule, InputUse, InputOpen, InputClose,
                InputCloseCancel, Remove, RemoveSysfs, RemoveInputs, RemoveIrq,
                RemoveSupply, RemoveWork, CancelWorkSync
  <2> QED
    BY <2>1, <2>2, <2>3
<1>5. CASE Probe
  BY <1>5 DEF Probe, DevGoto
<1>6. CASE UNCHANGED vars
  BY <1>6 DEF vars
<1> QED
  BY <1>1, <1>2, <1>3, <1>4, <1>5, <1>6, StepCases

(* Only a suspend that may happen begins. *)
LEMMA AwakeStep ==
  ASSUME TypeOK, AwakeInv, [Next]_vars
  PROVE  AwakeInv'
<1> USE DEF AwakeInv
<1>1. ASSUME NEW l \in PmLabels, PmMoves(l)
      PROVE  AwakeInv'
  BY <1>1 DEF PmMoves
<1>2. CASE OtherStep
  BY <1>2, OtherMove
<1>3. CASE \/ \E t \in Tasks : \E l \in TaskLabels : TaskMoves(t, l)
           \/ \E l \in WorkerLabels : WorkMoves(l)
           \/ Probe \/ UNCHANGED vars
  <2>1. UNCHANGED pm
    BY <1>3 DEF TaskMoves, WorkMoves, Probe, DevGoto, vars, pmVars
  <2> QED
    BY <2>1
<1> QED
  BY <1>1, <1>2, <1>3, StepCases

(* Nobody but suspend and resume touches a sleeping controller. *)
LEMMA SleepStep ==
  ASSUME TypeOK, DevInv, PatchInv, SleepInv, [Next]_vars
  PROVE  SleepInv'
<1> USE DEF TypeOK, SleepInv, AsleepPower, pmVars, workVars, chipVars
<1>1. ASSUME NEW t \in Tasks, NEW l \in TaskLabels, TaskMoves(t, l)
      PROVE  SleepInv'
  BY <1>1 DEF TaskMoves, DevInv
<1>2. ASSUME NEW l \in WorkerLabels, WorkMoves(l)
      PROVE  SleepInv'
  BY <1>2 DEF WorkMoves, PatchInv, PmMasked
<1>3. ASSUME NEW l \in PmLabels, PmMoves(l)
      PROVE  SleepInv'
  BY <1>3 DEF PmMoves
<1>4. CASE Isr \/ \E i \in Inputs : InputUse(i)
  <2>1. UNCHANGED <<pm, wakeup, chipPower>>
    BY <1>4 DEF Isr, IsrFirmware, IsrStart, IsrReport, IsrReadError,
                IsrRecheck, IsrSchedule, InputUse, InputOpen, InputClose,
                InputCloseCancel
  <2> QED
    BY <2>1
<1>5. CASE Remove \/ Probe
  BY <1>5 DEF Remove, RemoveSysfs, RemoveInputs, RemoveIrq, RemoveSupply,
              RemoveWork, Probe, DevGoto
<1>6. CASE UNCHANGED vars
  BY <1>6 DEF vars
<1> QED
  BY <1>1, <1>2, <1>3, <1>4, <1>5, <1>6, StepCases DEF OtherStep

(* The work decides to recover only while a device is open, and the last   *)
(* close waits for a work that has so decided.                             *)
LEMMA DisarmedStep ==
  ASSUME TypeOK, DevInv, DisarmedWhenClosed, [Next]_vars
  PROVE  DisarmedWhenClosed'
<1> USE DEF TypeOK, DisarmedWhenClosed, WorkerControls, workVars, inputVars
<1>1. ASSUME NEW t \in Tasks, NEW l \in TaskLabels, TaskMoves(t, l)
      PROVE  DisarmedWhenClosed'
  BY <1>1 DEF TaskMoves
<1>2. ASSUME NEW l \in WorkerLabels, WorkMoves(l)
      PROVE  DisarmedWhenClosed'
  BY <1>2 DEF WorkMoves, WorkerArmed
<1>3. ASSUME NEW l \in PmLabels, PmMoves(l)
      PROVE  DisarmedWhenClosed'
  BY <1>3 DEF PmMoves
<1>4. CASE Isr \/ Remove
  <2>1. UNCHANGED <<worker, input, openCount>>
    BY <1>4 DEF Isr, IsrFirmware, IsrStart, IsrReport, IsrReadError,
                IsrRecheck, IsrSchedule, Remove, RemoveSysfs, RemoveInputs,
                RemoveIrq, RemoveSupply, RemoveWork, CancelWorkSync
  <2> QED
    BY <2>1
<1>5. ASSUME NEW i \in Inputs, InputUse(i)
      PROVE  DisarmedWhenClosed'
  <2>1. CASE InputOpen(i)
    BY <2>1 DEF InputOpen
  <2>2. CASE InputClose(i)
    BY <2>2 DEF InputClose
  <2>3. CASE InputCloseCancel(i)
    BY <2>3, RecoveryLabelSet DEF InputCloseCancel, CancelWorkSync
  <2> QED
    BY <1>5, <2>1, <2>2, <2>3 DEF InputUse
<1>6. CASE Probe
  BY <1>6, RecoveryLabelSet DEF Probe, DevGoto, DevInv
<1>7. CASE UNCHANGED vars
  BY <1>7 DEF vars
<1> QED
  BY <1>1, <1>2, <1>3, <1>4, <1>5, <1>6, <1>7, StepCases DEF OtherStep

---------------------------------------------------------------------------
(* Types *)

(* The counters start, and restart, within their types. *)
LEMMA Zeros == 0 \in 0 .. (RecoveriesWrap - 1) /\ 0 \in 0 .. MaxErrors
BY CountersAssumption

(* The data a step of elan_recover_locked changes keeps its type. *)
LEMMA RecoveryTypes ==
  ASSUME TypeOK, NEW phase, NEW next, RecoverLocked(phase, next)
  PROVE  /\ pressed' \in BOOLEAN /\ reportErrors' \in 0 .. MaxErrors
         /\ mode' \in SUBSET {"abs", "cal"}
         /\ chipMode' \in SUBSET {"abs", "cal"}
         /\ chipPower' \in {"on", "asleep", "off"}
<1> USE DEF TypeOK, chipVars
<1>1. CASE ReleaseInput(phase, next)
  BY <1>1, Zeros DEF ReleaseInput
<1>2. CASE Reinitialize(phase, next)
  BY <1>2 DEF Reinitialize, InitializeOk, InitializeFails
<1>3. CASE Verify(phase, next) \/ RestoreMode(phase, next)
  BY <1>3 DEF Verify, RestoreMode
<1> QED
  BY <1>1, <1>2, <1>3 DEF RecoverLocked

(* The types of the variables that no move speaks of. *)
DataOK ==
  /\ dev \in DevStates /\ wakeup \in BOOLEAN
  /\ isr \in IsrLabels /\ pending \in BOOLEAN
  /\ op \in [Tasks -> AllOps \cup {"none"}]
  /\ input \in [Inputs -> {"closed", "open", "closing"}]
  /\ reportErrors \in 0 .. MaxErrors
  /\ recoveries \in 0 .. (RecoveriesWrap - 1)
  /\ pressed \in BOOLEAN
  /\ mode \in SUBSET {"abs", "cal"} /\ chipMode \in SUBSET {"abs", "cal"}
  /\ chipPower \in {"on", "asleep", "off"}
  /\ inFwUpdate \in BOOLEAN /\ fwDone \in BOOLEAN
  /\ baselineReady \in BOOLEAN /\ baseline \in SUBSET {"max", "min"}

LEMMA DataTask ==
  ASSUME TypeOK, NEW t \in Tasks, Task(t)
  PROVE  DataOK'
<1> USE DEF TypeOK, DataOK, Goto, pmVars, workVars, inputVars, countVars,
        chipVars, fwVars, baseVars, lockVars, taskVars
<1>1. CASE TaskCall(t)
  BY <1>1, ChoiceAssumption DEF TaskCall
<1>2. CASE \/ TaskLock(t) \/ TaskInterrupted(t) \/ TaskShow(t) \/ TaskMask(t)
           \/ TaskUnmask(t) \/ TaskUnlock(t)
  BY <1>2 DEF TaskLock, TaskInterrupted, TaskShow, TaskMask, TaskUnmask,
              TaskUnlock
<1>3. CASE RecoverStore(t)
  BY <1>3, RecoveryTypes DEF RecoverStore
<1>4. CASE Calibrate(t)
  BY <1>4 DEF Calibrate, CalibrateOn, CalibrateRun, AcquireMax, AcquireMin,
              CalibrateOff
<1>5. CASE UpdateFirmware(t)
  BY <1>5 DEF UpdateFirmware, FirmwareFlash, FirmwareFinish, FirmwareReset,
              FirmwareWait, FirmwareMask, FirmwareEnd, FirmwareDone,
              InitializeOk, InitializeFails
<1> QED
  BY <1>1, <1>2, <1>3, <1>4, <1>5 DEF Task

(* watchdog_recoveries wraps around within its type. *)
LEMMA Wrap ==
  ASSUME NEW n \in 0 .. (RecoveriesWrap - 1)
  PROVE  (n + 1) % RecoveriesWrap \in 0 .. (RecoveriesWrap - 1)
<1>1. RecoveriesWrap \in Int /\ RecoveriesWrap > 0 /\ n + 1 \in Int
  BY CountersAssumption
<1> QED
  BY <1>1

LEMMA DataWork ==
  ASSUME TypeOK, Work
  PROVE  DataOK'
<1> USE DEF TypeOK, DataOK, pmVars, workVars, inputVars, countVars, chipVars,
        fwVars, baseVars, lockVars, taskVars
<1>1. CASE WorkStart \/ WorkLock \/ WorkDecide \/ WorkMask \/ WorkUnlock
  BY <1>1 DEF WorkStart, WorkLock, WorkDecide, WorkMask, WorkUnlock
<1>2. CASE WorkRecover
  BY <1>2, RecoveryTypes DEF WorkRecover
<1>3. CASE WorkFinish
  BY <1>3, Wrap DEF WorkFinish
<1> QED
  BY <1>1, <1>2, <1>3 DEF Work

LEMMA DataPm ==
  ASSUME TypeOK, Suspend \/ Resume
  PROVE  DataOK'
<1> USE DEF TypeOK, DataOK, pmVars, workVars, inputVars, countVars, chipVars,
        fwVars, baseVars, lockVars, taskVars, PmGoto, PmReturn
<1>1. CASE Suspend
  BY <1>1 DEF Suspend, SuspendBegin, SuspendCancel, SuspendLock,
              SuspendInterrupted, SuspendMask, SuspendPower, SuspendEnter,
              SuspendAbort, SuspendAbortUnlock, CancelWorkSync
<1>2. CASE Resume
  BY <1>2 DEF Resume, ResumeSupply, ResumePowerOn, ResumeInit, ResumeUnmask,
              InitializeOk, InitializeFails
<1> QED
  BY <1>1, <1>2

LEMMA DataOther ==
  ASSUME TypeOK, OtherStep \/ Probe \/ UNCHANGED vars
  PROVE  DataOK'
<1> USE DEF TypeOK, DataOK, pmVars, workVars, inputVars,
        countVars, chipVars, fwVars, baseVars, lockVars, taskVars
<1>1. CASE Isr
  <2>1. CASE IsrReadError
    <3>1. reportErrors' \in 0 .. MaxErrors
      BY <2>1, CountersAssumption DEF IsrReadError
    <3> QED
      BY <2>1, <3>1 DEF IsrReadError, IsrLabels
  <2>2. CASE IsrReport
    BY <2>2, Zeros DEF IsrReport, IsrLabels
  <2> QED
    BY <1>1, <2>1, <2>2 DEF Isr, IsrFirmware, IsrStart, IsrRecheck,
                            IsrSchedule, IsrLabels
<1>2. CASE \E i \in Inputs : InputUse(i)
  BY <1>2 DEF InputUse, InputOpen, InputClose, InputCloseCancel,
              CancelWorkSync
<1>3. CASE Remove
  BY <1>3 DEF Remove, DevGoto, DevStates, RemoveSysfs, RemoveInputs, RemoveIrq,
              RemoveSupply, RemoveWork, CancelWorkSync
<1>4. CASE Probe
  <2>1. /\ mode' \in SUBSET {"abs", "cal"}
        /\ chipMode' \in SUBSET {"abs", "cal"}
        /\ baseline' \in SUBSET {"max", "min"}
    BY <1>4 DEF Probe
  <2>2. input' \in [Inputs -> {"closed", "open", "closing"}]
    BY <1>4 DEF Probe
  <2> QED
    BY <1>4, <2>1, <2>2, Zeros DEF Probe, CountsCleared, DevGoto, DevStates
<1>5. CASE UNCHANGED vars
  BY <1>5 DEF vars
<1> QED
  BY <1>1, <1>2, <1>3, <1>4, <1>5 DEF OtherStep

(* The types of what the moves speak of. *)
MovesOK ==
  /\ at \in [Tasks -> TaskLabels] /\ worker \in WorkerLabels /\ pm \in PmLabels
  /\ mutex \in Tasks \cup {"free", "worker", "pm"}

(* The labels and the mutex keep their types by the moves, the counters by *)
(* the sets they count.                                                    *)
LEMMA TypeStep ==
  ASSUME TypeOK, IrqBalanced', OpenCounted', [Next]_vars
  PROVE  TypeOK'
<1>1. DataOK'
  BY DataTask, DataWork, DataPm, DataOther, StepCases
<1>2. MovesOK'
  <2> USE DEF TypeOK, MovesOK, LockMove, pmVars, workVars, taskVars, lockVars
  <2>1. ASSUME NEW t \in Tasks, NEW l \in TaskLabels, TaskMoves(t, l)
        PROVE  MovesOK'
    BY <2>1 DEF TaskMoves
  <2>2. ASSUME NEW l \in WorkerLabels, WorkMoves(l)
        PROVE  MovesOK'
    BY <2>2 DEF WorkMoves
  <2>3. ASSUME NEW l \in PmLabels, PmMoves(l)
        PROVE  MovesOK'
    BY <2>3 DEF PmMoves
  <2>4. CASE OtherStep
    BY <2>4, OtherMove
  <2>5. CASE Probe
    BY <2>5 DEF Probe, DevGoto
  <2>6. CASE UNCHANGED vars
    BY <2>6 DEF vars
  <2> QED
    BY <2>1, <2>2, <2>3, <2>4, <2>5, <2>6, StepCases
<1>3. irqDepth' \in Nat
  BY DEF IrqBalanced, One
<1>4. openCount' \in Nat
  <2>1. IsFiniteSet(OpenInputs')
    BY InputsAssumption, FS_Subset DEF OpenInputs
  <2> QED
    BY <2>1, FS_CardinalityType DEF OpenCounted
<1> QED
  BY <1>1, <1>2, <1>3, <1>4 DEF TypeOK, DataOK, MovesOK

---------------------------------------------------------------------------
(* Theorems *)

LEMMA InitInv ==
  ASSUME Init
  PROVE  DriverInv
<1> USE CountersAssumption, OwnerAssumption, RecoveryLabelSet DEF Init, Fresh
<1>1. TypeOK
  <2>1. /\ op \in [Tasks -> AllOps \cup {"none"}]
        /\ at \in [Tasks -> TaskLabels]
        /\ input \in [Inputs -> {"closed", "open", "closing"}]
    BY DEF TaskLabels
  <2>2. /\ mode \in SUBSET {"abs", "cal"} /\ chipMode \in SUBSET {"abs", "cal"}
        /\ baseline \in SUBSET {"max", "min"}
    OBVIOUS
  <2> QED
    BY <2>1, <2>2, Zeros DEF TypeOK, DevStates, PmLabels, IsrLabels,
                             WorkerLabels
<1>2. LockInv
  BY DEF LockInv, TaskLocked, WorkerLocked, PmLocked
<1>3. DevInv
  BY DEF DevInv
<1>4. IrqBalanced
  BY DEF IrqBalanced, One, TaskMasked, TaskLocked, WorkerMasked, PmMasked
<1>5. OpenCounted
  <2>1. OpenInputs = {}
    BY DEF OpenInputs
  <2> QED
    BY <2>1, FS_EmptySet DEF OpenCounted
<1>6. IsrInv
  BY DEF IsrInv, FwLabels, FwWindow
<1>7. PatchInv /\ AwakeInv
  BY DEF PatchInv, AwakeInv
<1>8. SleepInv
  BY DEF SleepInv
<1>9. DisarmedWhenClosed
  BY DEF DisarmedWhenClosed, WorkerControls
<1> QED
  BY <1>1, <1>2, <1>3, <1>4, <1>5, <1>6, <1>7, <1>8, <1>9 DEF DriverInv

LEMMA NextInv ==
  ASSUME DriverInv, [Next]_vars
  PROVE  DriverInv'
<1> USE DEF DriverInv
<1>1. LockInv' /\ DevInv'
  BY LockStep, DevStep
<1>2. IrqBalanced' /\ OpenCounted'
  BY <1>1, IrqStep, OpenStep
<1>3. TypeOK'
  BY <1>2, TypeStep
<1>4. IsrInv' /\ PatchInv' /\ AwakeInv' /\ SleepInv' /\ DisarmedWhenClosed'
  BY IsrStep, PatchStep, AwakeStep, SleepStep, DisarmedStep
<1> QED
  BY <1>1, <1>2, <1>3, <1>4

(* The inductive invariant holds in every reachable state. *)
THEOREM DriverInvariant == Spec => []DriverInv
<1>1. Init => DriverInv
  BY InitInv
<1>2. DriverInv /\ [Next]_vars => DriverInv'
  BY NextInv
<1> QED
  BY <1>1, <1>2, PTL DEF Spec

(* Every variable of the driver stays in its type; irq depth and open      *)
(* count never go below zero.                                              *)
THEOREM TypeCorrect == Spec => []TypeOK
<1>1. DriverInv => TypeOK
  BY DEF DriverInv
<1> QED
  BY <1>1, DriverInvariant, PTL

(* The interrupt line is disabled exactly while a recovery, calibration,   *)
(* firmware update, suspend or resume holds it: no path through these      *)
(* leaves it disabled, or enables it under another.                        *)
THEOREM IrqAlwaysBalanced == Spec => []IrqBalanced
<1>1. DriverInv => IrqBalanced
  BY DEF DriverInv
<1> QED
  BY <1>1, DriverInvariant, PTL

(* When elan_remove has returned nothing that uses the freed data is       *)
(* queued or running.                                                      *)
THEOREM FreedDataUnused == Spec => []NoUseAfterFree
<1>1. DriverInv => NoUseAfterFree
  BY DEF DriverInv, DevInv, NoUseAfterFree
<1> QED
  BY <1>1, DriverInvariant, PTL

(* Once the last close has returned elan_watchdog_work does not touch the  *)
(* controller.                                                             *)
THEOREM WatchdogDisarmed == Spec => []DisarmedWhenClosed
<1>1. DriverInv => DisarmedWhenClosed
  BY DEF DriverInv
<1> QED
  BY <1>1, DriverInvariant, PTL

---------------------------------------------------------------------------
(* Who drives the controller *)

(* Where the work cannot meet a sleeping controller: in the patch's order  *)
(* of suspend, or in a system that is not suspended.                       *)
Serialized == SuspendOrder = "patch" \/ "suspend" \notin Events

(* A task that drives the controller has the mutex, and no report is read. *)
LEMMA TaskDrives ==
  ASSUME DriverInv, NEW t \in Tasks, at[t] \in TaskControls
  PROVE  isr = "idle" /\ mutex = t /\ pm = "awake"
<1> USE DEF DriverInv, TypeOK
<1>1. at[t] \in TaskMasked \/ at[t] \in FwWindow
  BY DEF TaskControls, TaskMasked
<1>2. at[t] \in TaskMasked => irqDepth # 0
  BY DEF IrqBalanced, One
<1>3. at[t] \in TaskLocked /\ at[t] # "idle"
  BY DEF TaskControls, TaskLocked
<1> QED
  BY <1>1, <1>2, <1>3 DEF IsrInv, LockInv, DevInv

(* So has the work. *)
LEMMA WorkDrives ==
  ASSUME DriverInv, worker \in WorkerControls
  PROVE  isr = "idle" /\ mutex = "worker"
<1> USE RecoveryLabelSet DEF DriverInv, TypeOK
<1>1. worker \in WorkerMasked => irqDepth # 0
  BY DEF IrqBalanced, One
<1> QED
  BY <1>1 DEF WorkerControls, WorkerMasked, WorkerLocked, WorkerLabels,
              LockInv, IsrInv

(* Suspend and resume have the interrupt disabled and the tasks frozen.    *)
LEMMA PmDrives ==
  ASSUME DriverInv, pm \in PmControls
  PROVE  /\ isr = "idle" /\ pm # "awake" /\ \A t \in Tasks : at[t] = "idle"
         /\ pm \in PmMasked \ {"cancel"}
<1>1. pm \in PmMasked \ {"cancel"} /\ pm # "awake"
  BY DEF PmControls, PmMasked
<1>2. pm \in PmMasked => irqDepth # 0
  BY DEF DriverInv, TypeOK, IrqBalanced, One
<1> QED
  BY <1>1, <1>2 DEF DriverInv, IsrInv, DevInv

(* For either order of suspend: commands of two threads interleave only    *)
(* where the work recovers a controller that is asleep or being resumed.   *)
THEOREM OverlapIsConfined == Spec => []OverlapConfined
<1>1. DriverInv => OverlapConfined
  <2> SUFFICES ASSUME DriverInv
               PROVE  OverlapConfined
    OBVIOUS
  <2>1. ASSUME NEW t \in Tasks, at[t] \in TaskControls
        PROVE  /\ isr = "idle" /\ mutex = t
               /\ worker \notin WorkerControls /\ pm \notin PmControls
    BY <2>1, TaskDrives, WorkDrives, PmDrives, OwnerAssumption
  <2>2. worker \in WorkerControls =>
           isr = "idle" /\ mutex = "worker" /\ pm \notin PmLocked
    <3>1. pm \in PmLocked => mutex = "pm"
      BY DEF DriverInv, LockInv
    <3> QED
      BY <3>1, WorkDrives
  <2>3. pm \in PmControls => isr = "idle"
    BY PmDrives
  <2> QED
    BY <2>1, <2>2, <2>3, OwnerAssumption DEF OverlapConfined, Controls
<1> QED
  BY <1>1, DriverInvariant, PTL

(* Where suspend keeps the work out, the thread that suspends and resumes, *)
(* the watchdog work, the sysfs calls and the interrupt handler are never  *)
(* in the middle of two command sequences at once.                         *)
THEOREM SerializedExclusive ==
  ASSUME Serialized
  PROVE  Spec => []ControlExclusive
<1>1. DriverInv => ControlExclusive
  <2> SUFFICES ASSUME DriverInv
               PROVE  ControlExclusive
    OBVIOUS
  <2>1. ASSUME NEW t \in Tasks, at[t] \in TaskControls
        PROVE  /\ isr = "idle" /\ mutex = t
               /\ worker \notin WorkerControls /\ pm \notin PmControls
    BY <2>1, TaskDrives, WorkDrives, PmDrives, OwnerAssumption
  <2>2. worker \in WorkerControls => isr = "idle" /\ worker # "idle"
    BY WorkDrives, RecoveryLabelSet DEF WorkerControls
  <2>3. pm \in PmControls => isr = "idle" /\ worker = "idle"
    BY PmDrives DEF Serialized, DriverInv, PatchInv, AwakeInv
  <2>4. ASSUME NEW t \in Tasks, NEW u \in Tasks, at[t] \in TaskControls,
               at[u] \in TaskControls
        PROVE  t = u
    BY <2>1, <2>4
  <2> QED
    BY <2>1, <2>2, <2>3, <2>4, OwnerAssumption DEF ControlExclusive, Controls
<1> QED
  BY <1>1, DriverInvariant, PTL

---------------------------------------------------------------------------
(* Waiting *)

(* Who holds the mutex waits for nothing but the interrupt handler, which  *)
(* waits for nothing.                                                      *)
LEMMA HolderWaits ==
  ASSUME DriverInv, mutex \in Threads, NEW b, WaitsFor(mutex, b)
  PROVE  b = "isr"
<1> USE OwnerAssumption DEF DriverInv, TypeOK
<1>1. CASE mutex \in Tasks
  <2>1. at[mutex] \in TaskLocked
    BY <1>1 DEF LockInv
  <2>2. mutex \notin LockWaiters \cup WorkWaiters \cup {"pm", "removal"}
    BY <1>1, <2>1 DEF LockWaiters, WorkWaiters, Closing, TaskLocked
  <2> QED
    BY <2>2 DEF WaitsFor
<1>2. CASE mutex = "worker"
  <2>1. worker \in WorkerLocked
    BY <1>2 DEF LockInv
  <2>2. mutex \notin LockWaiters \cup WorkWaiters \cup {"pm", "removal"}
    BY <1>2, <2>1 DEF LockWaiters, WorkWaiters, Closing, WorkerLocked
  <2> QED
    BY <2>2 DEF WaitsFor
<1>3. CASE mutex = "pm"
  <2>1. pm \in PmLocked
    BY <1>3 DEF LockInv
  <2>2. mutex \notin LockWaiters \cup WorkWaiters \cup {"removal"}
    BY <1>3, <2>1 DEF LockWaiters, WorkWaiters, Closing, PmLocked
  <2>3. pm # "awake"
    BY <2>1 DEF PmLocked
  <2> QED
    BY <1>3, <2>2, <2>3 DEF WaitsFor
<1> QED
  BY <1>1, <1>2, <1>3 DEF Threads

(* The threads can be ordered so that each waits for an earlier one only:  *)
(* the interrupt handler, whoever holds the mutex, the work, tasks and     *)
(* inputs, suspend and resume, removal.                                    *)
THEOREM NobodyWaitsInCircles == Spec => []NoCircularWait
<1>1. DriverInv => NoCircularWait
  <2> SUFFICES ASSUME DriverInv, NEW S \in SUBSET Waiting, S # {},
                      \A a \in S : \E b \in S : WaitsFor(a, b)
               PROVE  FALSE
    BY DEF NoCircularWait
  <2>0. S \subseteq Threads /\ \A a \in S : \E b \in S : WaitsFor(a, b)
    BY DEF Waiting
  <2> USE OwnerAssumption DEF Closing
  <2>1. "isr" \notin S
    BY <2>0 DEF WaitsFor, LockWaiters, IsrWaiters, WorkWaiters
  <2>2. mutex \notin S
    BY <2>0, <2>1, HolderWaits
  <2>3. "worker" \notin S
    BY <2>0, <2>1, <2>2 DEF WaitsFor, LockWaiters, IsrWaiters, WorkWaiters
  <2>4. S \cap Tasks = {}
    BY <2>0, <2>1, <2>2 DEF WaitsFor, LockWaiters, IsrWaiters, WorkWaiters
  <2>5. S \cap Inputs = {}
    BY <2>0, <2>3 DEF WaitsFor, LockWaiters, IsrWaiters, WorkWaiters
  <2>6. "pm" \notin S
    BY <2>0, <2>1, <2>2, <2>3, <2>4, <2>5 DEF WaitsFor, InCalls
  <2>7. "removal" \notin S
    BY <2>0, <2>1, <2>2, <2>3, <2>4, <2>5, <2>6 DEF WaitsFor, InCalls, Unclosed
  <2> QED
    BY <2>0, <2>1, <2>3, <2>4, <2>5, <2>6, <2>7 DEF Threads
<1> QED
  BY <1>1, DriverInvariant, PTL

(* In the patch's order nothing wakes or resets a controller that suspend  *)
(* has put to sleep or cut off from its supply.                            *)
THEOREM PatchSleepUndisturbed ==
  ASSUME SuspendOrder = "patch"
  PROVE  Spec => []SleepUndisturbed
<1>1. DriverInv => SleepUndisturbed
  BY DEF DriverInv, SleepInv, AsleepPower, SleepUndisturbed
<1> QED
  BY <1>1, DriverInvariant, PTL

=============================================================================
