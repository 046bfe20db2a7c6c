------------------------ MODULE GuardianRebind_proofs ------------------------
(***************************************************************************)
(* No program leaves a controller behind, for any number of controllers,   *)
(* commands and bind attempts.  Attended is inductive once it is known     *)
(* that the activation still has before it what it found bound             *)
(* (Undertaken); TypeOK gives the domains of the programs' variables.  The  *)
(* monitor's use of its snapshot is proved where it runs alone.            *)
(***************************************************************************)
EXTENDS GuardianRebind, TLAPS

(* What the activation is about to unbind is among what it found bound. *)
Undertaken ==
  "activator" \in Services =>
    /\ at["activator"] \in {"act_check", "act_unbind"}
         => todo["activator"] \subseteq unbinds
    /\ at["activator"] = "act_unbind" => target["activator"] \in unbinds

AttendedInv == TypeOK /\ Undertaken /\ Attended

USE DEF Programs, Absent

---------------------------------------------------------------------------
(* Types *)

LEMMA InitType == Init => TypeOK
<1> SUFFICES ASSUME Init PROVE TypeOK
  OBVIOUS
<1> USE BoundsAssumption DEF Init
<1>1. PICK c \in Controllers : target = [p \in Programs |-> c]
  OBVIOUS
<1>2. tries \in [Programs -> 0 .. BindTries - 1]
  OBVIOUS
<1>3. count \in [Controllers -> 0 .. MaxCount]
  OBVIOUS
<1>4. /\ snap \in [Controllers -> {Absent} \cup 0 .. MaxCount]
      /\ seen \in [Controllers -> {Absent} \cup 0 .. MaxCount]
  OBVIOUS
<1>5. at \in [Programs -> CommandLabels \cup ActiveLabels]
  BY DEF CommandLabels
<1> QED  BY <1>1, <1>2, <1>3, <1>4, <1>5 DEF TypeOK

(* A program that succeeds keeps every type but the kernel's. *)
LEMMA SucceedType ==
  ASSUME TypeOK, NEW p \in Programs, NEW from, Succeed(p, from), UNCHANGED kernelVars
  PROVE  TypeOK'
<1>1. at' \in [Programs -> CommandLabels \cup ActiveLabels]
  BY DEF Succeed, Goto, TypeOK, CommandLabels
<1>2. target[p] \in Controllers
  BY DEF TypeOK
<1>3. seen' \in [Controllers -> {Absent} \cup 0 .. MaxCount] /\ quiet' \in BOOLEAN
  <2>1. CASE p = "monitor"
    BY <1>2, <2>1, BoundsAssumption DEF Succeed, TypeOK
  <2>2. CASE p # "monitor"
    BY <2>2 DEF Succeed, TypeOK
  <2> QED  BY <2>1, <2>2
<1> QED  BY <1>1, <1>3 DEF Succeed, TypeOK, activeVars, kernelVars

LEMMA TypeStep == TypeOK /\ [Next]_vars => TypeOK'
<1> SUFFICES ASSUME TypeOK, [Next]_vars PROVE TypeOK'
  OBVIOUS
<1> USE ServicesAssumption, CommandsAssumption, BoundsAssumption
    DEF TypeOK, Goto, kernelVars, programVars,
      monitorVars, activeVars, CommandLabels, ActiveLabels
<1>1. ASSUME NEW c \in Controllers, KernelRecovery(c) PROVE TypeOK'
  BY <1>1 DEF KernelRecovery
<1>2. ASSUME NEW c \in Controllers, AutoProbe(c) PROVE TypeOK'
  BY <1>2 DEF AutoProbe, ProbeOk, ProbeFails
<1>3. ASSUME NEW p \in Programs, CommandStart(p) PROVE TypeOK'
  BY <1>3 DEF CommandStart
<1>4. ASSUME NEW p \in Programs, InPlace(p) PROVE TypeOK'
  BY <1>4 DEF InPlace, Move, Fail
<1>5. ASSUME NEW p \in Programs, InPlaceWrite(p) PROVE TypeOK'
  BY <1>5 DEF InPlaceWrite, Move
<1>6. ASSUME NEW p \in Programs, InPlaceNodes(p) PROVE TypeOK'
  BY <1>6, SucceedType DEF InPlaceNodes, Move
<1>7. ASSUME NEW p \in Programs, RebindCheck(p) PROVE TypeOK'
  BY <1>7 DEF RebindCheck, Move, Fail
<1>8. ASSUME NEW p \in Programs, RebindUnbind(p) PROVE TypeOK'
  BY <1>8 DEF RebindUnbind, Move, Fail
<1>9. ASSUME NEW p \in Programs, RebindGone(p) PROVE TypeOK'
  BY <1>9 DEF RebindGone, Fail
<1>10. ASSUME NEW p \in Programs, RebindBind(p) PROVE TypeOK'
  BY <1>10 DEF RebindBind, BindAgain, ProbeOk, ProbeFails, Move, Fail
<1>11. ASSUME NEW p \in Programs, RebindAttached(p) PROVE TypeOK'
  BY <1>11, SucceedType DEF RebindAttached, Fail
<1>12. ASSUME NEW p \in Programs, CommandNext(p) PROVE TypeOK'
  BY <1>12 DEF CommandNext
<1>13. ASSUME "monitor" \in Services, MonitorScan PROVE TypeOK'
  BY <1>13 DEF MonitorScan
<1>14. ASSUME "monitor" \in Services, NEW c \in Controllers, MonitorObserve(c)
       PROVE  TypeOK'
  BY <1>14 DEF MonitorObserve
<1>15. ASSUME "monitor" \in Services, NEW c \in Controllers, MonitorStall(c)
       PROVE  TypeOK'
  BY <1>15 DEF MonitorStall
<1>16. ASSUME "monitor" \in Services, MonitorEnd PROVE TypeOK'
  BY <1>16 DEF MonitorEnd
<1>17. ASSUME "activator" \in Services, ActivateStart PROVE TypeOK'
  <2>1. at' \in [Programs -> CommandLabels \cup ActiveLabels]
    BY <1>17 DEF ActivateStart, AGoto
  <2>2. todo' \in [Programs -> SUBSET Controllers] /\ unbinds' \subseteq Controllers
    BY <1>17 DEF ActivateStart, ATodo
  <2>3. UNCHANGED <<kernelVars, target, how, tries, monitorVars>> /\ failed' \in BOOLEAN
    BY <1>17 DEF ActivateStart, AGoto
  <2> QED  BY <2>1, <2>2, <2>3
<1>18. ASSUME "activator" \in Services, ActivateCheck PROVE TypeOK'
  BY <1>18 DEF ActivateCheck, AGoto, ATodo
<1>19. ASSUME "activator" \in Services, ActivateUnbind PROVE TypeOK'
  BY <1>19 DEF ActivateUnbind, AGoto, ATodo
<1>20. ASSUME "activator" \in Services, ActivateUnbound PROVE TypeOK'
  BY <1>20 DEF ActivateUnbound, AGoto, ATodo
<1>21. ASSUME "activator" \in Services, ActivateRemove PROVE TypeOK'
  BY <1>21 DEF ActivateRemove, AGoto, ATodo
<1>22. ASSUME "activator" \in Services, ActivateRestore PROVE TypeOK'
  BY <1>22 DEF ActivateRestore, ProbeOk, ProbeFails, AGoto, ATodo
<1>23. ASSUME "activator" \in Services, ActivateLoad PROVE TypeOK'
  BY <1>23 DEF ActivateLoad, AGoto, ATodo
<1>24. ASSUME "activator" \in Services, ActivateWait PROVE TypeOK'
  BY <1>24 DEF ActivateWait, AGoto, ATodo
<1>25. CASE UNCHANGED vars
  BY <1>25 DEF vars
<1> QED
  BY <1>1, <1>2, <1>3, <1>4, <1>5, <1>6, <1>7, <1>8, <1>9, <1>10, <1>11,
     <1>12, <1>13, <1>14, <1>15, <1>16, <1>17, <1>18, <1>19, <1>20, <1>21,
     <1>22, <1>23, <1>24, <1>25
  DEF Next, Continue, Recover, Rebind, Monitor, Activate

---------------------------------------------------------------------------
(* What the activation has undertaken *)

(* Only the activation's own steps can disturb it. *)
LEMMA UndertakenKept ==
  ASSUME Undertaken,
         UNCHANGED unbinds,
         "activator" \in Services =>
           /\ at'["activator"] = at["activator"]
           /\ todo'["activator"] = todo["activator"]
           /\ target'["activator"] = target["activator"]
  PROVE  Undertaken'
  BY DEF Undertaken

LEMMA UndertakenStep == TypeOK /\ Undertaken /\ [Next]_vars => Undertaken'
<1> SUFFICES ASSUME TypeOK, Undertaken, [Next]_vars PROVE Undertaken'
  OBVIOUS
<1> USE ServicesAssumption, CommandsAssumption
    DEF TypeOK, Goto, kernelVars, programVars,
      monitorVars, activeVars
<1>1. ASSUME NEW c \in Controllers, KernelRecovery(c) \/ AutoProbe(c)
       PROVE  Undertaken'
  BY <1>1, UndertakenKept DEF KernelRecovery, AutoProbe
<1>2. ASSUME NEW p \in Programs \ {"activator"}, InPlace(p) PROVE Undertaken'
  BY <1>2, UndertakenKept DEF InPlace, Move, Fail
<1>3. ASSUME NEW p \in Programs \ {"activator"}, InPlaceWrite(p)
       PROVE  Undertaken'
  BY <1>3, UndertakenKept DEF InPlaceWrite, Move
<1>4. ASSUME NEW p \in Programs \ {"activator"}, InPlaceNodes(p)
       PROVE  Undertaken'
  BY <1>4, UndertakenKept DEF InPlaceNodes, Succeed, Move
<1>5. ASSUME NEW p \in Programs \ {"activator"}, RebindCheck(p)
       PROVE  Undertaken'
  BY <1>5, UndertakenKept DEF RebindCheck, Move, Fail
<1>6. ASSUME NEW p \in Programs \ {"activator"}, RebindUnbind(p)
       PROVE  Undertaken'
  BY <1>6, UndertakenKept DEF RebindUnbind, Move, Fail
<1>7. ASSUME NEW p \in Programs \ {"activator"}, RebindGone(p) PROVE Undertaken'
  BY <1>7, UndertakenKept DEF RebindGone, Fail
<1>8. ASSUME NEW p \in Programs \ {"activator"}, RebindBind(p) PROVE Undertaken'
  BY <1>8, UndertakenKept
  DEF RebindBind, BindAgain, ProbeOk, ProbeFails, Move, Fail
<1>9. ASSUME NEW p \in Programs \ {"activator"}, RebindAttached(p)
       PROVE  Undertaken'
  BY <1>9, UndertakenKept DEF RebindAttached, Succeed, Fail
<1>10. ASSUME NEW p \in Programs \ {"activator"}, CommandNext(p)
       PROVE  Undertaken'
  BY <1>10, UndertakenKept DEF CommandNext
<1>11. ASSUME NEW p \in Programs \ {"activator"}, CommandStart(p)
       PROVE  Undertaken'
  BY <1>11, UndertakenKept DEF CommandStart
<1>12. ASSUME Monitor PROVE Undertaken'
  BY <1>12, UndertakenKept
  DEF Monitor, MonitorScan, MonitorEnd, MonitorObserve, MonitorStall
<1>13. ASSUME "activator" \in Services, ActivateStart PROVE Undertaken'
  BY <1>13 DEF Undertaken, ActivateStart, AGoto, ATodo
<1>14. ASSUME "activator" \in Services, ActivateCheck PROVE Undertaken'
  BY <1>14 DEF Undertaken, ActivateCheck, AGoto, ATodo
<1>15. ASSUME "activator" \in Services, ActivateUnbind PROVE Undertaken'
  BY <1>15 DEF Undertaken, ActivateUnbind, AGoto, ATodo
<1>16. ASSUME "activator" \in Services, ActivateUnbound PROVE Undertaken'
  BY <1>16 DEF Undertaken, ActivateUnbound, AGoto, ATodo
<1>17. ASSUME "activator" \in Services, ActivateRemove PROVE Undertaken'
  BY <1>17 DEF Undertaken, ActivateRemove, AGoto, ATodo
<1>18. ASSUME "activator" \in Services, ActivateRestore PROVE Undertaken'
  BY <1>18 DEF Undertaken, ActivateRestore, AGoto, ATodo
<1>19. ASSUME "activator" \in Services, ActivateLoad PROVE Undertaken'
  BY <1>19 DEF Undertaken, ActivateLoad, AGoto, ATodo
<1>20. ASSUME "activator" \in Services, ActivateWait PROVE Undertaken'
  BY <1>20 DEF Undertaken, ActivateWait, AGoto, ATodo
<1>21. CASE UNCHANGED vars
  BY <1>21, UndertakenKept DEF vars
<1> QED
  BY <1>1, <1>2, <1>3, <1>4, <1>5, <1>6, <1>7, <1>8, <1>9, <1>10, <1>11,
     <1>12, <1>13, <1>14, <1>15, <1>16, <1>17, <1>18, <1>19, <1>20, <1>21
  DEF Next, Continue, Recover, Rebind, Activate

---------------------------------------------------------------------------
(* Attended *)

LEMMA AttendedStep == AttendedInv /\ [Next]_vars => Attended'
<1> SUFFICES ASSUME TypeOK, Undertaken, Attended, [Next]_vars PROVE Attended'
  BY DEF AttendedInv
<1> USE ServicesAssumption, CommandsAssumption
    DEF TypeOK, Goto, kernelVars, programVars,
      monitorVars, activeVars
<1>1. ASSUME NEW c \in Controllers, KernelRecovery(c) \/ AutoProbe(c)
       PROVE  Attended'
  BY <1>1 DEF Attended, Binds, KernelRecovery, AutoProbe, ProbeOk, ProbeFails
<1>2. ASSUME NEW p \in Programs \ {"activator"}, InPlace(p) PROVE Attended'
  BY <1>2 DEF Attended, Binds, InPlace, Move, Fail
<1>3. ASSUME NEW p \in Programs \ {"activator"}, InPlaceWrite(p) PROVE Attended'
  BY <1>3 DEF Attended, Binds, InPlaceWrite, Move
<1>4. ASSUME NEW p \in Programs \ {"activator"}, InPlaceNodes(p) PROVE Attended'
  BY <1>4 DEF Attended, Binds, InPlaceNodes, Succeed, Move
<1>5. ASSUME NEW p \in Programs \ {"activator"}, RebindCheck(p) PROVE Attended'
  BY <1>5 DEF Attended, Binds, RebindCheck, Move, Fail
<1>6. ASSUME NEW p \in Programs \ {"activator"}, RebindUnbind(p) PROVE Attended'
  BY <1>6 DEF Attended, Binds, RebindUnbind, Move, Fail
<1>7. ASSUME NEW p \in Programs \ {"activator"}, RebindGone(p) PROVE Attended'
  BY <1>7 DEF Attended, Binds, RebindGone, Fail
<1>8. ASSUME NEW p \in Programs \ {"activator"}, RebindBind(p) PROVE Attended'
  BY <1>8
  DEF Attended, Binds, RebindBind, BindAgain, ProbeOk, ProbeFails, Move, Fail
<1>9. ASSUME NEW p \in Programs \ {"activator"}, RebindAttached(p)
       PROVE  Attended'
  BY <1>9 DEF Attended, Binds, RebindAttached, Succeed, Fail
<1>10. ASSUME NEW p \in Programs \ {"activator"}, CommandNext(p) PROVE Attended'
  BY <1>10 DEF Attended, Binds, CommandNext
<1>11. ASSUME NEW p \in Programs \ {"activator"}, CommandStart(p)
       PROVE  Attended'
  BY <1>11 DEF Attended, Binds, CommandStart
<1>12. ASSUME Monitor PROVE Attended'
  BY <1>12
  DEF Attended, Binds, Monitor, MonitorScan, MonitorEnd, MonitorObserve, MonitorStall
<1>13. ASSUME "activator" \in Services, ActivateStart PROVE Attended'
  BY <1>13
  DEF Undertaken, Attended, Binds, ProbeOk, ProbeFails, ActivateStart, AGoto, ATodo
<1>14. ASSUME "activator" \in Services, ActivateCheck PROVE Attended'
  BY <1>14
  DEF Undertaken, Attended, Binds, ProbeOk, ProbeFails, ActivateCheck, AGoto, ATodo
<1>15. ASSUME "activator" \in Services, ActivateUnbind PROVE Attended'
  BY <1>15
  DEF Undertaken, Attended, Binds, ProbeOk, ProbeFails, ActivateUnbind, AGoto, ATodo
<1>16. ASSUME "activator" \in Services, ActivateUnbound PROVE Attended'
  BY <1>16
  DEF Undertaken, Attended, Binds, ProbeOk, ProbeFails, ActivateUnbound, AGoto, ATodo
<1>17. ASSUME "activator" \in Services, ActivateRemove PROVE Attended'
  BY <1>17
  DEF Undertaken, Attended, Binds, ProbeOk, ProbeFails, ActivateRemove, AGoto, ATodo
<1>18. ASSUME "activator" \in Services, ActivateRestore PROVE Attended'
  BY <1>18
  DEF Undertaken, Attended, Binds, ProbeOk, ProbeFails, ActivateRestore, AGoto, ATodo
<1>19. ASSUME "activator" \in Services, ActivateLoad PROVE Attended'
  BY <1>19
  DEF Undertaken, Attended, Binds, ProbeOk, ProbeFails, ActivateLoad, AGoto, ATodo
<1>20. ASSUME "activator" \in Services, ActivateWait PROVE Attended'
  BY <1>20
  DEF Undertaken, Attended, Binds, ProbeOk, ProbeFails, ActivateWait, AGoto, ATodo
<1>21. CASE UNCHANGED vars
  BY <1>21 DEF Attended, Binds, vars
<1> QED
  BY <1>1, <1>2, <1>3, <1>4, <1>5, <1>6, <1>7, <1>8, <1>9, <1>10, <1>11,
     <1>12, <1>13, <1>14, <1>15, <1>16, <1>17, <1>18, <1>19, <1>20, <1>21
  DEF Next, Continue, Recover, Rebind, Activate

LEMMA AttendedInvariant == Spec => []AttendedInv
<1>1. Init => AttendedInv
  BY InitType DEF AttendedInv, Init, Undertaken, Attended
<1>2. AttendedInv /\ [Next]_vars => AttendedInv'
  BY TypeStep, UndertakenStep, AttendedStep DEF AttendedInv
<1> QED  BY <1>1, <1>2, PTL DEF Spec

(* Every variable stays in its type, the number of bind attempts within    *)
(* the five of rebind_controller.                                          *)
THEOREM RebindTypeCorrect == Spec => []TypeOK
<1>1. AttendedInv => TypeOK
  BY DEF AttendedInv
<1> QED  BY <1>1, AttendedInvariant, PTL

(* However many recover commands, with the monitor and the activation, get *)
(* in each other's way over the sysfs bind files, an unbound controller is *)
(* still to be bound by one of them or by the driver core, unless its last *)
(* probe failed or no driver is loaded.                                    *)
THEOREM NoneLeftBehind == Spec => []Attended
<1>1. AttendedInv => Attended
  BY DEF AttendedInv
<1> QED  BY <1>1, AttendedInvariant, PTL

---------------------------------------------------------------------------
(* The monitor alone *)

(* While it goes through the controllers it scanned, they stay bound, with *)
(* at least the recoveries it read; it rebinds none of those still to come. *)
SnapshotHolds ==
  /\ \A c \in Controllers : seen[c] >= 0
  /\ \A c \in todo["monitor"] : c \in bound /\ 0 <= snap[c] /\ snap[c] <= count[c]
  /\ at["monitor"] \notin {"idle", "next"} => target["monitor"] \notin todo["monitor"]

LEMMA SnapshotStep ==
  ASSUME Commands = {}, Services = {"monitor"}, TypeOK, SnapshotHolds, [Next]_vars
  PROVE  SnapshotHolds'
<1> USE BoundsAssumption
    DEF TypeOK, SnapshotHolds, Goto, kernelVars, programVars,
      monitorVars, activeVars
<1>1. ASSUME NEW c \in Controllers, KernelRecovery(c) PROVE SnapshotHolds'
  BY <1>1 DEF KernelRecovery
<1>2. ASSUME NEW c \in Controllers, AutoProbe(c) PROVE SnapshotHolds'
  BY <1>2 DEF AutoProbe, ProbeOk, ProbeFails
<1>3. ASSUME InPlace("monitor") PROVE SnapshotHolds'
  BY <1>3 DEF InPlace, Move, Fail
<1>4. ASSUME InPlaceWrite("monitor") PROVE SnapshotHolds'
  BY <1>4 DEF InPlaceWrite, Move
<1>5. ASSUME InPlaceNodes("monitor") PROVE SnapshotHolds'
  BY <1>5 DEF InPlaceNodes, Succeed, Move
<1>6. ASSUME RebindCheck("monitor") PROVE SnapshotHolds'
  BY <1>6 DEF RebindCheck, Move, Fail
<1>7. ASSUME RebindUnbind("monitor") PROVE SnapshotHolds'
  BY <1>7 DEF RebindUnbind, Move, Fail
<1>8. ASSUME RebindGone("monitor") PROVE SnapshotHolds'
  BY <1>8 DEF RebindGone, Fail
<1>9. ASSUME RebindBind("monitor") PROVE SnapshotHolds'
  BY <1>9 DEF RebindBind, BindAgain, ProbeOk, ProbeFails, Move, Fail
<1>10. ASSUME RebindAttached("monitor") PROVE SnapshotHolds'
  BY <1>10 DEF RebindAttached, Succeed, Fail
<1>11. ASSUME MonitorScan PROVE SnapshotHolds'
  BY <1>11 DEF MonitorScan
<1>12. ASSUME NEW c \in Controllers, MonitorObserve(c) PROVE SnapshotHolds'
  BY <1>12 DEF MonitorObserve
<1>13. ASSUME NEW c \in Controllers, MonitorStall(c) PROVE SnapshotHolds'
  BY <1>13 DEF MonitorStall
<1>14. ASSUME MonitorEnd PROVE SnapshotHolds'
  BY <1>14 DEF MonitorEnd
<1>15. CASE UNCHANGED vars
  BY <1>15 DEF vars
<1> QED
  BY <1>1, <1>2, <1>3, <1>4, <1>5, <1>6, <1>7, <1>8, <1>9, <1>10, <1>11,
     <1>12, <1>13, <1>14, <1>15
  DEF Next, CommandStart, Continue, CommandNext, Recover, Rebind, Monitor, Activate

(* observe_recovery: when nobody else rebinds, the monitor rebinds a       *)
(* controller for its counter only if the kernel has recovered it since it *)
(* was probed, and it is still bound.                                      *)
THEOREM RebindsOnlyRecovered ==
  ASSUME Commands = {}, Services = {"monitor"}
  PROVE  Spec => OnlyRecovered
<1> DEFINE Inv == TypeOK /\ SnapshotHolds
           Recovered ==
             at["monitor"] = "next" /\ at'["monitor"] = "check" /\ todo["monitor"] # {}
               => /\ target'["monitor"] \in bound
                  /\ count[target'["monitor"]] > 0
<1>1. Init => Inv
  BY InitType DEF Init, SnapshotHolds
<1>2. Inv /\ [Next]_vars => Inv'
  BY TypeStep, SnapshotStep
<1>3. Inv /\ [Next]_vars => [Recovered]_vars
  <2> SUFFICES ASSUME Inv, Next PROVE Recovered
    OBVIOUS
  <2> USE BoundsAssumption DEF TypeOK, Goto, kernelVars, programVars
  <2>1. ASSUME NEW c \in Controllers, KernelRecovery(c) \/ AutoProbe(c) PROVE Recovered
    BY <2>1 DEF KernelRecovery, AutoProbe
  <2>2. ASSUME Recover("monitor") \/ Rebind("monitor") PROVE Recovered
    BY <2>2 DEF Recover, Rebind, InPlace, InPlaceWrite, InPlaceNodes, RebindCheck,
       RebindUnbind, RebindGone, RebindBind, RebindAttached, BindAgain, Move, Fail, Succeed
  <2>3. ASSUME Monitor PROVE Recovered
    BY <2>3 DEF Monitor, MonitorScan, MonitorObserve, MonitorStall, MonitorEnd, SnapshotHolds
  <2> QED
    BY <2>1, <2>2, <2>3 DEF Next, CommandStart, Continue, CommandNext, Activate
<1> QED  BY <1>1, <1>2, <1>3, PTL DEF Spec, OnlyRecovered

---------------------------------------------------------------------------
(* The kernel's counters *)

(* Unbinding takes the attribute away. *)
LEMMA CounterRemoved ==
  ASSUME TypeOK, NEW c \in Controllers, UNCHANGED count, bound' \subseteq bound
  PROVE  [Counter(c)!Next]_(Counter(c)!vars)
BY BoundsAssumption
   DEF TypeOK, Counter!Next, Counter!Remove, Counter!Absent, Counter!vars

(* A probe starts the count of one unbound controller, if it succeeds. *)
LEMMA CounterProbed ==
  ASSUME TypeOK, NEW c \in Controllers, NEW d \in Controllers \ bound,
         ProbeOk(d) \/ ProbeFails(d)
  PROVE  [Counter(c)!Next]_(Counter(c)!vars)
BY DEF TypeOK, ProbeOk, ProbeFails, Counter!Next, Counter!Probe,
       Counter!Absent, Counter!vars

(* However many programs unbind and bind, a controller's counter starts at *)
(* zero with each probe and goes up by one with each recovery: no more is  *)
(* assumed of it than the driver is proved to keep (DriverKeepsCounter).   *)
THEOREM CounterAssumed == Spec => AssumesCounter
<1> DEFINE Counts == \A c \in Controllers : [Counter(c)!Next]_(Counter(c)!vars)
<1>1. Init => \A c \in Controllers : Counter(c)!Init
  BY DEF Init, Counter!Init
<1>2. TypeOK /\ [Next]_vars => [Counts]_vars
  <2> SUFFICES ASSUME TypeOK, Next, NEW c \in Controllers
               PROVE  [Counter(c)!Next]_(Counter(c)!vars)
    OBVIOUS
  <2>1. ASSUME NEW d \in Controllers, KernelRecovery(d)
        PROVE  [Counter(c)!Next]_(Counter(c)!vars)
    BY <2>1, BoundsAssumption
    DEF TypeOK, KernelRecovery, Counter!Next, Counter!Recover, Counter!Absent,
        Counter!vars
  <2>2. ASSUME UNCHANGED count, bound' \subseteq bound
        PROVE  [Counter(c)!Next]_(Counter(c)!vars)
    BY <2>2, CounterRemoved
  <2>3. ASSUME NEW d \in Controllers, d \notin bound, ProbeOk(d) \/ ProbeFails(d)
        PROVE  [Counter(c)!Next]_(Counter(c)!vars)
    BY <2>3, CounterProbed
  <2>4. ASSUME NEW d \in Controllers, AutoProbe(d)
        PROVE  [Counter(c)!Next]_(Counter(c)!vars)
    BY <2>2, <2>3, <2>4 DEF AutoProbe
  <2>5. ASSUME NEW p \in Programs, Continue(p) \/ CommandStart(p)
        PROVE  [Counter(c)!Next]_(Counter(c)!vars)
    <3>1. CASE RebindBind(p)
      BY <2>2, <2>3, <3>1 DEF RebindBind, TypeOK
    <3>2. CASE ~RebindBind(p)
      BY <2>2, <2>5, <3>2
      DEF Continue, Recover, Rebind, InPlace, InPlaceWrite, InPlaceNodes,
          RebindCheck, RebindUnbind, RebindGone, RebindAttached, CommandNext,
          CommandStart, kernelVars
    <3> QED  BY <3>1, <3>2
  <2>6. CASE Monitor
    BY <2>2, <2>6
    DEF Monitor, MonitorScan, MonitorObserve, MonitorStall, MonitorEnd, kernelVars
  <2>7. CASE Activate
    <3>1. CASE ActivateRestore
      <4>1. todo["activator"] \subseteq Controllers
        BY <2>7 DEF Activate, TypeOK
      <4> QED  BY <2>2, <2>3, <3>1, <4>1 DEF ActivateRestore
    <3>2. CASE ~ActivateRestore
      BY <2>2, <2>7, <3>2
      DEF Activate, ActivateStart, ActivateCheck, ActivateUnbind, ActivateUnbound,
          ActivateRemove, ActivateLoad, ActivateWait, kernelVars
    <3> QED  BY <3>1, <3>2
  <2> QED  BY <2>1, <2>4, <2>5, <2>6, <2>7 DEF Next
<1> QED
  BY <1>1, <1>2, RebindTypeCorrect, PTL DEF Spec, AssumesCounter

---------------------------------------------------------------------------
(* A command comes to an end *)

(* How far a label is from the end of one controller. *)
Distance(l) ==
  CASE l = "inplace"  -> 9
    [] l = "write"    -> 8
    [] l = "nodes"    -> 7
    [] l = "check"    -> 6
    [] l = "unbind"   -> 5
    [] l = "gone"     -> 4
    [] l = "bind"     -> 3
    [] l = "attached" -> 2
    [] l = "next"     -> 1
    [] OTHER -> 0

Position(p) == <<at[p], todo[p], tries[p]>>

(* The command has fewer controllers before it, or is nearer to the end of *)
(* this one, or has made one of its attempts to bind it.                   *)
Nearer(p) ==
  \/ todo'[p] \subseteq todo[p] /\ todo'[p] # todo[p]
  \/ todo'[p] \subseteq todo[p] /\ Distance(at'[p]) < Distance(at[p])
  \/ /\ todo'[p] = todo[p] /\ at[p] = "bind" /\ at'[p] = "bind"
     /\ tries'[p] = tries[p] + 1 /\ tries'[p] < BindTries

(* Each of its own steps does so, and nobody else's moves it. *)
Advances(p) ==
  at[p] # "idle" => IF Continue(p) THEN Nearer(p) ELSE UNCHANGED Position(p)

(* A step of another program leaves the command where it is. *)
LEMMA OthersLeave ==
  ASSUME NEW p \in Commands, TypeOK, [Next]_vars, ~Continue(p), at[p] # "idle"
  PROVE  UNCHANGED Position(p)
<1> USE ServicesAssumption, CommandsAssumption
    DEF TypeOK, Goto, kernelVars, programVars, Position
<1>1. p # "monitor" /\ p # "activator" /\ p \in Programs
  OBVIOUS
<1>2. ASSUME NEW c \in Controllers, KernelRecovery(c) \/ AutoProbe(c)
      PROVE  UNCHANGED Position(p)
  BY <1>2 DEF KernelRecovery, AutoProbe
<1>3. ASSUME NEW q \in Programs, q # p, CommandStart(q)
      PROVE  UNCHANGED Position(p)
  BY <1>3 DEF CommandStart
<1>4. ASSUME NEW q \in Programs, q # p, Recover(q) PROVE UNCHANGED Position(p)
  BY <1>4 DEF Recover, InPlace, InPlaceWrite, InPlaceNodes, Move, Fail, Succeed
<1>5. ASSUME NEW q \in Programs, q # p, Rebind(q) PROVE UNCHANGED Position(p)
  BY <1>5 DEF Rebind, RebindCheck, RebindUnbind, RebindGone, RebindBind,
     RebindAttached, BindAgain, Move, Fail, Succeed
<1>6. ASSUME NEW q \in Programs, q # p, CommandNext(q) PROVE UNCHANGED Position(p)
  BY <1>6 DEF CommandNext
<1>7. CASE Monitor
  BY <1>1, <1>7 DEF Monitor, MonitorScan, MonitorObserve, MonitorStall, MonitorEnd
<1>8. CASE Activate
  BY <1>1, <1>8
  DEF Activate, ActivateStart, ActivateCheck, ActivateUnbind, ActivateUnbound,
      ActivateRemove, ActivateRestore, ActivateLoad, ActivateWait, AGoto, ATodo
<1>9. ~CommandStart(p)
  BY DEF CommandStart
<1>10. CASE UNCHANGED vars
  BY <1>10 DEF vars
<1> QED
  BY <1>2, <1>3, <1>4, <1>5, <1>6, <1>7, <1>8, <1>9, <1>10 DEF Next, Continue

(* A step of its own leads on. *)
LEMMA MoveNearer ==
  ASSUME NEW p \in Commands, TypeOK
  PROVE  /\ \A from, to : Move(p, from, to) /\ Distance(to) < Distance(from)
                         => Nearer(p)
         /\ \A from : Succeed(p, from) /\ Distance("next") < Distance(from)
                     => Nearer(p)
         /\ \A from : Fail(p, from) /\ Distance("idle") < Distance(from)
                     => Nearer(p)
BY CommandsAssumption DEF Nearer, Move, Succeed, Fail, Goto, TypeOK

LEMMA Distances ==
  /\ Distance("inplace") = 9 /\ Distance("write") = 8 /\ Distance("nodes") = 7
  /\ Distance("check") = 6 /\ Distance("unbind") = 5 /\ Distance("gone") = 4
  /\ Distance("bind") = 3 /\ Distance("attached") = 2 /\ Distance("next") = 1
  /\ Distance("idle") = 0
BY DEF Distance

LEMMA ContinueNearer ==
  ASSUME NEW p \in Commands, TypeOK, Continue(p)
  PROVE  Nearer(p)
<1> USE Distances
<1>1. CASE InPlace(p)
  BY <1>1, MoveNearer DEF InPlace
<1>2. CASE InPlaceWrite(p)
  BY <1>2, MoveNearer DEF InPlaceWrite
<1>3. CASE InPlaceNodes(p)
  BY <1>3, MoveNearer DEF InPlaceNodes
<1>4. CASE RebindCheck(p)
  BY <1>4, MoveNearer DEF RebindCheck
<1>5. CASE RebindUnbind(p)
  BY <1>5, MoveNearer DEF RebindUnbind
<1>6. CASE RebindGone(p)
  <2>1. CASE Fail(p, "gone")
    BY <2>1, MoveNearer
  <2>2. CASE Goto(p, "gone", "bind") /\ UNCHANGED todo
    BY <2>2 DEF Goto, TypeOK, Nearer
  <2> QED  BY <1>6, <2>1, <2>2 DEF RebindGone
<1>7. CASE RebindBind(p)
  <2>1. CASE Fail(p, "bind") \/ Move(p, "bind", "attached")
    BY <2>1, MoveNearer
  <2>2. CASE /\ at[p] = "bind" /\ tries[p] + 1 < BindTries
             /\ tries' = [tries EXCEPT ![p] = @ + 1] /\ UNCHANGED <<at, todo>>
    BY <2>2 DEF TypeOK, Nearer
  <2> QED  BY <1>7, <2>1, <2>2 DEF RebindBind, BindAgain
<1>8. CASE RebindAttached(p)
  BY <1>8, MoveNearer DEF RebindAttached
<1>9. CASE CommandNext(p)
  <2>1. CASE \E c \in todo[p] : todo' = [todo EXCEPT ![p] = @ \ {c}]
    BY <2>1 DEF TypeOK, Nearer
  <2>2. CASE Goto(p, "next", "idle") /\ UNCHANGED todo
    BY <2>2 DEF Goto, TypeOK, Nearer
  <2> QED  BY <1>9, <2>1, <2>2 DEF CommandNext
<1> QED
  BY <1>1, <1>2, <1>3, <1>4, <1>5, <1>6, <1>7, <1>8, <1>9
  DEF Continue, Recover, Rebind

(* Whatever the other programs bind and unbind meanwhile, a recover        *)
(* command is never sent back: its steps go through its controllers, the   *)
(* labels of each and at most BindTries attempts, in this order, and no    *)
(* other program moves it.  What is left of RebindReturns is that the      *)
(* steps are taken.                                                        *)
THEOREM CommandsOnlyAdvance ==
  Spec => [][\A p \in Commands : Advances(p)]_vars
<1>1. TypeOK /\ [Next]_vars => [\A p \in Commands : Advances(p)]_vars
  BY OthersLeave, ContinueNearer DEF Advances
<1> QED  BY <1>1, RebindTypeCorrect, PTL DEF Spec

=============================================================================
