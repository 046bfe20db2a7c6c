------------------------ MODULE PolicyAgreement_proofs ------------------------
(***************************************************************************)
(* The languages agree on every piece of evidence, whatever its counts: no *)
(* case is left that the bounds of the model checker do not reach.         *)
(***************************************************************************)
EXTENDS PolicyAgreement, TLAPS

TypeOK == trace \in Traces /\ health \in Healths

(* The delta is unknown where a total is, and never negative otherwise. *)
LEMMA DeltaType ==
  ASSUME TypeOK
  PROVE  Delta = Unknown \/ Delta \in Nat
<1>1. /\ trace.first = Unknown \/ trace.first \in Nat
      /\ trace.last = Unknown \/ trace.last \in Nat
  BY BoundsAssumption DEF TypeOK, Traces
<1> QED
  BY <1>1 DEF Delta, IrqDelta, SaturatingSub, Unknown

LEMMA Types == Spec => []TypeOK
<1>1. Init => TypeOK
  BY DEF Init, TypeOK
<1>2. TypeOK /\ [Next]_vars => TypeOK'
  BY DEF TypeOK, Next, vars
<1> QED
  BY <1>1, <1>2, PTL DEF Spec

(* However many open inputs and errors there are, the policy the driver    *)
(* calls is the one of the library, Idris, Agda and Fortran.               *)
THEOREM WatchdogsAgree == Spec => []WatchdogPoliciesAgree
<1>1. TypeOK => WatchdogPoliciesAgree
  <2> SUFFICES ASSUME TypeOK
               PROVE  WatchdogPoliciesAgree
    OBVIOUS
  <2>1. /\ health.open \in Nat /\ health.errors \in Nat
        /\ health.probe \in {-1, 0}
    BY BoundsAssumption DEF TypeOK, Healths
  <2> DEFINE inUse == health.open > 0
             ok    == health.probe >= 0
  <2>2. CASE ~inUse
    BY <2>1, <2>2
       DEF WatchdogPoliciesAgree, WatchdogAction, UserWatchdogAction,
           IdrisWatchdog, AgdaWatchdog, FortranWatchdog
  <2>3. CASE inUse /\ ~ok
    BY <2>1, <2>3
       DEF WatchdogPoliciesAgree, WatchdogAction, UserWatchdogAction,
           IdrisWatchdog, AgdaWatchdog, FortranWatchdog
  <2>4. CASE inUse /\ ok
    BY <2>1, <2>4
       DEF WatchdogPoliciesAgree, WatchdogAction, UserWatchdogAction,
           IdrisWatchdog, AgdaWatchdog, FortranWatchdog
  <2> QED
    BY <2>2, <2>3, <2>4
<1> QED
  BY <1>1, Types, PTL

(* analyze_trace and the Idris reference give one verdict on every trace. *)
THEOREM DiagnosesAgree == Spec => []DiagnosisAgreesWithIdris
<1>1. TypeOK => DiagnosisAgreesWithIdris
  <2> SUFFICES ASSUME TypeOK
               PROVE  DiagnosisAgreesWithIdris
    OBVIOUS
  <2>1. /\ trace.bytes \in Nat
        /\ trace.motion \in BOOLEAN /\ trace.stalled \in BOOLEAN
    BY BoundsAssumption DEF TypeOK, Traces
  <2>2. CASE Delta = Unknown
    BY <2>1, <2>2
       DEF DiagnosisAgreesWithIdris, Verdict, Diagnose, IdrisDiagnose, Unknown
  <2>3. CASE Delta \in Nat
    BY <2>1, <2>3
       DEF DiagnosisAgreesWithIdris, Verdict, Diagnose, IdrisDiagnose, Unknown
  <2> QED
    BY <2>2, <2>3, DeltaType
<1> QED
  BY <1>1, Types, PTL

(* A trace with both IRQ totals is scored by Fortran, from its exported    *)
(* features, as the program diagnoses it.                                  *)
THEOREM ExportsAgree == Spec => []ExportScoresAlike
<1>1. TypeOK => ExportScoresAlike
  <2> SUFFICES ASSUME TypeOK, Delta # Unknown
               PROVE  ExportScoresAlike
    BY DEF ExportScoresAlike
  <2>1. /\ trace.bytes \in Nat
        /\ trace.motion \in BOOLEAN /\ trace.stalled \in BOOLEAN
    BY BoundsAssumption DEF TypeOK, Traces
  <2> QED
    BY <2>1, DeltaType
       DEF ExportScoresAlike, Verdict, Diagnose, FortranClassify,
           ExportedIrqDelta, Unknown
<1> QED
  BY <1>1, Types, PTL

=============================================================================
