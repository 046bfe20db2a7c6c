--------------------------- MODULE PolicyAgreement ---------------------------
(***************************************************************************)
(* Differential check of the policies of ElanPolicy: every language of the *)
(* repository must decide the same for the same evidence.  The state is    *)
(* one piece of evidence; steps move to another.                           *)
(***************************************************************************)
EXTENDS ElanPolicy

CONSTANTS MaxIrqs, MaxBytes, MaxOpen, MaxStreak

ASSUME BoundsAssumption == {MaxIrqs, MaxBytes, MaxOpen, MaxStreak} \subseteq Nat

VARIABLES
  trace,   \* what a recording holds: IRQ totals at both ends, bytes, flags
  health   \* what the watchdog knows: open count, probe status, error streak

vars == <<trace, health>>

Traces == [first : {Unknown} \cup 0 .. MaxIrqs, last : {Unknown} \cup 0 .. MaxIrqs,
           bytes : 0 .. MaxBytes, motion : BOOLEAN, stalled : BOOLEAN]
Healths == [open : 0 .. MaxOpen, probe : {-1, 0}, errors : 0 .. MaxStreak]

Init == trace \in Traces /\ health \in Healths

Next == \/ trace' \in Traces /\ UNCHANGED health
        \/ health' \in Healths /\ UNCHANGED trace

Spec == Init /\ [][Next]_vars

---------------------------------------------------------------------------

Delta == IrqDelta(trace.first, trace.last)

Verdict == Diagnose(Delta, trace.bytes, trace.motion, trace.stalled)

(* The watchdog policy of the kernel module, called with the threshold the *)
(* driver passes, is the policy of the library, Idris, Agda and Fortran.   *)
WatchdogPoliciesAgree ==
  LET kernel == WatchdogAction(health.open, health.probe, health.errors, 3)
      inUse  == health.open > 0
      ok     == health.probe >= 0
  IN /\ kernel = UserWatchdogAction(inUse, ok, health.errors)
     /\ kernel = IdrisWatchdog(inUse, ok, health.errors)
     /\ kernel = FortranWatchdog(inUse, ok, health.errors)
     /\ kernel = AgdaWatchdog(IF inUse THEN "opened" ELSE "closed",
                              IF ok THEN "reachable" ELSE "unreachable",
                              IF health.errors >= 3 THEN "failureLimit"
                                                    ELSE "healthy")

(* analyze_trace gives the verdict of the Idris reference for every trace. *)
DiagnosisAgreesWithIdris ==
  Verdict = IdrisDiagnose(IF Delta = Unknown THEN 0 ELSE Delta, trace.bytes,
                          trace.motion, trace.stalled, Delta # Unknown)

(* As long as both ends have an IRQ total, Fortran scores the exported     *)
(* features of a trace as the program diagnoses the trace.                 *)
ExportScoresAlike ==
  Delta # Unknown =>
    FortranClassify(ExportedIrqDelta(Delta), trace.bytes, trace.motion,
                    trace.stalled) = Verdict

=============================================================================
