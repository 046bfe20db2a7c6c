------------------------------- MODULE MCDriver -------------------------------
(* Small instances of ElanDriver for TLC. *)
EXTENDS ElanDriver, TLC

TaskSymmetry  == Permutations(Tasks)
InputSymmetry == Permutations(Inputs)
Symmetry      == TaskSymmetry \cup InputSymmetry

=============================================================================
