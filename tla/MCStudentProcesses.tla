------------------------- MODULE MCStudentProcesses -------------------------
(* Instance of StudentProcesses for TLC. *)
EXTENDS StudentProcesses

LiveSpec == Spec /\ RunnerFairness
=============================================================================
