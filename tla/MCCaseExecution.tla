-------------------------- MODULE MCCaseExecution ---------------------------
(* Instances of CaseExecution for TLC. *)
EXTENDS CaseExecution

AllKinds == Kinds
Exceptions == {"right", "raises", "raises_odd"}
Files == {"right", "wrong", "odd_file"}
Signals == {"right", "wrong", "signals"}

LiveSpec == CaseSpec /\ WorkerFairness
=============================================================================
