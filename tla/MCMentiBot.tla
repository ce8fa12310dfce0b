----------------------------- MODULE MCMentiBot -----------------------------
(* Instance of MentiBot for TLC. *)
EXTENDS MentiBot

TwoQuestions == 1..2

LiveSpec == MentiSpec /\ MentiFairness
=============================================================================
