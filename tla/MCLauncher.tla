----------------------------- MODULE MCLauncher -----------------------------
(* Instances of Launcher for TLC. *)
EXTENDS Launcher

LiveSpec == Spec /\ Fairness
=============================================================================
