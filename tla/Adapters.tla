------------------------------ MODULE Adapters ------------------------------
(* How a case runs the student's code (grader/contracts.py): "python_call" calls a      *)
(* function of it in a child that the grader has written, "cli" starts it as a program. *)
(* The adapter of a case does not change.                                               *)

VARIABLE adapter

Adapters == {"python_call", "cli"}
=============================================================================
