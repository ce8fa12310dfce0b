----------------------------- MODULE MCDrafting -----------------------------
(* Instances of Drafting for TLC. *)
EXTENDS Drafting

\* One suite of each kind that the gate tells apart.
Kinds == {<<"meets", "meets">>, <<"meets", "fails">>, <<"dies", "meets">>, <<"fails", "varies">>}

MCSuites == {[c \in Cases |-> IF c = 1 THEN k[1] ELSE k[2]] : k \in Kinds}
=============================================================================
