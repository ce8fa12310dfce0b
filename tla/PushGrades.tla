----------------------------- MODULE PushGrades -----------------------------
(* What the system promises a student who pushes to a task's branch (README.md:56-58), with *)
(* no queue, worker or retry in sight: a push that was accepted is given a grade on GitHub  *)
(* at most once, not before the task's hidden suite is frozen, and the grade stays.         *)
CONSTANTS Pushes, Verdicts, NoVerdict

VARIABLES
    accepted,   \* pushes whose delivery GitHub saw acknowledged, or that are being handled
    frozen,     \* the hidden suite is
    shown       \* what GitHub shows for the commit of each push

vars == <<accepted, frozen, shown>>

Init == accepted = {} /\ frozen = FALSE /\ shown = [p \in Pushes |-> NoVerdict]

Accept(p) == p \notin accepted /\ accepted' = accepted \cup {p} /\ UNCHANGED <<frozen, shown>>

Freeze == ~frozen /\ frozen' = TRUE /\ UNCHANGED <<accepted, shown>>

Show(p, v) ==
    /\ frozen /\ p \in accepted /\ shown[p] = NoVerdict
    /\ shown' = [shown EXCEPT ![p] = v]
    /\ UNCHANGED <<accepted, frozen>>

Next == Freeze \/ \E p \in Pushes : Accept(p) \/ \E v \in Verdicts : Show(p, v)

Spec == Init /\ [][Next]_vars
=============================================================================
