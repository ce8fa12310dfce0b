---------------------------- MODULE HiddenGrades ----------------------------
(***************************************************************************)
(* What hidden grading promises its readers, with no queue, worker, lease  *)
(* or crash in sight: a requested attempt gets at most one verdict, and    *)
(* the verdict, the row for the GitHub check and the row for the mentor    *)
(* appear together and never change.                                       *)
(***************************************************************************)
CONSTANTS Attempts, Verdicts, NoVerdict

VARIABLES
    requested,   \* attempts some push asked for
    verdict,     \* the grade on record
    published,   \* the grade handed to the check publisher
    notified     \* the grade handed to the mentor notifier

vars == <<requested, verdict, published, notified>>

Init ==
    /\ requested \in SUBSET Attempts
    /\ verdict = [a \in Attempts |-> NoVerdict]
    /\ published = verdict
    /\ notified = verdict

Request(a) ==
    /\ a \notin requested
    /\ requested' = requested \cup {a}
    /\ UNCHANGED <<verdict, published, notified>>

Decide(a, v) ==
    /\ a \in requested
    /\ verdict[a] = NoVerdict
    /\ verdict' = [verdict EXCEPT ![a] = v]
    /\ published' = [published EXCEPT ![a] = v]
    /\ notified' = [notified EXCEPT ![a] = v]
    /\ UNCHANGED requested

Next == \E a \in Attempts : Request(a) \/ \E v \in Verdicts : Decide(a, v)

Spec == Init /\ [][Next]_vars
=============================================================================
