------------------------------ MODULE MCGrading ------------------------------
(* Instance of Grading for TLC. *)
EXTENDS Grading

CONSTANTS Healthy,   \* attempts whose evaluation does not fail every time
          First      \* the worker that is left in the end

\* One fresh token is as good as another: the least one, of numbers.
LeastToken ==
    \A w \in Workers : worker'[w].token \notin {worker[w].token, NoToken} =>
        \A t \in Tokens : Fresh(t) => worker'[w].token <= t

\* Workers that meet need one attempt; one that is starved needs a second, and no second worker.
OneOrTheOther ==
    \/ \A w \in Workers \ {First} : worker'[w].pc = "down"
    \/ \E b \in Attempts : \A a \in Attempts \ {b} : grading'[a].state = "absent"

LiveSpec ==
    /\ Init /\ [][Next /\ LeastToken /\ OneOrTheOther]_vars
    /\ GradingFairness(First, Healthy)

\* A commit that can be graded at all is graded, although another, older one
\* fails every time it is tried: a failing attempt is put off, the last failure
\* parks it and starts its count again, and none is dropped.
HealthyGraded ==
    \A a \in Healthy : grading[a].state # "absent" ~> grading[a].state = "completed"
=============================================================================
