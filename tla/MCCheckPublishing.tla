-------------------------- MODULE MCCheckPublishing --------------------------
(* Instance of CheckPublishing for TLC. *)
EXTENDS CheckPublishing, TLC

CONSTANTS Healthy,   \* attempts GitHub does not refuse every time
          First,     \* the publisher that is left in the end
          a1, a2, c1, c2

OwnCommits == a1 :> c1 @@ a2 :> c2

\* One fresh token is as good as another: the least one, of numbers.
LeastToken ==
    \A p \in Publishers : publisher'[p].token \notin {publisher[p].token, NoToken} =>
        \A t \in Tokens : Fresh(t) => publisher'[p].token <= t

\* Publishers that meet need one publication; one that is starved needs a second, and no second
\* publisher.
OneOrTheOther ==
    \/ \A p \in Publishers \ {First} : publisher'[p].pc = "down"
    \/ \E b \in Attempts : \A a \in Attempts \ {b} : publications'[a].state = "absent"

LiveSpec ==
    /\ Init /\ [][Next /\ LeastToken /\ OneOrTheOther]_vars
    /\ PublishingFairness(First, Healthy)

\* The grade of an attempt GitHub accepts at all reaches GitHub, although an older
\* publication fails every time. (Two publishers, or a request that is carried out late, can
\* leave an attempt with two check runs, and _find then raises for ever.)
HealthyPublished ==
    [](OneAtATime /\ NothingLate) =>
        \A a \in Healthy : publications[a].state # "absent" ~> publications[a].state = "published"
=============================================================================
