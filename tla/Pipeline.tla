------------------------------ MODULE Pipeline ------------------------------
(* The way of a push, through four queues and five processes: the delivery (Deliveries) is  *)
(* handled by enqueuing an attempt (Grading) if the suite of the task is ready (Authoring); *)
(* the transaction that completes the attempt inserts its publication (CheckPublishing).    *)
(* The modules' actions are joined where the code joins them, and interleave otherwise;     *)
(* each queue has its own clock.                                                            *)
EXTENDS Naturals, Sequences

CONSTANTS
    Pushes,             \* pushes to the branch of the task: each its delivery and attempt
    Task, Suites, NoSuite, NoToken, None,
    DeliveryTokens,     \* of the two threads that handle deliveries
    Tokens,             \* of the queues with one process each
    MaxAuthorAttempts, MaxGradingAttempts, MaxLate

ASSUME PipelineAssumption ==
    /\ NoToken \notin DeliveryTokens \cup Tokens
    /\ None \notin Pushes \cup {Task}
    /\ NoSuite \notin Suites
    /\ {MaxAuthorAttempts, MaxGradingAttempts} \subseteq Nat \ {0}
    /\ MaxLate \in Nat

VARIABLES
    rows, queue, finished, applied, thread,       \* Deliveries
    jobs, jobArrivals, clarifications, vault, author,   \* Authoring
    grading, arrivals, notifications, grader,     \* Grading
    checkRows, checkArrivals, publisher, checks, checkRuns, statuses, late,  \* CheckPublishing
    branch      \* the pushes whose commits the remote branch still contains

delivery == <<rows, queue, finished, applied, thread>>
authoring == <<jobs, jobArrivals, clarifications, vault, author>>
outbox == <<grading, arrivals, notifications, grader>>
publishing == <<checkRows, checkArrivals, publisher, checks, checkRuns, statuses, late>>
vars == <<delivery, authoring, outbox, publishing, branch>>

D == INSTANCE Deliveries WITH
        Tokens <- DeliveryTokens, Ids <- Pushes, Handlers <- {"http"}, Retrier <- "retrier", NoId <- None,
        RetryTicks <- 1, Retention <- 0, LeaseTicks <- 1

A == INSTANCE Authoring WITH
        Tasks <- {Task}, Workers <- {"author"}, Answers <- {}, NoTask <- None, NoAnswer <- None,
        MaxRevision <- 0, arrivals <- jobArrivals, worker <- author, LeaseTicks <- 1

\* The column passed of check_publications is what Grading knows of that table.
G == INSTANCE Grading WITH
        Attempts <- Pushes, Workers <- {"grader"}, NoAttempt <- None, RetryBase <- 1,
        RetryCap <- 1, worker <- grader, LeaseTicks <- 1,
        publications <- [p \in Pushes |-> checkRows[p].passed]

P == INSTANCE CheckPublishing WITH
        Attempts <- Pushes, Commits <- Pushes, CommitOf <- [p \in Pushes |-> p],
        Publishers <- {"publisher"}, NoAttempt <- None, RetryTicks <- 1,
        publications <- checkRows, arrivals <- checkArrivals, LeaseTicks <- 1

Init ==
    /\ D!Init /\ A!Init /\ P!Init /\ G!Init
    /\ arrivals = <<>>
    /\ branch = Pushes

-----------------------------------------------------------------------------
(* The bridge. *)

\* Mutant: the gateway does not look at the state of the job.
SuiteReady_ignored == jobs[Task].state # "absent"

\* SQLiteGraderGateway.enqueue_commit: state and suite_hash of the authoring job.
SuiteReady == jobs[Task].state = "ready" /\ jobs[Task].suite # NoSuite

\* Mutant: a push that cannot be enqueued yet is acknowledged.
HandlePush_drops(th) ==
    /\ D!Handle(th)
    /\ IF SuiteReady /\ grading[thread[th].id].state = "absent"
       THEN UNCHANGED publishing /\ G!Enqueue(thread[th].id) ELSE UNCHANGED <<outbox, publishing>>

\* _handle_push: enqueue_grading, which finds the attempt of a push that was handled before.
HandlePush(th) ==
    /\ D!Handle(th) /\ SuiteReady
    /\ IF grading[thread[th].id].state = "absent"
       THEN UNCHANGED publishing /\ G!Enqueue(thread[th].id) ELSE UNCHANGED <<outbox, publishing>>

Handling ==
    /\ \/ \E th \in D!Threads : HandlePush(th)
       \/ /\ \/ D!Arrive \/ D!Retry \/ D!Crash
             \/ \E th \in D!Threads :
                    D!Raise(th) \/ D!Complete(th) \/ D!Release(th) \/ D!Abandon(th)
          /\ UNCHANGED <<outbox, publishing>>
    /\ UNCHANGED <<authoring, branch>>

AuthorStep == A!WorkerStep("author")

Authors ==
    /\ A!Enqueue(Task) \/ AuthorStep \/ A!Crash("author") \/ A!PromoteCrashes("author")
    /\ UNCHANGED <<delivery, outbox, publishing, branch>>

-----------------------------------------------------------------------------
(* The grading worker. *)

\* GitProjectExporter.export: the commit is on the branch, or the attempt fails.
Evaluate == grader["grader"].attempt \in branch /\ \E v \in G!Verdicts : G!Evaluate("grader", v)

\* complete_grading: verdict, publication and notification in one transaction.
Complete ==
    /\ grader["grader"].pc = "graded"
    /\ UNCHANGED <<delivery, authoring, branch>>
    /\ P!Insert(grader["grader"].attempt, grader["grader"].verdict)
    /\ G!Complete("grader")

GraderStep ==
    \/ Complete
    \/ /\ UNCHANGED <<delivery, authoring, publishing, branch>>
       /\ \/ G!Start("grader") \/ Evaluate
          \/ \E p \in Pushes, k \in Tokens : G!Claim("grader", p, k)
          \/ G!InfrastructureFailure("grader") \/ G!CompleteFenced("grader")
          \/ G!Release("grader")

Grades == GraderStep \/ (UNCHANGED <<delivery, authoring, publishing, branch>> /\ G!Crash("grader"))

-----------------------------------------------------------------------------
(* Publishing; the student; time. *)

PublisherStep == P!PublisherStep("publisher")

Publishes ==
    /\ \/ PublisherStep \/ P!Crash("publisher")
       \/ \E p \in Pushes : P!CarryOutLate(p)
    /\ UNCHANGED <<delivery, authoring, outbox, branch>>

\* The branch is pushed with force, or deleted: the commit is not on it any more.
Rewrite ==
    /\ \E p \in branch : rows[p].state # "absent" /\ branch' = branch \ {p}
    /\ UNCHANGED <<delivery, authoring, outbox, publishing>>

\* Each queue ages on its own.
Tick ==
    /\ UNCHANGED branch
    /\ \/ D!Tick /\ UNCHANGED <<authoring, outbox, publishing>>
       \/ A!Tick /\ UNCHANGED <<delivery, outbox, publishing>>
       \/ UNCHANGED <<delivery, authoring, publishing>> /\ G!Tick
       \/ P!Tick /\ UNCHANGED <<delivery, authoring, outbox>>

Next == Handling \/ Authors \/ Grades \/ Publishes \/ Rewrite \/ Tick

Spec == Init /\ [][Next]_vars

-----------------------------------------------------------------------------
TypeOK == D!TypeOK /\ A!TypeOK /\ G!TypeOK /\ P!TypeOK /\ branch \subseteq Pushes

\* The bridge is done with a delivery of a push only when there is an attempt that grades it, in
\* the other database, whatever was retried, redelivered or lost to a crash in between.
PushIsNotLost == \A p \in Pushes : D!Done(p) => grading[p].state # "absent"

\* What GitHub shows for a push.
Shown(p) == IF checks THEN IF checkRuns[p] > 0 THEN checkRows[p].passed ELSE P!NoVerdict
            ELSE statuses[p]

\* An attempt exists, and a grade is shown, only for a task whose frozen suite is on disk, the
\* one that the job was settled with.
GradedAgainstFrozen ==
    \A p \in Pushes : grading[p].state # "absent" \/ Shown(p) # P!NoVerdict =>
        jobs[Task].state = "ready" /\ vault[Task] = jobs[Task].suite /\ vault[Task] # NoSuite

\* Four queues, five processes and GitHub do together what PushGrades says.
Abstract == INSTANCE PushGrades WITH
    Verdicts <- P!Verdicts, NoVerdict <- P!NoVerdict,
    accepted <- {p \in Pushes : rows[p].state # "absent"},
    frozen <- jobs[Task].state = "ready",
    shown <- [p \in Pushes |-> Shown(p)]

ImplementsPushGrades == Abstract!Spec

=============================================================================
