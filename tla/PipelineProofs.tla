--------------------------- MODULE PipelineProofs ---------------------------
(***************************************************************************)
(* Proofs about module Pipeline, for any set of pushes, suites and tokens  *)
(* and any number of tries: what the proofs about its four parts say of    *)
(* them holds in the whole, and what only the whole says.                  *)
(***************************************************************************)
EXTENDS Pipeline, TLAPS

-----------------------------------------------------------------------------
(* The parts, with what is proved about them.                              *)

DP == INSTANCE DeliveriesProofs WITH
        Tokens <- DeliveryTokens, Ids <- Pushes, Handlers <- {"http"}, Retrier <- "retrier",
        NoId <- None, RetryTicks <- 1, Retention <- 0, LeaseTicks <- 1

AP == INSTANCE AuthoringProofs WITH
        Tasks <- {Task}, Workers <- {"author"}, Answers <- {}, NoTask <- None, NoAnswer <- None,
        MaxRevision <- 0, arrivals <- jobArrivals, worker <- author, LeaseTicks <- 1

GP == INSTANCE GradingProofs WITH
        Attempts <- Pushes, Workers <- {"grader"}, NoAttempt <- None, RetryBase <- 1,
        RetryCap <- 1, worker <- grader, LeaseTicks <- 1,
        publications <- [p \in Pushes |-> checkRows[p].passed]

PP == INSTANCE CheckPublishingProofs WITH
        Attempts <- Pushes, Commits <- Pushes, CommitOf <- [p \in Pushes |-> p],
        Publishers <- {"publisher"}, NoAttempt <- None, RetryTicks <- 1,
        publications <- checkRows, arrivals <- checkArrivals, LeaseTicks <- 1

-----------------------------------------------------------------------------
(* The inductive invariant.                                                *)

\* There is an attempt exactly for the pushes whose handler has returned.
AttemptIffApplied == \A p \in Pushes : grading[p].state # "absent" <=> p \in applied

\* No attempt before the suite is ready.
SuiteFirst == \A p \in Pushes : grading[p].state # "absent" => jobs[Task].state = "ready"

Parts ==
    /\ DP!IInv /\ DP!QueueTyped /\ DP!Known
    /\ AP!IInv
    /\ GP!IInv
    /\ PP!IInv /\ PP!Asked
    /\ branch \subseteq Pushes

IInv == Parts /\ AttemptIffApplied /\ SuiteFirst

-----------------------------------------------------------------------------
(* The parts' assumptions hold of the values Pipeline gives them.           *)

LEMMA DeliveriesSound == DP!LeasesAssumption /\ DP!DeliveriesAssumption
  BY PipelineAssumption DEF DP!LeasesAssumption, DP!DeliveriesAssumption

LEMMA AuthoringSound == AP!LeasesAssumption /\ AP!AuthoringAssumption
  BY PipelineAssumption DEF AP!LeasesAssumption, AP!AuthoringAssumption

LEMMA GradingSound == GP!LeasesAssumption /\ GP!GradingAssumption
  BY PipelineAssumption DEF GP!LeasesAssumption, GP!GradingAssumption

LEMMA PublishingSound == PP!LeasesAssumption /\ PP!PublishingAssumption
  BY PipelineAssumption DEF PP!LeasesAssumption, PP!PublishingAssumption

-----------------------------------------------------------------------------
(* One module instantiated twice: D, A, G and P are their proof modules' selves. *)

LEMMA SameInit == Init => DP!Init /\ AP!Init /\ GP!Init /\ PP!Init
  BY DEF Init, D!Init, DP!Init, D!Gone, DP!Gone, D!NeverReleased, DP!NeverReleased, D!Idle,
     DP!Idle, D!Threads, DP!Threads, A!Init, AP!Init, A!At, AP!At, G!Init, GP!Init, G!Blank,
     GP!Blank, G!NoVerdict, GP!NoVerdict, G!At, GP!At, P!Init, PP!Init, P!At, PP!At,
     P!NoVerdict, PP!NoVerdict

LEMMA InitInv == Init => IInv
  <1> SUFFICES ASSUME Init PROVE IInv
    OBVIOUS
  <1>1. DP!IInv /\ DP!QueueTyped /\ DP!Known
    BY SameInit, DeliveriesSound, DP!InitInv, DP!InitKnown DEF DP!Init, DP!QueueTyped
  <1>2. AP!IInv
    BY SameInit, AuthoringSound, AP!InitInv
  <1>3. GP!IInv
    BY SameInit, GradingSound, GP!InitInv
  <1>4. PP!IInv /\ PP!Asked
    BY SameInit, PublishingSound, PP!InitInv, PP!InitAsked
  <1>5. AttemptIffApplied /\ SuiteFirst
    BY DEF Init, G!Init, G!Blank, D!Init, AttemptIffApplied, SuiteFirst
  <1> QED
    BY <1>1, <1>2, <1>3, <1>4, <1>5 DEF IInv, Parts, Init

-----------------------------------------------------------------------------
(* A step of the whole is a step of each part, or none.                    *)

LEMMA AuthoringStep == [Next]_vars => [A!Next]_(A!vars) /\ [AP!Next]_(AP!vars)
  <1> SUFFICES ASSUME [Next]_vars PROVE [A!Next]_(A!vars) /\ [AP!Next]_(AP!vars)
    OBVIOUS
  <1>1. CASE UNCHANGED authoring
    BY <1>1 DEF authoring, A!vars, A!store, AP!vars, AP!store
  <1>2. CASE Authors \/ A!Tick
    <2>1. A!Next
      BY <1>2 DEF Authors, AuthorStep, A!Next
    <2>2. A!Next => AP!Next
      BY DEF A!Next, AP!Next, A!Enqueue, AP!Enqueue, A!Answer, AP!Answer, A!WorkerStep,
         AP!WorkerStep, A!Crash, AP!Crash, A!PromoteCrashes, AP!PromoteCrashes, A!Tick, AP!Tick,
         A!Start, AP!Start, A!Claim, AP!Claim, A!Draft, AP!Draft, A!NeedAnswer, AP!NeedAnswer,
         A!Accept, AP!Accept, A!Object, AP!Object, A!Raise, AP!Raise, A!Ask, AP!Ask, A!Reject,
         AP!Reject, A!Promote, AP!Promote, A!PromoteRaises, AP!PromoteRaises, A!PromoteConflict,
         AP!PromoteConflict, A!Fenced, AP!Fenced, A!HandleFailure, AP!HandleFailure,
         A!HandleFailureRaises, AP!HandleFailureRaises, A!At, AP!At, A!store, AP!store,
         A!Oldest, AP!Oldest, A!Goto, AP!Goto, A!Torn, AP!Torn, A!Mine, AP!Mine, A!Frozen,
         AP!Frozen, A!Owned, AP!Owned, A!Claimable, AP!Claimable, A!Expired, AP!Expired,
         A!Fresh, AP!Fresh, A!Settled, AP!Settled, A!AfterTry, AP!AfterTry, A!Down, AP!Down,
         A!Before, AP!Before
    <2> QED
      BY <2>1, <2>2
  <1> QED
    BY <1>1, <1>2 DEF Next, Handling, Grades, GraderStep, Complete, Publishes, Rewrite, Tick, vars

LEMMA DeliveriesStep == [Next]_vars => [D!Next]_(D!vars) /\ [DP!Next]_(DP!vars)
  <1> SUFFICES ASSUME [Next]_vars PROVE [D!Next]_(D!vars) /\ [DP!Next]_(DP!vars)
    OBVIOUS
  <1>1. CASE UNCHANGED delivery
    BY <1>1 DEF delivery, D!vars, DP!vars
  <1>2. CASE Handling \/ D!Tick
    <2>1. D!Next
      BY <1>2 DEF Handling, HandlePush, D!Next, D!Work, D!Process
    <2>2. D!Next => DP!Next
      BY DEF D!Next, DP!Next, D!Work, DP!Work, D!Arrive, DP!Arrive, D!Retry, DP!Retry, D!Process,
         DP!Process, D!Crash, DP!Crash, D!Tick, DP!Tick, D!Receive, DP!Receive, D!RetryClaim,
         DP!RetryClaim, D!Take, DP!Take, D!Fresh, DP!Fresh, D!Placed, DP!Placed, D!Without,
         DP!Without, D!Retriable, DP!Retriable, D!Handle, DP!Handle, D!Raise, DP!Raise,
         D!Complete, DP!Complete, D!Release, DP!Release, D!Abandon, DP!Abandon, D!Mine, DP!Mine,
         D!ReleaseDelay, DP!ReleaseDelay, D!Goto, DP!Goto, D!Idle, DP!Idle, D!Gone, DP!Gone,
         D!Threads, DP!Threads, D!NeverReleased, DP!NeverReleased, D!Owned, DP!Owned,
         D!Expired, DP!Expired, D!Down, DP!Down
    <2> QED
      BY <2>1, <2>2
  <1> QED
    BY <1>1, <1>2 DEF Next, Authors, Grades, GraderStep, Complete, Publishes, Rewrite, Tick, vars

\* The transaction that completes an attempt inserts a verdict for an attempt there is.
LEMMA PublishingStep == GP!IInv /\ [Next]_vars => [P!Next]_(P!vars) /\ [PP!Next]_(PP!vars)
  <1> SUFFICES ASSUME GP!IInv, [Next]_vars PROVE [P!Next]_(P!vars) /\ [PP!Next]_(PP!vars)
    OBVIOUS
  <1>1. CASE UNCHANGED publishing
    BY <1>1 DEF publishing, P!vars, P!store, P!github, PP!vars, PP!store, PP!github
  <1>2. CASE Publishes \/ P!Tick \/ Complete
    <2>1. P!Next
      <3>1. CASE Complete
        <4>1. grader["grader"].attempt \in Pushes /\ grader["grader"].verdict \in GP!Verdicts
          BY <3>1 DEF Complete, GP!IInv, GP!WorkerShape, GP!Busy
        <4> QED
          BY <3>1, <4>1 DEF Complete, P!Next, P!Work, GP!Verdicts, P!Verdicts
      <3> QED
        BY <1>2, <3>1 DEF Publishes, PublisherStep, P!Next, P!Work
    <2>2. P!Next => PP!Next
      BY DEF P!Next, PP!Next, P!Work, PP!Work, P!Insert, PP!Insert, P!PublisherStep,
         PP!PublisherStep, P!Crash, PP!Crash, P!CarryOutLate, PP!CarryOutLate, P!Tick, PP!Tick,
         P!Start, PP!Start, P!Claim, PP!Claim, P!Find, PP!Find, P!Post, PP!Post, P!PostFails,
         PP!PostFails, P!Patch, PP!Patch, P!RequestFails, PP!RequestFails, P!Complete,
         PP!Complete, P!Release, PP!Release, P!Verdicts, PP!Verdicts, P!At, PP!At, P!Goto,
         PP!Goto, P!store, PP!store, P!github, PP!github, P!Claimable, PP!Claimable, P!Fresh,
         PP!Fresh, P!Mine, PP!Mine, P!CarriedOut, PP!CarriedOut, P!Unanswered, PP!Unanswered,
         P!Oldest, PP!Oldest, P!Before, PP!Before, P!Due, PP!Due, P!Expired, PP!Expired,
         P!Owned, PP!Owned, P!Aged, PP!Aged, P!Down, PP!Down
    <2> QED
      BY <2>1, <2>2
  <1> QED
    BY <1>1, <1>2 DEF Next, Handling, HandlePush, Authors, Grades, GraderStep, Rewrite, Tick, vars

\* The publisher, GitHub and the clock insert no publication and change no verdict.
LEMMA PublishesDelivers ==
    ASSUME PP!IInv, PP!Asked, GP!IInv, [Next]_vars, Publishes \/ P!Tick
    PROVE  UNCHANGED checks /\ PP!VerdictsKept /\ PP!Delivers
  <1>1. /\ UNCHANGED checks
        /\ (PP!Inserts /\ UNCHANGED PP!github) \/ (PP!VerdictsKept /\ PP!Delivers /\ PP!Belated)
    BY PublishingSound, PublishingStep, PP!StepDelivers
  <1>2. UNCHANGED checkArrivals
    BY DEF Publishes, PublisherStep, P!PublisherStep, P!Start, P!Claim, P!Find, P!Post,
       P!PostFails, P!Patch, P!RequestFails, P!Complete, P!Release, P!Crash, P!CarryOutLate,
       P!Tick, P!store
  <1>3. ~PP!Inserts
    <2> SUFFICES ASSUME NEW a \in Pushes, checkArrivals' = Append(checkArrivals, a) PROVE FALSE
      BY DEF PP!Inserts, PP!Insert
    <2>1. checkArrivals \in Seq(Pushes)
      BY DEF PP!IInv, PP!TypeOK
    <2>2. Len(Append(checkArrivals, a)) = Len(checkArrivals) + 1 /\ Len(checkArrivals) \in Nat
      BY <2>1
    <2> QED
      BY <1>2, <2>2
  <1> QED
    BY <1>1, <1>3

LEMMA GradingStep ==
    ASSUME DP!IInv, PP!IInv, PP!Asked, GP!IInv, [Next]_vars
    PROVE  [G!Next]_(G!vars) /\ [GP!Next]_(GP!vars)
  <1>1. ASSUME UNCHANGED outbox,
               \A p \in Pushes : checkRows'[p].passed = checkRows[p].passed
        PROVE  UNCHANGED G!vars /\ UNCHANGED GP!vars
    <2>1. [p \in Pushes |-> checkRows'[p].passed] = [p \in Pushes |-> checkRows[p].passed]
      BY <1>1
    <2> QED
      BY <1>1, <2>1 DEF outbox, G!vars, G!store, GP!vars, GP!store
  <1>2. CASE UNCHANGED <<outbox, publishing>>
    BY <1>1, <1>2 DEF publishing
  <1>3. CASE (Publishes \/ P!Tick) /\ UNCHANGED outbox
    <2>1. PP!VerdictsKept
      BY <1>3, PublishesDelivers
    <2> QED
      BY <1>1, <1>3, <2>1 DEF PP!VerdictsKept
  <1>4. G!Next => GP!Next
    BY DEF G!Next, GP!Next, G!Work, GP!Work, G!OpenStore, GP!OpenStore, G!Enqueue, GP!Enqueue,
       G!WorkerStep, GP!WorkerStep, G!Crash, GP!Crash, G!Start, GP!Start, G!Claim, GP!Claim,
       G!Evaluate, GP!Evaluate, G!InfrastructureFailure, GP!InfrastructureFailure, G!Complete,
       GP!Complete, G!CompleteFenced, GP!CompleteFenced, G!Release, GP!Release, G!Tick, GP!Tick,
       G!Initialize, GP!Initialize, G!Migrated, GP!Migrated, G!Blank, GP!Blank, G!At, GP!At,
       G!NoVerdict, GP!NoVerdict, G!Verdicts, GP!Verdicts, G!Oldest, GP!Oldest, G!Before,
       GP!Before, G!Claimable, GP!Claimable, G!Due, GP!Due, G!Expired, GP!Expired, G!Fresh,
       GP!Fresh, G!Claimed, GP!Claimed, G!Owned, GP!Owned, G!Completed, GP!Completed,
       G!OrIgnore, GP!OrIgnore, G!Released, GP!Released, G!RetryDelay, GP!RetryDelay, G!Aged,
       GP!Aged, G!Down, GP!Down, G!store, GP!store
  <1>5. ASSUME NEW th \in D!Threads, HandlePush(th), ~UNCHANGED <<outbox, publishing>>
        PROVE  G!Next
    <2>1. thread[th].id \in Pushes
      BY <1>5 DEF HandlePush, D!Handle, DP!IInv, DP!ThreadShape, D!Threads, DP!Threads
    <2> QED
      BY <1>5, <2>1 DEF HandlePush, G!Next, G!Work
  <1>6. CASE Grades \/ G!Tick
    <2>1. G!Next
      BY <1>6 DEF Grades, GraderStep, Complete, Evaluate, G!Next, G!Work, G!WorkerStep
    <2> QED
      BY <1>4, <2>1
  <1> QED
    BY <1>2, <1>3, <1>4, <1>5, <1>6
    DEF Next, Handling, Authors, Publishes, Rewrite, Tick, vars, outbox, publishing

-----------------------------------------------------------------------------
(* The invariant is kept.                                                  *)

LEMMA PartsKept == Parts /\ [Next]_vars => Parts'
  <1> SUFFICES ASSUME Parts, [Next]_vars PROVE Parts'
    OBVIOUS
  <1> USE DEF Parts
  <1>1. (DP!IInv /\ DP!QueueTyped /\ DP!Known)'
    BY DeliveriesStep, DeliveriesSound, DP!NextInv, DP!QueueType, DP!NextKnown
  <1>2. AP!IInv'
    BY AuthoringStep, AuthoringSound, AP!NextInv
  <1>3. GP!IInv'
    BY GradingStep, GradingSound, GP!NextInv
  <1>4. (PP!IInv /\ PP!Asked)'
    BY PublishingStep, PublishingSound, PP!NextInv, PP!NextAsked
  <1>5. (branch \subseteq Pushes)'
    BY DEF Next, Handling, Authors, Grades, GraderStep, Complete, Publishes, Rewrite, Tick, vars
  <1> QED
    BY <1>1, <1>2, <1>3, <1>4, <1>5

\* The push whose handler thread th is in.
LEMMA HandledPush ==
    ASSUME DP!IInv, NEW th \in D!Threads, D!Handle(th)
    PROVE  thread[th].id \in Pushes /\ applied' = applied \cup {thread[th].id}
  BY DEF D!Handle, D!Threads, DP!IInv, DP!ThreadShape, DP!Threads

\* Handlers make attempts, each for the push it has just applied, and nobody else makes any.
LEMMA OnlyHandlersRequest ==
    ASSUME Parts, [Next]_vars
    PROVE  \/ GP!NoRequest /\ UNCHANGED applied
           \/ \E th \in D!Threads : HandlePush(th)
  <1> USE DEF Parts
  <1>1. UNCHANGED outbox => GP!NoRequest
    BY DEF outbox, GP!NoRequest
  <1>2. CASE UNCHANGED delivery /\ UNCHANGED arrivals
    <2>1. ASSUME NEW p \in Pushes, GP!Enqueue(p) PROVE FALSE
      <3>1. arrivals \in Seq(Pushes) /\ arrivals' = Append(arrivals, p)
        BY <2>1 DEF GP!Enqueue, GP!IInv, GP!TypeOK
      <3>2. Len(arrivals') = Len(arrivals) + 1 /\ Len(arrivals) \in Nat
        BY <3>1
      <3> QED
        BY <1>2, <3>2
    <2>2. [GP!Next]_(GP!vars)
      BY GradingStep
    <2>3. GP!NoRequest
      BY <2>1, <2>2, GradingSound, GP!NextRequests
    <2> QED
      BY <1>2, <2>3 DEF delivery
  <1>3. CASE UNCHANGED <<outbox, applied>>
    BY <1>1, <1>3
  <1>4. CASE Handling
    <2>1. CASE \E th \in D!Threads : HandlePush(th)
      BY <2>1
    <2>2. CASE (D!Arrive \/ D!Retry \/ D!Crash
                \/ \E th \in D!Threads : D!Raise(th) \/ D!Complete(th) \/ D!Release(th) \/ D!Abandon(th))
               /\ UNCHANGED <<outbox, publishing>>
      BY <1>3, <2>2 DEF D!Arrive, D!Receive, D!Retry, D!RetryClaim, D!Take, D!Crash, D!Raise,
         D!Complete, D!Release, D!Abandon
    <2> QED
      BY <1>4, <2>1, <2>2 DEF Handling
  <1>5. CASE Grades
    <2>1. UNCHANGED delivery /\ UNCHANGED arrivals
      BY <1>5 DEF Grades, GraderStep, Complete, G!Complete, G!Start, Evaluate, G!Evaluate,
         G!Claim, G!InfrastructureFailure, G!CompleteFenced, G!Release, G!Crash, G!store
    <2> QED
      BY <1>2, <2>1
  <1>6. CASE Authors \/ Publishes \/ Rewrite \/ UNCHANGED vars
    BY <1>3, <1>6 DEF Authors, Publishes, Rewrite, vars, delivery
  <1>7. CASE Tick
    BY <1>2, <1>3, <1>7 DEF Tick, D!Tick, G!Tick, delivery, outbox
  <1> QED
    BY <1>4, <1>5, <1>6, <1>7 DEF Next

LEMMA NextInv == IInv /\ [Next]_vars => IInv'
  <1> SUFFICES ASSUME IInv, [Next]_vars PROVE IInv'
    OBVIOUS
  <1> USE DEF IInv
  <1>1. Parts'
    BY PartsKept
  <1>2. jobs[Task].state = "ready" => jobs'[Task].state = "ready"
    <2>1. AP!OutcomeKept
      BY AuthoringStep, AuthoringSound, AP!NextKeepsOutcome DEF Parts
    <2> QED
      BY <2>1 DEF AP!OutcomeKept
  <1>3. CASE GP!NoRequest /\ UNCHANGED applied
    BY <1>1, <1>2, <1>3 DEF GP!NoRequest, AttemptIffApplied, SuiteFirst
  <1>4. ASSUME NEW th \in D!Threads, HandlePush(th)
        PROVE  (AttemptIffApplied /\ SuiteFirst)'
    <2>1. PICK p \in Pushes : p = thread[th].id /\ applied' = applied \cup {p}
      BY <1>4, HandledPush DEF Parts, HandlePush
    <2>2. jobs[Task].state = "ready"
      BY <1>4 DEF HandlePush, SuiteReady
    <2>3. grading'[p].state # "absent"
          /\ \A q \in Pushes \ {p} : grading'[q] = grading[q]
      <3>1. CASE grading[p].state = "absent"
        <4>1. G!Enqueue(p)
          BY <1>4, <2>1, <3>1 DEF HandlePush
        <4>2. grading' = [grading EXCEPT ![p] = G!Blank("queued")] /\ grading \in [Pushes -> GP!Row]
          BY <4>1 DEF G!Enqueue, Parts, GP!IInv, GP!TypeOK
        <4> QED
          BY <4>2 DEF G!Blank
      <3>2. CASE grading[p].state # "absent"
        <4>1. UNCHANGED grading
          BY <1>4, <2>1, <3>2 DEF HandlePush, outbox
        <4> QED
          BY <3>2, <4>1
      <3> QED
        BY <3>1, <3>2
    <2> QED
      BY <1>2, <2>1, <2>2, <2>3 DEF AttemptIffApplied, SuiteFirst
  <1> QED
    BY <1>1, <1>3, <1>4, OnlyHandlersRequest

LEMMA Invariance == Spec => []IInv
  BY InitInv, NextInv, PTL DEF Spec

-----------------------------------------------------------------------------
(* What follows.                                                           *)

\* Every table, clock and process of the whole is of the kind its part declares.
THEOREM TypeCorrect == Spec => []TypeOK
  <1>1. IInv => TypeOK
    <2> SUFFICES ASSUME IInv PROVE TypeOK
      OBVIOUS
    <2> USE DEF IInv, Parts
    <2>1. D!TypeOK
      BY DEF DP!IInv, DP!Typed, DP!QueueTyped, D!TypeOK, D!Row, DP!Row, D!Thread, DP!Thread,
         D!Threads, DP!Threads, D!MaybeToken, DP!MaybeToken, D!NeverReleased, DP!NeverReleased
    <2>2. A!TypeOK
      BY DEF AP!IInv, AP!TypeOK, A!TypeOK, A!Job, AP!Job, A!Clarification, AP!Clarification,
         A!Worker, AP!Worker, A!MaybeToken, AP!MaybeToken
    <2>3. G!TypeOK
      BY DEF GP!IInv, GP!TypeOK, G!TypeOK, G!Row, GP!Row, G!Worker, GP!Worker, G!MaybeToken,
         GP!MaybeToken, G!MaybeVerdict, GP!MaybeVerdict, G!Verdicts, GP!Verdicts, G!NoVerdict,
         GP!NoVerdict
    <2>4. P!TypeOK
      BY DEF PP!IInv, PP!TypeOK, P!TypeOK, P!Row, PP!Row, P!Publisher, PP!Publisher,
         P!MaybeToken, PP!MaybeToken, P!MaybeVerdict, PP!MaybeVerdict, P!Verdicts, PP!Verdicts,
         P!NoVerdict, PP!NoVerdict
    <2> QED
      BY <2>1, <2>2, <2>3, <2>4 DEF TypeOK
  <1> QED
    BY <1>1, Invariance, PTL

\* The bridge is done only with pushes for which the grader has an attempt, in its own database.
THEOREM PushNotLost == Spec => []PushIsNotLost
  <1>1. IInv => PushIsNotLost
    BY DEF IInv, Parts, AttemptIffApplied, DP!IInv, DP!DoneIsApplied, DP!Done, D!Done,
       PushIsNotLost
  <1> QED
    BY <1>1, Invariance, PTL

\* What GitHub shows for a push is nothing, or the verdict of its attempt.
LEMMA ShownIsVerdict ==
    ASSUME IInv, NEW p \in Pushes, Shown(p) # P!NoVerdict
    PROVE  /\ Shown(p) = checkRows[p].passed
           /\ grading[p].state # "absent"
  <1> USE DEF IInv, Parts
  <1>1. Shown(p) = checkRows[p].passed
    <2>1. CASE checks
      BY <2>1 DEF Shown
    <2>2. CASE ~checks
      <3>1. PICK q \in Pushes : q = p /\ statuses[p] = checkRows[q].passed
        BY <2>2 DEF Shown, PP!Asked, P!NoVerdict, PP!NoVerdict
      <3> QED
        BY <2>2, <3>1 DEF Shown
    <2> QED
      BY <2>1, <2>2
  <1>2. grading[p].passed = checkRows[p].passed
    BY DEF GP!IInv, GP!OutboxAgrees
  <1>3. grading[p].state = "completed"
    BY <1>1, <1>2 DEF GP!IInv, GP!OutboxAgrees, P!NoVerdict, GP!NoVerdict
  <1> QED
    BY <1>1, <1>3

\* No attempt, and no grade on GitHub, without the suite the job was settled with.
THEOREM FrozenFirst == Spec => []GradedAgainstFrozen
  <1>1. IInv => GradedAgainstFrozen
    <2> SUFFICES ASSUME IInv, NEW p \in Pushes,
                        grading[p].state # "absent" \/ Shown(p) # P!NoVerdict
                 PROVE  /\ jobs[Task].state = "ready" /\ vault[Task] = jobs[Task].suite
                        /\ vault[Task] # NoSuite
      BY DEF GradedAgainstFrozen
    <2>1. jobs[Task].state = "ready"
      BY ShownIsVerdict DEF IInv, SuiteFirst
    <2> QED
      BY <2>1 DEF IInv, Parts, AP!IInv, AP!ReadyIsFrozen
  <1> QED
    BY <1>1, Invariance, PTL

\* Joined, the four queues still behave as their own modules say: what is proved of each of them
\* alone holds in the whole.
THEOREM PartsBehave == Spec => D!Spec /\ A!Spec /\ G!Spec /\ P!Spec
  <1>1. Init => D!Init /\ A!Init /\ G!Init /\ P!Init
    BY DEF Init
  <1>2. IInv /\ [Next]_vars =>
            [D!Next]_(D!vars) /\ [A!Next]_(A!vars) /\ [G!Next]_(G!vars) /\ [P!Next]_(P!vars)
    BY DeliveriesStep, AuthoringStep, GradingStep, PublishingStep DEF IInv, Parts
  <1> QED
    BY <1>1, <1>2, Invariance, PTL DEF Spec, D!Spec, A!Spec, G!Spec, P!Spec

-----------------------------------------------------------------------------
(* Refinement.                                                             *)

LEMMA InitRefines == Init => Abstract!Init
  BY DEF Init, Abstract!Init, D!Init, D!Gone, A!Init, P!Init, Shown, P!NoVerdict

\* What GitHub shows changes by the publisher's requests alone, from nothing to a verdict.
LEMMA ShowsOnce ==
    ASSUME IInv, [Next]_vars
    PROVE  \/ \A p \in Pushes : Shown(p)' = Shown(p)
           \/ /\ UNCHANGED delivery /\ UNCHANGED authoring
              /\ \E a \in Pushes, v \in P!Verdicts :
                     /\ Shown(a) = P!NoVerdict /\ Shown(a)' = v
                     /\ grading[a].state # "absent"
                     /\ \A p \in Pushes \ {a} : Shown(p)' = Shown(p)
  <1> USE DEF IInv, Parts
  <1>1. CASE UNCHANGED publishing
    BY <1>1 DEF publishing, Shown
  <1>2. CASE Complete
    <2>1. PICK a \in Pushes :
              /\ checkRows[a].state = "absent" /\ UNCHANGED <<checks, checkRuns, statuses>>
              /\ \A p \in Pushes \ {a} : checkRows'[p] = checkRows[p]
      <3>1. grader["grader"].attempt \in Pushes
        BY <1>2 DEF Complete, GP!IInv, GP!WorkerShape, GP!Busy
      <3>2. checkRows \in [Pushes -> PP!Row]
        BY DEF PP!IInv, PP!TypeOK
      <3> QED
        BY <1>2, <3>1, <3>2 DEF Complete, P!Insert, P!github
    <2>2. checkRuns[a] \in Nat /\ ~(checkRuns[a] > 0)
      BY <2>1 DEF PP!IInv, PP!TypeOK, PP!Asked
    <2> QED
      BY <2>1, <2>2 DEF Shown
  <1>3. CASE (Publishes \/ P!Tick) /\ UNCHANGED <<delivery, authoring>>
    <2>1. UNCHANGED checks /\ PP!VerdictsKept /\ PP!Delivers
      BY <1>3, PublishesDelivers
    <2>2. CASE UNCHANGED <<checkRuns, statuses>>
      BY <2>1, <2>2 DEF Shown, PP!VerdictsKept
    <2>3. ASSUME NEW a \in Pushes, checkRows[a].state # "absent", PP!CarriedOut(a)
          PROVE  /\ Shown(a)' = checkRows[a].passed
                 /\ \A p \in Pushes \ {a} : Shown(p)' = Shown(p)
      <3>1. CASE checks
        <4>1. checkRuns' = [checkRuns EXCEPT ![a] = checkRuns[a] + 1] /\ checkRuns \in [Pushes -> Nat]
          BY <2>3, <3>1 DEF PP!CarriedOut, PP!IInv, PP!TypeOK
        <4>2. checkRuns'[a] > 0 /\ \A p \in Pushes \ {a} : checkRuns'[p] = checkRuns[p]
          BY <4>1
        <4> QED
          BY <2>1, <3>1, <4>2 DEF Shown, PP!VerdictsKept
      <3>2. CASE ~checks
        <4>1. statuses' = [statuses EXCEPT ![a] = checkRows[a].passed]
              /\ statuses \in [Pushes -> PP!MaybeVerdict]
          BY <2>3, <3>2 DEF PP!CarriedOut, PP!IInv, PP!TypeOK
        <4> QED
          BY <2>1, <3>2, <4>1 DEF Shown
      <3> QED
        BY <3>1, <3>2
    <2>4. ASSUME NEW a \in Pushes, checkRows[a].state # "absent", PP!CarriedOut(a)
          PROVE  \/ \A p \in Pushes : Shown(p)' = Shown(p)
                 \/ /\ Shown(a) = P!NoVerdict /\ Shown(a)' \in P!Verdicts
                    /\ grading[a].state # "absent"
                    /\ \A p \in Pushes \ {a} : Shown(p)' = Shown(p)
      <3>1. Shown(a)' = checkRows[a].passed /\ \A p \in Pushes \ {a} : Shown(p)' = Shown(p)
        BY <2>3, <2>4
      <3>2. checkRows[a].passed \in P!Verdicts
        BY <2>4 DEF PP!Asked, PP!IInv, PP!TypeOK, PP!Row, PP!MaybeVerdict, PP!Verdicts,
           PP!NoVerdict, P!Verdicts
      <3>3. grading[a].passed = checkRows[a].passed /\ grading[a].state = "completed"
        BY <3>2 DEF GP!IInv, GP!OutboxAgrees, GP!NoVerdict, P!Verdicts
      <3>4. Shown(a) # P!NoVerdict => Shown(a) = checkRows[a].passed
        BY ShownIsVerdict
      <3> QED
        BY <3>1, <3>2, <3>3, <3>4
    <2> QED
      BY <1>3, <2>1, <2>2, <2>4 DEF PP!Delivers
  <1> QED
    BY <1>1, <1>2, <1>3 DEF Next, Handling, HandlePush, Authors, Grades, GraderStep, Publishes,
       Rewrite, Tick, vars, publishing

\* Each step of the whole is to PushGrades an acceptance, the freezing, a grade shown, or nothing.
LEMMA NextRefines == IInv /\ [Next]_vars => [Abstract!Next]_(Abstract!vars)
  <1> SUFFICES ASSUME IInv, [Next]_vars PROVE Abstract!Next \/ UNCHANGED Abstract!vars
    OBVIOUS
  <1> DEFINE accepted == {p \in Pushes : rows[p].state # "absent"}
             frozen == jobs[Task].state = "ready"
             shown == [p \in Pushes |-> Shown(p)]
  <1>1. \/ DP!NoneArrives
        \/ DP!OneArrives /\ ~UNCHANGED delivery
    <2>1. DP!NoneArrives \/ DP!OneArrives
      BY DeliveriesStep, DeliveriesSound, DP!StepArrives DEF IInv, Parts
    <2> QED
      BY <2>1 DEF DP!OneArrives, delivery
  <1>2. DP!NoneArrives => accepted' = accepted
    BY DEF DP!NoneArrives
  <1>3. (\A p \in Pushes : Shown(p)' = Shown(p)) => shown' = shown
    OBVIOUS
  <1>4. CASE UNCHANGED authoring
    <2>1. frozen' = frozen
      BY <1>4 DEF authoring
    <2>2. CASE DP!OneArrives /\ ~UNCHANGED delivery
      <3>1. shown' = shown
        BY <1>3, <2>2, ShowsOnce
      <3>2. PICK d \in Pushes : d \notin accepted /\ accepted' = accepted \cup {d}
        BY <2>2 DEF DP!OneArrives
      <3> HIDE DEF accepted, frozen, shown
      <3> QED
        BY <2>1, <3>1, <3>2 DEF Abstract!Next, Abstract!Accept, accepted, frozen, shown
    <2>3. CASE DP!NoneArrives
      <3>1. CASE \A p \in Pushes : Shown(p)' = Shown(p)
        BY <1>2, <1>3, <2>1, <2>3, <3>1 DEF Abstract!vars
      <3>2. ASSUME NEW a \in Pushes, NEW v \in P!Verdicts,
                   Shown(a) = P!NoVerdict, Shown(a)' = v, grading[a].state # "absent",
                   \A p \in Pushes \ {a} : Shown(p)' = Shown(p)
            PROVE  Abstract!Show(a, v)
        <4>1. frozen
          BY <3>2 DEF IInv, SuiteFirst
        <4>2. a \in accepted
          BY <3>2 DEF IInv, Parts, AttemptIffApplied, DP!Known
        <4>3. shown[a] = P!NoVerdict /\ shown' = [shown EXCEPT ![a] = v]
          BY <3>2
        <4>4. accepted' = accepted
          BY <1>2, <2>3
        <4> QED
          BY <2>1, <4>1, <4>2, <4>3, <4>4 DEF Abstract!Show
      <3> QED
        BY <3>1, <3>2, ShowsOnce DEF Abstract!Next
    <2> QED
      BY <1>1, <2>2, <2>3
  <1>5. CASE UNCHANGED delivery /\ UNCHANGED publishing
    <2>1. accepted' = accepted /\ shown' = shown
      BY <1>3, <1>5 DEF delivery, publishing, Shown
    <2>2. frozen => frozen'
      <3>1. AP!OutcomeKept
        BY AuthoringStep, AuthoringSound, AP!NextKeepsOutcome DEF IInv, Parts
      <3> QED
        BY <3>1 DEF AP!OutcomeKept
    <2>3. frozen' = frozen \/ (~frozen /\ frozen' = TRUE)
      BY <2>2
    <2> QED
      BY <2>1, <2>3 DEF Abstract!Next, Abstract!Freeze, Abstract!vars
  <1> QED
    BY <1>4, <1>5 DEF Next, Handling, Authors, Grades, GraderStep, Complete, Publishes, Rewrite,
       Tick, vars

\* Four queues, five processes and GitHub together do what PushGrades promises a student: a grade
\* at most once for a push that was accepted, not before the suite is frozen, and for good.
THEOREM RefinesPushGrades == Spec => ImplementsPushGrades
  BY InitRefines, NextRefines, Invariance, PTL DEF Spec, ImplementsPushGrades, Abstract!Spec
=============================================================================
