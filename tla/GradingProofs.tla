---------------------------- MODULE GradingProofs ----------------------------
(***************************************************************************)
(* Theorems about Grading for any set of attempts, workers and tokens and  *)
(* any lease, retry budget and delays.                                     *)
(***************************************************************************)
EXTENDS Grading, TLAPS

-----------------------------------------------------------------------------
(* Operators.                                                              *)

\* A retry delay never leaves the range of the delay column, whatever the
\* exponential would have given.
LEMMA RetryDelayType ==
    ASSUME NEW n \in 0..MaxGradingAttempts
    PROVE  RetryDelay(n) \in 0..RetryCap
  BY GradingAssumption DEF RetryDelay

\* What the table operations make of a row is a row.
LEMMA BlankType ==
    ASSUME NEW s \in {"absent", "queued", "failed"}
    PROVE  Blank(s) \in Row
  BY LeasesAssumption, GradingAssumption DEF Blank, Row, MaybeToken, MaybeVerdict, NoVerdict

LEMMA ClaimedType ==
    ASSUME NEW r \in Row, NEW t \in Tokens
    PROVE  Claimed(r, t) \in Row
  <1>1. (IF r.attempts < MaxGradingAttempts THEN r.attempts + 1 ELSE MaxGradingAttempts)
            \in 0..MaxGradingAttempts
    BY GradingAssumption DEF Row
  <1>2. LeaseTicks \in 0..LeaseTicks /\ 0 \in 0..RetryCap
    BY LeasesAssumption, GradingAssumption
  <1> QED
    BY <1>1, <1>2 DEF Claimed, Row, MaybeToken

LEMMA CompletedType ==
    ASSUME NEW r \in Row, NEW v \in MaybeVerdict
    PROVE  Completed(r, v) \in Row
  <1>1. 0 \in 0..LeaseTicks
    BY LeasesAssumption
  <1> QED
    BY <1>1 DEF Completed, Row, MaybeToken

LEMMA ReleasedType ==
    ASSUME NEW r \in Row
    PROVE  Released(r) \in Row
  <1>1. r.attempts \in 0..MaxGradingAttempts
    BY DEF Row
  <1>2. RetryDelay(r.attempts) \in 0..RetryCap
    BY <1>1, RetryDelayType
  <1>3. (IF r.attempts >= MaxGradingAttempts THEN 0 ELSE r.attempts) \in 0..MaxGradingAttempts
    BY <1>1, GradingAssumption
  <1>4. 0 \in 0..LeaseTicks
    BY LeasesAssumption
  <1> QED
    BY <1>2, <1>3, <1>4 DEF Released, Row, MaybeToken

LEMMA AgedType ==
    ASSUME NEW r \in Row
    PROVE  Aged(r) \in Row
  <1>1. Down(r.lease) \in 0..LeaseTicks /\ Down(r.delay) \in 0..RetryCap
    BY LeasesAssumption, GradingAssumption DEF Down, Row
  <1> QED
    BY <1>1 DEF Aged, Row

-----------------------------------------------------------------------------
(* Type correctness.                                                       *)

LEMMA InitType == Init => TypeOK
  <1> SUFFICES ASSUME Init PROVE TypeOK
    OBVIOUS
  <1>1. grading \in [Attempts -> Row]
    BY BlankType DEF Init
  <1>2. arrivals \in Seq(Attempts)
    <2>1. \A a \in Attempts : <<a>> \in Seq(Attempts)
      OBVIOUS
    <2>2. arrivals = <<>> \/ \E a \in Attempts : arrivals = <<a>>
      BY DEF Init
    <2>3. <<>> \in Seq(Attempts)
      OBVIOUS
    <2> QED
      BY <2>1, <2>2, <2>3
  <1>3. publications \in [Attempts -> MaybeVerdict] /\ notifications \in [Attempts -> MaybeVerdict]
    BY DEF Init, MaybeVerdict
  <1>4. worker \in [Workers -> Worker]
    BY DEF Init, At, Worker, MaybeToken, MaybeVerdict
  <1> QED
    BY <1>1, <1>2, <1>3, <1>4 DEF TypeOK

LEMMA NextType == TypeOK /\ [Next]_vars => TypeOK'
  <1> SUFFICES ASSUME TypeOK, [Next]_vars PROVE TypeOK'
    OBVIOUS
  <1> USE DEF TypeOK
  <1>1. CASE OpenStore
    BY <1>1, BlankType DEF OpenStore, Initialize, Migrated
  <1>2. ASSUME NEW a \in Attempts, Enqueue(a) PROVE TypeOK'
    BY <1>2, BlankType DEF Enqueue
  <1>3. ASSUME NEW w \in Workers, Start(w) PROVE TypeOK'
    <2>1. grading' \in [Attempts -> Row]
      BY <1>3, BlankType DEF Start, Initialize, Migrated
    <2> QED
      BY <1>3, <2>1 DEF Start, At, Worker, MaybeToken, MaybeVerdict
  <1>4. ASSUME NEW w \in Workers, NEW a \in Attempts, NEW t \in Tokens, Claim(w, a, t)
        PROVE  TypeOK'
    <2>1. grading' \in [Attempts -> Row]
      BY <1>4, ClaimedType DEF Claim
    <2>2. worker' \in [Workers -> Worker]
      BY <1>4 DEF Claim, Worker, MaybeToken, MaybeVerdict
    <2> QED
      BY <1>4, <2>1, <2>2 DEF Claim
  <1>5. ASSUME NEW w \in Workers, NEW v \in Verdicts, Evaluate(w, v) PROVE TypeOK'
    BY <1>5 DEF Evaluate, store, Worker, MaybeVerdict
  <1>6. ASSUME NEW w \in Workers, InfrastructureFailure(w) \/ CompleteFenced(w) PROVE TypeOK'
    BY <1>6 DEF InfrastructureFailure, CompleteFenced, store, Worker
  <1>7. ASSUME NEW w \in Workers, Complete(w) PROVE TypeOK'
    <2>1. worker[w].verdict \in MaybeVerdict
      BY DEF Worker
    <2>2. grading' \in [Attempts -> Row]
      BY <1>7, <2>1, CompletedType DEF Complete
    <2>3. publications' \in [Attempts -> MaybeVerdict] /\ notifications' \in [Attempts -> MaybeVerdict]
      BY <1>7, <2>1 DEF Complete, OrIgnore
    <2>4. worker' \in [Workers -> Worker]
      BY <1>7 DEF Complete, At, Worker, MaybeToken, MaybeVerdict
    <2> QED
      BY <1>7, <2>2, <2>3, <2>4 DEF Complete
  <1>8. ASSUME NEW w \in Workers, Release(w) PROVE TypeOK'
    <2>1. grading' \in [Attempts -> Row]
      BY <1>8, ReleasedType DEF Release
    <2>2. worker' \in [Workers -> Worker]
      BY <1>8 DEF Release, At, Worker, MaybeToken, MaybeVerdict
    <2> QED
      BY <1>8, <2>1, <2>2 DEF Release
  <1>9. ASSUME NEW w \in Workers, Crash(w) PROVE TypeOK'
    BY <1>9 DEF Crash, store, At, Worker, MaybeToken, MaybeVerdict
  <1>10. CASE Tick
    BY <1>10, AgedType DEF Tick
  <1>11. CASE UNCHANGED vars
    BY <1>11 DEF vars, store
  <1> QED
    BY <1>1, <1>2, <1>3, <1>4, <1>5, <1>6, <1>7, <1>8, <1>9, <1>10, <1>11
    DEF Next, Work, WorkerStep

\* Every reachable state is well typed.
THEOREM TypeCorrect == Spec => []TypeOK
  BY InitType, NextType, PTL DEF Spec

-----------------------------------------------------------------------------
(* The inductive invariant.                                                *)

\* A row has a token exactly while it is leased, and only then does a lease run;
\* only a queued row waits.
RowShape ==
    \A a \in Attempts :
        /\ grading[a].state = "grading" <=> grading[a].token # NoToken
        /\ grading[a].state # "grading" => grading[a].lease = 0
        /\ grading[a].state # "queued" => grading[a].delay = 0

\* A busy worker has an attempt and a token of its own, a verdict once graded.
WorkerShape ==
    \A w \in Workers :
        /\ Busy(w) => worker[w].attempt \in Attempts /\ worker[w].token \in Tokens
        /\ worker[w].pc = "graded" => worker[w].verdict \in Verdicts

\* No two workers ever carry the same token: a claim draws one that neither a row
\* nor any worker, however stale, still remembers.
TokensDiffer ==
    \A w1, w2 \in Workers :
        Busy(w1) /\ Busy(w2) /\ worker[w1].token = worker[w2].token => w1 = w2

IInv == TypeOK /\ RowShape /\ WorkerShape /\ TokensDiffer /\ OutboxAgrees

LEMMA InitInv == Init => IInv
  <1> SUFFICES ASSUME Init PROVE IInv
    OBVIOUS
  <1>1. TypeOK
    BY InitType
  <1>2. RowShape /\ OutboxAgrees
    BY DEF Init, RowShape, OutboxAgrees, Blank
  <1>3. WorkerShape /\ TokensDiffer
    BY DEF Init, WorkerShape, TokensDiffer, Busy, At
  <1> QED
    BY <1>1, <1>2, <1>3 DEF IInv

\* The part of the invariant about rows and outbox.
LEMMA NextRows == IInv /\ [Next]_vars => (RowShape /\ OutboxAgrees)'
  <1> SUFFICES ASSUME IInv, [Next]_vars PROVE (RowShape /\ OutboxAgrees)'
    OBVIOUS
  <1> USE LeasesAssumption DEF IInv, RowShape, OutboxAgrees
  <1>1. CASE OpenStore
    BY <1>1 DEF OpenStore, Initialize, Migrated, Blank, TypeOK, NoVerdict
  <1>2. ASSUME NEW a \in Attempts, Enqueue(a) PROVE (RowShape /\ OutboxAgrees)'
    BY <1>2 DEF Enqueue, Blank, TypeOK, NoVerdict
  <1>3. ASSUME NEW w \in Workers, Start(w) PROVE (RowShape /\ OutboxAgrees)'
    BY <1>3 DEF Start, Initialize, Migrated, Blank, TypeOK, NoVerdict
  <1>4. ASSUME NEW w \in Workers, NEW a \in Attempts, NEW t \in Tokens, Claim(w, a, t)
        PROVE  (RowShape /\ OutboxAgrees)'
    <2>1. grading[a].state \in {"queued", "grading"}
      BY <1>4 DEF Claim, Oldest, Claimable, Due, Expired
    <2>2. t # NoToken
      OBVIOUS
    <2> QED
      BY <1>4, <2>1, <2>2 DEF Claim, Claimed, TypeOK, Row
  <1>5. ASSUME NEW w \in Workers, Complete(w) PROVE (RowShape /\ OutboxAgrees)'
    <2> DEFINE a == worker[w].attempt
               v == worker[w].verdict
    <2>1. a \in Attempts /\ v \in Verdicts
      BY <1>5 DEF Complete, WorkerShape, Busy
    <2>2. grading[a].state = "grading" /\ grading[a].passed = NoVerdict
      BY <1>5, <2>1 DEF Complete, Owned
    <2>3. v # NoVerdict
      BY <2>1 DEF Verdicts, NoVerdict
    <2>4. publications' = [publications EXCEPT ![a] = v]
          /\ notifications' = [notifications EXCEPT ![a] = v]
      BY <1>5, <2>1, <2>2 DEF Complete, OrIgnore
    <2>5. grading' = [grading EXCEPT ![a] = Completed(@, v)]
      BY <1>5 DEF Complete
    <2>6. Completed(grading[a], v).state = "completed" /\ Completed(grading[a], v).passed = v
          /\ Completed(grading[a], v).token = NoToken /\ Completed(grading[a], v).lease = 0
          /\ Completed(grading[a], v).delay = 0
      BY <2>1, <2>2 DEF Completed, TypeOK, Row
    <2> HIDE DEF a, v
    <2> QED
      BY <2>1, <2>3, <2>4, <2>5, <2>6 DEF TypeOK
  <1>6. ASSUME NEW w \in Workers, Release(w) PROVE (RowShape /\ OutboxAgrees)'
    <2> DEFINE a == worker[w].attempt
    <2>1. a \in Attempts
      BY <1>6 DEF Release, WorkerShape, Busy
    <2>2. CASE ~Owned(grading[a], "grading", worker[w].token)
      BY <1>6, <2>2 DEF Release
    <2>3. CASE Owned(grading[a], "grading", worker[w].token)
      BY <1>6, <2>1, <2>3 DEF Release, Owned, Released, TypeOK, Row
    <2> QED
      BY <2>2, <2>3
  <1>7. CASE Tick
    BY <1>7 DEF Tick, Aged, Down, TypeOK, Row
  <1>8. CASE UNCHANGED store
    BY <1>8 DEF store
  <1> QED
    BY <1>1, <1>2, <1>3, <1>4, <1>5, <1>6, <1>7, <1>8
    DEF Next, Work, WorkerStep, Evaluate, InfrastructureFailure, CompleteFenced, Crash, vars

\* The part about workers.
LEMMA NextWorkers == IInv /\ [Next]_vars => (WorkerShape /\ TokensDiffer)'
  <1> SUFFICES ASSUME IInv, [Next]_vars PROVE (WorkerShape /\ TokensDiffer)'
    OBVIOUS
  <1> USE DEF IInv, WorkerShape, TokensDiffer, Busy
  <1>1. ASSUME NEW w \in Workers, worker' = [worker EXCEPT ![w] = At("idle")]
                                   \/ worker' = [worker EXCEPT ![w] = At("down")]
        PROVE  (WorkerShape /\ TokensDiffer)'
    BY <1>1 DEF At, TypeOK
  <1>2. ASSUME NEW w \in Workers, NEW a \in Attempts, NEW t \in Tokens, Claim(w, a, t)
        PROVE  (WorkerShape /\ TokensDiffer)'
    <2>1. \A x \in Workers : worker[x].token # t
      BY <1>2 DEF Claim, Fresh
    <2> QED
      BY <1>2, <2>1 DEF Claim, TypeOK
  <1>3. ASSUME NEW w \in Workers, NEW v \in Verdicts, Evaluate(w, v)
        PROVE  (WorkerShape /\ TokensDiffer)'
    BY <1>3 DEF Evaluate, TypeOK, Worker
  <1>4. ASSUME NEW w \in Workers, InfrastructureFailure(w) \/ CompleteFenced(w)
        PROVE  (WorkerShape /\ TokensDiffer)'
    BY <1>4 DEF InfrastructureFailure, CompleteFenced, TypeOK, Worker
  <1>5. CASE UNCHANGED worker
    BY <1>5
  <1> QED
    BY <1>1, <1>2, <1>3, <1>4, <1>5
    DEF Next, Work, WorkerStep, OpenStore, Enqueue, Start, Complete, Release, Crash, Tick, vars

LEMMA NextInv == IInv /\ [Next]_vars => IInv'
  BY NextType, NextRows, NextWorkers DEF IInv

LEMMA Invariance == Spec => []IInv
  BY InitInv, NextInv, PTL DEF Spec

\* At most one worker can still write an attempt's row, however many claims of it
\* have expired.
THEOREM WriterUnique == Spec => []AtMostOneWriter
  <1>1. IInv => AtMostOneWriter
    BY DEF IInv, TokensDiffer, AtMostOneWriter, Holds, Owned
  <1> QED
    BY <1>1, Invariance, PTL

\* Check, report and attempt always agree.
THEOREM OutboxCorrect == Spec => []OutboxAgrees
  <1>1. IInv => OutboxAgrees
    BY DEF IInv
  <1> QED
    BY <1>1, Invariance, PTL

-----------------------------------------------------------------------------
(* Action properties.                                                      *)

\* A completed attempt is never written again.
THEOREM VerdictIsFinal == Spec => VerdictFinal
  <1>1. IInv /\ [Next]_vars => VerdictKept
    <2> SUFFICES ASSUME IInv, [Next]_vars, NEW a \in Attempts,
                        grading[a].state = "completed"
                 PROVE  grading'[a] = grading[a]
      BY DEF VerdictKept
    <2> USE DEF IInv, TypeOK
    <2>1. CASE OpenStore \/ \E w \in Workers : Start(w)
      BY <2>1 DEF OpenStore, Start, Initialize, Migrated
    <2>2. ASSUME NEW b \in Attempts, Enqueue(b) PROVE grading'[a] = grading[a]
      BY <2>2 DEF Enqueue
    <2>3. ASSUME NEW w \in Workers, NEW b \in Attempts, NEW t \in Tokens, Claim(w, b, t)
          PROVE  grading'[a] = grading[a]
      BY <2>3 DEF Claim, Oldest, Claimable, Due, Expired
    <2>4. ASSUME NEW w \in Workers, Complete(w) PROVE grading'[a] = grading[a]
      BY <2>4 DEF Complete, Owned
    <2>5. ASSUME NEW w \in Workers, Release(w) PROVE grading'[a] = grading[a]
      BY <2>5 DEF Release, Owned
    <2>6. CASE Tick
      <3>1. grading[a].lease = 0 /\ grading[a].delay = 0
        BY DEF RowShape
      <3> QED
        BY <2>6, <3>1 DEF Tick, Aged, Down, Row
    <2>7. CASE UNCHANGED store
      BY <2>7 DEF store
    <2> QED
      BY <2>1, <2>2, <2>3, <2>4, <2>5, <2>6, <2>7
      DEF Next, Work, WorkerStep, Evaluate, InfrastructureFailure, CompleteFenced, Crash, vars
  <1> QED
    BY <1>1, Invariance, PTL DEF Spec, VerdictFinal

\* A running lease is ended by its worker or by nobody.
THEOREM LeasesProtect == Spec => LeaseProtects
  <1>1. IInv /\ [Next]_vars => LeaseHonoured
    <2> SUFFICES ASSUME IInv, [Next]_vars, NEW a \in Attempts,
                        grading[a].lease > 0, grading'[a].token # grading[a].token
                 PROVE  EndedByHolder(a)
      BY DEF LeaseHonoured
    <2> USE DEF IInv, TypeOK, EndedByHolder
    <2>0. grading[a].state = "grading" /\ grading[a].lease # 0
      BY LeasesAssumption DEF RowShape, Row
    <2>1. CASE OpenStore \/ \E w \in Workers : Start(w)
      BY <2>0, <2>1 DEF OpenStore, Start, Initialize, Migrated
    <2>2. ASSUME NEW b \in Attempts, Enqueue(b) PROVE EndedByHolder(a)
      BY <2>0, <2>2 DEF Enqueue
    <2>3. ASSUME NEW w \in Workers, NEW b \in Attempts, NEW t \in Tokens, Claim(w, b, t)
          PROVE  EndedByHolder(a)
      BY <2>0, <2>3 DEF Claim, Oldest, Claimable, Due, Expired
    <2>4. ASSUME NEW w \in Workers, Complete(w) PROVE EndedByHolder(a)
      <3>1. worker[w].attempt = a
        BY <2>4 DEF Complete
      <3> QED
        BY <2>4, <3>1 DEF Complete, Owned, At
    <2>5. ASSUME NEW w \in Workers, Release(w) PROVE EndedByHolder(a)
      <3>1. worker[w].attempt = a /\ Owned(grading[a], "grading", worker[w].token)
        BY <2>5 DEF Release
      <3> QED
        BY <2>5, <3>1 DEF Release, Owned, At
    <2>6. CASE Tick
      BY <2>6 DEF Tick, Aged, Row
    <2>7. CASE UNCHANGED store
      BY <2>7 DEF store
    <2> QED
      BY <2>1, <2>2, <2>3, <2>4, <2>5, <2>6, <2>7
      DEF Next, Work, WorkerStep, Evaluate, InfrastructureFailure, CompleteFenced, Crash, vars
  <1> QED
    BY <1>1, Invariance, PTL DEF Spec, LeaseProtects

\* A worker without its lease changes nothing.
THEOREM StaleHarmless == Spec => StaleIsHarmless
  <1>1. IInv /\ [Next]_vars => StaleWritesNothing
    <2> SUFFICES ASSUME IInv, [Next]_vars, NEW w \in Workers,
                        Busy(w), ~Holds(w), worker'[w] # worker[w]
                 PROVE  UNCHANGED store
      BY DEF StaleWritesNothing
    <2> USE DEF IInv, TypeOK, Busy, Holds
    <2>1. ASSUME NEW x \in Workers, Complete(x) PROVE UNCHANGED store
      BY <2>1 DEF Complete
    <2>2. ASSUME NEW x \in Workers, Release(x) PROVE UNCHANGED store
      BY <2>2 DEF Release, store
    <2>3. ASSUME NEW x \in Workers, Start(x) PROVE UNCHANGED store
      BY <2>3 DEF Start
    <2>4. ASSUME NEW x \in Workers, NEW a \in Attempts, NEW t \in Tokens, Claim(x, a, t)
          PROVE  UNCHANGED store
      BY <2>4 DEF Claim
    <2> QED
      BY <2>1, <2>2, <2>3, <2>4
      DEF Next, Work, WorkerStep, OpenStore, Enqueue, Evaluate, InfrastructureFailure,
          CompleteFenced, Crash, Tick, vars
  <1> QED
    BY <1>1, Invariance, PTL DEF Spec, StaleIsHarmless

-----------------------------------------------------------------------------
(* Refinement.                                                             *)

\* The queue starts as HiddenGrades does.
LEMMA InitRefines == Init => Grades!Init
  BY DEF Init, Grades!Init, Blank

\* Each step of the queue is a request, a verdict or nothing to HiddenGrades.
LEMMA NextRefines == IInv /\ [Next]_vars => [Grades!Next]_(Grades!vars)
  <1> SUFFICES ASSUME IInv, [Next]_vars PROVE Grades!Next \/ UNCHANGED Grades!vars
    OBVIOUS
  <1> USE DEF IInv, TypeOK
  <1>1. ASSUME NEW a \in Attempts, Enqueue(a) PROVE Grades!Request(a)
    BY <1>1 DEF Enqueue, Blank, Grades!Request, OutboxAgrees, NoVerdict
  <1>2. ASSUME NEW w \in Workers, Complete(w)
        PROVE  Grades!Decide(worker[w].attempt, worker[w].verdict)
    <2> DEFINE a == worker[w].attempt
               v == worker[w].verdict
    <2>1. a \in Attempts /\ v \in Verdicts
      BY <1>2 DEF Complete, WorkerShape, Busy
    <2>2. grading[a].state = "grading" /\ grading[a].passed = NoVerdict
      BY <1>2, <2>1 DEF Complete, Owned, OutboxAgrees
    <2>3. publications' = [publications EXCEPT ![a] = v]
          /\ notifications' = [notifications EXCEPT ![a] = v]
      BY <1>2, <2>1, <2>2 DEF Complete, OrIgnore, OutboxAgrees
    <2>4. grading' = [grading EXCEPT ![a] = Completed(@, v)]
      BY <1>2 DEF Complete
    <2>5. Completed(grading[a], v).state = "completed" /\ Completed(grading[a], v).passed = v
      BY <2>1 DEF Completed, Row
    <2> HIDE DEF a, v
    <2>6. {x \in Attempts : grading'[x].state # "absent"}
            = {x \in Attempts : grading[x].state # "absent"}
      BY <2>1, <2>2, <2>4, <2>5
    <2>7. [x \in Attempts |-> grading'[x].passed]
            = [[x \in Attempts |-> grading[x].passed] EXCEPT ![a] = v]
      BY <2>1, <2>4, <2>5
    <2> QED
      BY <2>1, <2>2, <2>3, <2>6, <2>7 DEF Grades!Decide, a, v
  <1>3. ASSUME \A a \in Attempts :
                   /\ grading'[a].passed = grading[a].passed
                   /\ grading'[a].state = "absent" <=> grading[a].state = "absent",
               UNCHANGED <<publications, notifications>>
        PROVE  UNCHANGED Grades!vars
    <2>1. {a \in Attempts : grading'[a].state # "absent"}
            = {a \in Attempts : grading[a].state # "absent"}
      BY <1>3
    <2>2. [a \in Attempts |-> grading'[a].passed] = [a \in Attempts |-> grading[a].passed]
      BY <1>3
    <2> QED
      BY <1>3, <2>1, <2>2 DEF Grades!vars
  <1>4. CASE OpenStore \/ \E w \in Workers : Start(w)
    BY <1>3, <1>4 DEF OpenStore, Start, Initialize, Migrated, Blank, OutboxAgrees
  <1>5. ASSUME NEW w \in Workers, NEW a \in Attempts, NEW t \in Tokens, Claim(w, a, t)
        PROVE  UNCHANGED Grades!vars
    BY <1>3, <1>5 DEF Claim, Oldest, Claimable, Due, Expired, Claimed, Row
  <1>6. ASSUME NEW w \in Workers, Release(w) PROVE UNCHANGED Grades!vars
    BY <1>3, <1>6 DEF Release, Owned, Released, Row
  <1>7. CASE Tick
    BY <1>3, <1>7 DEF Tick, Aged, Row
  <1>8. CASE UNCHANGED store
    BY <1>3, <1>8 DEF store
  <1>9. ASSUME NEW w \in Workers, Complete(w) PROVE Grades!Next
    <2>1. worker[w].attempt \in Attempts /\ worker[w].verdict \in Verdicts
      BY <1>9 DEF Complete, WorkerShape, Busy
    <2>2. Grades!Decide(worker[w].attempt, worker[w].verdict)
      BY <1>2, <1>9
    <2> QED
      BY <2>1, <2>2 DEF Grades!Next, Grades!Decide
  <1> QED
    BY <1>1, <1>4, <1>5, <1>6, <1>7, <1>8, <1>9
    DEF Next, Work, WorkerStep, Evaluate, InfrastructureFailure, CompleteFenced, Crash, vars,
        Grades!Next

\* Nothing but a request makes or unmakes an attempt.
NoRequest == \A a \in Attempts : grading'[a].state = "absent" <=> grading[a].state = "absent"

LEMMA NextRequests == IInv /\ [Next]_vars => NoRequest \/ \E a \in Attempts : Enqueue(a)
  <1> SUFFICES ASSUME IInv, [Next]_vars PROVE NoRequest \/ \E a \in Attempts : Enqueue(a)
    OBVIOUS
  <1> USE DEF IInv, TypeOK, NoRequest
  <1>1. CASE OpenStore \/ \E w \in Workers : Start(w)
    BY <1>1 DEF OpenStore, Start, Initialize, Migrated, Blank
  <1>2. ASSUME NEW w \in Workers, NEW a \in Attempts, NEW t \in Tokens, Claim(w, a, t)
        PROVE  NoRequest
    BY <1>2 DEF Claim, Oldest, Claimable, Due, Expired, Claimed, Row
  <1>3. ASSUME NEW w \in Workers, Complete(w) \/ Release(w) PROVE NoRequest
    <2>1. PICK a \in Attempts : a = worker[w].attempt
      BY <1>3 DEF Complete, Release, WorkerShape, Busy
    <2>2. CASE Complete(w)
      BY <2>1, <2>2 DEF Complete, Owned, Completed, Row
    <2>3. CASE Release(w)
      BY <2>1, <2>3 DEF Release, Owned, Released, Row
    <2> QED
      BY <1>3, <2>2, <2>3
  <1>4. CASE Tick
    BY <1>4 DEF Tick, Aged, Row
  <1>5. CASE UNCHANGED store
    BY <1>5 DEF store
  <1> QED
    BY <1>1, <1>2, <1>3, <1>4, <1>5
    DEF Next, Work, WorkerStep, Evaluate, InfrastructureFailure, CompleteFenced, Crash, vars

\* The leased, retried, crash-prone queue implements HiddenGrades: one verdict per
\* requested attempt, on record and in both outbox rows in the same step.
THEOREM RefinesHiddenGrades == Spec => ImplementsHiddenGrades
  BY InitRefines, NextRefines, Invariance, PTL DEF Spec, ImplementsHiddenGrades, Grades!Spec
=============================================================================
