--------------------------- MODULE AuthoringProofs ---------------------------
(***************************************************************************)
(* Proofs about module Authoring, for any number of tasks, workers,        *)
(* tokens, suites and tries, and for any author, critic, gate and mentor.  *)
(***************************************************************************)
EXTENDS Authoring, TLAPS

-----------------------------------------------------------------------------
(* The inductive invariant.                                                *)

\* A job has a token exactly while it is leased, and only then does a lease run.
RowShape ==
    \A t \in Tasks :
        /\ jobs[t].state = "authoring" <=> jobs[t].token # NoToken
        /\ jobs[t].state # "authoring" => jobs[t].lease = 0

\* A busy worker has a task and a token, and a suite from its draft on.
WorkerShape ==
    \A w \in Workers :
        /\ Busy(w) => worker[w].task \in Tasks /\ worker[w].token \in Tokens
        /\ worker[w].pc \in {"reviewing", "gating", "promoting"} => worker[w].suite \in Suites

\* A worker that is about to ask, and still may, was within the bound when it decided to.
AskShape ==
    \A w \in Workers :
        worker[w].pc = "asking" /\ Mine(w) => jobs[worker[w].task].revision < MaxRevision

IInv ==
    /\ TypeOK
    /\ RowShape
    /\ WorkerShape
    /\ AskShape
    /\ ClarificationMatchesJob
    /\ AnswerReachesAuthor
    /\ ReadyIsFrozen

LEMMA InitInv == Init => IInv
  <1> SUFFICES ASSUME Init PROVE IInv
    OBVIOUS
  <1> USE LeasesAssumption, AuthoringAssumption DEF Init
  <1>1. TypeOK
    BY DEF TypeOK, Job, Worker, At, MaybeToken
  <1>2. RowShape /\ ReadyIsFrozen /\ AnswerReachesAuthor
    BY DEF RowShape, ReadyIsFrozen, AnswerReachesAuthor
  <1>3. WorkerShape /\ AskShape
    BY DEF WorkerShape, AskShape, Busy, At
  <1>4. ClarificationMatchesJob
    BY DEF ClarificationMatchesJob
  <1> QED
    BY <1>1, <1>2, <1>3, <1>4 DEF IInv

-----------------------------------------------------------------------------
(* Steps of a worker that write nothing.                                   *)

\* Where a worker's step without a write may take it.
Moved(w) ==
    \/ worker' = [worker EXCEPT ![w] = At("idle")]
    \/ worker' = [worker EXCEPT ![w] = At("down")]
    \/ /\ Busy(w)
       /\ \E pc \in {"gating", "asking", "rejecting", "promoting", "failing"} :
            /\ Goto(w, pc)
            /\ pc \in {"gating", "promoting"} => worker[w].pc \in {"reviewing", "gating"}
            /\ pc = "asking" => jobs[worker[w].task].revision < MaxRevision
    \/ Busy(w) /\ \E s \in Suites :
            worker' = [worker EXCEPT ![w] = [@ EXCEPT !.pc = "reviewing", !.suite = s]]

\* All of them.
QuietStep(w) ==
    \/ Start(w) \/ Crash(w) \/ NeedAnswer(w) \/ Accept(w) \/ Object(w) \/ Raise(w)
    \/ PromoteConflict(w) \/ Fenced(w) \/ HandleFailureRaises(w) \/ \E s \in Suites : Draft(w, s)

LEMMA QuietMoves ==
    ASSUME NEW w \in Workers, QuietStep(w)
    PROVE  Moved(w) /\ UNCHANGED <<store, vault>>
  <1>1. CASE Start(w) \/ Crash(w) \/ HandleFailureRaises(w)
    BY <1>1 DEF Start, Crash, HandleFailureRaises, Moved
  <1>2. CASE NeedAnswer(w) \/ Accept(w) \/ Object(w) \/ Raise(w) \/ PromoteConflict(w) \/ Fenced(w)
    BY <1>2 DEF NeedAnswer, Accept, Object, Raise, PromoteConflict, Fenced, Moved, Busy
  <1>3. CASE \E s \in Suites : Draft(w, s)
    BY <1>3 DEF Draft, Moved, Busy
  <1> QED
    BY <1>1, <1>2, <1>3 DEF QuietStep

\* Such a move keeps what is known of the workers, whatever else the step does to the vault.
LEMMA MovedWorkers ==
    ASSUME IInv, NEW w \in Workers, Moved(w), UNCHANGED jobs
    PROVE  worker' \in [Workers -> Worker] /\ (WorkerShape /\ AskShape)'
  <1> USE AuthoringAssumption DEF IInv, TypeOK
  <1>1. CASE worker' = [worker EXCEPT ![w] = At("idle")] \/ worker' = [worker EXCEPT ![w] = At("down")]
    <2>1. PICK r \in {At("idle"), At("down")} : worker' = [worker EXCEPT ![w] = r]
      BY <1>1
    <2>2. r \in Worker /\ r.pc \in {"idle", "down"}
      BY DEF At, Worker, MaybeToken
    <2>3. worker'[w].pc \in {"idle", "down"} /\ \A x \in Workers \ {w} : worker'[x] = worker[x]
      BY <2>1, <2>2
    <2>4. worker' \in [Workers -> Worker]
      BY <2>1, <2>2
    <2>5. WorkerShape'
      BY <2>3 DEF WorkerShape, Busy
    <2>6. AskShape'
      BY <2>3 DEF AskShape, Mine
    <2> QED
      BY <2>4, <2>5, <2>6
  <1>2. ASSUME Busy(w),
               NEW pc \in {"gating", "asking", "rejecting", "promoting", "failing"}, Goto(w, pc),
               pc \in {"gating", "promoting"} => worker[w].pc \in {"reviewing", "gating"},
               pc = "asking" => jobs[worker[w].task].revision < MaxRevision
        PROVE  worker' \in [Workers -> Worker] /\ (WorkerShape /\ AskShape)'
    <2>1. worker' \in [Workers -> Worker]
      <3>1. worker \in [Workers -> Worker] /\ worker[w] \in Worker
        OBVIOUS
      <3>2. [worker[w] EXCEPT !.pc = pc] \in Worker
        BY ONLY <3>1, <1>2 DEF Worker
      <3> QED
        BY ONLY <3>1, <3>2, <1>2 DEF Goto
    <2>2. worker'[w] = [worker[w] EXCEPT !.pc = pc] /\ \A x \in Workers \ {w} : worker'[x] = worker[x]
      BY <1>2 DEF Goto
    <2>3. /\ worker'[w].pc = pc /\ worker'[w].task = worker[w].task
          /\ worker'[w].token = worker[w].token /\ worker'[w].suite = worker[w].suite
      BY <2>2 DEF Worker
    <2>4. WorkerShape'
      BY <1>2, <2>2, <2>3 DEF WorkerShape, Busy
    <2>5. AskShape'
      BY <1>2, <2>2, <2>3 DEF AskShape, Mine
    <2> QED
      BY <2>1, <2>4, <2>5
  <1>3. ASSUME Busy(w), NEW s \in Suites,
               worker' = [worker EXCEPT ![w] = [@ EXCEPT !.pc = "reviewing", !.suite = s]]
        PROVE  worker' \in [Workers -> Worker] /\ (WorkerShape /\ AskShape)'
    <2>1. worker' \in [Workers -> Worker]
      <3>1. worker \in [Workers -> Worker] /\ worker[w] \in Worker
        OBVIOUS
      <3>2. [worker[w] EXCEPT !.pc = "reviewing", !.suite = s] \in Worker
        BY ONLY <3>1, <1>3 DEF Worker
      <3> QED
        BY ONLY <3>1, <3>2, <1>3
    <2>2. /\ worker'[w].pc = "reviewing" /\ worker'[w].task = worker[w].task
          /\ worker'[w].token = worker[w].token /\ worker'[w].suite = s
          /\ \A x \in Workers \ {w} : worker'[x] = worker[x]
      BY <1>3 DEF Worker
    <2>3. WorkerShape'
      BY <1>3, <2>2 DEF WorkerShape, Busy
    <2>4. AskShape'
      BY <1>3, <2>2 DEF AskShape, Mine
    <2> QED
      BY <2>1, <2>3, <2>4
  <1> QED
    BY <1>1, <1>2, <1>3 DEF Moved

LEMMA QuietInv ==
    ASSUME IInv, NEW w \in Workers, QuietStep(w)
    PROVE  IInv'
  <1>1. Moved(w) /\ UNCHANGED <<store, vault>>
    BY QuietMoves
  <1>2. worker' \in [Workers -> Worker] /\ (WorkerShape /\ AskShape)'
    BY <1>1, MovedWorkers DEF store
  <1> QED
    BY <1>1, <1>2 DEF IInv, TypeOK, store, RowShape, ClarificationMatchesJob,
                      AnswerReachesAuthor, ReadyIsFrozen

-----------------------------------------------------------------------------
(* Steps that write.                                                       *)

\* A job that changes hands.
Changed(job, state, token, lease) ==
    [job EXCEPT !.state = state, !.token = token, !.lease = lease]

\* Who ends a try, or loses it to another, takes nothing from the other workers.
LEMMA EndedWorkers ==
    ASSUME IInv, NEW w \in Workers, worker' = [worker EXCEPT ![w] = At("idle")],
           NEW t \in Tasks, jobs'[t].state # "authoring",
           \A u \in Tasks \ {t} : jobs'[u] = jobs[u]
    PROVE  worker' \in [Workers -> Worker] /\ (WorkerShape /\ AskShape)'
  <1> USE AuthoringAssumption DEF IInv, TypeOK
  <1>1. At("idle") \in Worker /\ At("idle").pc = "idle"
    BY DEF At, Worker, MaybeToken
  <1>2. worker' \in [Workers -> Worker]
    BY <1>1
  <1>3. worker'[w].pc = "idle" /\ \A x \in Workers \ {w} : worker'[x] = worker[x]
    BY <1>1
  <1>4. WorkerShape'
    BY <1>3 DEF WorkerShape, Busy
  <1>5. AskShape'
    <2> SUFFICES ASSUME NEW x \in Workers, worker'[x].pc = "asking", Mine(x)'
                 PROVE  jobs'[worker'[x].task].revision < MaxRevision
      BY DEF AskShape
    <2>1. x # w /\ worker'[x] = worker[x]
      BY <1>3
    <2>2. worker[x].task \in Tasks
      BY <2>1 DEF WorkerShape, Busy
    <2>3. worker[x].task # t
      BY <2>1 DEF Mine, Owned
    <2> QED
      BY <2>1, <2>2, <2>3 DEF Mine, Owned, AskShape
  <1> QED
    BY <1>2, <1>4, <1>5

\* requeue_after_critic, release_authoring, mark_authoring_failed.
LEMMA SettledInv ==
    ASSUME IInv, NEW w \in Workers, Busy(w), Mine(w), Settled(w, AfterTry(w)),
           worker' = [worker EXCEPT ![w] = At("idle")],
           UNCHANGED <<arrivals, clarifications, vault>>
    PROVE  IInv'
  <1> DEFINE t == worker[w].task
             end == AfterTry(w)
             row == Changed(jobs[t], end, NoToken, 0)
  <1> USE LeasesAssumption DEF IInv, TypeOK
  <1>1. t \in Tasks /\ jobs[t].state = "authoring"
    BY DEF WorkerShape, Mine, Owned
  <1>2. jobs' = [jobs EXCEPT ![t] = row]
    BY DEF Settled, Changed
  <1>3. end \in {"queued", "failed"}
    BY DEF AfterTry
  <1> HIDE DEF t, end
  <1>4. /\ row \in Job /\ row.state \in {"queued", "failed"} /\ row.token = NoToken /\ row.lease = 0
        /\ row.revision = jobs[t].revision /\ row.answer = jobs[t].answer /\ row.suite = jobs[t].suite
    <2>1. jobs[t] \in Job /\ NoToken \in MaybeToken /\ 0 \in 0 .. LeaseTicks
      BY <1>1 DEF MaybeToken
    <2> QED
      BY ONLY <1>3, <2>1 DEF Changed, Job
  <1> HIDE DEF row
  <1>5. jobs'[t] = row /\ \A u \in Tasks \ {t} : jobs'[u] = jobs[u]
    BY <1>1, <1>2
  <1>6. worker' \in [Workers -> Worker] /\ (WorkerShape /\ AskShape)'
    BY <1>1, <1>4, <1>5, EndedWorkers
  <1>7. TypeOK'
    BY <1>1, <1>2, <1>4, <1>6
  <1>8. RowShape' /\ ReadyIsFrozen'
    <2>1. RowShape'
      BY ONLY IInv, <1>4, <1>5 DEF IInv, RowShape
    <2>2. ReadyIsFrozen'
      BY ONLY IInv, <1>4, <1>5, vault' = vault DEF IInv, ReadyIsFrozen
    <2> QED
      BY <2>1, <2>2
  <1>9. ClarificationMatchesJob'
    BY ONLY IInv, <1>1, <1>4, <1>5, clarifications' = clarifications DEF IInv, ClarificationMatchesJob
  <1>10. AnswerReachesAuthor'
    BY ONLY IInv, <1>1, <1>4, <1>5, clarifications' = clarifications DEF IInv, AnswerReachesAuthor
  <1> QED
    BY <1>6, <1>7, <1>8, <1>9, <1>10

\* request_clarification.
LEMMA AskInv ==
    ASSUME IInv, NEW w \in Workers, Ask(w)
    PROVE  IInv'
  <1> DEFINE t == worker[w].task
             r == jobs[t].revision + 1
             settled == Changed(jobs[t], "needs_clarification", NoToken, 0)
             row == [settled EXCEPT !.revision = r, !.answer = NoAnswer]
             asked == [status |-> "pending", answer |-> NoAnswer]
  <1> USE LeasesAssumption, AuthoringAssumption DEF IInv, TypeOK
  <1>1. /\ t \in Tasks /\ jobs[t].state = "authoring" /\ jobs[t] \in Job
        /\ r \in 1 .. MaxRevision
    <2>1. t \in Tasks /\ jobs[t].state = "authoring"
      BY DEF Ask, WorkerShape, Busy, Mine, Owned
    <2>2. jobs[t] \in Job /\ jobs[t].revision \in 0 .. MaxRevision
      BY <2>1 DEF Job
    <2>3. jobs[t].revision < MaxRevision
      BY DEF Ask, AskShape
    <2> QED
      BY <2>1, <2>2, <2>3
  <1>2. /\ jobs' = [jobs EXCEPT ![t] = row]
        /\ clarifications' = [clarifications EXCEPT ![t] = Append(@, asked)]
        /\ worker' = [worker EXCEPT ![w] = At("idle")]
        /\ UNCHANGED <<arrivals, vault>>
    BY DEF Ask, Changed
  <1>3. /\ row \in Job /\ row.state = "needs_clarification" /\ row.token = NoToken /\ row.lease = 0
        /\ row.revision = r
    <2>1. settled \in Job /\ settled.state = "needs_clarification" /\ settled.token = NoToken
          /\ settled.lease = 0
      <3>1. NoToken \in MaybeToken /\ 0 \in 0 .. LeaseTicks
        BY DEF MaybeToken
      <3> QED
        BY ONLY <1>1, <3>1 DEF Changed, Job
    <2> HIDE DEF settled, r
    <2>2. r \in 0 .. MaxRevision /\ NoAnswer \in Answers \cup {NoAnswer}
      BY <1>1
    <2> QED
      BY ONLY <2>1, <2>2 DEF Job
  <1>4. asked \in Clarification /\ asked.status = "pending"
    BY DEF Clarification
  <1>5. /\ jobs[t].revision = r - 1
        /\ clarifications[t] \in Seq(Clarification) /\ Len(clarifications[t]) = r - 1
        /\ \A i \in DOMAIN clarifications[t] : clarifications[t][i].status # "pending"
    BY <1>1 DEF ClarificationMatchesJob, Job
  <1> HIDE DEF t, r, row, asked
  <1>6. /\ jobs'[t] = row /\ clarifications'[t] = Append(clarifications[t], asked)
        /\ \A u \in Tasks \ {t} : jobs'[u] = jobs[u] /\ clarifications'[u] = clarifications[u]
    BY <1>1, <1>2
  <1>7. /\ Len(clarifications'[t]) = r /\ DOMAIN clarifications'[t] = 1 .. r
        /\ clarifications'[t][r] = asked
        /\ \A i \in 1 .. r - 1 : i \in DOMAIN clarifications[t] /\ clarifications'[t][i] = clarifications[t][i]
    BY <1>1, <1>4, <1>5, <1>6
  <1>8. worker' \in [Workers -> Worker] /\ (WorkerShape /\ AskShape)'
    BY <1>1, <1>2, <1>3, <1>6, EndedWorkers
  <1>9. TypeOK'
    BY <1>1, <1>2, <1>3, <1>4, <1>5, <1>8
  <1>10. RowShape' /\ ReadyIsFrozen' /\ AnswerReachesAuthor'
    <2>1. RowShape'
      BY ONLY IInv, <1>3, <1>6 DEF IInv, RowShape
    <2>2. ReadyIsFrozen'
      BY ONLY IInv, <1>2, <1>3, <1>6 DEF IInv, ReadyIsFrozen
    <2>3. AnswerReachesAuthor'
      BY ONLY IInv, <1>3, <1>6 DEF IInv, AnswerReachesAuthor
    <2> QED
      BY <2>1, <2>2, <2>3
  <1>11. ClarificationMatchesJob'
    <2>1. ASSUME NEW i \in DOMAIN clarifications'[t]
          PROVE  clarifications'[t][i].status = "pending" <=> i = r
      BY <1>1, <1>4, <1>5, <1>7
    <2> QED
      <3>1. Len(clarifications'[t]) = jobs'[t].revision
        BY <1>3, <1>6, <1>7
      <3>2. \A i \in DOMAIN clarifications'[t] : clarifications'[t][i].status = "pending" <=>
                i = jobs'[t].revision /\ jobs'[t].state = "needs_clarification"
        BY ONLY <1>3, <1>6, <2>1
      <3>3. ASSUME NEW u \in Tasks \ {t}
            PROVE  /\ Len(clarifications'[u]) = jobs'[u].revision
                   /\ \A i \in DOMAIN clarifications'[u] : clarifications'[u][i].status = "pending" <=>
                        i = jobs'[u].revision /\ jobs'[u].state = "needs_clarification"
        BY ONLY IInv, <1>6, u \in Tasks \ {t} DEF IInv, ClarificationMatchesJob
      <3> QED
        BY ONLY <3>1, <3>2, <3>3 DEF ClarificationMatchesJob
  <1> QED
    BY <1>8, <1>9, <1>10, <1>11

\* claim_next_authoring.
LEMMA ClaimInv ==
    ASSUME IInv, NEW w \in Workers, NEW t \in Tasks, NEW k \in Tokens, Claim(w, t, k)
    PROVE  IInv'
  <1> USE LeasesAssumption, AuthoringAssumption DEF IInv, TypeOK
  <1> DEFINE n == IF jobs[t].attempts < MaxAuthorAttempts THEN jobs[t].attempts + 1
                  ELSE MaxAuthorAttempts
             c == Changed(jobs[t], "authoring", k, LeaseTicks)
             row == [c EXCEPT !.attempts = n]
  <1>1. n \in 0 .. MaxAuthorAttempts
    <2>1. jobs[t].attempts \in 0 .. MaxAuthorAttempts
      BY DEF Job
    <2> QED
      BY <2>1
  <1>2. jobs[t].state \in {"queued", "authoring"} /\ \A x \in Workers : worker[x].token # k
    BY DEF Claim, Oldest, Claimable, Expired, Fresh
  <1>3. UNCHANGED <<arrivals, clarifications, vault>>
    BY DEF Claim
  <1>4. /\ row \in Job /\ row.state = "authoring" /\ row.token = k /\ row.lease = LeaseTicks
        /\ row.revision = jobs[t].revision /\ row.answer = jobs[t].answer /\ row.suite = jobs[t].suite
    <2>1. jobs[t] \in Job /\ k \in MaybeToken /\ LeaseTicks \in 0 .. LeaseTicks
      BY DEF MaybeToken
    <2>2. /\ c \in Job /\ c.state = "authoring" /\ c.token = k /\ c.lease = LeaseTicks
          /\ c.revision = jobs[t].revision /\ c.answer = jobs[t].answer /\ c.suite = jobs[t].suite
      BY ONLY <2>1 DEF Changed, Job
    <2> HIDE DEF c, n
    <2> QED
      BY ONLY <1>1, <2>2 DEF Job
  <1>5. jobs' = [jobs EXCEPT ![t] = row]
        /\ worker' = [worker EXCEPT ![w] = [pc |-> "drafting", task |-> t, token |-> k,
                                            attempts |-> n, suite |-> NoSuite]]
    BY DEF Claim, Changed
  <1> HIDE DEF n, row
  <1>6. jobs'[t] = row /\ \A u \in Tasks \ {t} : jobs'[u] = jobs[u]
    BY <1>5
  <1>7. /\ worker' \in [Workers -> Worker]
        /\ worker'[w].pc = "drafting" /\ worker'[w].task = t /\ worker'[w].token = k
        /\ \A x \in Workers \ {w} : worker'[x] = worker[x]
    BY <1>1, <1>5 DEF Worker, MaybeToken
  <1>8. TypeOK'
    BY <1>3, <1>4, <1>5, <1>7
  <1>9. RowShape' /\ ReadyIsFrozen'
    <2>1. RowShape'
      BY ONLY IInv, <1>4, <1>6, k \in Tokens, LeasesAssumption DEF IInv, RowShape
    <2>2. ReadyIsFrozen'
      BY ONLY IInv, <1>3, <1>4, <1>6 DEF IInv, ReadyIsFrozen
    <2> QED
      BY <2>1, <2>2
  <1>10. \A u \in Tasks :
           /\ jobs'[u].revision = jobs[u].revision /\ jobs'[u].answer = jobs[u].answer
           /\ jobs'[u].state = "needs_clarification" <=> jobs[u].state = "needs_clarification"
    BY ONLY <1>2, <1>4, <1>6
  <1>11. ClarificationMatchesJob' /\ AnswerReachesAuthor'
    <2>1. clarifications' = clarifications
      BY ONLY <1>3
    <2>2. ClarificationMatchesJob'
      BY ONLY <1>10, <2>1, ClarificationMatchesJob DEF ClarificationMatchesJob
    <2>3. AnswerReachesAuthor'
      BY ONLY <1>10, <2>1, AnswerReachesAuthor DEF AnswerReachesAuthor
    <2> QED
      BY ONLY <2>2, <2>3
  <1>12. WorkerShape'
    BY <1>7 DEF WorkerShape, Busy
  <1>13. AskShape'
    <2> SUFFICES ASSUME NEW x \in Workers, worker'[x].pc = "asking", Mine(x)'
                 PROVE  jobs'[worker'[x].task].revision < MaxRevision
      BY DEF AskShape
    <2>1. x # w /\ worker'[x] = worker[x]
      BY <1>7
    <2>2. worker[x].task \in Tasks
      BY <2>1 DEF WorkerShape, Busy
    <2>3. worker[x].task # t
      BY <1>2, <1>4, <1>6, <2>1 DEF Mine, Owned
    <2> QED
      BY <1>6, <2>1, <2>2, <2>3 DEF Mine, Owned, AskShape
  <1> QED
    BY <1>8, <1>9, <1>10, <1>11, <1>12, <1>13

\* The vault changes for a job that is leased, and from nothing.
LEMMA FrozenVault ==
    ASSUME IInv, NEW w \in Workers, worker[w].pc = "promoting", Mine(w),
           Frozen(worker[w].task, worker[w].suite)
    PROVE  /\ worker[w].task \in Tasks /\ worker[w].suite \in Suites
           /\ jobs[worker[w].task].state = "authoring" /\ jobs[worker[w].task] \in Job
           /\ vault' \in [Tasks -> Suites \cup {NoSuite}]
           /\ vault'[worker[w].task] = worker[w].suite
           /\ \A u \in Tasks : vault[u] # NoSuite => vault'[u] = vault[u]
           /\ \A u \in Tasks \ {worker[w].task} : vault'[u] = vault[u]
  <1>1. worker[w].task \in Tasks /\ worker[w].suite \in Suites
    BY DEF IInv, WorkerShape, Busy
  <1>2. jobs[worker[w].task].state = "authoring" /\ jobs[worker[w].task] \in Job
    BY <1>1 DEF Mine, Owned, IInv, TypeOK
  <1> QED
    BY <1>1, <1>2 DEF Frozen, IInv, TypeOK

\* finalize_authoring.
LEMMA PromoteInv ==
    ASSUME IInv, NEW w \in Workers, Promote(w)
    PROVE  IInv'
  <1> DEFINE t == worker[w].task
             s == worker[w].suite
             settled == Changed(jobs[t], "ready", NoToken, 0)
             row == [settled EXCEPT !.suite = s]
  <1>1. /\ t \in Tasks /\ s \in Suites /\ jobs[t].state = "authoring" /\ jobs[t] \in Job
        /\ vault' \in [Tasks -> Suites \cup {NoSuite}] /\ vault'[t] = s
        /\ \A u \in Tasks \ {t} : vault'[u] = vault[u]
    BY FrozenVault DEF Promote
  <1>2. /\ jobs' = [jobs EXCEPT ![t] = row] /\ worker' = [worker EXCEPT ![w] = At("idle")]
        /\ UNCHANGED <<arrivals, clarifications>>
    BY DEF Promote, Changed
  <1>3. /\ row \in Job /\ row.state = "ready" /\ row.suite = s
        /\ row.token = NoToken /\ row.lease = 0
        /\ row.revision = jobs[t].revision /\ row.answer = jobs[t].answer
    <2>1. NoToken \in MaybeToken /\ 0 \in 0 .. LeaseTicks
      BY LeasesAssumption DEF MaybeToken
    <2>2. /\ settled \in Job /\ settled.state = "ready"
          /\ settled.token = NoToken /\ settled.lease = 0
          /\ settled.revision = jobs[t].revision /\ settled.answer = jobs[t].answer
      BY ONLY <1>1, <2>1 DEF Changed, Job
    <2> HIDE DEF settled, s
    <2> QED
      BY ONLY <1>1, <2>2 DEF Job
  <1> HIDE DEF t, s, row
  <1>4. jobs \in [Tasks -> Job]
    BY DEF IInv, TypeOK
  <1>5. jobs'[t] = row /\ \A u \in Tasks \ {t} : jobs'[u] = jobs[u]
    BY ONLY <1>1, <1>2, <1>4
  <1>6. worker' \in [Workers -> Worker] /\ (WorkerShape /\ AskShape)'
    BY <1>1, <1>2, <1>3, <1>5, EndedWorkers
  <1>7. TypeOK'
    BY <1>1, <1>2, <1>3, <1>4, <1>6 DEF IInv, TypeOK
  <1>8. RowShape'
    BY ONLY IInv, <1>3, <1>5 DEF IInv, RowShape
  <1>9. ReadyIsFrozen'
    BY ONLY IInv, <1>1, <1>3, <1>5, AuthoringAssumption DEF IInv, ReadyIsFrozen
  <1>10. ClarificationMatchesJob'
    BY ONLY IInv, <1>1, <1>2, <1>3, <1>5 DEF IInv, ClarificationMatchesJob
  <1>11. AnswerReachesAuthor'
    BY ONLY IInv, <1>1, <1>2, <1>3, <1>5 DEF IInv, AnswerReachesAuthor
  <1> QED
    BY <1>6, <1>7, <1>8, <1>9, <1>10, <1>11 DEF IInv

\* The rename without the commit.
LEMMA TornInv ==
    ASSUME IInv, NEW w \in Workers, PromoteRaises(w) \/ PromoteCrashes(w)
    PROVE  IInv'
  <1>1. /\ worker[w].pc = "promoting" /\ Mine(w) /\ Frozen(worker[w].task, worker[w].suite)
        /\ UNCHANGED store /\ Moved(w)
    BY DEF PromoteRaises, PromoteCrashes, Torn, Moved, Busy
  <1>2. worker' \in [Workers -> Worker] /\ (WorkerShape /\ AskShape)'
    BY <1>1, MovedWorkers DEF store
  <1>3. ReadyIsFrozen'
    BY <1>1, FrozenVault DEF IInv, ReadyIsFrozen, store
  <1>4. TypeOK'
    BY <1>1, <1>2, FrozenVault DEF IInv, TypeOK, store
  <1> QED
    BY <1>1, <1>2, <1>3, <1>4 DEF IInv, store, RowShape, ClarificationMatchesJob, AnswerReachesAuthor

\* answer_clarification. Only the latest question is pending, and only while the job waits.
LEMMA AnswerInv ==
    ASSUME IInv, NEW t \in Tasks, NEW r \in DOMAIN clarifications[t], NEW x \in Answers,
           Answer(t, r, x)
    PROVE  IInv'
  <1> DEFINE row == [jobs[t] EXCEPT !.state = "queued", !.answer = x]
             answered == [status |-> "answered", answer |-> x]
  <1>1. /\ jobs \in [Tasks -> Job] /\ jobs[t] \in Job
        /\ clarifications \in [Tasks -> Seq(Clarification)]
        /\ r = jobs[t].revision /\ jobs[t].state = "needs_clarification"
        /\ Len(clarifications[t]) = jobs[t].revision
        /\ \A i \in DOMAIN clarifications[t] : clarifications[t][i].status = "pending" => i = r
    BY DEF Answer, IInv, TypeOK, ClarificationMatchesJob
  <1>2. /\ jobs' = [jobs EXCEPT ![t] = row]
        /\ clarifications' = [clarifications EXCEPT ![t][r] = answered]
        /\ UNCHANGED <<arrivals, vault, worker>>
    BY <1>1 DEF Answer
  <1>3. /\ row \in Job /\ row.state = "queued" /\ row.answer = x
        /\ row.token = jobs[t].token /\ row.lease = jobs[t].lease /\ row.revision = jobs[t].revision
    BY ONLY <1>1, x \in Answers DEF Job
  <1>4. answered \in Clarification /\ answered.status # "pending" /\ answered.answer = x
    BY DEF Clarification
  <1> HIDE DEF row, answered
  <1>5. /\ jobs'[t] = row
        /\ \A u \in Tasks \ {t} : jobs'[u] = jobs[u] /\ clarifications'[u] = clarifications[u]
    BY ONLY <1>1, <1>2
  <1>6. /\ clarifications'[t] \in Seq(Clarification)
        /\ Len(clarifications'[t]) = Len(clarifications[t])
        /\ DOMAIN clarifications'[t] = DOMAIN clarifications[t]
        /\ clarifications'[t][r] = answered
        /\ \A i \in DOMAIN clarifications[t] : i # r => clarifications'[t][i] = clarifications[t][i]
    <2>1. clarifications'[t] = [clarifications[t] EXCEPT ![r] = answered]
      BY ONLY <1>1, <1>2, t \in Tasks
    <2>2. clarifications[t] \in Seq(Clarification)
      BY <1>1
    <2> QED
      BY ONLY <1>4, <2>1, <2>2, r \in DOMAIN clarifications[t]
  <1>7. TypeOK'
    BY <1>1, <1>2, <1>3, <1>5, <1>6 DEF IInv, TypeOK
  <1>8. RowShape'
    <2>1. jobs[t].token = NoToken /\ jobs[t].lease = 0
      BY <1>1 DEF IInv, RowShape
    <2> QED
      BY ONLY IInv, <1>3, <1>5, <2>1 DEF IInv, RowShape
  <1>9. ReadyIsFrozen'
    BY ONLY IInv, <1>2, <1>3, <1>5 DEF IInv, ReadyIsFrozen
  <1>10. ClarificationMatchesJob'
    <2>1. Len(clarifications'[t]) = jobs'[t].revision
      BY ONLY <1>1, <1>3, <1>5, <1>6
    <2>2. \A i \in DOMAIN clarifications'[t] : clarifications'[t][i].status = "pending" <=>
              i = jobs'[t].revision /\ jobs'[t].state = "needs_clarification"
      BY ONLY <1>1, <1>3, <1>4, <1>5, <1>6
    <2>3. ASSUME NEW u \in Tasks \ {t}
          PROVE  /\ Len(clarifications'[u]) = jobs'[u].revision
                 /\ \A i \in DOMAIN clarifications'[u] : clarifications'[u][i].status = "pending" <=>
                      i = jobs'[u].revision /\ jobs'[u].state = "needs_clarification"
      BY ONLY IInv, <1>5, u \in Tasks \ {t} DEF IInv, ClarificationMatchesJob
    <2> QED
      BY ONLY <2>1, <2>2, <2>3 DEF ClarificationMatchesJob
  <1>11. AnswerReachesAuthor'
    BY ONLY IInv, <1>1, <1>3, <1>4, <1>5, <1>6, x \in Answers, AuthoringAssumption
    DEF IInv, AnswerReachesAuthor
  <1>12. WorkerShape' /\ AskShape'
    <2>1. WorkerShape'
      BY <1>2 DEF IInv, WorkerShape, Busy
    <2>2. AskShape'
      <3> SUFFICES ASSUME NEW y \in Workers, worker[y].pc = "asking", Mine(y)'
                   PROVE  jobs'[worker[y].task].revision < MaxRevision
        BY <1>2 DEF AskShape
      <3>1. worker[y].task \in Tasks
        BY DEF IInv, WorkerShape, Busy
      <3>2. worker[y].task # t
        BY <1>2, <1>3, <1>5 DEF Mine, Owned
      <3> QED
        BY <1>2, <1>5, <3>1, <3>2 DEF Mine, Owned, IInv, AskShape
    <2> QED
      BY <2>1, <2>2
  <1> QED
    BY <1>7, <1>8, <1>9, <1>10, <1>11, <1>12 DEF IInv

LEMMA EnqueueInv ==
    ASSUME IInv, NEW t \in Tasks, Enqueue(t)
    PROVE  IInv'
  <1> DEFINE row == [jobs[t] EXCEPT !.state = "queued"]
  <1>1. jobs \in [Tasks -> Job] /\ jobs[t] \in Job /\ jobs[t].state = "absent"
    BY DEF Enqueue, IInv, TypeOK
  <1>2. jobs' = [jobs EXCEPT ![t] = row] /\ UNCHANGED <<clarifications, vault, worker>>
        /\ arrivals' = Append(arrivals, t)
    BY <1>1 DEF Enqueue
  <1>3. /\ row \in Job /\ row.state = "queued" /\ row.answer = jobs[t].answer
        /\ row.token = jobs[t].token /\ row.lease = jobs[t].lease /\ row.revision = jobs[t].revision
    BY ONLY <1>1 DEF Job
  <1> HIDE DEF row
  <1>4. jobs'[t] = row /\ \A u \in Tasks \ {t} : jobs'[u] = jobs[u]
    BY ONLY <1>1, <1>2, t \in Tasks
  <1>5. TypeOK'
    BY <1>2, <1>3, <1>4 DEF IInv, TypeOK
  <1>6. RowShape'
    BY ONLY IInv, <1>1, <1>3, <1>4, t \in Tasks DEF IInv, RowShape
  <1>7. ReadyIsFrozen'
    BY ONLY IInv, <1>2, <1>3, <1>4 DEF IInv, ReadyIsFrozen
  <1>8. ClarificationMatchesJob'
    BY ONLY IInv, <1>1, <1>2, <1>3, <1>4, t \in Tasks DEF IInv, ClarificationMatchesJob
  <1>9. AnswerReachesAuthor'
    BY ONLY IInv, <1>1, <1>2, <1>3, <1>4, t \in Tasks DEF IInv, AnswerReachesAuthor
  <1>10. WorkerShape'
    BY <1>2 DEF IInv, WorkerShape, Busy
  <1>11. AskShape'
    BY <1>2, <1>3, <1>4 DEF IInv, AskShape, WorkerShape, Busy, Mine, Owned
  <1> QED
    BY <1>5, <1>6, <1>7, <1>8, <1>9, <1>10, <1>11 DEF IInv

LEMMA TickInv == ASSUME IInv, Tick PROVE IInv'
  <1>1. ASSUME NEW t \in Tasks
        PROVE  /\ jobs'[t] \in Job
               /\ jobs[t].lease = 0 => jobs'[t].lease = 0
               /\ jobs'[t].state = jobs[t].state /\ jobs'[t].token = jobs[t].token
               /\ jobs'[t].revision = jobs[t].revision /\ jobs'[t].answer = jobs[t].answer
               /\ jobs'[t].suite = jobs[t].suite
    <2>1. jobs[t] \in Job /\ jobs'[t] = [jobs[t] EXCEPT !.lease = Down(jobs[t].lease)]
      BY DEF Tick, IInv, TypeOK
    <2>2. jobs[t].lease \in 0 .. LeaseTicks /\ LeaseTicks \in Nat
      BY <2>1, LeasesAssumption DEF Job
    <2>3. Down(jobs[t].lease) \in 0 .. LeaseTicks /\ (jobs[t].lease = 0 => Down(jobs[t].lease) = 0)
      BY ONLY <2>2 DEF Down
    <2> QED
      BY ONLY <2>1, <2>3 DEF Job
  <1>2. UNCHANGED <<arrivals, clarifications, vault, worker>> /\ jobs' = [t \in Tasks |-> jobs'[t]]
    BY DEF Tick
  <1>3. TypeOK'
    BY <1>1, <1>2 DEF IInv, TypeOK
  <1>4. RowShape' /\ ReadyIsFrozen'
    BY <1>1, <1>2 DEF IInv, RowShape, ReadyIsFrozen
  <1>5. ClarificationMatchesJob' /\ AnswerReachesAuthor'
    BY <1>1, <1>2 DEF IInv, ClarificationMatchesJob, AnswerReachesAuthor
  <1>6. WorkerShape' /\ AskShape'
    BY <1>1, <1>2 DEF IInv, WorkerShape, AskShape, Busy, Mine, Owned
  <1> QED
    BY <1>3, <1>4, <1>5, <1>6 DEF IInv

LEMMA NextInv == IInv /\ [Next]_vars => IInv'
  <1> SUFFICES ASSUME IInv, [Next]_vars PROVE IInv'
    OBVIOUS
  <1>1. ASSUME NEW t \in Tasks, Enqueue(t) PROVE IInv'
    BY <1>1, EnqueueInv
  <1>2. ASSUME NEW t \in Tasks, NEW r \in DOMAIN clarifications[t], NEW x \in Answers, Answer(t, r, x)
        PROVE  IInv'
    BY <1>2, AnswerInv
  <1>3. ASSUME NEW w \in Workers, NEW t \in Tasks, NEW k \in Tokens, Claim(w, t, k) PROVE IInv'
    BY <1>3, ClaimInv
  <1>4. ASSUME NEW w \in Workers, QuietStep(w) PROVE IInv'
    BY <1>4, QuietInv
  <1>5. ASSUME NEW w \in Workers, Ask(w) PROVE IInv'
    BY <1>5, AskInv
  <1>6. ASSUME NEW w \in Workers, Reject(w) PROVE IInv'
    BY <1>6, SettledInv DEF Reject, Busy
  <1>7. ASSUME NEW w \in Workers, HandleFailure(w) PROVE IInv'
    <2>1. CASE Mine(w)
      BY <1>7, <2>1, SettledInv DEF HandleFailure, Busy
    <2>2. CASE ~Mine(w)
      <3>1. HandleFailureRaises(w)
        BY <1>7, <2>2 DEF HandleFailure, HandleFailureRaises, store
      <3> QED
        BY <1>4, <3>1 DEF QuietStep
    <2> QED
      BY <2>1, <2>2
  <1>8. ASSUME NEW w \in Workers, Promote(w) PROVE IInv'
    BY <1>8, PromoteInv
  <1>9. ASSUME NEW w \in Workers, PromoteRaises(w) \/ PromoteCrashes(w) PROVE IInv'
    BY <1>9, TornInv
  <1>10. CASE Tick
    BY <1>10, TickInv
  <1>11. CASE UNCHANGED vars
    BY <1>11 DEF vars, store, IInv, TypeOK, RowShape, WorkerShape, AskShape, Busy, Mine,
                 ClarificationMatchesJob, AnswerReachesAuthor, ReadyIsFrozen
  <1> QED
    BY <1>1, <1>2, <1>3, <1>4, <1>5, <1>6, <1>7, <1>8, <1>9, <1>10, <1>11
    DEF Next, WorkerStep, QuietStep

LEMMA Invariance == Spec => []IInv
  BY InitInv, NextInv, PTL DEF Spec
-----------------------------------------------------------------------------
(* What follows.                                                           *)

\* Every job, question, suite and worker is of the kind the tables and the vault hold.
THEOREM TypeCorrect == Spec => []TypeOK
  BY Invariance, PTL DEF IInv

\* A job waits for the mentor exactly while its latest question, and no other, is unanswered.
THEOREM ClarificationMatches == Spec => []ClarificationMatchesJob
  BY Invariance, PTL DEF IInv

\* The author is told the mentor's last answer, through retries, crashes and late workers.
THEOREM AnswersReach == Spec => []AnswerReachesAuthor
  BY Invariance, PTL DEF IInv

\* A ready job names the suite that is on disk.
THEOREM ReadyFrozen == Spec => []ReadyIsFrozen
  BY Invariance, PTL DEF IInv

\* A frozen suite is never replaced.
THEOREM VaultFinal == Spec => VaultIsFinal
  <1>1. IInv /\ [Next]_vars => VaultKept
    <2> SUFFICES ASSUME IInv, [Next]_vars PROVE VaultKept
      OBVIOUS
    <2>1. ASSUME NEW w \in Workers, Promote(w) \/ Torn(w) PROVE VaultKept
      <3>1. worker[w].pc = "promoting" /\ Mine(w) /\ Frozen(worker[w].task, worker[w].suite)
        BY <2>1 DEF Promote, Torn
      <3> QED
        BY <3>1, FrozenVault DEF VaultKept
    <2>2. CASE UNCHANGED vault
      BY <2>2 DEF VaultKept
    <2> QED
      BY <2>1, <2>2 DEF Next, WorkerStep, Enqueue, Answer, Start, Crash, Claim, Draft, NeedAnswer,
         Accept, Object, Raise, Ask, Reject, PromoteRaises, PromoteCrashes, PromoteConflict,
         Fenced, HandleFailure, HandleFailureRaises, Tick, vars, store
  <1> QED
    BY <1>1, Invariance, PTL DEF Spec, VaultIsFinal

\* No late worker, expired lease or late answer takes a job out of ready or failed.
LEMMA NextKeepsOutcome == IInv /\ [Next]_vars => OutcomeKept
  <1> SUFFICES ASSUME IInv, [Next]_vars, NEW t \in Tasks, jobs[t].state \in {"ready", "failed"}
               PROVE  jobs'[t] = jobs[t]
    BY DEF OutcomeKept
  <1>0. jobs \in [Tasks -> Job] /\ jobs[t] \in Job /\ jobs[t].lease = 0
    BY DEF IInv, TypeOK, RowShape
  <1>1. ASSUME NEW u \in Tasks, Enqueue(u) PROVE jobs'[t] = jobs[t]
    BY <1>0, <1>1 DEF Enqueue
  <1>2. ASSUME NEW u \in Tasks, NEW r \in DOMAIN clarifications[u], NEW x \in Answers,
               Answer(u, r, x)
        PROVE  jobs'[t] = jobs[t]
    BY <1>0, <1>2 DEF Answer
  <1>3. ASSUME NEW w \in Workers, NEW u \in Tasks, NEW k \in Tokens, Claim(w, u, k)
        PROVE  jobs'[t] = jobs[t]
    <2>1. jobs[u].state \in {"queued", "authoring"}
      BY <1>3 DEF Claim, Oldest, Claimable, Expired
    <2> QED
      BY <1>0, <1>3, <2>1 DEF Claim
  <1>4. ASSUME NEW w \in Workers, Ask(w) \/ Reject(w) \/ Promote(w) \/ HandleFailure(w)
        PROVE  jobs'[t] = jobs[t]
    <2>1. UNCHANGED jobs \/ Mine(w)
      BY <1>4 DEF Ask, Reject, Promote, HandleFailure
    <2>2. Mine(w) => worker[w].task # t
      BY DEF Mine, Owned
    <2>3. worker[w].task # t => jobs'[t] = jobs[t]
      BY <1>0, <1>4 DEF Ask, Reject, Promote, HandleFailure, Settled
    <2> QED
      BY <2>1, <2>2, <2>3
  <1>5. CASE Tick
    <2>1. jobs'[t] = [jobs[t] EXCEPT !.lease = 0]
      BY <1>0, <1>5 DEF Tick, Down
    <2> QED
      BY <1>0, <2>1 DEF Job
  <1>6. CASE UNCHANGED jobs
    BY <1>6
  <1> QED
    BY <1>1, <1>2, <1>3, <1>4, <1>5, <1>6
    DEF Next, WorkerStep, Start, Crash, Draft, NeedAnswer, Accept, Object, Raise,
        PromoteRaises, PromoteCrashes, PromoteConflict, Torn, Fenced, HandleFailureRaises,
        vars, store

\* ready and failed are final.
THEOREM OutcomeFinal == Spec => OutcomeIsFinal
  BY NextKeepsOutcome, Invariance, PTL DEF Spec, OutcomeIsFinal

\* A worker that lost its lease changes neither the database nor the vault.
THEOREM StaleHarmless == Spec => StaleIsHarmless
  <1>1. IInv /\ [Next]_vars => StaleWritesNothing
    <2> SUFFICES ASSUME IInv, [Next]_vars, NEW w \in Workers, Busy(w), ~Mine(w),
                        worker'[w] # worker[w]
                 PROVE  UNCHANGED <<store, vault>>
      BY DEF StaleWritesNothing, Holds
    <2>0. worker \in [Workers -> Worker]
      BY DEF IInv, TypeOK
    <2>1. ASSUME NEW u \in Tasks, Enqueue(u) PROVE FALSE
      BY <2>1 DEF Enqueue
    <2>2. ASSUME NEW u \in Tasks, NEW r \in DOMAIN clarifications[u], NEW x \in Answers,
                 Answer(u, r, x)
          PROVE  FALSE
      BY <2>2 DEF Answer
    <2>3. ASSUME NEW v \in Workers, NEW u \in Tasks, NEW k \in Tokens, Claim(v, u, k)
          PROVE  FALSE
      BY <2>0, <2>3 DEF Claim, Busy
    <2>4. ASSUME NEW v \in Workers, Ask(v) \/ Reject(v) \/ Promote(v) \/ HandleFailure(v)
          PROVE  UNCHANGED <<store, vault>>
      <3>1. v = w
        BY <2>0, <2>4 DEF Ask, Reject, Promote, HandleFailure
      <3> QED
        BY <2>4, <3>1 DEF Ask, Reject, Promote, HandleFailure, store
    <2>5. ASSUME NEW v \in Workers, PromoteRaises(v) \/ PromoteCrashes(v) PROVE FALSE
      <3>1. v = w
        BY <2>0, <2>5 DEF PromoteRaises, PromoteCrashes, Goto
      <3> QED
        BY <2>5, <3>1 DEF PromoteRaises, PromoteCrashes, Torn
    <2>6. CASE Tick
      BY <2>6 DEF Tick
    <2>7. ASSUME NEW v \in Workers, QuietStep(v) PROVE UNCHANGED <<store, vault>>
      BY <2>7, QuietMoves
    <2>8. CASE UNCHANGED vars
      BY <2>8 DEF vars, store
    <2> QED
      BY <2>1, <2>2, <2>3, <2>4, <2>5, <2>6, <2>7, <2>8 DEF Next, WorkerStep, QuietStep
  <1> QED
    BY <1>1, Invariance, PTL DEF Spec, StaleIsHarmless
=============================================================================
