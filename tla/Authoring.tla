------------------------------ MODULE Authoring ------------------------------
(***************************************************************************)
(* Authoring of hidden suites: the authoring_jobs queue and the            *)
(* clarifications of GraderStore, the write-once SuiteVault on disk, the   *)
(* AuthoringCoordinator workers, and the mentor's answers.                 *)
(*                                                                         *)
(* TestAuthor, TestCritic and the acceptance gate are external: each       *)
(* answers, asks, objects or raises.  Two runs of the author need not give *)
(* the same suite.  finalize_authoring writes two places, the vault and    *)
(* the database, and only the database half is undone by a failure.        *)
(*                                                                         *)
(* No delay: requeue_after_critic is called without one, so a queued job   *)
(* is due at once.                                                         *)
(***************************************************************************)
EXTENDS Leases

CONSTANTS
    Tasks,
    Workers,              \* authoring worker processes
    Suites,               \* hidden suites, by suite_hash
    Answers,              \* what a mentor may answer
    NoTask, NoSuite, NoAnswer,
    MaxAuthorAttempts,    \* max_author_attempts
    MaxRevision           \* bound: questions asked about one task

ASSUME AuthoringAssumption ==
    /\ NoTask \notin Tasks
    /\ NoSuite \notin Suites
    /\ NoAnswer \notin Answers
    /\ MaxAuthorAttempts \in Nat \ {0}
    /\ MaxRevision \in Nat

VARIABLES
    jobs,            \* table authoring_jobs
    arrivals,        \* its tasks by created_at
    clarifications,  \* table clarifications: per task, by revision
    vault,           \* the suite directory of each task
    worker           \* what each worker process is doing

store == <<jobs, arrivals, clarifications>>
vars == <<store, vault, worker>>

Job == [state : {"absent", "queued", "authoring", "needs_clarification", "ready", "failed"},
        token : MaybeToken,
        lease : 0..LeaseTicks,
        attempts : 0..MaxAuthorAttempts,    \* counts no further than it is compared
        suite : Suites \cup {NoSuite},
        revision : 0..MaxRevision,
        answer : Answers \cup {NoAnswer}]

Clarification == [status : {"pending", "answered"}, answer : Answers \cup {NoAnswer}]

\* "drafting" is inside author.create, "reviewing" inside critic.review, "gating"
\* inside the acceptance gate; "asking", "rejecting" and "promoting" are before the
\* transaction of that name, "failing" in the except branch.
Worker == [pc : {"down", "idle", "drafting", "reviewing", "gating",
                 "asking", "rejecting", "promoting", "failing"},
           task : Tasks \cup {NoTask},
           token : MaybeToken,
           attempts : 0..MaxAuthorAttempts,   \* as read by the claim
           suite : Suites \cup {NoSuite}]

TypeOK ==
    /\ jobs \in [Tasks -> Job]
    /\ arrivals \in Seq(Tasks)
    /\ clarifications \in [Tasks -> Seq(Clarification)]
    /\ vault \in [Tasks -> Suites \cup {NoSuite}]
    /\ worker \in [Workers -> Worker]

At(pc) == [pc |-> pc, task |-> NoTask, token |-> NoToken, attempts |-> 0, suite |-> NoSuite]

Goto(w, pc) == worker' = [worker EXCEPT ![w] = [@ EXCEPT !.pc = pc]]

Init ==
    /\ jobs = [t \in Tasks |-> [state |-> "absent", token |-> NoToken, lease |-> 0,
                                attempts |-> 0, suite |-> NoSuite, revision |-> 0,
                                answer |-> NoAnswer]]
    /\ arrivals = <<>>
    /\ clarifications = [t \in Tasks |-> <<>>]
    /\ vault = [t \in Tasks |-> NoSuite]
    /\ worker = [w \in Workers |-> At("down")]

-----------------------------------------------------------------------------
(* The store.                                                              *)

\* WHERE task_id = ? AND state = 'authoring' AND lease_token = ?.
Mine(w) == Owned(jobs[worker[w].task], "authoring", worker[w].token)

\* Mutant: the answer is dropped with the lease.
Settled_Forgets(w, state) ==
    jobs' = [jobs EXCEPT ![worker[w].task] =
                [@ EXCEPT !.state = state, !.token = NoToken, !.lease = 0, !.answer = NoAnswer]]

\* The row of w's task leaves the lease for the given state.
Settled(w, state) ==
    jobs' = [jobs EXCEPT ![worker[w].task] =
                [@ EXCEPT !.state = state, !.token = NoToken, !.lease = 0]]

\* Mutant: no limit.
AfterTry_Endless(w) == "queued"

\* Where an unsuccessful try leaves the job: the last one is final.
AfterTry(w) == IF worker[w].attempts >= MaxAuthorAttempts THEN "failed" ELSE "queued"

\* ensure_suite: the bridge registers a prepared task.  A repeated call with the
\* same input finds the row and changes nothing.
Enqueue(t) ==
    /\ jobs[t].state = "absent"
    /\ jobs' = [jobs EXCEPT ![t].state = "queued"]
    /\ arrivals' = Append(arrivals, t)
    /\ UNCHANGED <<clarifications, vault, worker>>

Claimable == {t \in Tasks : jobs[t].state = "queued" \/ Expired(jobs[t], "authoring")}

Fresh(k) ==
    /\ \A t \in Tasks : jobs[t].token # k
    /\ \A w \in Workers : worker[w].token # k

Claim(w, t, k) ==
    LET tries == IF jobs[t].attempts < MaxAuthorAttempts THEN jobs[t].attempts + 1
                 ELSE MaxAuthorAttempts
    IN  /\ worker[w].pc = "idle"
        /\ Oldest(arrivals, Claimable, t)
        /\ Fresh(k)
        /\ jobs' = [jobs EXCEPT ![t] = [@ EXCEPT !.state = "authoring", !.token = k,
                                                 !.lease = LeaseTicks, !.attempts = tries]]
        /\ worker' = [worker EXCEPT ![w] = [pc |-> "drafting", task |-> t, token |-> k,
                                            attempts |-> tries, suite |-> NoSuite]]
        /\ UNCHANGED <<arrivals, clarifications, vault>>

-----------------------------------------------------------------------------
(* Author, critic and gate: no transaction, any amount of time.            *)

Draft(w, s) ==
    /\ worker[w].pc = "drafting"
    /\ worker' = [worker EXCEPT ![w] = [@ EXCEPT !.pc = "reviewing", !.suite = s]]
    /\ UNCHANGED <<store, vault>>

\* Author or critic find the assignment ambiguous.
NeedAnswer(w) ==
    /\ worker[w].pc \in {"drafting", "reviewing"}
    /\ jobs[worker[w].task].revision < MaxRevision
    /\ Goto(w, "asking")
    /\ UNCHANGED <<store, vault>>

\* The critic approves the suite, or the gate sees the starter fail it twice alike.
Accept(w) ==
    \/ /\ worker[w].pc = "reviewing"
       /\ Goto(w, "gating")
       /\ UNCHANGED <<store, vault>>
    \/ /\ worker[w].pc = "gating"
       /\ Goto(w, "promoting")
       /\ UNCHANGED <<store, vault>>

Object(w) ==
    /\ worker[w].pc \in {"reviewing", "gating"}
    /\ Goto(w, "rejecting")
    /\ UNCHANGED <<store, vault>>

\* One of them raises, or the database does before anything is written.
Raise(w) ==
    /\ worker[w].pc \notin {"down", "idle", "failing"}
    /\ Goto(w, "failing")
    /\ UNCHANGED <<store, vault>>

-----------------------------------------------------------------------------
(* The transactions that end a try.                                        *)

\* request_clarification.
Ask(w) ==
    LET t == worker[w].task
        r == jobs[t].revision + 1
    IN  /\ worker[w].pc = "asking"
        /\ Mine(w)
        /\ jobs' = [jobs EXCEPT ![t] =
                    [@ EXCEPT !.state = "needs_clarification", !.token = NoToken, !.lease = 0,
                              !.revision = r, !.answer = NoAnswer]]
        /\ clarifications' = [clarifications EXCEPT ![t] =
                    Append(@, [status |-> "pending", answer |-> NoAnswer])]
        /\ worker' = [worker EXCEPT ![w] = At("idle")]
        /\ UNCHANGED <<arrivals, vault>>

\* _reject_or_retry: requeue_after_critic, or mark_authoring_failed.
Reject(w) ==
    /\ worker[w].pc = "rejecting"
    /\ Mine(w)
    /\ Settled(w, AfterTry(w))
    /\ worker' = [worker EXCEPT ![w] = At("idle")]
    /\ UNCHANGED <<arrivals, clarifications, vault>>

\* Mutant: freeze does not compare with what is in place.
Frozen_First(t, s) == vault' = IF vault[t] = NoSuite THEN [vault EXCEPT ![t] = s] ELSE vault

\* SuiteVault.freeze: the directory is put in place once and compared afterwards.
Frozen(t, s) ==
    /\ vault[t] \in {NoSuite, s}
    /\ vault' = [vault EXCEPT ![t] = s]

\* finalize_authoring: fence, freeze, commit.
Promote(w) ==
    LET t == worker[w].task
        s == worker[w].suite
    IN  /\ worker[w].pc = "promoting"
        /\ Mine(w)
        /\ Frozen(t, s)
        /\ jobs' = [jobs EXCEPT ![t] = [@ EXCEPT !.state = "ready", !.suite = s,
                                                 !.token = NoToken, !.lease = 0]]
        /\ worker' = [worker EXCEPT ![w] = At("idle")]
        /\ UNCHANGED <<arrivals, clarifications>>

\* The suite directory is renamed into place, and the commit does not happen: the
\* transaction raises, or the process dies.
Torn(w) ==
    /\ worker[w].pc = "promoting"
    /\ Mine(w)
    /\ Frozen(worker[w].task, worker[w].suite)
    /\ UNCHANGED store

PromoteRaises(w) == Torn(w) /\ Goto(w, "failing")

PromoteCrashes(w) == Torn(w) /\ worker' = [worker EXCEPT ![w] = At("down")]

\* VaultConflictError: another suite is in place, and the draft is refused.
PromoteConflict(w) ==
    /\ worker[w].pc = "promoting"
    /\ Mine(w)
    /\ vault[worker[w].task] \notin {NoSuite, worker[w].suite}
    /\ Goto(w, "failing")
    /\ UNCHANGED <<store, vault>>

\* "authoring lease is not owned": nothing is written, and nothing is promoted.
Fenced(w) ==
    /\ worker[w].pc \in {"asking", "rejecting", "promoting"}
    /\ ~Mine(w)
    /\ Goto(w, "failing")
    /\ UNCHANGED <<store, vault>>

\* Mutant: the except branch writes without the fence.
HandleFailure_Unfenced(w) ==
    /\ worker[w].pc = "failing"
    /\ Settled(w, AfterTry(w))
    /\ worker' = [worker EXCEPT ![w] = At("idle")]
    /\ UNCHANGED <<arrivals, clarifications, vault>>

\* The except branch: mark_authoring_failed or release_authoring, no-ops without the
\* lease.  Should they raise too, the loop swallows that as well.
HandleFailure(w) ==
    /\ worker[w].pc = "failing"
    /\ IF Mine(w) THEN Settled(w, AfterTry(w)) ELSE UNCHANGED jobs
    /\ worker' = [worker EXCEPT ![w] = At("idle")]
    /\ UNCHANGED <<arrivals, clarifications, vault>>

HandleFailureRaises(w) ==
    /\ worker[w].pc = "failing"
    /\ worker' = [worker EXCEPT ![w] = At("idle")]
    /\ UNCHANGED <<store, vault>>

-----------------------------------------------------------------------------
(* Mentor, processes, time.                                                *)

\* Mutant: the job is left to be requeued by somebody else.
Answer_QuestionOnly(t, r, x) ==
    /\ clarifications[t][r].status = "pending"
    /\ clarifications' = [clarifications EXCEPT ![t][r] =
                            [status |-> "answered", answer |-> x]]
    /\ UNCHANGED <<jobs, arrivals, vault, worker>>

\* answer_clarification: the first answer to a revision counts and releases the job;
\* a repeated or different one changes nothing.
Answer(t, r, x) ==
    /\ clarifications[t][r].status = "pending"
    /\ clarifications' = [clarifications EXCEPT ![t][r] =
                            [status |-> "answered", answer |-> x]]
    /\ jobs' = IF jobs[t].state = "needs_clarification" /\ jobs[t].revision = r
               THEN [jobs EXCEPT ![t] = [@ EXCEPT !.state = "queued", !.answer = x]]
               ELSE jobs
    /\ UNCHANGED <<arrivals, vault, worker>>

Start(w) ==
    /\ worker[w].pc = "down"
    /\ worker' = [worker EXCEPT ![w] = At("idle")]
    /\ UNCHANGED <<store, vault>>

Crash(w) ==
    /\ worker[w].pc # "down"
    /\ worker' = [worker EXCEPT ![w] = At("down")]
    /\ UNCHANGED <<store, vault>>

Tick ==
    /\ jobs' = [t \in Tasks |-> [jobs[t] EXCEPT !.lease = Down(@)]]
    /\ UNCHANGED <<arrivals, clarifications, vault, worker>>

WorkerStep(w) ==
    \/ Start(w)
    \/ \E t \in Tasks, k \in Tokens : Claim(w, t, k)
    \/ \E s \in Suites : Draft(w, s)
    \/ NeedAnswer(w)
    \/ Accept(w)
    \/ Object(w)
    \/ Raise(w)
    \/ Ask(w)
    \/ Reject(w)
    \/ Promote(w)
    \/ PromoteRaises(w)
    \/ PromoteConflict(w)
    \/ Fenced(w)
    \/ HandleFailure(w)
    \/ HandleFailureRaises(w)

Next ==
    \/ \E t \in Tasks : Enqueue(t)
    \/ \E t \in Tasks : \E r \in DOMAIN clarifications[t], x \in Answers : Answer(t, r, x)
    \/ \E w \in Workers : WorkerStep(w) \/ Crash(w) \/ PromoteCrashes(w)
    \/ Tick

Spec == Init /\ [][Next]_vars

-----------------------------------------------------------------------------
(* Safety.                                                                 *)

Busy(w) == worker[w].pc \notin {"down", "idle"}

Holds(w) == Busy(w) /\ Mine(w)

\* A job waits for the mentor exactly while its latest question, and no other, is
\* unanswered: no job hangs without a question, no question is asked in vain.
ClarificationMatchesJob ==
    \A t \in Tasks :
        /\ Len(clarifications[t]) = jobs[t].revision
        /\ \A r \in DOMAIN clarifications[t] :
            clarifications[t][r].status = "pending" <=>
                r = jobs[t].revision /\ jobs[t].state = "needs_clarification"

\* What the mentor answered last is what the author is told from then on, through
\* every retry, crash and late worker, until another question is asked.
AnswerReachesAuthor ==
    \A t \in Tasks :
        jobs[t].revision > 0 /\ jobs[t].state # "needs_clarification" =>
            /\ jobs[t].answer # NoAnswer
            /\ jobs[t].answer = clarifications[t][jobs[t].revision].answer

\* A job is ready only with the suite that is on disk, although the two are written
\* one after the other and either write may be the last before a crash.
ReadyIsFrozen ==
    \A t \in Tasks :
        jobs[t].state = "ready" => jobs[t].suite # NoSuite /\ jobs[t].suite = vault[t]

\* A frozen suite is never replaced, by whichever worker and with whichever draft.
VaultKept == \A t \in Tasks : vault[t] # NoSuite => vault'[t] = vault[t]
VaultIsFinal == [][VaultKept]_vars

\* ready and failed are final: no late worker, expired lease or late answer takes a
\* job out of them.
OutcomeKept == \A t \in Tasks : jobs[t].state \in {"ready", "failed"} => jobs'[t] = jobs[t]
OutcomeIsFinal == [][OutcomeKept]_vars

\* A worker that lost its lease changes neither the database nor the vault.
StaleWritesNothing ==
    \A w \in Workers :
        Busy(w) /\ ~Holds(w) /\ worker'[w] # worker[w] => UNCHANGED <<store, vault>>
StaleIsHarmless == [][StaleWritesNothing]_vars

-----------------------------------------------------------------------------
(* Liveness.                                                               *)

CrashStep == \E w \in Workers : Crash(w) \/ PromoteCrashes(w)

\* Workers run on and are restarted, the clock advances, crashes come to an end, and
\* the database does not refuse the except branch every single time.  Nothing is
\* asked of author, critic and gate.
AuthoringFairness ==
    /\ WF_vars(Tick)
    /\ \A w \in Workers : WF_vars(WorkerStep(w)) /\ SF_vars(HandleFailure(w))
    /\ <>[][~CrashStep]_vars
=============================================================================
