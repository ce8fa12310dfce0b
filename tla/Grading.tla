------------------------------- MODULE Grading -------------------------------
(***************************************************************************)
(* Hidden grading of pushed commits: the grading_attempts queue of         *)
(* GraderStore, the GradingCoordinator workers that drain it, and the two  *)
(* outbox rows a finished attempt leaves in the same transaction.          *)
(*                                                                         *)
(* Every GraderStore method is one BEGIN IMMEDIATE transaction, hence one  *)
(* step.  A worker takes its steps between the transactions, and other     *)
(* workers, the clock and crashes interleave there.  The hidden suite, the *)
(* export of the commit and the virtual machine are abstracted to what the *)
(* coordinator sees of them: a verdict, not always the same for the same   *)
(* commit (a case may time out), or an exception.                          *)
(***************************************************************************)
EXTENDS Leases

CONSTANTS
    Attempts,             \* attempt identities: (task_id, commit_sha) pairs
    Workers,              \* grading worker processes
    NoAttempt,            \* a worker with nothing claimed
    MaxGradingAttempts,   \* max_grading_attempts
    RetryBase,            \* grading_retry_base_seconds, in ticks
    RetryCap              \* the 3600 seconds no delay exceeds, in ticks

ASSUME GradingAssumption ==
    /\ NoAttempt \notin Attempts
    /\ MaxGradingAttempts \in Nat \ {0}
    /\ RetryBase \in Nat \ {0}
    /\ RetryCap \in Nat \ {0}
    /\ RetryBase <= RetryCap

VARIABLES
    grading,         \* table grading_attempts
    arrivals,        \* its attempts by created_at
    publications,    \* verdict of the check_publications row, if inserted
    notifications,   \* verdict of the mentor_notifications row, if inserted
    worker           \* what each worker process is doing

store == <<grading, arrivals, publications, notifications>>
vars == <<store, worker>>

Verdicts == {"passed", "failed"}
NoVerdict == "none"
MaybeVerdict == Verdicts \cup {NoVerdict}

Row == [state : {"absent", "queued", "grading", "completed", "failed"},
        token : MaybeToken,
        lease : 0..LeaseTicks,
        attempts : 0..MaxGradingAttempts,   \* counts no further than it is compared
        delay : 0..RetryCap,
        passed : MaybeVerdict]

\* A worker's program counter.  "running" is between the claim and the end of
\* evaluate, "graded" before complete_grading, "failing" in the except branch.
Worker == [pc : {"down", "idle", "running", "graded", "failing"},
           attempt : Attempts \cup {NoAttempt},
           token : MaybeToken,
           verdict : MaybeVerdict]

TypeOK ==
    /\ grading \in [Attempts -> Row]
    /\ arrivals \in Seq(Attempts)
    /\ publications \in [Attempts -> MaybeVerdict]
    /\ notifications \in [Attempts -> MaybeVerdict]
    /\ worker \in [Workers -> Worker]

-----------------------------------------------------------------------------
Blank(state) == [state |-> state, token |-> NoToken, lease |-> 0, attempts |-> 0,
                 delay |-> 0, passed |-> NoVerdict]

At(pc) == [pc |-> pc, attempt |-> NoAttempt, token |-> NoToken, verdict |-> NoVerdict]

\* The table may hold an attempt an earlier release gave up on: the state
\* 'failed' is never written any more, only migrated away.  At most one such
\* row (a bound).
Init ==
    /\ arrivals \in {<<>>} \cup {<<a>> : a \in Attempts}
    /\ grading = [a \in Attempts |->
                    Blank(IF arrivals = <<a>> THEN "failed" ELSE "absent")]
    /\ publications = [a \in Attempts |-> NoVerdict]
    /\ notifications = [a \in Attempts |-> NoVerdict]
    /\ worker = [w \in Workers |-> At("down")]

-----------------------------------------------------------------------------
(* The store.                                                              *)

Claimable == {a \in Attempts : Due(grading[a]) \/ Expired(grading[a], "grading")}

\* Mutant: a token may come back while an old worker still carries it.
Fresh_RowsOnly(t) == \A a \in Attempts : grading[a].token # t

Fresh(t) == /\ \A a \in Attempts : grading[a].token # t
            /\ \A w \in Workers : worker[w].token # t

\* The three updates of a claimed row.
Claimed(row, t) ==
    [row EXCEPT !.state = "grading", !.token = t, !.lease = LeaseTicks, !.delay = 0,
                !.attempts = IF row.attempts < MaxGradingAttempts THEN row.attempts + 1
                             ELSE MaxGradingAttempts]

Completed(row, v) ==
    [row EXCEPT !.state = "completed", !.passed = v, !.token = NoToken, !.lease = 0]

\* Backoff after the n-th failure; when the tries are used up the attempt is
\* parked for the longest delay and starts counting from zero again.
RetryDelay(n) ==
    LET doubled == RetryBase * 2^(IF n = 0 THEN 0 ELSE n - 1)
    IN  IF n >= MaxGradingAttempts \/ doubled \notin 0..RetryCap
        THEN RetryCap ELSE doubled

\* Mutant: a failed attempt is due again at once.
Released_AtOnce(row) ==
    [row EXCEPT !.state = "queued", !.token = NoToken, !.lease = 0,
                !.attempts = IF row.attempts >= MaxGradingAttempts THEN 0 ELSE @]

Released(row) ==
    [row EXCEPT !.state = "queued", !.token = NoToken, !.lease = 0,
                !.delay = RetryDelay(row.attempts),
                !.attempts = IF row.attempts >= MaxGradingAttempts THEN 0 ELSE @]

\* The migration every process runs when it opens the database.
Migrated(row) == IF row.state = "failed" THEN Blank("queued") ELSE row
Initialize == grading' = [a \in Attempts |-> Migrated(grading[a])]

OrIgnore(table, a, v) ==
    IF table[a] = NoVerdict THEN [table EXCEPT ![a] = v] ELSE table

-----------------------------------------------------------------------------
(* Actions.                                                                *)

\* A push of a commit to a task whose suite is ready; a repeated push finds the
\* row and changes nothing.
Enqueue(a) ==
    /\ grading[a].state = "absent"
    /\ \A b \in Attempts : grading[b].state # "failed"   \* the bridge migrated at start
    /\ grading' = [grading EXCEPT ![a] = Blank("queued")]
    /\ arrivals' = Append(arrivals, a)
    /\ UNCHANGED <<publications, notifications, worker>>

\* The bridge, the check publisher or the bot starts.
OpenStore ==
    /\ \E a \in Attempts : grading[a].state = "failed"
    /\ Initialize
    /\ UNCHANGED <<arrivals, publications, notifications, worker>>

Start(w) ==
    /\ worker[w].pc = "down"
    /\ Initialize
    /\ worker' = [worker EXCEPT ![w] = At("idle")]
    /\ UNCHANGED <<arrivals, publications, notifications>>

Claim(w, a, t) ==
    /\ worker[w].pc = "idle"
    /\ Oldest(arrivals, Claimable, a)
    /\ Fresh(t)
    /\ grading' = [grading EXCEPT ![a] = Claimed(@, t)]
    /\ worker' = [worker EXCEPT ![w] =
                    [pc |-> "running", attempt |-> a, token |-> t, verdict |-> NoVerdict]]
    /\ UNCHANGED <<arrivals, publications, notifications>>

\* vault.load, export, evaluate and _summarize went through.
Evaluate(w, v) ==
    /\ worker[w].pc = "running"
    /\ worker' = [worker EXCEPT ![w] = [@ EXCEPT !.pc = "graded", !.verdict = v]]
    /\ UNCHANGED store

\* One of them, or complete_grading itself, raised and nothing was written.
InfrastructureFailure(w) ==
    /\ worker[w].pc \in {"running", "graded"}
    /\ worker' = [worker EXCEPT ![w] = [@ EXCEPT !.pc = "failing"]]
    /\ UNCHANGED store

\* Mutant: the mentor's row is left to a later transaction.
Complete_CheckOnly(w) ==
    /\ worker[w].pc = "graded"
    /\ Owned(grading[worker[w].attempt], "grading", worker[w].token)
    /\ grading' = [grading EXCEPT ![worker[w].attempt] = Completed(@, worker[w].verdict)]
    /\ publications' = OrIgnore(publications, worker[w].attempt, worker[w].verdict)
    /\ worker' = [worker EXCEPT ![w] = At("idle")]
    /\ UNCHANGED <<arrivals, notifications>>

\* complete_grading with the lease still owned: verdict and outbox in one commit.
Complete(w) ==
    LET a == worker[w].attempt
        v == worker[w].verdict
    IN  /\ worker[w].pc = "graded"
        /\ Owned(grading[a], "grading", worker[w].token)
        /\ grading' = [grading EXCEPT ![a] = Completed(@, v)]
        /\ publications' = OrIgnore(publications, a, v)
        /\ notifications' = OrIgnore(notifications, a, v)
        /\ worker' = [worker EXCEPT ![w] = At("idle")]
        /\ UNCHANGED arrivals

\* complete_grading returned False: "grading lease was lost before completion".
CompleteFenced(w) ==
    /\ worker[w].pc = "graded"
    /\ ~Owned(grading[worker[w].attempt], "grading", worker[w].token)
    /\ worker' = [worker EXCEPT ![w] = [@ EXCEPT !.pc = "failing"]]
    /\ UNCHANGED store

\* release_grading, which writes nothing when the lease is no longer owned; the
\* RuntimeError that follows is swallowed by the worker's loop either way.
Release(w) ==
    LET a == worker[w].attempt
    IN  /\ worker[w].pc = "failing"
        /\ grading' = IF Owned(grading[a], "grading", worker[w].token)
                      THEN [grading EXCEPT ![a] = Released(@)]
                      ELSE grading
        /\ worker' = [worker EXCEPT ![w] = At("idle")]
        /\ UNCHANGED <<arrivals, publications, notifications>>

\* The process dies, or an exception the loop does not catch ends it: the row
\* keeps its lease.
Crash(w) ==
    /\ worker[w].pc # "down"
    /\ worker' = [worker EXCEPT ![w] = At("down")]
    /\ UNCHANGED store

Tick ==
    /\ grading' = [a \in Attempts |-> Aged(grading[a])]
    /\ UNCHANGED <<arrivals, publications, notifications, worker>>

WorkerStep(w) ==
    \/ Start(w)
    \/ \E a \in Attempts, t \in Tokens : Claim(w, a, t)
    \/ \E v \in Verdicts : Evaluate(w, v)
    \/ InfrastructureFailure(w)
    \/ Complete(w)
    \/ CompleteFenced(w)
    \/ Release(w)

Work ==
    \/ OpenStore
    \/ \E a \in Attempts : Enqueue(a)
    \/ \E w \in Workers : WorkerStep(w) \/ Crash(w)

Next == Work \/ Tick

Spec == Init /\ [][Next]_vars

-----------------------------------------------------------------------------
(* Safety.                                                                 *)

Busy(w) == worker[w].pc \in {"running", "graded", "failing"}

\* Worker w may still write the row of its attempt.
Holds(w) == Busy(w) /\ Owned(grading[worker[w].attempt], "grading", worker[w].token)

\* However often an attempt was leased, expired and leased again, at most one
\* of the workers that still believe in a claim of it can write the row.
AtMostOneWriter ==
    \A w1, w2 \in Workers :
        Holds(w1) /\ Holds(w2) /\ worker[w1].attempt = worker[w2].attempt => w1 = w2

\* The student's check, the mentor's report and the attempt never tell different
\* stories: the two outbox rows exist exactly for completed attempts and carry
\* their verdict, whichever of several workers decided it.
OutboxAgrees ==
    \A a \in Attempts :
        /\ publications[a] = grading[a].passed
        /\ notifications[a] = grading[a].passed
        /\ grading[a].passed # NoVerdict <=> grading[a].state = "completed"

\* A verdict on record is final: no late worker, retry, expired lease, restart or
\* repeated push reopens or changes a completed attempt.
VerdictKept ==
    \A a \in Attempts : grading[a].state = "completed" => grading'[a] = grading[a]
VerdictFinal == [][VerdictKept]_vars

\* While its lease runs, an attempt leaves the hands of its worker only by that
\* worker's own complete or release.
EndedByHolder(a) ==
    \E w \in Workers :
        /\ worker[w].attempt = a
        /\ worker[w].token = grading[a].token
        /\ worker'[w].pc = "idle"
LeaseHonoured ==
    \A a \in Attempts :
        grading[a].lease > 0 /\ grading'[a].token # grading[a].token => EndedByHolder(a)
LeaseProtects == [][LeaseHonoured]_vars

\* A worker that lost its lease (expired and reclaimed, or completed by another)
\* runs on to its own end without changing anything in the database.
StaleWritesNothing ==
    \A w \in Workers :
        Busy(w) /\ ~Holds(w) /\ worker'[w] # worker[w] => UNCHANGED store
StaleIsHarmless == [][StaleWritesNothing]_vars

-----------------------------------------------------------------------------
(* Refinement.                                                             *)

Grades == INSTANCE HiddenGrades WITH
    requested <- {a \in Attempts : grading[a].state # "absent"},
    verdict   <- [a \in Attempts |-> grading[a].passed],
    published <- publications,
    notified  <- notifications

\* Queue, leases, retries and crashes together do what HiddenGrades says: one
\* verdict per requested attempt, reported in the step that decides it.
ImplementsHiddenGrades == Grades!Spec

-----------------------------------------------------------------------------
(* Liveness.                                                               *)

\* A tick is the shortest retry delay, five seconds; an idle worker polls every
\* second and a failed one after two, so a tick never passes over a worker that
\* has something to claim.
Polled == \A w \in Workers : worker[w].pc = "idle" => Claimable = {}

PromptTick == Polled /\ Tick

CrashStep == \E w \in Workers : Crash(w)

EvaluateIt(w, a) == worker[w].attempt = a /\ \E v \in Verdicts : Evaluate(w, v)

CompleteIt(w, a) == worker[w].attempt = a /\ Complete(w)

\* The container is restarted and the loop runs on (WF); the clock advances, in the end
\* promptly; processes do not crash for ever, and in the end one worker runs, as in
\* compose.yaml; for an attempt in Healthy, and only for those, the virtual machine and the
\* database do not fail every single time.
GradingFairness(last, Healthy) ==
    /\ WF_vars(PromptTick) /\ WF_vars(WorkerStep(last))
    /\ \A a \in Healthy : SF_vars(EvaluateIt(last, a)) /\ SF_vars(CompleteIt(last, a))
    /\ <>[][/\ ~CrashStep /\ (Tick => Polled)
            /\ \A w \in Workers \ {last} : ~WorkerStep(w)]_vars
=============================================================================
