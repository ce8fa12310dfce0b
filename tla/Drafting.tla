------------------------------ MODULE Drafting ------------------------------
(* What happens inside a try of Authoring: the drafts of the author and their repairs       *)
(* (author.py, contracts.py), the verdict of the critic (critic.py), the two runs of the    *)
(* starter (acceptance.py), and the feedback that the next try is given. Each step is one   *)
(* of Authoring's, with the reason for it; a suite is what the starter does on its cases.   *)
(* The worker is the only one, so that no lease is lost to another.                         *)
EXTENDS Authoring

CONSTANTS
    Cases,          \* the cases of a suite
    MaxRepairs,     \* max_contract_repairs
    NoObjection,    \* critic_feedback_json is NULL
    MaxFaults       \* bound: failures of broker, source, VM, database or process

\* What the starter does on a case: it meets the expectation, does not, ends without a
\* result ("student process failed"), or behaves differently from run to run.
Behaviours == {"meets", "fails", "dies", "varies"}

\* What a draft may be sent back for.
Objections == {"critic", "not deterministic", "no defect"}

ASSUME DraftingAssumption ==
    /\ NoObjection \notin Objections
    /\ Suites \subseteq [Cases -> Behaviours]
    /\ {MaxRepairs, MaxFaults} \subseteq Nat
    /\ \A v, w \in Workers : v = w   \* as compose.yaml has it; for more see Authoring

VARIABLES
    feedback,   \* column critic_feedback_json of each task
    call,       \* of each worker: the objection its author was told, later the one to the
                \* draft; the answer it was told, the repairs, the question
    record,     \* history, of each task: see Record
    faults      \* failures so far

detail == <<feedback, call, record, faults>>

Call == [objection : Objections \cup {NoObjection}, answer : Answers \cup {NoAnswer},
         repairs : 0 .. MaxRepairs, question : {"none", "short", "long"}]

NoCall == [objection |-> NoObjection, answer |-> NoAnswer, repairs |-> 0, question |-> "none"]

\* The requests to the language model, the latest objection that a try ended with, the suite
\* that the critic approved last, the runs the gate made last, and whether the latest valid
\* reply was a question.
Record == [requests : Nat, objection : Objections \cup {NoObjection},
           approved : Suites \cup {NoSuite}, runs : Seq([Cases -> {"meets", "fails", "dies"}]),
           question : BOOLEAN]

DraftingInit ==
    /\ Init
    /\ feedback = [t \in Tasks |-> NoObjection]
    /\ call = [w \in Workers |-> NoCall]
    /\ record = [t \in Tasks |-> [requests |-> 0, objection |-> NoObjection,
                                  approved |-> NoSuite, runs |-> <<>>, question |-> FALSE]]
    /\ faults = 0

Fault == faults < MaxFaults /\ faults' = faults + 1

\* One request to the broker, and what is remembered of it.
Asked(w, r) == record' = [record EXCEPT ![worker[w].task] =
                            [r EXCEPT !.requests = @ + 1]]

Seen(w) == record[worker[w].task]

-----------------------------------------------------------------------------
\* claim_next_authoring and _context: the next try starts from the answer of the mentor and
\* the stored feedback.
Begin(w) ==
    \E t \in Tasks, k \in Tokens :
        /\ Claim(w, t, k)
        /\ call' = [call EXCEPT ![w] = [NoCall EXCEPT !.objection = feedback[t],
                                                      !.answer = jobs[t].answer]]
        /\ UNCHANGED <<feedback, record, faults>>

\* A draft that passes SuiteDraft.from_cli_output and _validate_suite_targets.
Drafted(w) ==
    /\ \E s \in Suites : Draft(w, s)
    /\ Asked(w, [Seen(w) EXCEPT !.question = FALSE])
    /\ UNCHANGED <<feedback, call, faults>>

Repairable(w) == call[w].repairs < MaxRepairs

\* One that does not, which the author is asked to repair, without assignment and feedback.
Malformed(w) ==
    /\ worker[w].pc = "drafting"
    /\ IF Repairable(w)
       THEN call' = [call EXCEPT ![w].repairs = @ + 1] /\ UNCHANGED vars
       ELSE Raise(w) /\ UNCHANGED call
    /\ Asked(w, Seen(w))
    /\ UNCHANGED <<feedback, faults>>

\* clarification_required, by author or critic: contract and verdict allow a question of
\* 1000 characters.
Question(w) ==
    /\ NeedAnswer(w)
    /\ \E length \in {"short", "long"} : call' = [call EXCEPT ![w].question = length]
    /\ Asked(w, [Seen(w) EXCEPT !.question = TRUE])
    /\ UNCHANGED <<feedback, faults>>

\* HermesTestCritic.review approves the draft.
Approve(w) ==
    /\ worker[w].pc = "reviewing"
    /\ Accept(w)
    /\ Asked(w, [Seen(w) EXCEPT !.approved = worker[w].suite])
    /\ UNCHANGED <<feedback, call, faults>>

Note(w, objection) == call' = [call EXCEPT ![w].objection = objection]

\* It rejects it.
Disapprove(w) ==
    /\ worker[w].pc = "reviewing"
    /\ Object(w) /\ Note(w, "critic")
    /\ Asked(w, Seen(w))
    /\ UNCHANGED <<feedback, faults>>

\* The verdict contradicts itself, or names a case that the suite does not have.
InvalidVerdict(w) ==
    /\ worker[w].pc = "reviewing"
    /\ Raise(w)
    /\ Asked(w, Seen(w))
    /\ UNCHANGED <<feedback, call, faults>>

\* VmSuiteExecutor.evaluate of the starter.
Runs(suite) ==
    {r \in [Cases -> {"meets", "fails", "dies"}] :
        \A c \in Cases : suite[c] # "varies" => r[c] = suite[c]}

Passed(run) == \A c \in Cases : run[c] = "meets"

\* Mutant: the gate compares which runs passed, and not case by case.
GateObjection_coarse(first, second) ==
    CASE Passed(first) # Passed(second) -> "not deterministic"
      [] Passed(first) /\ Passed(second) -> "no defect"
      [] OTHER -> NoObjection

\* The failures that acceptance.py calls executor protocol failures are worded otherwise by
\* VmSuiteExecutor, so that "dies" is a failure like any other.
GateObjection(first, second) ==
    CASE first # second -> "not deterministic"
      [] first = second /\ Passed(first) -> "no defect"
      [] OTHER -> NoObjection

\* StarterFailureGate.validate.
Gate(w) ==
    /\ worker[w].pc = "gating"
    /\ \E first, second \in Runs(worker[w].suite) :
        /\ IF GateObjection(first, second) = NoObjection
           THEN Accept(w) /\ UNCHANGED call
           ELSE Object(w) /\ Note(w, GateObjection(first, second))
        /\ record' = [record EXCEPT ![worker[w].task].runs = <<first, second>>]
    /\ UNCHANGED <<feedback, faults>>

-----------------------------------------------------------------------------
\* The worker forgets the try.
Forget(w) == call' = [call EXCEPT ![w] = NoCall]

\* request_clarification.
AskMentor(w) ==
    /\ call[w].question = "short" /\ Ask(w)
    /\ Forget(w) /\ UNCHANGED <<feedback, record, faults>>

\* It refuses a question of more than 500 characters, with a ValueError.
RefuseQuestion(w) ==
    /\ worker[w].pc = "asking" /\ call[w].question = "long"
    /\ Raise(w) /\ UNCHANGED detail

\* Mutant: a release clears the feedback.
KeepFeedback_not(w) == feedback' = [feedback EXCEPT ![worker[w].task] = NoObjection]

\* release_authoring leaves critic_feedback_json as it is.
KeepFeedback(w) == UNCHANGED feedback

\* requeue_after_critic writes the feedback, mark_authoring_failed leaves it.
RejectDraft(w) ==
    /\ Reject(w) /\ Forget(w)
    /\ LET t == worker[w].task
       IN  /\ feedback' = IF AfterTry(w) = "queued"
                          THEN [feedback EXCEPT ![t] = call[w].objection] ELSE feedback
           /\ record' = [record EXCEPT ![t].objection =
                            IF AfterTry(w) = "queued" THEN call[w].objection ELSE @]
    /\ UNCHANGED faults

Release(w) == HandleFailure(w) /\ KeepFeedback(w) /\ Forget(w) /\ UNCHANGED <<record, faults>>

\* finalize_authoring, with a vault that may hold the suite of an earlier try.
Freeze(w) ==
    \/ Promote(w) /\ Forget(w) /\ UNCHANGED <<feedback, record, faults>>
    \/ PromoteConflict(w) /\ UNCHANGED detail

\* Broker, source, VM or database fail, before or after a transaction's first half.
Disturb(w) ==
    /\ Fault /\ UNCHANGED <<feedback, record>>
    /\ \/ (Raise(w) \/ PromoteRaises(w)) /\ UNCHANGED call
       \/ (HandleFailureRaises(w) \/ Crash(w) \/ PromoteCrashes(w)) /\ Forget(w)

\* What goes on outside of a try.
Around ==
    /\ \/ \E t \in Tasks : Enqueue(t)
       \/ \E t \in Tasks : \E r \in DOMAIN clarifications[t], x \in Answers : Answer(t, r, x)
       \/ \E w \in Workers : Start(w)
       \/ Tick
    /\ UNCHANGED detail

DraftingNext ==
    \/ \E w \in Workers :
        \/ Begin(w) \/ Drafted(w) \/ Malformed(w) \/ Question(w)
        \/ Approve(w) \/ Disapprove(w) \/ InvalidVerdict(w) \/ Gate(w)
        \/ AskMentor(w) \/ RefuseQuestion(w) \/ RejectDraft(w) \/ Release(w) \/ Freeze(w)
        \/ Disturb(w)
    \/ Around

DraftingSpec == DraftingInit /\ [][DraftingNext]_<<vars, detail>>

-----------------------------------------------------------------------------
DraftingTypeOK ==
    /\ TypeOK
    /\ feedback \in [Tasks -> Objections \cup {NoObjection}]
    /\ call \in [Workers -> Call]
    /\ \A t \in Tasks :
        /\ record[t] \in Record
        /\ Len(record[t].runs) \in {0, 2}
    /\ faults \in 0 .. MaxFaults

\* The suite on disk of a ready job is the one that the critic approved last, and the starter
\* failed it, case by case alike, in the last two runs of the gate (README.md:52), although an
\* earlier try may have left its own suite in the vault.
FrozenIsAccepted ==
    \A t \in Tasks : jobs[t].state = "ready" =>
        /\ vault[t] = record[t].approved
        /\ record[t].runs[1] = record[t].runs[2]
        /\ record[t].runs[1] \in Runs(vault[t])
        /\ ~Passed(record[t].runs[1])

\* The author of every try is told the latest objection to an earlier draft and the latest answer
\* of the mentor, also when tries that failed, crashed or asked lie between (coordinator.py:99).
AuthorIsTold ==
    \A w \in Workers : Holds(w) /\ worker[w].pc = "drafting" =>
        LET t == worker[w].task
        IN  /\ call[w].objection = record[t].objection
            /\ jobs[t].revision > 0 =>
                call[w].answer = clarifications[t][jobs[t].revision].answer

\* The language model is asked a bounded number of times for a task: in each try for a draft, its
\* repairs and a verdict; tries are counted, but for those that a question or a failure entails.
RequestsAreBounded ==
    \A t \in Tasks : record[t].requests <=
        (MaxAuthorAttempts + jobs[t].revision + faults) * (MaxRepairs + 2)

\* A suite whose only failures of the starter are those of the executor's protocol is rejected
\* (acceptance.py:54).
ProtocolFailuresAreRejected ==
    \A t \in Tasks : jobs[t].state = "ready" =>
        \E c \in Cases : record[t].runs[1][c] = "fails"

\* A job whose latest valid reply is a question waits for the mentor; it does not fail
\* (test_grader_coordinator.py:151).
QuestionReachesMentor ==
    \A t \in Tasks : jobs[t].state = "failed" => ~record[t].question
=============================================================================
