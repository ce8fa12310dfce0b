--------------------------- MODULE CheckPublishing ---------------------------
(***************************************************************************)
(* Publication of hidden grades on GitHub: the check_publications queue of *)
(* GraderStore, the CheckPublicationCoordinator processes that drain it,   *)
(* and the two publishers a deployment chooses between.  With a GitHub App *)
(* key a grade becomes a check run of its attempt: list the runs, then     *)
(* POST or PATCH.  With a plain token it becomes the one hidden-grade      *)
(* status of the commit.                                                   *)
(*                                                                         *)
(* GitHub is external.  A request may be answered, be lost, be carried out *)
(* with its answer lost, or be carried out after the client gave up.       *)
(***************************************************************************)
EXTENDS Leases

CONSTANTS
    Attempts,      \* publication ids, which are attempt ids
    Commits,
    CommitOf,      \* the commit an attempt graded
    Publishers,    \* publisher processes
    NoAttempt,
    RetryTicks,    \* delay_seconds = 30 of a failed publication, in ticks
    MaxLate        \* bound: requests per attempt GitHub may carry out belatedly

ASSUME PublishingAssumption ==
    /\ CommitOf \in [Attempts -> Commits]
    /\ NoAttempt \notin Attempts
    /\ RetryTicks \in Nat \ {0}
    /\ MaxLate \in Nat

VARIABLES
    publications,  \* table check_publications
    arrivals,      \* its rows by created_at
    publisher,     \* what each process is doing
    checks,        \* deployed as GitHubHiddenGradePublisher, not ...StatusPublisher
    checkRuns,     \* GitHub: how many hidden-grade runs carry an attempt's external_id
    statuses,      \* GitHub: the hidden-grade status of each commit
    late           \* GitHub: requests still to be carried out after their timeout

store == <<publications, arrivals>>
github == <<checkRuns, statuses, late>>
vars == <<store, publisher, checks, github>>

Verdicts == {"passed", "failed"}
NoVerdict == "none"
MaybeVerdict == Verdicts \cup {NoVerdict}

Row == [state : {"absent", "queued", "publishing", "published"}, token : MaybeToken,
        lease : 0..LeaseTicks, delay : 0..RetryTicks, passed : MaybeVerdict]

\* "claimed" is before the listing, "posting" and "patching" before the request,
\* "answered" before complete_check_publication, "failing" in the except branch.
Publisher == [pc : {"down", "idle", "claimed", "posting", "patching", "answered", "failing"},
              attempt : Attempts \cup {NoAttempt}, token : MaybeToken]

TypeOK ==
    /\ publications \in [Attempts -> Row]
    /\ arrivals \in Seq(Attempts)
    /\ publisher \in [Publishers -> Publisher]
    /\ checks \in BOOLEAN
    /\ checkRuns \in [Attempts -> Nat]
    /\ statuses \in [Commits -> MaybeVerdict]
    /\ late \in [Attempts -> 0..MaxLate]

At(pc) == [pc |-> pc, attempt |-> NoAttempt, token |-> NoToken]

Goto(p, pc) == publisher' = [publisher EXCEPT ![p] = [@ EXCEPT !.pc = pc]]

Init ==
    /\ publications = [a \in Attempts |-> [state |-> "absent", token |-> NoToken,
                                           lease |-> 0, delay |-> 0, passed |-> NoVerdict]]
    /\ arrivals = <<>>
    /\ publisher = [p \in Publishers |-> At("down")]
    /\ checks \in BOOLEAN
    /\ checkRuns = [a \in Attempts |-> 0]
    /\ statuses = [c \in Commits |-> NoVerdict]
    /\ late = [a \in Attempts |-> 0]

-----------------------------------------------------------------------------
(* The store.                                                              *)

\* complete_grading inserts the row (module Grading).
Insert(a, v) ==
    /\ publications[a].state = "absent"
    /\ publications' = [publications EXCEPT ![a] = [@ EXCEPT !.state = "queued", !.passed = v]]
    /\ arrivals' = Append(arrivals, a)
    /\ UNCHANGED <<publisher, checks, github>>

Claimable == {a \in Attempts : Due(publications[a]) \/ Expired(publications[a], "publishing")}

Fresh(t) ==
    /\ \A a \in Attempts : publications[a].token # t
    /\ \A p \in Publishers : publisher[p].token # t

Claim(p, a, t) ==
    /\ publisher[p].pc = "idle"
    /\ Oldest(arrivals, Claimable, a)
    /\ Fresh(t)
    /\ publications' = [publications EXCEPT ![a] =
            [@ EXCEPT !.state = "publishing", !.token = t, !.lease = LeaseTicks, !.delay = 0]]
    /\ publisher' = [publisher EXCEPT ![p] = [pc |-> "claimed", attempt |-> a, token |-> t]]
    /\ UNCHANGED <<arrivals, checks, github>>

Mine(p) == Owned(publications[publisher[p].attempt], "publishing", publisher[p].token)

\* complete_check_publication; unowned, it writes nothing.  The RuntimeError that
\* follows is swallowed by the loop.
Complete(p) ==
    /\ publisher[p].pc = "answered"
    /\ publications' = IF Mine(p)
                       THEN [publications EXCEPT ![publisher[p].attempt] =
                               [@ EXCEPT !.state = "published", !.token = NoToken, !.lease = 0]]
                       ELSE publications
    /\ publisher' = [publisher EXCEPT ![p] = At("idle")]
    /\ UNCHANGED <<arrivals, checks, github>>

\* Mutant: a failed publication is due at once.
Release_AtOnce(p) ==
    /\ publisher[p].pc = "failing"
    /\ publications' = IF Mine(p)
                       THEN [publications EXCEPT ![publisher[p].attempt] =
                               [@ EXCEPT !.state = "queued", !.token = NoToken, !.lease = 0]]
                       ELSE publications
    /\ publisher' = [publisher EXCEPT ![p] = At("idle")]
    /\ UNCHANGED <<arrivals, checks, github>>

\* release_check_publication, fenced the same way.
Release(p) ==
    /\ publisher[p].pc = "failing"
    /\ publications' = IF Mine(p)
                       THEN [publications EXCEPT ![publisher[p].attempt] =
                               [@ EXCEPT !.state = "queued", !.token = NoToken, !.lease = 0,
                                         !.delay = RetryTicks]]
                       ELSE publications
    /\ publisher' = [publisher EXCEPT ![p] = At("idle")]
    /\ UNCHANGED <<arrivals, checks, github>>

-----------------------------------------------------------------------------
(* GitHub.                                                                 *)

\* A POST for attempt a is carried out: one more run, or the commit's status set.
CarriedOut(a) ==
    IF checks
    THEN /\ checkRuns' = [checkRuns EXCEPT ![a] = @ + 1]
         /\ UNCHANGED statuses
    ELSE /\ statuses' = [statuses EXCEPT ![CommitOf[a]] = publications[a].passed]
         /\ UNCHANGED checkRuns

\* What may become of a POST whose sender hears nothing back.
Unanswered(a) ==
    \/ UNCHANGED github
    \/ CarriedOut(a) /\ UNCHANGED late
    \/ /\ late[a] < MaxLate
       /\ late' = [late EXCEPT ![a] = @ + 1]
       /\ UNCHANGED <<checkRuns, statuses>>

CarryOutLate(a) ==
    /\ late[a] > 0
    /\ late' = [late EXCEPT ![a] = @ - 1]
    /\ CarriedOut(a)
    /\ UNCHANGED <<store, publisher, checks>>

-----------------------------------------------------------------------------
(* The publishers.                                                         *)

\* Mutant: POST without looking for the attempt's run.
Find_Never(p) ==
    /\ publisher[p].pc = "claimed"
    /\ Goto(p, "posting")
    /\ UNCHANGED <<store, checks, github>>

\* _find: the listing decides between POST and PATCH; two runs of one attempt are
\* an error.  The status publisher does not look.
Find(p) ==
    /\ publisher[p].pc = "claimed"
    /\ Goto(p, IF ~checks \/ checkRuns[publisher[p].attempt] = 0 THEN "posting"
               ELSE IF checkRuns[publisher[p].attempt] = 1 THEN "patching"
               ELSE "failing")
    /\ UNCHANGED <<store, checks, github>>

Post(p) ==
    /\ publisher[p].pc = "posting"
    /\ CarriedOut(publisher[p].attempt)
    /\ Goto(p, "answered")
    /\ UNCHANGED <<store, checks, late>>

\* Mutant: a POST without an answer is taken for success.
PostFails_Ignored(p) ==
    /\ publisher[p].pc = "posting"
    /\ Unanswered(publisher[p].attempt)
    /\ Goto(p, "answered")
    /\ UNCHANGED <<store, checks>>

PostFails(p) ==
    /\ publisher[p].pc = "posting"
    /\ Unanswered(publisher[p].attempt)
    /\ Goto(p, "failing")
    /\ UNCHANGED <<store, checks>>

\* The PATCH sets the conclusion the run already has.
Patch(p) ==
    /\ publisher[p].pc = "patching"
    /\ Goto(p, "answered")
    /\ UNCHANGED <<store, checks, github>>

\* The listing or the PATCH fails.
RequestFails(p) ==
    /\ checks
    /\ publisher[p].pc \in {"claimed", "patching"}
    /\ Goto(p, "failing")
    /\ UNCHANGED <<store, checks, github>>

Start(p) ==
    /\ publisher[p].pc = "down"
    /\ publisher' = [publisher EXCEPT ![p] = At("idle")]
    /\ UNCHANGED <<store, checks, github>>

\* A process may die with its POST under way.
Crash(p) ==
    /\ publisher[p].pc # "down"
    /\ publisher' = [publisher EXCEPT ![p] = At("down")]
    /\ IF publisher[p].pc = "posting" THEN Unanswered(publisher[p].attempt) ELSE UNCHANGED github
    /\ UNCHANGED <<store, checks>>

Tick ==
    /\ publications' = [a \in Attempts |-> Aged(publications[a])]
    /\ UNCHANGED <<arrivals, publisher, checks, github>>

PublisherStep(p) ==
    \/ Start(p)
    \/ \E a \in Attempts, t \in Tokens : Claim(p, a, t)
    \/ Find(p)
    \/ Post(p)
    \/ PostFails(p)
    \/ Patch(p)
    \/ RequestFails(p)
    \/ Complete(p)
    \/ Release(p)

Work ==
    \/ \E a \in Attempts, v \in Verdicts : Insert(a, v)
    \/ \E p \in Publishers : PublisherStep(p) \/ Crash(p)
    \/ \E a \in Attempts : CarryOutLate(a)

Next == Work \/ Tick

Spec == Init /\ [][Next]_vars

-----------------------------------------------------------------------------
(* Safety.                                                                 *)

\* The grade of attempt a is what GitHub shows.
Shown(a) == IF checks THEN checkRuns[a] > 0
            ELSE statuses[CommitOf[a]] = publications[a].passed

\* A publication is closed only when its grade is to be seen on GitHub, through
\* every crash, lost answer and change of hands.
PublishedIsShown == \A a \in Attempts : publications[a].state = "published" => Shown(a)

\* Publishing is an upsert by publication id: while one publisher runs at a time, and GitHub carries
\* out no request that its sender has given up, an attempt has one check run however often it is
\* retried.
OneAtATime == \A p, q \in Publishers : publisher[p].pc # "down" /\ publisher[q].pc # "down" => p = q
NothingLate == \A a \in Attempts : late[a] = 0

OneRunPerAttempt ==
    [](OneAtATime /\ NothingLate) => [](\A a \in Attempts : checkRuns[a] <= 1)

\* Once published, no late publisher reopens the publication.
PublishedKept ==
    \A a \in Attempts :
        publications[a].state = "published" => publications'[a] = publications[a]
PublishedIsFinal == [][PublishedKept]_vars

-----------------------------------------------------------------------------
(* Liveness.                                                               *)

\* A tick is the thirty seconds of a retry: longer than any idle wait of the loop.
Polled == \A p \in Publishers : publisher[p].pc = "idle" => Claimable = {}

PromptTick == Polled /\ Tick

CrashStep == \E p \in Publishers : Crash(p)

\* As in Grading: processes run on and are restarted, crashes come to an end, in the end one
\* publisher runs and time passes promptly, and GitHub does not refuse an attempt in Healthy
\* every single time.
PublishingFairness(last, Healthy) ==
    /\ WF_vars(PromptTick) /\ WF_vars(PublisherStep(last))
    /\ \A a \in Healthy :
        /\ SF_vars(publisher[last].attempt = a /\ Find(last))
        /\ SF_vars(publisher[last].attempt = a /\ Post(last))
        /\ SF_vars(publisher[last].attempt = a /\ Patch(last))
    /\ <>[][/\ ~CrashStep /\ (Tick => Polled)
            /\ \A p \in Publishers \ {last} : ~PublisherStep(p)]_vars
=============================================================================
