----------------------------- MODULE Reconcile -----------------------------
(* BridgeService.reconcile_once: from the cards of the Yonote board to a task branch,  *)
(* an authoring job and the branch URL on the card.                                    *)
(*                                                                                     *)
(* The poller and every HTTP thread that serves a Yonote webhook run a pass, with no   *)
(* lock around it. A pass takes a snapshot of the board, then works on the cards one   *)
(* after the other through three stores that share no transaction: the mappings of the *)
(* bridge, the branches on GitHub and the jobs of the grader. The first exception ends *)
(* the pass, and with it the work on the cards that come later.                        *)
EXTENDS Naturals, FiniteSetsExt

CONSTANTS
    Rows,        \* rows of the board, numbered by created_at
    Threads,     \* threads of the bridge that run passes
    Poller,      \* the one that polls
    Shas,        \* commits that prepare_branch may return
    Texts,       \* titles with descriptions
    Words,       \* ids that people write in another form than the program, which writes PY-%03d
    Number,      \* the n of those of the form PY-n, 0 for the others
    Branchable,  \* those that make a name that _BRANCH_PATTERN of the git client matches
    Gradable,    \* those that _TASK_ID of the grader matches
    Scenarios,   \* boards to start with, and bounds on what happens: edits made on the board;
                 \* faults, which are failed requests, lost answers and deaths of the bridge
    None         \* SQL NULL

\* Whose task it is. A card of nobody known is left alone.
People == {"learner", "mentor"}
\* A branch is named after the id of its task and its title; the title suffices here.
\* An id is a word, or a number n (of nine digits at most) that stands for PY-%03d.
TaskIds == Nat \cup Words
Card == [who: SUBSET People, active: BOOLEAN, project: BOOLEAN, text: Texts,
         id: TaskIds \cup {None}, url: BOOLEAN]

ASSUME ReconcileAssumption ==
    /\ Rows \subseteq Nat /\ IsFiniteSet(Rows)
    /\ Poller \in Threads
    /\ None \notin Shas \cup Texts \cup Words \cup Nat
    /\ Words \cap Nat = {} /\ Gradable \subseteq Branchable /\ Branchable \subseteq Words
    /\ Number \in [Words -> Nat]
    /\ \A s \in Scenarios :
        s.cards \in [Rows -> Card] /\ s.edits \in Nat /\ s.faults \in Nat

VARIABLES
    cards,       \* the board in Yonote
    mappings,    \* task_mappings of the bridge
    remote,      \* branches on GitHub, by row and by the title they are named after
    jobs,        \* authoring_jobs of the grader
    thread,      \* the passes in progress
    edited,      \* what people have changed on each card; a URL before the first pass is theirs
    edits, faults    \* how many more there will be

vars == <<cards, mappings, remote, jobs, thread, edited, edits, faults>>
world == <<cards, mappings, remote, jobs>>
bounds == <<edited, edits, faults>>

Mapping == [id: TaskIds \cup {None}, branch: Texts \cup {None},
            starter: Shas \cup {None}, url: BOOLEAN]
NoMapping == [id |-> None, branch |-> None, starter |-> None, url |-> FALSE]
NoBranch == [start |-> None, moved |-> FALSE]
NoJob == [state |-> "absent"]
Job == [state : {"queued", "ready"},
        input : [id : TaskIds, branch : Texts, starter : Shas, text : Texts]]
Steps == {"find", "allocate", "reserve", "prepare", "starter", "push", "branch",
          "suite", "publish"}
Pass == [pc : Steps \cup {"register"}, seen : [Rows -> Card], todo : SUBSET Rows,
         m : Mapping, sha : Shas \cup {None}]
Idle == [pc |-> "idle"]

At(t, pc) == thread[t].pc = pc
Row(t) == Min(thread[t].todo)
Seen(t) == thread[t].seen[Row(t)]
Accepted(c) == c.who # {}
ForLearner(c) == "learner" \in c.who
InHand(c) == c.active /\ Accepted(c)

Init ==
    /\ \E s \in Scenarios : cards = s.cards /\ edits = s.edits /\ faults = s.faults
    /\ mappings = [r \in Rows |-> NoMapping]
    /\ remote = [b \in Rows \X Texts |-> NoBranch]
    /\ jobs = [r \in Rows |-> NoJob]
    /\ thread = [t \in Threads |-> Idle]
    /\ edited = [r \in Rows |-> IF cards[r].url THEN {"url"} ELSE {}]

-----------------------------------------------------------------------------
(* The mapping store. *)

Ids == {mappings[r].id : r \in Rows} \ {None}
NumberOf(id) == IF id \in Words THEN Number[id] ELSE id
NextTaskId == Max({NumberOf(id) : id \in Ids} \cup {0}) + 1

\* Mutant: task_id is not UNIQUE.
Refused_NotUnique(r, id) == id # None /\ mappings[r].id \notin {None, id}

\* get_or_allocate raises: the card's id has changed, or another row has it.
Refused(r, id) ==
    /\ id # None
    /\ IF mappings[r].id # None THEN mappings[r].id # id ELSE id \in Ids

Allocated(r, id) ==
    CASE mappings[r].id # None -> mappings[r]
      [] OTHER -> [NoMapping EXCEPT !.id = IF id # None THEN id ELSE NextTaskId]

-----------------------------------------------------------------------------
(* The control of a pass. *)

\* The cards that a pass works on, and those whose ids it registers first.
Tasks(seen) == {r \in Rows : InHand(seen[r])}
Numbered(seen) == {r \in Rows : Accepted(seen[r]) /\ seen[r].id # None}

Working(seen) ==
    IF Tasks(seen) = {} THEN Idle
    ELSE [pc |-> "find", seen |-> seen, todo |-> Tasks(seen), m |-> NoMapping, sha |-> None]
\* Mutant: existing ids are not registered before new ones are allocated.
Registering_Not(seen) == Working(seen)

Registering(seen) ==
    IF Numbered(seen) = {} THEN Working(seen)
    ELSE [pc |-> "register", seen |-> seen, todo |-> Numbered(seen),
          m |-> NoMapping, sha |-> None]

Left(t) == thread[t].todo \ {Row(t)}
NextTask(t) ==
    thread' = [thread EXCEPT ![t] =
        IF Left(t) = {} THEN Idle
        ELSE [@ EXCEPT !.pc = "find", !.todo = Left(t), !.m = NoMapping, !.sha = None]]

Goto(t, pc, m) == thread' = [thread EXCEPT ![t].pc = pc, ![t].m = m, ![t].sha = None]
Raise(t) == thread' = [thread EXCEPT ![t] = Idle]

Register(t) ==
    /\ At(t, "register")
    /\ LET r == Row(t) IN
        IF Refused(r, Seen(t).id)
        THEN Raise(t) /\ UNCHANGED mappings
        ELSE /\ mappings' = [mappings EXCEPT ![r] = Allocated(r, Seen(t).id)]
             /\ thread' = [thread EXCEPT ![t] =
                    IF Left(t) = {} THEN Working(@.seen) ELSE [@ EXCEPT !.todo = Left(t)]]
    /\ UNCHANGED <<cards, remote, jobs, bounds>>

List(t) ==
    /\ At(t, "idle")
    /\ thread' = [thread EXCEPT ![t] = Registering(cards)]
    /\ UNCHANGED <<world, bounds>>

Following(c) == IF ForLearner(c) THEN "suite" ELSE "publish"

\* Mutant: a recorded branch is published without another look at the suite.
After_Recorded(m, c) ==
    IF m.starter = None THEN "prepare" ELSE IF ~ m.url THEN "push" ELSE "publish"

After(m, c) ==
    IF m.starter = None THEN "prepare" ELSE IF ~ m.url THEN "push" ELSE Following(c)

\* A card that shows a branch is only registered with the grader, if its starter is known.
FindShown(c, m) ==
    IF m.branch = None \/ m.starter = None \/ ~ ForLearner(c) THEN "next" ELSE "suite"

FindNew(c, m) ==
    IF m.branch # None THEN After(m, c)
    ELSE IF ~ c.project THEN "next"
    ELSE IF m.id = None THEN "allocate" ELSE "reserve"

Find(t) ==
    /\ At(t, "find")
    /\ LET m == mappings[Row(t)]
           pc == IF Seen(t).url THEN FindShown(Seen(t), m) ELSE FindNew(Seen(t), m)
       IN IF pc = "next" THEN NextTask(t) ELSE Goto(t, pc, m)
    /\ UNCHANGED <<world, bounds>>

-----------------------------------------------------------------------------
(* The steps of one task. *)

Allocate(t) ==
    /\ At(t, "allocate")
    /\ LET r == Row(t) IN
        IF Refused(r, Seen(t).id)
        THEN Raise(t) /\ UNCHANGED mappings
        ELSE /\ mappings' = [mappings EXCEPT ![r] = Allocated(r, Seen(t).id)]
             /\ Goto(t, "reserve", mappings'[r])
    /\ UNCHANGED <<cards, remote, jobs, bounds>>

Reserve(t) ==
    /\ At(t, "reserve")
    /\ LET r == Row(t) IN
        /\ mappings' = [mappings EXCEPT ![r].branch = IF @ = None THEN Seen(t).text ELSE @]
        /\ Goto(t, After(mappings'[r], Seen(t)), mappings'[r])
    /\ UNCHANGED <<cards, remote, jobs, bounds>>

SafeBranch(id) == id \in Words => id \in Branchable

\* The head of main, or a new commit on top of it: another one at every call. A name that
\* the pattern does not match is refused, now and at every pass.
ProjectCommits == Shas
PrepareBranch(t) ==
    /\ At(t, "prepare")
    /\ IF SafeBranch(thread[t].m.id)
       THEN \E s \in ProjectCommits : thread' = [thread EXCEPT ![t].pc = "starter", ![t].sha = s]
       ELSE Raise(t)
    /\ UNCHANGED <<world, bounds>>

\* Mutant: the commit prepared last replaces the recorded one.
RecordStarter_Replaces(t) ==
    /\ At(t, "starter")
    /\ mappings' = [mappings EXCEPT ![Row(t)].starter = thread[t].sha]
    /\ Goto(t, After(mappings'[Row(t)], Seen(t)), mappings'[Row(t)])
    /\ UNCHANGED <<cards, remote, jobs, bounds>>

\* record_starter_sha: the first commit stays.
RecordStarter(t) ==
    /\ At(t, "starter")
    /\ LET r == Row(t) IN
        IF mappings[r].starter \notin {None, thread[t].sha}
        THEN Raise(t) /\ UNCHANGED mappings
        ELSE /\ mappings' = [mappings EXCEPT ![r].starter = thread[t].sha]
             /\ Goto(t, After(mappings'[r], Seen(t)), mappings'[r])
    /\ UNCHANGED <<cards, remote, jobs, bounds>>

\* ensure_prepared_branch under the lock of the git client: the branch is at the
\* starter, or is not and the pass ends, or is created there. The answer to the push
\* may be lost.
EnsurePrepared(t) ==
    /\ At(t, "push")
    /\ LET m == thread[t].m
           b == <<Row(t), m.branch>>
           starter == [start |-> m.starter, moved |-> FALSE]
       IN CASE remote[b] = starter ->
                 Goto(t, "branch", m) /\ UNCHANGED <<remote, faults>>
            [] remote[b] = NoBranch ->
                 /\ remote' = [remote EXCEPT ![b] = starter]
                 /\ \/ Goto(t, "branch", m) /\ UNCHANGED faults
                    \/ faults > 0 /\ faults' = faults - 1 /\ Raise(t)
            [] OTHER -> Raise(t) /\ UNCHANGED <<remote, faults>>
    /\ UNCHANGED <<cards, mappings, jobs, edited, edits>>

RecordBranch(t) ==
    /\ At(t, "branch")
    /\ LET r == Row(t) IN
        /\ mappings' = [mappings EXCEPT ![r].branch = thread[t].m.branch, ![r].url = TRUE]
        /\ Goto(t, Following(Seen(t)), mappings'[r])
    /\ UNCHANGED <<cards, remote, jobs, bounds>>

ValidIdentity(id) == id \in Words => id \in Gradable

\* ensure_suite: a job is enqueued once, and its input is compared ever after. An id that
\* _validate_identity refuses has none.
Input(t) == [id |-> thread[t].m.id, branch |-> thread[t].m.branch,
             starter |-> thread[t].m.starter, text |-> Seen(t).text]
Enqueued(t) == [state |-> "queued", input |-> Input(t)]

EnsureSuite(t) ==
    /\ At(t, "suite")
    /\ LET r == Row(t) IN
        \/ /\ ValidIdentity(thread[t].m.id) /\ jobs[r] = NoJob
           /\ jobs' = [jobs EXCEPT ![r] = Enqueued(t)]
           /\ NextTask(t)
        \/ /\ ~ ValidIdentity(thread[t].m.id) \/ (jobs[r] # NoJob /\ jobs[r].input # Input(t))
           /\ Raise(t) /\ UNCHANGED jobs
        \/ /\ ValidIdentity(thread[t].m.id) /\ jobs[r] # NoJob /\ jobs[r].input = Input(t)
           /\ IF jobs[r].state = "ready" /\ ~ Seen(t).url
              THEN Goto(t, "publish", thread[t].m) ELSE NextTask(t)
           /\ UNCHANGED jobs
    /\ UNCHANGED <<cards, mappings, remote, bounds>>

\* update_fields with the id and the URL; the answer may be lost.
Publish(t) ==
    /\ At(t, "publish")
    /\ cards' = [cards EXCEPT ![Row(t)].id = thread[t].m.id, ![Row(t)].url = TRUE]
    /\ \/ NextTask(t) /\ UNCHANGED faults
       \/ faults > 0 /\ faults' = faults - 1 /\ Raise(t)
    /\ UNCHANGED <<mappings, remote, jobs, edited, edits>>

\* A request to git, the grader, the database or Yonote fails before it has any effect.
Fail(t) ==
    /\ ~ At(t, "idle")
    /\ faults > 0 /\ faults' = faults - 1
    /\ Raise(t)
    /\ UNCHANGED <<world, edited, edits>>

Step(t) == Register(t) \/ Find(t) \/ Allocate(t) \/ Reserve(t) \/ PrepareBranch(t)
           \/ RecordStarter(t) \/ EnsurePrepared(t) \/ RecordBranch(t)
           \/ EnsureSuite(t) \/ Publish(t)

Crash ==
    /\ faults > 0 /\ faults' = faults - 1
    /\ \E t \in Threads : ~ At(t, "idle")
    /\ thread' = [t \in Threads |-> Idle]
    /\ UNCHANGED <<world, edited, edits>>

-----------------------------------------------------------------------------
(* Outside the bridge. *)

Suite(r) ==
    /\ jobs[r].state = "queued"
    /\ jobs' = [jobs EXCEPT ![r].state = "ready"]
    /\ UNCHANGED <<cards, mappings, remote, thread, bounds>>

StudentPush(b) ==
    /\ remote[b] # NoBranch /\ ~ remote[b].moved
    /\ remote' = [remote EXCEPT ![b].moved = TRUE]
    /\ UNCHANGED <<cards, mappings, jobs, thread, bounds>>

Edits == {"text", "who", "active", "url"}
Edit(r, kind) ==
    /\ edits > 0 /\ edits' = edits - 1
    /\ edited' = [edited EXCEPT ![r] = @ \cup {kind}]
    /\ \/ kind = "text" /\ \E x \in Texts \ {cards[r].text} : cards' = [cards EXCEPT ![r].text = x]
       \/ kind = "who" /\ \E w \in SUBSET People \ {cards[r].who} : cards' = [cards EXCEPT ![r].who = w]
       \/ kind = "url" /\ ~ cards[r].url /\ cards' = [cards EXCEPT ![r].url = TRUE]
       \/ kind = "active" /\ cards' = [cards EXCEPT ![r].active = ~ @]
    /\ UNCHANGED <<mappings, remote, jobs, thread, faults>>

Next ==
    \/ \E t \in Threads : List(t) \/ Step(t) \/ Fail(t)
    \/ Crash
    \/ \E r \in Rows : Suite(r) \/ \E kind \in Edits : Edit(r, kind)
    \/ \E b \in Rows \X Texts : StudentPush(b)

Spec == Init /\ [][Next]_vars

\* The poller starts another pass after its pause, whatever became of the last one; a
\* thread goes on until its pass ends; the grader writes a suite for every job.
ReconcileFairness ==
    /\ WF_vars(List(Poller))
    /\ \A t \in Threads : WF_vars(Step(t))
    /\ \A r \in Rows : WF_vars(Suite(r))

-----------------------------------------------------------------------------
(* Properties. *)

\* Cards whose URL is the bridge's, not one that somebody has pasted.
published == {r \in Rows : cards[r].url /\ "url" \notin edited[r]}

\* A mapping is filled in from left to right.
Filled(m) ==
    /\ m.url => m.starter # None
    /\ m.starter # None => m.branch # None
    /\ m.branch # None => m.id # None

\* Types; mappings are filled in order; and the assertions of the code on the mapping that
\* a pass works with hold (service.py:92, 94, 126-128, 136 and 148).
TypeOK ==
    /\ cards \in [Rows -> Card]
    /\ mappings \in [Rows -> Mapping]
    /\ remote \in [Rows \X Texts -> {NoBranch} \cup [start : Shas, moved : BOOLEAN]]
    /\ jobs \in [Rows -> {NoJob} \cup Job]
    /\ thread \in [Threads -> {Idle} \cup Pass]
    /\ edited \in [Rows -> SUBSET Edits] /\ edits \in Nat /\ faults \in Nat
    /\ \A r \in Rows : Filled(mappings[r])
    /\ \A t \in Threads :
        /\ At(t, "prepare") => thread[t].m.branch # None
        /\ thread[t].pc \in {"push", "branch", "suite"} => thread[t].m.starter # None

\* One branch per task, the one reserved for it, and it starts at the recorded commit;
\* the suite is written for the same branch and the same commit. Three stores agree
\* although several passes prepare different commits for one task at the same time.
OneStarter ==
    \A r \in Rows :
        /\ \A x \in Texts : remote[<<r, x>>] # NoBranch =>
               x = mappings[r].branch /\ remote[<<r, x>>].start = mappings[r].starter
        /\ jobs[r] # NoJob =>
               /\ jobs[r].input.id = mappings[r].id
               /\ jobs[r].input.branch = mappings[r].branch
               /\ jobs[r].input.starter = mappings[r].starter

\* The branch URL of a learner's card is withheld until the hidden suite is ready. A
\* card that is given to the learner by an edit may show it already.
WithheldUntilReady ==
    \A r \in Rows :
        r \in published /\ ForLearner(cards[r]) /\ "who" \notin edited[r] =>
            jobs[r] # NoJob /\ jobs[r].state = "ready"

\* What a card was told is true: the branch exists and is recorded, the id is the task's
\* and no other task has it, whatever ids people have written on the board.
CardTellsTheTruth ==
    /\ \A r \in published :
        /\ mappings[r].url /\ cards[r].id = mappings[r].id
        /\ remote[<<r, mappings[r].branch>>] # NoBranch
    /\ \A r, s \in Rows : r # s /\ mappings[r].id # None => mappings[r].id # mappings[s].id

\* Its id is one that git client and grader accept.
Usable(c) == SafeBranch(c.id) /\ (ForLearner(c) => ValidIdentity(c.id))

\* Nothing that ends every pass, but for edits of the given kinds ("id": ids of any form): no
\* other edits, no unusable id on a card in hand, no id written by hand on two cards, no
\* branch that has moved before it was recorded.
Calm(kinds) ==
    /\ \A r \in Rows : edited[r] \subseteq kinds
    /\ "id" \notin kinds => \A r \in Rows : InHand(cards[r]) => Usable(cards[r])
    /\ \A r, s \in Rows \ published : r # s /\ cards[r].id # None => cards[r].id # cards[s].id
    /\ \A r \in Rows : mappings[r].branch # None /\ ~ mappings[r].url =>
           ~ remote[<<r, mappings[r].branch>>].moved

Served(r) == InHand(cards[r]) /\ cards[r].project => cards[r].url

\* On a calm board every card in hand with a usable project is told its branch, whatever
\* the other cards are, through races of passes, failures and crashes.
CalmBoardIsServed == []Calm({}) => \A r \in Rows : <>Served(r)

\* "Branch intent survives ... card edits" (tests/test_bridge_service.py:446): so it is,
\* too, when somebody edits the title or the description of a card.
EditedBoardIsServed == []Calm({"text"}) => \A r \in Rows : <>Served(r)

\* Ids on the board are registered as they are (_register_existing_task_ids): whatever their
\* form, the cards are served.
AnyIdIsServed == []Calm({"id"}) => \A r \in Rows : <>Served(r)
=============================================================================
