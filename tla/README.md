# Verification of menti-daniil

TLA+ models of the bridge (`src/bridge`) and of the grader (`src/grader`): the
passes, queues, leases, retries and external calls through which a Yonote card
becomes a branch and a hidden test suite, a student's push becomes a hidden grade
on GitHub, a pull request moves the card, and the mentor is asked and told by
Telegram, and the processes behind a single grade: author and critic, the VM
launcher, the guest and the student's program. TLC checks every module on small
instances; TLAPS proves nine of them correct for all values of their constants, among them
the composition of the four queues that a push goes through.

Paths such as `bridge/store.py` are relative to `src/`. In this directory,
`tlc -config <run>.cfg <MC module>` checks a run of section 3 and
`tlapm <module>Proofs.tla` the proofs of section 4.

## 1. The system

Processes (`compose.yaml`, all `restart: unless-stopped`): the **bridge** (an
HTTP server with one thread per request, a poller thread, a webhook retrier
thread), one **authoring worker**, one **grading worker**, one **check
publisher**, the **Telegram bot** and the **VM launcher**; the **language-model
broker** is started outside Compose (`README.md:68`). The bridge has its own SQLite database; the grader's processes and the bridge share a second one. Every method
of the two stores is one `BEGIN IMMEDIATE` transaction, so a method is one atomic
step, and everything hard happens between two of them.

| Component | State | Operations | Interacts with |
|---|---|---|---|
| Webhook delivery queue (`bridge/store.py`, `bridge/github_webhook.py`, `bridge/main.py`) | `webhook_deliveries`: status, lease, token, `next_attempt_at` | `claim_delivery`, `claim_next_delivery`, `complete_delivery` (prunes), `release_delivery` | GitHub delivers; HTTP threads and the retrier process |
| Pull-request lifecycle (`bridge/github_webhook.py`) | `pr_number`, `pr_state`, `pr_updated_at` of `task_mappings`; the Yonote card; the lifecycle lock | `_handle_claimed`, `_should_apply`, `record_pr_event` | asks GitHub, writes Yonote |
| Push handling (`bridge/github_webhook.py`, `grader/gateway.py`) | none of its own | `_handle_push`, `enqueue_commit` | raises while the suite is not ready, so that the delivery stays queued |
| Reconciliation (`bridge/service.py`, `bridge/github_git.py`) | `task_mappings`: id, branch, URL, starter SHA | `reconcile_once` with `get_or_allocate`, `reserve_branch`, `prepare_branch`, `record_starter_sha`, `ensure_prepared_branch`, `record_branch`, `update_fields` | poller and Yonote-webhook threads run it concurrently, without a lock; `ensure_suite` enqueues authoring jobs |
| Authoring (`grader/coordinator.py`, `grader/store.py`) | `authoring_jobs`, `clarifications`, the suite vault on disk | enqueue, claim, ask, answer, reject, fail, `finalize_authoring` + `SuiteVault.freeze` | author, critic, acceptance gate, mentor (through the bot) |
| Grading (`grader/grading_coordinator.py`, `grader/store.py`) | `grading_attempts` and the two outbox tables | enqueue, claim, complete, release with backoff and parking, migration at start | vault, commit export, VM |
| Check publishing (`grader/check_publication.py`, `grader/github_checks.py`, `grader/github_app.py`) | `check_publications`; check runs or statuses on GitHub | claim, find, POST or PATCH, complete, release | GitHub |
| Menti bot (`grader/menti_bot.py`, `grader/telegram_bot_cli.py`) | `conversations`, `processed_updates`; in the grader's database `mentor_notifications`; the offset, in memory | `sync_mentor_notification`, `sync_pending_clarification`, `handle_update` | Telegram, `answer_clarification` |
| Author, critic, gate (`grader/author.py`, `grader/critic.py`, `grader/contracts.py`, `grader/acceptance.py`) | within a try: the draft, its repairs, the objection; across tries: `critic_feedback_json` | draft, repair, review, run the starter twice | the broker; the VM; the authoring job |
| VM launcher (`grader/vm_launcher.py`, `grader/qemu_launcher_server.py`, `grader/qemu_backend.py`) | one connection at a time, a queue behind it | connect, serve, give up | grading worker and acceptance gate; qemu |
| One case (`grader/source.py`, `grader/vm_executor.py`, `grader/guest_supervisor.py`) | five nested limits, an observation | export, send, boot, run, compare | the launcher; the guest |
| The student's processes (`grader/guest_case_runner.py`) | processes, parents, process groups | fork, `setsid`, exit; kill, scan `/proc`, reap | the kernel of the guest |

What is hard, and what makes each part correct:

- **Leases without renewal.** A claim lasts 300 seconds whatever the work takes.
  The same row may be in several hands; only the fencing token (`WHERE state = …
  AND lease_token = ?`) tells them apart. Correct: one writer at a time, a live
  lease is respected, a stale worker changes nothing, a settled row stays settled.
- **Two writes that one failure can separate.** Verdict and outbox are in one
  transaction; vault and job, card and record, question and conversation, GitHub
  and publication are not. Correct: no state after any crash contradicts another
  for good.
- **External calls with lost or late answers.** A request that timed out may have
  been carried out, or be carried out later. Correct: closing a publication means
  the grade is shown; retrying does not double it.
- **Order.** GitHub's deliveries arrive late, twice, and within one second of each
  other. Correct: the record and the card converge to GitHub's state.
- **A loop whose body raises.** A reconciliation pass ends at the first exception, at
  the same card every time. Correct: each card in hand gets its branch, whatever
  the other cards are, unless one of them is refused at every pass (section 3 says which are).
- **Retries that must not starve others.** Queues are served oldest first. Correct:
  what can be done is done, although something older fails every time.
- **Whose failure it is.** Export, launcher, guest and interpreter can fail or be slow
  around a student's program. Correct: what they do wrong is never a grade, what the
  program does wrong is one, except for the programs that the code makes
  infrastructure failures of: section 5, items 4, 5 and 8, commits with a file where
  the case puts one, and programs whose processes take more than half a second to end.
- **Programs that resist.** The student's processes fork and flee while they are being
  killed. Correct: what is read has been written by processes that are all gone, and
  the runner ends.
- **A serial server with impatient clients.** A request whose client has gone is run all
  the same. Correct: a client does not time out because of the other's request alone.

`PROJECT.json` lists each hazard at its line with the property that covers it.

## 2. The modules

| Module | Models | Code it stands for |
|---|---|---|
| `Leases` | what the four queues share: token, lease, due and expired rows, oldest first | the claim and fence clauses of `grader/store.py` |
| `HiddenGrades` | abstract specification: a submission is requested, then graded once, in one instant, with verdict, publication and notification together | — |
| `Grading` | grading attempts, workers and outbox; refines `HiddenGrades` | `grader/store.py` 582–804, `grader/grading_coordinator.py` |
| `CheckPublishing` | publications, publishers, and GitHub as an external part | `grader/store.py` 806–883, `grader/check_publication.py`, `grader/github_checks.py` |
| `Authoring` | jobs, clarifications, vault, workers, mentor | `grader/store.py` 266–580 and 1032–1092, `grader/coordinator.py` |
| `Drafting` | what happens inside a try of `Authoring`, which it extends: drafts, repairs, verdicts, the gate, feedback | `grader/author.py`, `grader/critic.py`, `grader/contracts.py`, `grader/acceptance.py`, `grader/coordinator.py` 92–230 |
| `Deliveries` | webhook deliveries, HTTP threads, retrier | `bridge/store.py` 269–406, `bridge/github_webhook.py` 94–140 |
| `PushGrades` | abstract specification: an accepted push is given one grade, not before the suite is frozen, and it stays | — |
| `Pipeline` | `Deliveries`, `Authoring`, `Grading` and `CheckPublishing` composed along a push; refines `PushGrades` | `bridge/github_webhook.py` 238–275, `grader/gateway.py` and the joints between the four |
| `PullRequests` | pull-request events, record, card, GitHub's pull requests | `bridge/github_webhook.py` 142–236 and 285–316 |
| `Reconcile` | the board, mappings, branches and jobs under concurrent passes | `bridge/service.py` 35–171, `bridge/store.py` 121–225 and 408–415, `bridge/github_git.py` 58–250, `grader/gateway.py` |
| `MentiBot` | the bot's cycle over its database, the grader's and Telegram | `grader/menti_bot.py`, `grader/telegram_bot_cli.py` 24–71, `grader/telegram_api.py`, `grader/store.py` 885–961 |
| `Launcher` | the serial launcher, its queue and its two clients | `grader/vm_launcher.py` 63–168, `grader/qemu_launcher_server.py`; the server loop of `grader/llm_broker.py` |
| `CaseExecution` | one case from the commit to the verdict: limits, failures, what becomes of each kind of program | `grader/source.py` 173–300, `grader/vm_launcher.py`, `grader/qemu_backend.py`, `grader/guest_supervisor.py`, `grader/guest_case_runner.py`, `grader/vm_executor.py` |
| `StudentProcesses` | the processes of one case against the runner that must end them | `grader/guest_case_runner.py` 52–320 |
| `GradingProofs`, `CheckPublishingProofs`, `AuthoringProofs`, `DeliveriesProofs`, `PipelineProofs` | theorems about the module they are named for | — |
| `Adapters` | how a case runs the student's code, shared by the two above | `grader/contracts.py` 184–194 |
| `GuestProofs` | theorems about `StudentProcesses` and `CaseExecution`, which it extends both (for which the latter says `CaseInit`, `CaseNext`, `CaseSpec`) | — |
| `BoardProofs` | theorems about `Reconcile` and `PullRequests`, the two ways the bridge comes to write the board; it extends both (for which the latter says `PrInit`, `PrNext`, `PrSpec`) | — |
| `DialogueProofs` | theorems about `Drafting` and `MentiBot`, the two parts that ask, one the language model, the other the mentor; it extends both (for which the latter says `MentiInit`, `MentiNext`, `MentiSpec`), and `AuthoringProofs` | — |
| `MC*` | instances for TLC, with symmetry and the liveness specifications | — |

How a state corresponds to the code:

- A table is a function from its keys to records; a row that is not there has
  `state = "absent"`. `ORDER BY created_at` is a sequence of keys, `arrivals`. The
  delivery queue orders by `next_attempt_at`, so that a release moves the row: there the
  order is a relation, the pairs of which the first is served first. The rows of the board
  never change their order and are numbers.
- A process or thread is a record with a program counter and the values it holds
  between two transactions: which row, which token, what came out. `"down"` is a
  dead process. Everything a process keeps in memory is lost by `Crash`, everything
  in a table stays.
- **Time** is relative: a row holds the ticks left of its lease and of its delay, a
  `Tick` takes one from each. `lease_expires_at <= now` is `lease = 0`. Only the
  order of instants matters to the code, never their values.
- **Tokens** (`secrets.token_hex(32)`) never repeat. `Fresh` takes any token that no
  row and no process remembers, which is the same to every later comparison and
  keeps the instance finite. Two rows and the one process that is not claiming (a
  claimant holds none) remember at most three tokens, so that of four one is always
  fresh; with one row, three are enough.
- **Data**: a verdict is "passed" or "failed", a suite or an answer one of two
  values. The counter of attempts stops at the value it is compared with.
- **Exceptions** are steps: `InfrastructureFailure`, `Raise`, `DecideFails`,
  `RequestFails`, `Abandon` are enabled wherever the code can raise before writing.

Per module:

**Grading.** `Claim` is `claim_next_grading`; `Evaluate` stands for vault load,
export, VM and summary, with either verdict each time, since a test case that times
out may pass the next time; `Complete` writes verdict, publication and notification in
one step, as the transaction does, with `OrIgnore` for `INSERT OR IGNORE`;
`CompleteFenced` is the call that returned `False`; `Release` doubles the delay up to
the cap or parks the attempt and resets its counter. `Init` allows one row in the state `failed`
that an earlier release wrote, which `Initialize` migrates at every start.

**CheckPublishing.** `checks` chooses the publisher of the deployment. `Find` is the
listing of check runs, `Post` and `Patch` the requests. A request whose sender hears
nothing was carried out, was not, or will be (`late`, bounded by `MaxLate`).

**Authoring.** `Promote` is `finalize_authoring` around `SuiteVault.freeze`; `PromoteRaises`
and `PromoteCrashes` end it after the rename and before the commit; `PromoteConflict`
is `VaultConflictError`. Author, critic and gate answer as they like. `MaxRevision` bounds
the questions.

**Drafting.** Each of its steps is one of `Authoring`'s with a reason: `Drafted` and
`Malformed` are replies of the author, `Approve`, `Disapprove`, `Question` and
`InvalidVerdict` those of the critic, `Gate` is the two runs of the starter, and `Begin`
reads what the next try is told. A suite is what the starter does on its cases: it meets
the expectation, fails, dies, or varies from run to run. `record` is history. One worker, as in
`compose.yaml`; what several do to one job is `Authoring`'s subject.

**Deliveries.** `Arrive` is GitHub delivering or redelivering to an HTTP thread, `Retry`
the retrier. What a handler does is open: it returns (`Handle`) or raises
(`Raise`); `PullRequests` and `Pipeline` say when. `Retention` is `completed_delivery_retention`; a pruned delivery can be
delivered again.

**PullRequests.** The queue is abstracted to what `Deliveries` establishes: a delivery may
be handled any number of times by any thread, and is done only after a handler has
returned. GitHub's half is a state per pull request and a clock of seconds:
`Change` emits an event, `Touch` moves `updated_at` without one (a comment). `Decide` is everything from taking
the lifecycle lock to the first write, with the question to GitHub when event and
record are of the same second. `UpdateCard` and `Record` are the two writes;
`UpdateUnanswered`, `RecordFails` and `BridgeDies` separate them, `MaxTorn` times at most.

**Reconcile.** A thread of the bridge holds what `reconcile_once` holds: the snapshot of
the board (`seen`), the cards still to be worked on (`todo`, of which `Row` is the oldest), the mapping as it was last
returned (`m`), the prepared commit. `List` takes the snapshot, `Register` is the loop over
cards with an id, and `Find` to `Publish` are the calls made for one card, each one
transaction or one request. An exception anywhere (`Raise`, `Fail`) ends the pass and
with it the cards that come later, as nothing in `reconcile_once` catches it.
`EnsurePrepared` and `Publish` may be carried out and yet fail. `PrepareBranch` returns
any commit of `Shas`, since another `main`, or another time of commit, makes another one.
An id is a number `n`, which stands for `PY-%03d` and is what the program makes, or one of `Words`, in which people have
written something else: `prepare_branch` refuses those that are not `Branchable` (`SafeBranch`), and the
grader those that are not `Gradable` (`ValidIdentity`), each at every pass; `Number` is what `_next_task_id` reads in them.
The jobs of the grader are reduced to the input they were created with and to being
ready; `Edit` is what people do to a card, `StudentPush` moves a branch. A scenario in
`Scenarios` is a board with bounds on edits and on faults.

**MentiBot.** `bot.pc` walks through `run_cycle`: a report (`ClaimReport`, `DeliverReport`,
`MarkSent`), a question (`SyncQuestion`, `SendPrompt`, `Activate`), the batch of updates
(`Poll`, then one of `Duplicate`, `Pause`, `Resume`, `Decline`, `Take` with their writes in
the code's order and the notice to the mentor as `Acknowledge`). The message and update ids are indices
of the sequences `prompts` and `updates`. `confirmed` is what Telegram has forgotten:
everything else comes again to a bot that starts without an offset. `MaxTrouble` bounds what
goes wrong and what is written without a prompt, together.

**Pipeline.** The four queues are instances of their modules over the variables of one
composition; an action of the composition is an action of one of them, or the two that the code
performs together: `HandlePush` is a handler that returns *and* `enqueue_grading`, in two databases
(the delivery is completed later, or never, and the push handled again); `Complete` is the
transaction of the grading worker, which inserts the publication. `Evaluate` needs the
commit to be on the branch still, which `Rewrite` takes it from. Each queue has its own clock, which allows more
than one clock does.

**Launcher.** `queue` is the backlog of the socket. `Abandon` is a client that closes its
connection: its place in the queue stays, for `Nobody`. `Finish` sends the answer, or finds the
connection closed (`Swallow`). `Probe` is the health check of `compose.yaml`, which connects and
sends nothing; its connection waits for its turn like the others. A round of a client is the cases of a suite; any failure ends it and a pause
follows, as in the workers' loops.

**CaseExecution.** `pc` is the step, `Running(pc)` the limits that run during it. A step `Takes` a
time within all of them, or `Exceeds` the one that has least left; which of the parties then gives up is
`StudentExpires`, `RunnerExpires`, `LauncherExpires` or `ClientExpires`. `Kinds` are the student's
programs, told apart by what the code makes of them; `Observations` is that. Runner and program have one user
(`_sandbox_child`), so that a program can end its runner or stop it: `SignalRunner`, and `"halted"` is the
case whose runner is stopped, which only the limits around it end. `fault`, `expired` and
`overhead` are history.

**StudentProcesses.** A process is alive, doomed (a SIGKILL is pending), a zombie, or gone; orphans go
to the nearest subreaper. A scan of `/proc` is one `LookAt` per process, while they move. `reaper[Runner]`
and, for a `python_call`, `reaper[Child]` are the two places where `_terminate_descendants` runs.
`MaxRounds` are the scans that fit before its deadline.

## 3. What TLC checks

| Run | Instance | Distinct states | Shows |
|---|---|---|---|
| `grading` | 2 attempts, 2 workers, 4 tokens, lease 2, 3 tries, cap 3 | 27,930 | one writer per attempt; refinement of `HiddenGrades`; a gradable attempt is graded although an older one always fails |
| `publishing` | 2 attempts, 2 publishers, either publisher kind, 1 late request each | 245,688 | published means shown; one check run per attempt while one publisher runs at a time and nothing is late; a publishable grade is published |
| `authoring` | 1 task, 2 workers, 2 suites, 2 answers, 3 tries, 2 questions | 400,800 | question and job agree, the answer reaches the author, ready means frozen, outcomes are final; every job settles |
| `deliveries` | 2 deliveries, 1 HTTP thread and the retrier; lease, delay and retention 1 | 157,893 | done means applied; a persisted delivery is completed although another always fails |
| `pull_requests` | 3 events, 2 pull requests, 2 threads, 2 seconds, 1 torn write | 118,430 | the record converges; the card too, unless a write was torn; the record only advances |
| `reconcile` | 2 cards in 8 boards, the poller and a webhook thread, 2 commits, 2 titles, up to 1 edit or fault | 578,806 | one branch, commit and suite per task; the URL is withheld until the suite is ready; what a card says is true; a calm board is served |
| `menti_bot` | 2 questions, 1 report, 2 troubles | 874,402 | an answer belongs to its question, nothing is lost, nothing is sent needlessly, the mentor is served |
| `student_processes` | runner, child, 2 descendants, 2 scans | 170,204 | what is read is final, in runner and child; the runner ends |
| `case_execution` | all 13 kinds of programs, either adapter, 6 delays, 3 run times, 1 failure per try | 282,556 | a pass is earned, the host's failures are not the student's, the student's are judged; a judgeable case is judged |
| `launcher` | 2 clients with 2 cases a round, VMs of 1, 7 or 17 ticks, patience 15, backlog 4, up to 2 health checks in it | 569,124 | no client times out because of another's request alone; a backlog of abandoned requests is outlived |
| `drafting` | 1 task, 3 tries, 2 repairs, 2 questions, 4 suites, 1 fault | 6,788,107 | what is frozen was accepted; the author is told the latest objection and answer; the requests to the model are bounded |
| `pipeline` | 1 push, 2 tries of author and grader, 1 suite, crashes of all processes | 881,568 | an acknowledged push has an attempt; nothing is graded or shown before the suite is frozen; refinement of `PushGrades`; types of the four queues |

Each takes at most five minutes with two workers. Every mutant in the modules (an operator named
`<definition>_<how>`, marked "Mutant") breaks the property it is listed with in `PROJECT.json` under the
same bounds.

**Why the bounds are enough.** The hazards are of two actors on one row, with a second
row to be starved or confused with it. Two processes, two rows, and tokens for all of
them reach: an expired lease with its old holder alive, reclaimed, expired again and
ended by either; an old holder that returns after the verdict; a delay that doubles, reaches the
cap and is parked (tries 3, cap 3, base 2); a live lease that is refused. In `grading` and `publishing` the
two come in turn (`OneOrTheOther` in the MC modules): with the second process the second row is not there, and with the second row
the second process is down; and of the fresh tokens the least is taken (`LeastToken`). The proofs of section 4
know neither restriction. Authoring has one task: tasks meet only in the order of the
queue, and no property of the module is about two of them. Reconcile has two cards, the
fewest of which one can end the pass for the other or take its id; its eight boards
are the combinations in which cards differ (learner and mentor, with and without a
usable project, an id written by hand that is the next one to allocate, that two cards share, or that is of
another form: refused by the git client after a branch was named for it, by the grader after the branch was pushed,
or, on a card of the mentor's, by nobody). Two questions are the fewest with
which a reply can be taken for another question, two troubles the fewest that crash the
bot between a command and its effect. Pull requests have no
leases; three events are the fewest with which one second holds two and a later or an earlier
one decides. Two descendants are the fewest of which one can be adopted from the other, two scans the
fewest of which the second finds what the first missed. The delays of `case_execution` are, in half seconds, none, little, and one
that exceeds each of the limits in its place (2 against the margin between student and supervisor, 12 against the supervisor's, 25
and 31 against those of VM and image). In `launcher` a tick is two seconds: a client has patience for two quick VMs, a slow one takes up more than that; the code's backlog
is 5, and 4 here, so that it is full now and then. Health checks come half a minute (15 ticks) apart in the code and in any tick
here, and at most two of them wait (`MaxProbes`): with a queue that health checks alone may fill in any tick, a client could be turned away for ever. Drafting has one suite of each kind that the gate tells apart.
Pipeline has one push: pushes meet in the queues, which have runs of their own. It has no belated request to GitHub
(`MaxLate` 0), as `publishing` has.

The named bounds are `MaxLate`, `MaxRevision`, `MaxNumber`, `MaxSecond`, `MaxTorn`, `MaxTrouble`, `MaxRounds`, `MaxProbes`, `MaxFaults`, `MaxRepairs`
(the code's own, 2), and `edits` and `faults` of a scenario; the counters stop where the code stops comparing them.

**Fairness.** Liveness is claimed for a deployment that in the end is that of `compose.yaml`, one worker per queue: with two workers and
leases that are never renewed, evaluations that always outlast their lease could fence each other for ever.
In `grading` and `publishing` both workers run for any length of time before. (`authoring` runs two workers throughout and states
the same as the premise of `EveryJobSettles`: no busy worker's lease is taken over. A crash followed by a reclaim is within the premise.)
Assumed are

- weak fairness of each process's own steps: the loops of `authoring_worker_cli.py` and `main.py` catch every
  exception and go on; those of `grading_worker_cli.py:26` and `check_publisher_worker_cli.py:29` catch `RuntimeError`, any
  other exception ends the process, and a container that ends is restarted (`restart: unless-stopped`);
- that the clock advances, and in the end not past an idle process with something to claim
  (`PromptTick`, `Polled`): a loop polls every one or two seconds (the retrier every
  `poll_interval`), the shortest delay is five seconds in grading and thirty
  elsewhere; in `Authoring`, which has no delays, the clock is free;
- that crashes, and GitHub's deliveries of a given event, come to an end (`<>[][~Crash]`);
- strong fairness, for the elements of `Healthy` only, of the step that succeeds: their evaluation, request or handler
  does not fail every single time. Nothing is assumed about the others: an element that is not in `Healthy` may fail for ever;
- in `Reconcile`, that the poller starts another pass (`main.py` catches what a pass raises), that a pass goes on, and that
  the grader makes a suite for every job. `CalmBoardIsServed` has premises, and they are part of what it says: nobody
  edits a card, no id is written by hand on two cards, no branch moves before its URL is recorded, and no card in hand has an id
  that the git client refuses (`foo`, `PY-1`) or, on a learner's card, the grader (`PY-001-2`). Each is needed, as such a card ends
  every pass: `ensure_suite`, `get_or_allocate`, `ensure_prepared_branch` and `prepare_branch` raise each time. Three more such
  refusals are not in the model: of a learner's card with more than 500,000 bytes of text (`_canonical_assignment`) or a number of more than nine digits, and of a project
  directory in `main` that is not as `_project_commit` expects it;
- in `MentiBot`, that the bot is restarted, a lease that nobody serves runs out, and the mentor replies to every prompt in the end and
  continues after a pause. Replying to *every* prompt is more than a person does: when the answer to the message that `/start` sends
  is lost, the latest prompt is one that the bot does not know (`grader/menti_bot.py:270` calls a reply to it outdated),
  and only an earlier one is accepted;
- in `Launcher` and `CaseExecution`, that processes and time go on; that all is well from some time on (`Calm`) is the premise
  of the properties;
- in `StudentProcesses`, that the runner goes on and that a SIGKILL ends its own child, for which the runner waits without
  a limit. Nothing is assumed about the other processes, of which one may be stuck in the kernel.

## 4. What is proved

From the named assumptions of each module on its constants (the null token is no token, a lease lasts at least a tick, numbers are
natural, limits positive), for any sets of rows, processes, tokens and values and any limits:

| Module | Theorem | States |
|---|---|---|
| `GradingProofs` | `TypeCorrect` | `Spec => []TypeOK` |
| | `WriterUnique` | `Spec => []AtMostOneWriter` |
| | `OutboxCorrect` | `Spec => []OutboxAgrees` |
| | `VerdictIsFinal`, `LeasesProtect`, `StaleHarmless` | `Spec => VerdictFinal`, `LeaseProtects`, `StaleIsHarmless` |
| | `RefinesHiddenGrades` | `Spec => ImplementsHiddenGrades` |
| `CheckPublishingProofs` | `TypeCorrect` | `Spec => []TypeOK` |
| | `PublishedShown` | `OneCommitEach => (Spec => []PublishedIsShown)` |
| | `PublishedFinal` | `Spec => PublishedIsFinal` |
| `AuthoringProofs` | `TypeCorrect` | `Spec => []TypeOK` |
| | `ClarificationMatches`, `AnswersReach`, `ReadyFrozen` | `Spec => []ClarificationMatchesJob`, `[]AnswerReachesAuthor`, `[]ReadyIsFrozen` |
| | `VaultFinal`, `OutcomeFinal`, `StaleHarmless` | `Spec => VaultIsFinal`, `OutcomeIsFinal`, `StaleIsHarmless` |
| `DeliveriesProofs` | `DeliveriesApplied` | `Spec => []DoneIsApplied` |
| | `TypeCorrect` | `Spec => []TypeOK` |
| | `CompletedFinal`, `LeasesProtect` | `Spec => CompletedIsFinal`, `LeaseProtects` |
| `BoardProofs` | `PrTypeCorrect` | `PrSpec => []PrTypeOK` |
| | `RecordRight`, `CardRight` | `PrSpec => []RecordConverges`, `[]CardConvergesUntorn` |
| | `RecordForward` | `PrSpec => RecordOnlyAdvances` |
|  | `TypeCorrect` | `Spec => []TypeOK` |
| | `StarterUnique`, `BranchWithheld`, `CardTrue` | `Spec => []OneStarter`, `[]WithheldUntilReady`, `[]CardTellsTheTruth` |
| `DialogueProofs` | `DraftingTypeCorrect` | `DraftingSpec => []DraftingTypeOK` |
| | `FrozenAccepted`, `AuthorTold`, `RequestsBounded` | `DraftingSpec => []FrozenIsAccepted`, `[]AuthorIsTold`, `[]RequestsAreBounded` |
| | `MentiTypeCorrect` | `MentiSpec => []MentiTypeOK` |
| | `AnswersTruthful`, `NoneLost`, `NoneNeedless` | `MentiSpec => []AnswerIsToItsQuestion`, `[]NothingLost`, `[]NoNeedlessMessage` |
| `GuestProofs` | `TypeCorrect`, `CaseTypeCorrect` | `Spec => []TypeOK`, `CaseSpec => []CaseTypeOK` |
| | `OutputFinal`, `CallOutputFinal` | `Spec => []OutputIsFinal`, `[]CallOutputIsFinal` |
| | `PassEarned`, `HostNotBlamed`, `StudentJudged` | `CaseSpec => []PassIsEarned`, `[]HostIsNotBlamed`, `[]StudentIsJudged` |
| | `StudentTimeEnough` | `CaseSpec => []StudentTimeIsEnough` |
| `PipelineProofs` | `TypeCorrect` | `Spec => []TypeOK` |
| | `PushNotLost`, `FrozenFirst` | `Spec => []PushIsNotLost`, `[]GradedAgainstFrozen` |
| | `PartsBehave` | `Spec => D!Spec /\ A!Spec /\ G!Spec /\ P!Spec` |
| | `RefinesPushGrades` | `Spec => ImplementsPushGrades` |

Some of these (`OutboxAgrees`, `VerdictFinal`, `LeaseProtects`, `StaleIsHarmless`, `PublishedIsFinal`, `CompletedIsFinal`,
`VaultIsFinal`, `StudentTimeIsEnough`) are no longer in a run, since they are proved; a cfg with the property added checks them
on an instance.

**Grading.** Lemmas give the type of what each table operation makes of a row,
`RetryDelayType` that a delay stays in range for any exponent. Of the properties only
`OutboxAgrees` goes into the induction, since `OrIgnore` keeps an existing row: that the new
verdict is the one in the outbox needs the row to have had none before. `AtMostOneWriter` is not inductive,
as nothing in it keeps two workers from carrying one token. `IInv` adds

- `RowShape`: a row has a token exactly while it is leased, and runs a lease or a delay only in the state it belongs to;
- `WorkerShape`: a busy worker has an attempt and a token, and a verdict once graded;
- `TokensDiffer`: two busy workers never carry one token.

The action properties and the refinement follow step by step from `IInv`; for the refinement `requested`, `verdict`, `published` and `notified` are
read from the tables, `Complete` is `Decide`, `Enqueue` is `Request`, and all else stutters.

**CheckPublishing.** `PublishedIsShown` needs to know what a publisher knows: `AnswerIsShown` says that one that has an answer, or has
found the attempt's run, works for an attempt whose grade is shown already, and `ShownKept` that no request of anybody, in time or late,
takes that away. With statuses this holds only if no two attempts graded one commit (`OneCommitEach`, a premise of the theorem and not of the module; see section 5).

**Authoring.** The three invariants are inductive together with the shapes of rows and workers, as the vault needs a
promoting worker to hold a suite (`WorkerShape`), and an answer needs that only the latest question is pending
(`ClarificationMatchesJob` itself). `AskShape` (a worker that may still ask is below the bound on questions) serves the type only. That tokens are never
drawn twice is not needed: the fence compares states and tokens of one row. `FrozenVault` is the lemma about `SuiteVault.freeze`.

**Drafting.** A step is one of `Authoring`'s or leaves it alone (`DraftingStep`), so that its invariant is available, and `DraftingInv` adds to it: the only worker keeps its lease while it is
busy (`KeepsLease`); the stored feedback is the latest objection, and what the author was told agrees with it and with the mentor's answer (`Told`, for which `AnswerReachesAuthor` is needed when a try begins); a suite has passed the critic before it
comes to the gate, and the gate before it is promoted (`Reviewed`). The bound on requests is inductive as a budget (`Covered`): a try that has begun leaves room for what it may still ask (`Spent`), and a job whose next try
does not count, as attempts are counted no further than the maximum, has been granted one by the question or the fault that entails it (`Owing`). Steps are of four kinds, with a lemma each: the beginning of a try (`BeginKept`), within it (`WithinKept`), its end (`EndsKept`),
outside of it (`OutsideKept`). That there is one worker is an assumption of the module (`compose.yaml` starts one); `AuthoringProofs` is without it. TLC checked `DraftingInv` on the instance of `drafting` first.

**Deliveries.** Besides types, `IInv` says that a row has a token exactly while it is leased (`RowShape`), that a busy thread holds a delivery and a token
and has applied what it is about to complete (`ThreadShape`), and that the list which pruning cuts has each completed row once (`FinishedShape`): without the
last, pruning might forget a delivery that is still in the list. That the order relates deliveries only (`QueueTyped`) is an induction of its own. `Known`
(only what has arrived is handled or applied) and `StepArrives` (what a step may do to what has arrived) serve `PipelineProofs`.

**PullRequests.** That the record is right when all is quiet says nothing of the states before, so that the invariant has to follow the one event that will make it right. `Newest(n, e)` says that `e` tells of the
last change of pull request `n`: no event of `n` is dated later, and whatever was dated later was looked up after the change (`Later`). Once a handler has processed `e` (decided to pass it over, or recorded), the record is at a newer
pull request or in this state (`Reflects`), and so is whatever a thread is about to write: a slow writer cannot take the record back. `NewestKnown` is that there always is such an event; a new change makes its own event the witness, which
nobody has processed. `PassedOver` and `AppliedIsCurrent` are the two lemmas about `_should_apply`: the newest event is passed over only if the record is as far, and after it an older one is applied only if GitHub was asked. With less than
the question to GitHub neither holds for two events in one second. `LockShape` is the lock, and that a write is further on than the record; `CardShape` relates card and record between the two writes.

**MentiBot.** The bot acts on three memories that are never in step: the grader's questions, its own database and what Telegram has kept. `Truthful` relates them by what never changes:
a reply names a prompt, a prompt shows a question, and the conversation is about the question of its prompt. `Orderly` is that questions are asked in order and a question is prompted once all before it are answered,
so that the oldest pending question is behind the conversation's. `Batch` says which updates are processed: those that are confirmed, those below the offset, those before the one in hand, and the one in hand after its mark. `Doing` is
what the bot is in the middle of, between two of its writes: at `mark` and `clear` the answer is in the grader's database already, which is what makes `NothingLost` survive the crash there; at `activate` the prompt is sent and no
reply to it has been processed. `NoNeedlessMessage` compares two numbers, and is inductive as a budget: `Paid` says that each prompt is accounted for by a question that the mentor has been shown (`Known`), by
a /start that is processed (`Started`), or by a fault, with one prompt under way either way; `Reported` does the same for the report. `Footprint` and `Grows` say which step changes what, so that the proofs of the parts need not look at every step again.

**CaseExecution.** The observation is not yet an outcome, so that the invariant says for each observation what its reason is
(`Reasons`: `Earned`, `Blameless` or `Excused`), before any outcome, and that nothing has gone wrong before the program ended (`Progress`). For the limits,
`Balance` is what is conserved: what is left of the supervisor's limit and what trusted steps took inside it are together two half seconds more than what
is left of the student's, or less when the runner was stopped (`Nested`). It also bounds that time, which the type needs. `StudentJudged` is as strong as `Unjudgeable` is small: the theorem says that these programs
are all that can be without a verdict on a host that does everything right.

**StudentProcesses.** A scan is not atomic, so that "found nothing" must be given a meaning while it goes on: `ScanSees` says that a scan without a find still has a living
child of the reaper before it, or there is nothing to be found. That works because whoever exists has, somewhere above, a child of the reaper (`Rooted`: no set of
processes is closed under parents, which is how "the ancestors end with the runner" is said without a recursion; `ParentsLive`; and `Adopted`, that the subreaper in between
takes the orphans while it lives). `ScanMeans` carries the result to the read. The set of descendants may be infinite.

**Reconcile.** None of the three invariants is inductive, because a pass acts on what it was told by a store some steps earlier. `Fits` relates what a pass holds to the stores: its copy of the mapping
is a prefix of the stored one (`Extends`: fields are only ever filled in), what a step needs is filled in, and what the pass has found out (the branch exists, the suite is ready) is still so.
`MappingStep` is the lemma for every write to a mapping, `PassesKept` the one that the other passes still fit when the stores have grown (`Grows`), and `CardTellsTheTruth` needs
`NextTaskIdIsNew`: the greatest id plus one is nobody's. The greatest and least of a finite set of numbers are proved to exist (`LargestNatural`, `LeastNatural`).

**Pipeline.** `IInv` conjoins the inductive invariants of the four parts with `AttemptIffApplied` (there is an attempt exactly for the pushes whose handler has returned, which holds because handler and
`enqueue_grading` are one step here) and `SuiteFirst`. Lemmas `DeliveriesStep`, `AuthoringStep`, `GradingStep` and `PublishingStep` show that a step of the whole is a step of each part or leaves it alone. Two of them need the
invariants of the others: that `Complete` inserts a publication of a verdict needs the worker's shape, and that the publisher's steps leave the grader's view of its table alone needs `StepDelivers`
of `CheckPublishingProofs`. With them the parts' own lemmas carry the induction, and every theorem about a part holds in the whole (`PartsBehave`). For the refinement, `ShownIsVerdict` says that what GitHub shows is the verdict of an attempt,
and `ShowsOnce` that only a request of the publisher changes what is shown, from nothing to that verdict. Belated requests are included (any `MaxLate`; the run has none).

**Only model-checked**: liveness, since neither fairness nor ENABLED is within the
prover's reach; everything about `Launcher`; and
`OneRunPerAttempt`, whose premise is about the whole behaviour. Each module defines a `TypeOK`, which is proved where there is a proof module; only `Pipeline`'s, which conjoins those
of four modules, is in a run, as the others say no more than the comments at the variables.
Recursive operators are avoided in all modules, so that each can be proved about.

## 5. Where code and words differ

What a comment, a document or a test of the repository says, and the models show not to hold. Where a configuration is named it is not among the runs: TLC
finds the violation with it.

1. *A check run per attempt.* `GitHubHiddenGradePublisher.publish_result` looks for the
   check run and creates it in two requests. A POST carried out after its client timed out and after the retry has looked, or by another publisher,
   leaves two runs of one attempt; `_find` then raises on the duplicate at every retry.
   `grader/check_publication.py:7` asks for an idempotent upsert. `OneRunPerAttempt` and `HealthyPublished` have the premises that exclude it.
2. *The card* (`MCPullRequests_torn.cfg`). The card is written before the record. A draft is opened (recorded), made
   ready (card written, record not), and drafted again within a second; the retry of the second event asks GitHub, finds the recorded state,
   and completes, as does the third. The card stays in review. Without the torn write the card converges
   (`CardConvergesUntorn`).
3. *An edited card* (`MCReconcile_edit.cfg`). `reconcile_once` hands title and description of a learner's card to `ensure_suite` at every pass,
   and `enqueue_authoring` raises when they are not those the job was created with. When somebody edits the card after that, each pass
   ends there: the card never gets its URL, and cards created later are not reconciled.
   `tests/test_bridge_service.py:446` expects a card with an edited title to be served, in a test without a grader.
4. *Exceptions with odd names* (`MCCaseExecution_exception.cfg`). `grader/guest_case_runner.py:168` takes any exception of the student's function for an
   observation; `grader/vm_executor.py:121` accepts names of the form `[A-Za-z][A-Za-z0-9_.]*` only. A class defined inside a function has
   `<locals>` in its name, one in a module `_impl` begins with an underscore: the attempt fails as infrastructure does, and is tried again for ever.
5. *Commits with other files* (`MCCaseExecution_file.cfg`). `README.md:56` says that every push is checked and gets its pass or fail. A commit with a
   file that `grader/source.py:183` does not accept (a symlink, a name, a size, no UTF-8) is never judged.
6. *Protocol failures* (`MCDrafting_protocol.cfg`). The gate rejects a suite whose failures are all "executor protocol failures"
   (`grader/acceptance.py:45`), by the texts of the local executor; the executor in use says "student process failed"
   (`grader/vm_executor.py:170`). Such a suite is frozen.
7. *Long questions* (`MCDrafting_question.cfg`). Author and critic may ask with 1000 characters (`grader/contracts.py:65`, `grader/critic.py:49`);
   `request_clarification` takes 500 (`grader/store.py:485`). A longer question is an error of the try, and after the last one the job has failed
   without a question to the mentor, to whom `tests/test_grader_coordinator.py:151` expects it to be routed.

8. *Programs that signal their runner* (`MCCaseExecution_signal.cfg`). `README.md:56` again. The runner is given the student's user
   (`grader/guest_supervisor.py:97`, 133), and the program inherits it. When the program ends its runner the supervisor sees only that it "exited unsuccessfully"
   (`grader/guest_supervisor.py:99`), when it stops it, that its limit has run out: an infrastructure failure on a healthy host, and the attempt is tried again for ever.

Not a difference, since nothing in the repository promises otherwise: an id that somebody writes on a card is registered as it is
(`bridge/service.py:170`), whatever its form, and one that the git client or the grader refuses ends every pass at its
card (`AnyIdIsServed`, `MCReconcile_id.cfg`). Nor is this: the status publisher knows the commit only, so that two attempts
of one commit (the branches of two tasks at one commit) show whichever verdict was published last. `PublishedIsShown`
is checked and proved, therefore, with a commit of its own for each attempt.

## 6. Not modelled, and the plan

Not modelled at all: task names and project directories, which are pure conversions; the local executor, the benchmarks and the holdout manifest, which are
outside the running system; the Hermes report worker, a second consumer of mentor notifications that `compose.yaml` does not start.
Modelled through their effect on others (`partly` in `PROJECT.json`): the transport of the GitHub App, whose token cache no other state depends on; the suite vault
(canonical JSON, hashes, permissions); the git client (worktrees, the scaffold); the Yonote client (paging, schema); routing, limits and environment of the bridge; the cache of
git objects of a source snapshot; framing, seccomp and the arguments of qemu; the broker's HTTP request.

Left out of modelled parts: what a student's program could do to the memory and the open files of runner and child, whose user it has
(signals that end or stop the runner are in `CaseExecution`); the contents of prompts and suites, and formats and lengths of texts except where section 5 is about them; `backfill_task_ids`, `branch_sha` and
`ensure_branch`, which have no caller in the service; mappings that an earlier release wrote without a starter; pushes that the bridge accepts
without effect; `release_authoring` is a release without a delay, as in the code, so that a broker that is down uses up the tries of a job, which `EveryJobSettles` counts as settled.

What the plan has left:

1. Proofs about `Launcher`.
2. Notifications with two consumers (the bot and Hermes), fenced by token.
3. Liveness along the whole of `Pipeline`; the instance has 881,568 states without it.
