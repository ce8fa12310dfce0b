---------------------------- MODULE DialogueProofs ----------------------------
(***************************************************************************)
(* Proofs about the two parts that ask: Drafting asks the language model,  *)
(* MentiBot the mentor.                                                    *)
(*                                                                         *)
(* Drafting, for any number of tasks, tokens, suites, cases, tries,        *)
(* repairs and faults: which suite is frozen, what the author is told, and *)
(* how often the language model is asked.                                  *)
(*                                                                         *)
(* MentiBot, for any finite set of questions and any number of commands,   *)
(* repeated batches and faults: whose answer is recorded, what is not      *)
(* dropped, and how often the mentor is bothered.                          *)
(***************************************************************************)
EXTENDS Drafting, AuthoringProofs, MentiBot, FiniteSetTheorems, WellFoundedInduction

-----------------------------------------------------------------------------
(* Drafting.                                                               *)

-----------------------------------------------------------------------------
(* The inductive invariant.                                                *)

DraftTyped ==
    /\ feedback \in [Tasks -> Objections \cup {NoObjection}]
    /\ call \in [Workers -> Call]
    /\ record \in [Tasks -> Record]
    /\ \A t \in Tasks : Len(record[t].runs) \in {0, 2}
    /\ faults \in 0 .. MaxFaults

\* The only worker keeps its lease while it is busy.
KeepsLease ==
    /\ \A w \in Workers :
        Busy(w) => Mine(w) /\ worker[w].attempts = jobs[worker[w].task].attempts
    /\ \A t \in Tasks : jobs[t].state = "absent" => jobs[t].attempts = 0

\* The feedback that the next try is to start from is the latest, and so is what the author
\* of this one was told.
Told ==
    /\ \A t \in Tasks : feedback[t] = record[t].objection
    /\ \A w \in Workers : worker[w].pc = "drafting" =>
        LET t == worker[w].task
        IN  /\ call[w].objection = record[t].objection
            /\ jobs[t].revision > 0 =>
                call[w].answer = clarifications[t][jobs[t].revision].answer

\* Two runs of the starter for which the gate accepts suite s.
GateMet(runs, s) ==
    Len(runs) = 2 /\ runs[1] = runs[2] /\ runs[1] \in Runs(s) /\ ~Passed(runs[1])

\* A suite has passed the critic before it comes to the gate, and the gate before it is
\* promoted.
Reviewed ==
    /\ \A w \in Workers :
        LET t == worker[w].task
        IN  /\ worker[w].pc \in {"gating", "promoting"} => record[t].approved = worker[w].suite
            /\ worker[w].pc = "promoting" => GateMet(record[t].runs, worker[w].suite)
    /\ \A t \in Tasks : jobs[t].state = "ready" =>
        vault[t] = record[t].approved /\ GateMet(record[t].runs, vault[t])

\* The most requests of one try, and those that a try of worker w has made.
TryCost == MaxRepairs + 2
Spent(w) == call[w].repairs + (CASE worker[w].pc = "drafting"  -> 0
                                 [] worker[w].pc = "reviewing" -> 1
                                 [] OTHER                      -> 2)

\* What entitles a task to a try each.
Tries(t) == jobs[t].attempts + jobs[t].revision + faults

\* One of them is for a try that has begun, or that will begin without another.
Owing(t) ==
    \/ jobs[t].state \in {"authoring", "needs_clarification"}
    \/ jobs[t].state = "queued" /\ jobs[t].attempts = MaxAuthorAttempts

Served(t) == \E w \in Workers : Busy(w) /\ worker[w].task = t

\* The tries so far cover the requests; a try that has begun leaves room for its own.
Covered ==
    /\ \A w \in Workers : Busy(w) =>
        record[worker[w].task].requests + TryCost
            <= Tries(worker[w].task) * TryCost + Spent(w)
    /\ \A t \in Tasks : ~Served(t) =>
        record[t].requests + (IF Owing(t) THEN TryCost ELSE 0) <= Tries(t) * TryCost

DraftingInv == IInv /\ DraftTyped /\ KeepsLease /\ Told /\ Reviewed /\ Covered

-----------------------------------------------------------------------------
(* Lemmas.                                                                 *)

LEMMA OneMore == \A n, b \in Nat : n * b \in Nat /\ (n + 1) * b = n * b + b
  OBVIOUS

LEMMA MoreOf == \A m, n, b \in Nat : m <= n => m * b <= n * b
  <1> SUFFICES ASSUME NEW m \in Nat, NEW n \in Nat, NEW b \in Nat, m <= n
               PROVE  m * b <= n * b
    OBVIOUS
  <1>1. PICK k \in Nat : n = m + k
    <2>1. n - m \in Nat /\ n = m + (n - m)
      OBVIOUS
    <2> QED
      BY <2>1
  <1>2. n * b = m * b + k * b
    BY <1>1
  <1>3. k * b \in Nat /\ m * b \in Nat
    OBVIOUS
  <1> QED
    BY <1>2, <1>3

\* Each step of Drafting is one of Authoring or leaves it alone.
LEMMA DraftingStep == [DraftingNext]_<<vars, detail>> => [Next]_vars
  <1>1. ASSUME NEW w \in Workers,
               \/ Begin(w) \/ Drafted(w) \/ Question(w) \/ Approve(w) \/ Disapprove(w)
               \/ InvalidVerdict(w) \/ AskMentor(w) \/ RefuseQuestion(w) \/ RejectDraft(w)
               \/ Release(w)
        PROVE  Next
    BY <1>1
    DEF Begin, Drafted, Question, Approve, Disapprove, InvalidVerdict, AskMentor,
        RefuseQuestion, RejectDraft, Release, Next, WorkerStep
  <1>2. ASSUME NEW w \in Workers, Malformed(w) PROVE [Next]_vars
    BY <1>2 DEF Malformed, Next, WorkerStep
  <1>3. ASSUME NEW w \in Workers, Gate(w) PROVE Next
    BY <1>3 DEF Gate, Next, WorkerStep
  <1>4. ASSUME NEW w \in Workers, Freeze(w) \/ Disturb(w) PROVE Next
    BY <1>4 DEF Freeze, Disturb, Next, WorkerStep
  <1>5. CASE Around
    BY <1>5 DEF Around, Next, WorkerStep
  <1> QED
    BY <1>1, <1>2, <1>3, <1>4, <1>5 DEF DraftingNext

LEMMA DraftingInvInit == DraftingInit => DraftingInv
  <1> SUFFICES ASSUME DraftingInit PROVE DraftingInv
    OBVIOUS
  <1>1. IInv
    BY InitInv DEF DraftingInit
  <1>2. DraftTyped
    <2>1. NoCall \in Call
      BY DraftingAssumption DEF NoCall, Call
    <2> DEFINE first == [requests |-> 0, objection |-> NoObjection, approved |-> NoSuite,
                         runs |-> <<>>, question |-> FALSE]
    <2>2. first \in Record /\ Len(first.runs) = 0
      BY DEF Record
    <2> HIDE DEF first
    <2>3. record = [t \in Tasks |-> first]
      BY DEF DraftingInit, first
    <2>4. faults = 0 /\ MaxFaults \in Nat
      BY DraftingAssumption DEF DraftingInit
    <2>5. /\ feedback \in [Tasks -> Objections \cup {NoObjection}]
          /\ call \in [Workers -> Call]
      BY <2>1 DEF DraftingInit
    <2>6. record \in [Tasks -> Record] /\ \A t \in Tasks : Len(record[t].runs) \in {0, 2}
      BY <2>2, <2>3
    <2> QED
      BY <2>4, <2>5, <2>6 DEF DraftTyped
  <1>3. /\ \A t \in Tasks : /\ jobs[t].state = "absent" /\ jobs[t].attempts = 0
                            /\ jobs[t].revision = 0
        /\ \A w \in Workers : worker[w].pc = "down"
    BY DEF DraftingInit, Init, At
  <1>4. KeepsLease
    BY <1>3 DEF KeepsLease, Busy
  <1>5. Told /\ Reviewed
    BY <1>3 DEF DraftingInit, Told, Reviewed
  <1>6. Covered
    <2>1. TryCost \in Nat /\ 0 * TryCost = 0
      BY DraftingAssumption DEF TryCost
    <2>2. \A t \in Tasks : Tries(t) = 0 /\ ~Owing(t) /\ record[t].requests = 0
      BY <1>3 DEF DraftingInit, Tries, Owing
    <2> QED
      BY <1>3, <2>1, <2>2 DEF Covered, Busy
  <1> QED
    BY <1>1, <1>2, <1>4, <1>5, <1>6 DEF DraftingInv

\* A busy worker is the only one, and works for a task that is leased to it.
LEMMA OnTask ==
    ASSUME DraftingInv, NEW w \in Workers, Busy(w)
    PROVE  /\ worker[w].task \in Tasks /\ worker[w].token \in Tokens /\ Mine(w)
           /\ worker[w] \in Worker /\ jobs[worker[w].task] \in Job
           /\ jobs[worker[w].task].state = "authoring"
           /\ record[worker[w].task] \in Record /\ call[w] \in Call
           /\ \A v \in Workers : v = w
  <1>1. worker[w].task \in Tasks /\ worker[w].token \in Tokens
    BY DEF DraftingInv, IInv, WorkerShape
  <1>2. Mine(w)
    BY DEF DraftingInv, KeepsLease
  <1>3. worker[w] \in Worker /\ jobs[worker[w].task] \in Job
    BY <1>1 DEF DraftingInv, IInv, TypeOK
  <1>4. record[worker[w].task] \in Record /\ call[w] \in Call
    BY <1>1 DEF DraftingInv, DraftTyped
  <1> QED
    BY <1>1, <1>2, <1>3, <1>4, DraftingAssumption DEF Mine, Owned

\* What a request leaves of the record.
LEMMA AskedRecord ==
    ASSUME DraftingInv, NEW w \in Workers, Busy(w), NEW r \in Record, Asked(w, r),
           r.runs = record[worker[w].task].runs
    PROVE  /\ record' \in [Tasks -> Record]
           /\ \A t \in Tasks : Len(record'[t].runs) \in {0, 2}
           /\ \A u \in Tasks : u # worker[w].task => record'[u] = record[u]
           /\ record'[worker[w].task].requests = r.requests + 1
           /\ record'[worker[w].task].objection = r.objection
           /\ record'[worker[w].task].approved = r.approved
           /\ record'[worker[w].task].runs = r.runs
  <1> DEFINE t == worker[w].task
             q == [r EXCEPT !.requests = @ + 1]
  <1>1. t \in Tasks
    BY OnTask
  <1>2. record \in [Tasks -> Record] /\ \A u \in Tasks : Len(record[u].runs) \in {0, 2}
    BY DEF DraftingInv, DraftTyped
  <1>3. /\ q \in Record /\ q.requests = r.requests + 1 /\ q.objection = r.objection
        /\ q.approved = r.approved /\ q.runs = r.runs
    BY DEF Record
  <1>4. record' = [record EXCEPT ![t] = q]
    BY DEF Asked
  <1> HIDE DEF t, q
  <1>5. record' \in [Tasks -> Record] /\ record'[t] = q
        /\ \A u \in Tasks : u # t => record'[u] = record[u]
    BY <1>1, <1>2, <1>3, <1>4
  <1> QED
    BY <1>2, <1>3, <1>5 DEF t

\* The actions that end in one request.
LEMMA RequestStep ==
    ASSUME DraftingInv, NEW w \in Workers,
           \/ Drafted(w) \/ Malformed(w) \/ Question(w) \/ Approve(w) \/ Disapprove(w)
           \/ InvalidVerdict(w)
    PROVE  LET t == worker[w].task
           IN  /\ Busy(w) /\ t \in Tasks
               /\ record' \in [Tasks -> Record]
               /\ \A u \in Tasks : Len(record'[u].runs) \in {0, 2}
               /\ \A u \in Tasks : u # t => record'[u] = record[u]
               /\ record'[t].requests = record[t].requests + 1
               /\ record'[t].objection = record[t].objection
               /\ record'[t].runs = record[t].runs
               /\ record'[t].approved = IF Approve(w) THEN worker[w].suite
                                        ELSE record[t].approved
  <1> DEFINE t == worker[w].task
  <1>1. Busy(w) /\ worker[w].pc \in {"drafting", "reviewing"}
    BY DEF Drafted, Draft, Malformed, Question, NeedAnswer, Approve, Disapprove, InvalidVerdict,
           Busy
  <1>2. t \in Tasks /\ record[t] \in Record /\ worker[w] \in Worker
    BY <1>1, OnTask
  <1>3. worker[w].pc = "reviewing" => worker[w].suite \in Suites
    BY <1>1 DEF DraftingInv, IInv, WorkerShape
  <1>4. CASE Approve(w)
    <2> DEFINE r == [record[t] EXCEPT !.approved = worker[w].suite]
    <2>1. Asked(w, r) /\ worker[w].suite \in Suites
      BY <1>3, <1>4 DEF Approve, Seen
    <2>2. /\ r \in Record /\ r.requests = record[t].requests /\ r.runs = record[t].runs
          /\ r.objection = record[t].objection /\ r.approved = worker[w].suite
      BY <1>2, <2>1 DEF Record
    <2> HIDE DEF r
    <2> QED
      BY <1>1, <1>2, <1>4, <2>1, <2>2, AskedRecord
  <1>5. ASSUME ~Approve(w)
        PROVE  \E b \in BOOLEAN : Asked(w, [record[t] EXCEPT !.question = b])
    <2>1. record[t] = [record[t] EXCEPT !.question = record[t].question]
          /\ record[t].question \in BOOLEAN
      BY <1>2 DEF Record
    <2> QED
      BY <1>5, <2>1 DEF Drafted, Malformed, Question, Disapprove, InvalidVerdict, Seen
  <1>6. CASE ~Approve(w)
    <2>1. PICK b \in BOOLEAN : Asked(w, [record[t] EXCEPT !.question = b])
      BY <1>5, <1>6
    <2> DEFINE r == [record[t] EXCEPT !.question = b]
    <2>2. /\ r \in Record /\ r.requests = record[t].requests /\ r.runs = record[t].runs
          /\ r.objection = record[t].objection /\ r.approved = record[t].approved
      BY <1>2 DEF Record
    <2>3. Asked(w, r)
      BY <2>1
    <2> HIDE DEF r
    <2> QED
      BY <1>1, <1>2, <1>6, <2>2, <2>3, AskedRecord
  <1> QED
    BY <1>4, <1>6

\* The gate.
LEMMA GateStep ==
    ASSUME DraftingInv, NEW w \in Workers, Gate(w)
    PROVE  LET t == worker[w].task
           IN  /\ Busy(w) /\ t \in Tasks
               /\ record' \in [Tasks -> Record]
               /\ \A u \in Tasks : Len(record'[u].runs) \in {0, 2}
               /\ \A u \in Tasks : u # t => record'[u] = record[u]
               /\ record'[t].requests = record[t].requests
               /\ record'[t].objection = record[t].objection
               /\ record'[t].approved = record[t].approved
               /\ \/ /\ Accept(w) /\ UNCHANGED call
                     /\ GateMet(record'[t].runs, worker[w].suite)
                  \/ \E o \in Objections : Object(w) /\ Note(w, o)
  <1> DEFINE t == worker[w].task
             s == worker[w].suite
  <1>1. Busy(w) /\ worker[w].pc = "gating"
    BY DEF Gate, Busy
  <1>2. t \in Tasks /\ record[t] \in Record
    BY <1>1, OnTask
  <1>3. PICK first \in Runs(s), second \in Runs(s) :
            /\ IF GateObjection(first, second) = NoObjection
               THEN Accept(w) /\ UNCHANGED call
               ELSE Object(w) /\ Note(w, GateObjection(first, second))
            /\ record' = [record EXCEPT ![t].runs = <<first, second>>]
    BY DEF Gate
  <1> DEFINE q == [record[t] EXCEPT !.runs = <<first, second>>]
  <1>4. {first, second} \subseteq [Cases -> {"meets", "fails", "dies"}]
    BY DEF Runs
  <1>5. /\ q \in Record /\ q.requests = record[t].requests /\ q.objection = record[t].objection
        /\ q.approved = record[t].approved /\ q.runs = <<first, second>>
    <2> DEFINE both == <<first, second>>
    <2>1. both \in Seq([Cases -> {"meets", "fails", "dies"}])
      BY <1>4
    <2> HIDE DEF both
    <2>2. /\ [record[t] EXCEPT !.runs = both] \in Record
          /\ [record[t] EXCEPT !.runs = both].requests = record[t].requests
          /\ [record[t] EXCEPT !.runs = both].objection = record[t].objection
          /\ [record[t] EXCEPT !.runs = both].approved = record[t].approved
          /\ [record[t] EXCEPT !.runs = both].runs = both
      BY <1>2, <2>1 DEF Record
    <2> QED
      BY <2>2 DEF both
  <1>6. record \in [Tasks -> Record] /\ \A u \in Tasks : Len(record[u].runs) \in {0, 2}
    BY DEF DraftingInv, DraftTyped
  <1>7. record' = [record EXCEPT ![t] = q]
    BY <1>2, <1>3, <1>6
  <1> HIDE DEF t, q
  <1>8. /\ record' \in [Tasks -> Record] /\ record'[t] = q
        /\ \A u \in Tasks : u # t => record'[u] = record[u]
    BY <1>2, <1>5, <1>6, <1>7
  <1>9. \A u \in Tasks : Len(record'[u].runs) \in {0, 2}
    <2>1. Len(<<first, second>>) = 2
      OBVIOUS
    <2>2. Len(record'[t].runs) = 2
      BY <1>5, <1>8, <2>1
    <2> QED
      BY <1>6, <1>8, <2>2
  <1>10. \/ /\ Accept(w) /\ UNCHANGED call /\ GateMet(record'[t].runs, s)
         \/ \E o \in Objections : Object(w) /\ Note(w, o)
    <2>1. CASE first # second \/ Passed(first)
      <3>1. GateObjection(first, second) \in {"not deterministic", "no defect"}
        BY <2>1 DEF GateObjection
      <3>2. GateObjection(first, second) # NoObjection
        BY <3>1, DraftingAssumption DEF Objections
      <3> QED
        BY <1>3, <3>1, <3>2 DEF Objections
    <2>2. CASE first = second /\ ~Passed(first)
      <3>1. GateObjection(first, second) = NoObjection
        BY <2>2 DEF GateObjection
      <3> QED
        BY <1>3, <1>5, <1>8, <2>2, <3>1 DEF GateMet
    <2> QED
      BY <2>1, <2>2
  <1> QED
    BY <1>1, <1>2, <1>5, <1>8, <1>9, <1>10 DEF t

-----------------------------------------------------------------------------
(* Three kinds of steps: within a try, the end of a try, outside of it.    *)

LEMMA TriesMove ==
    ASSUME DraftingInv, IInv', DraftTyped', NEW t \in Tasks
    PROVE  /\ TryCost \in Nat /\ Tries(t) \in Nat /\ Tries(t)' \in Nat
           /\ Tries(t) * TryCost \in Nat /\ Tries(t)' * TryCost \in Nat
           /\ Tries(t)' = Tries(t) + 1 => Tries(t)' * TryCost = Tries(t) * TryCost + TryCost
           /\ Tries(t) <= Tries(t)' => Tries(t) * TryCost <= Tries(t)' * TryCost
  <1>1. TryCost \in Nat
    BY DraftingAssumption DEF TryCost
  <1>2. jobs[t] \in Job /\ jobs'[t] \in Job /\ faults \in Nat /\ faults' \in Nat
    BY DraftingAssumption DEF DraftingInv, IInv, TypeOK, DraftTyped
  <1>3. Tries(t) \in Nat /\ Tries(t)' \in Nat
    BY <1>2, AuthoringAssumption DEF Tries, Job
  <1> QED
    BY <1>1, <1>3, OneMore, MoreOf

\* The try of worker w goes on.
Within(w) ==
    LET t == worker[w].task
    IN  /\ Busy(w) /\ Busy(w)'
        /\ worker'[w].task = t /\ worker'[w].token = worker[w].token
        /\ worker'[w].attempts = worker[w].attempts
        /\ UNCHANGED <<jobs, clarifications, feedback>>
        /\ \A u \in Tasks : u # t => record'[u] = record[u] /\ vault'[u] = vault[u]
        /\ record'[t].objection = record[t].objection
        /\ worker'[w].pc = "drafting" => /\ worker[w].pc = "drafting"
                                         /\ call'[w].objection = call[w].objection
                                         /\ call'[w].answer = call[w].answer
        /\ worker'[w].pc \in {"gating", "promoting"} =>
                record'[t].approved = worker'[w].suite
        /\ worker'[w].pc = "promoting" => GateMet(record'[t].runs, worker'[w].suite)
        /\ record'[t].requests + Spent(w) <= record[t].requests + Spent(w)'
        /\ faults' \in {faults, faults + 1}

LEMMA SpentType ==
    ASSUME DraftingInv, NEW w \in Workers
    PROVE  Spent(w) \in Nat /\ Spent(w) <= TryCost
  <1>1. call[w] \in Call /\ MaxRepairs \in Nat
    BY DraftingAssumption DEF DraftingInv, DraftTyped
  <1>2. call[w].repairs \in 0 .. MaxRepairs
    BY <1>1 DEF Call
  <1> QED
    BY <1>1, <1>2 DEF Spent, TryCost

LEMMA WithinKept ==
    ASSUME DraftingInv, IInv', DraftTyped', NEW w \in Workers, Within(w)
    PROVE  (KeepsLease /\ Told /\ Reviewed /\ Covered)'
  <1>1. PICK t \in Tasks :
            /\ worker[w].task = t /\ Mine(w) /\ jobs[t].state = "authoring"
            /\ record[t] \in Record
            /\ \A v \in Workers : v = w
    BY OnTask DEF Within
  <1>2. /\ worker[w].task = t /\ worker'[w].task = t /\ worker'[w].token = worker[w].token
        /\ worker'[w].attempts = worker[w].attempts /\ Busy(w)'
        /\ UNCHANGED <<jobs, clarifications, feedback>>
    BY <1>1 DEF Within
  <1>3. KeepsLease'
    BY <1>1, <1>2 DEF DraftingInv, KeepsLease, Mine, Within
  <1>4. Told'
    <2>1. \A u \in Tasks : feedback'[u] = record'[u].objection
      BY <1>1, <1>2 DEF DraftingInv, Told, Within
    <2>2. ASSUME worker'[w].pc = "drafting"
          PROVE  /\ call'[w].objection = record'[t].objection
                 /\ jobs'[t].revision > 0 =>
                        call'[w].answer = clarifications'[t][jobs'[t].revision].answer
      BY <1>2, <2>2 DEF DraftingInv, Told, Within
    <2> QED
      BY <1>1, <1>2, <2>1, <2>2 DEF Told
  <1>5. Reviewed'
    <2>1. \A u \in Tasks : jobs'[u].state = "ready" =>
            vault'[u] = record'[u].approved /\ GateMet(record'[u].runs, vault'[u])
      <3> SUFFICES ASSUME NEW u \in Tasks, jobs'[u].state = "ready"
                   PROVE  vault'[u] = record'[u].approved /\ GateMet(record'[u].runs, vault'[u])
        OBVIOUS
      <3>1. u # t /\ jobs[u].state = "ready"
        BY <1>1, <1>2
      <3>2. record'[u] = record[u] /\ vault'[u] = vault[u]
        BY <1>1, <3>1 DEF Within
      <3>3. vault[u] = record[u].approved /\ GateMet(record[u].runs, vault[u])
        BY <3>1 DEF DraftingInv, Reviewed
      <3> QED
        BY <3>2, <3>3
    <2>2. /\ worker'[w].pc \in {"gating", "promoting"} => record'[t].approved = worker'[w].suite
          /\ worker'[w].pc = "promoting" => GateMet(record'[t].runs, worker'[w].suite)
      BY <1>1 DEF Within
    <2> QED
      BY <1>1, <1>2, <2>1, <2>2 DEF Reviewed
  <1>6. Covered'
    <2>1. record'[t].requests + TryCost <= Tries(t)' * TryCost + Spent(w)'
      <3>1. record'[t] \in Record
        BY <1>1 DEF DraftTyped
      <3>2. Tries(t) <= Tries(t)'
        <4>1. faults \in Nat /\ faults' \in {faults, faults + 1}
          BY DraftingAssumption DEF Within, DraftingInv, DraftTyped
        <4>2. jobs[t] \in Job
          BY <1>1 DEF DraftingInv, IInv, TypeOK
        <4> QED
          BY <1>2, <4>1, <4>2, AuthoringAssumption DEF Tries, Job
      <3>3. record[t].requests + TryCost <= Tries(t) * TryCost + Spent(w)
        BY <1>1 DEF DraftingInv, Covered, Within
      <3>4. record'[t].requests + Spent(w) <= record[t].requests + Spent(w)'
        BY <1>1 DEF Within
      <3>5. Spent(w) \in Nat /\ Spent(w)' \in Nat
        <4>1. call'[w] \in Call /\ MaxRepairs \in Nat
          BY DraftingAssumption DEF DraftTyped
        <4>2. call'[w].repairs \in Nat
          BY <4>1 DEF Call
        <4> QED
          BY <4>2, SpentType DEF Spent
      <3>6. record[t].requests \in Nat /\ record'[t].requests \in Nat
        BY <1>1, <3>1 DEF Record
      <3> QED
        <4>1. /\ TryCost \in Nat /\ Tries(t) * TryCost \in Nat /\ Tries(t)' * TryCost \in Nat
              /\ Tries(t) * TryCost <= Tries(t)' * TryCost
          BY <1>1, <3>2, TriesMove
        <4>2. PICK c \in Nat, m \in Nat, n \in Nat :
                    c = TryCost /\ m = Tries(t) * TryCost /\ n = Tries(t)' * TryCost
          BY ONLY <4>1
        <4>3. m <= n /\ record[t].requests + c <= m + Spent(w)
          BY ONLY <3>3, <4>1, <4>2
        <4>4. record'[t].requests + c <= n + Spent(w)'
          BY ONLY <3>4, <3>5, <3>6, <4>2, <4>3
        <4> QED
          BY ONLY <4>2, <4>4
    <2>2. ASSUME NEW u \in Tasks, ~Served(u)'
          PROVE  record'[u].requests + (IF Owing(u)' THEN TryCost ELSE 0) <= Tries(u)' * TryCost
      <3>1. u # t
        BY <1>2, <2>2 DEF Served
      <3>2. ~Served(u)
        BY <1>1, <3>1 DEF Served
      <3>3. record'[u] = record[u] /\ (Owing(u)' <=> Owing(u))
        BY <1>1, <1>2, <3>1 DEF Within, Owing
      <3>4. Tries(u) <= Tries(u)'
        <4>1. faults \in Nat /\ faults' \in {faults, faults + 1}
          BY DraftingAssumption DEF Within, DraftingInv, DraftTyped
        <4>2. jobs[u] \in Job
          BY DEF DraftingInv, IInv, TypeOK
        <4> QED
          BY <1>2, <4>1, <4>2, AuthoringAssumption DEF Tries, Job
      <3>5. record[u].requests + (IF Owing(u) THEN TryCost ELSE 0) <= Tries(u) * TryCost
        BY <3>2 DEF DraftingInv, Covered
      <3>6. record[u].requests \in Nat
        BY DEF DraftingInv, DraftTyped, Record
      <3> QED
        BY <3>3, <3>4, <3>5, <3>6, TriesMove
    <2> QED
      BY <1>1, <1>2, <2>1, <2>2 DEF Covered
  <1> QED
    BY <1>3, <1>4, <1>5, <1>6

\* The worker, when only its pc changes.
LEMMA WorkerGoes ==
    ASSUME DraftingInv, NEW w \in Workers, Busy(w), NEW pc, Goto(w, pc)
    PROVE  /\ worker'[w].pc = pc /\ worker'[w].task = worker[w].task
           /\ worker'[w].token = worker[w].token /\ worker'[w].attempts = worker[w].attempts
           /\ worker'[w].suite = worker[w].suite
  <1>1. worker[w] \in Worker /\ worker \in [Workers -> Worker]
    BY OnTask DEF DraftingInv, IInv, TypeOK
  <1>2. worker'[w] = [worker[w] EXCEPT !.pc = pc]
    BY <1>1 DEF Goto
  <1> QED
    BY <1>1, <1>2 DEF Worker

\* What a worker and the record of its task do in a step that is one request.
LEMMA RequestWithin ==
    ASSUME DraftingInv, NEW w \in Workers,
           \/ Drafted(w) \/ Malformed(w) \/ Question(w) \/ Approve(w) \/ Disapprove(w)
           \/ InvalidVerdict(w)
    PROVE  Within(w) /\ DraftTyped'
  <1>1. PICK t \in Tasks : t = worker[w].task
    BY RequestStep
  <1>2. /\ Busy(w)
        /\ record' \in [Tasks -> Record]
        /\ \A u \in Tasks : Len(record'[u].runs) \in {0, 2}
        /\ \A u \in Tasks : u # t => record'[u] = record[u]
        /\ record'[t].requests = record[t].requests + 1
        /\ record'[t].objection = record[t].objection
        /\ record'[t].approved = IF Approve(w) THEN worker[w].suite ELSE record[t].approved
    BY <1>1, RequestStep
  <1>3. /\ call[w] \in Call /\ call \in [Workers -> Call] /\ record[t] \in Record
        /\ worker[w] \in Worker /\ worker \in [Workers -> Worker] /\ MaxRepairs \in Nat
    BY <1>1, <1>2, OnTask, DraftingAssumption DEF DraftingInv, DraftTyped, IInv, TypeOK
  <1>4. call[w].repairs \in 0 .. MaxRepairs /\ record[t].requests \in Nat
    BY <1>3 DEF Call, Record
  <1>5. UNCHANGED <<jobs, clarifications, vault, feedback, faults>>
    BY DEF Drafted, Draft, Malformed, Question, NeedAnswer, Approve, Accept, Disapprove, Object,
           InvalidVerdict, Raise, vars, store
  <1>6. call' \in [Workers -> Call]
    <2>1. CASE Drafted(w) \/ Approve(w) \/ InvalidVerdict(w)
      BY <1>3, <2>1 DEF Drafted, Approve, InvalidVerdict
    <2>2. CASE Malformed(w)
      <3>1. CASE Repairable(w)
        <4>1. [call[w] EXCEPT !.repairs = @ + 1] \in Call
          <5>1. call[w].repairs + 1 \in 0 .. MaxRepairs
            BY <1>3, <1>4, <3>1 DEF Repairable
          <5> QED
            BY <1>3, <5>1 DEF Call
        <4>2. call' = [call EXCEPT ![w] = [call[w] EXCEPT !.repairs = @ + 1]]
          BY <1>3, <2>2, <3>1 DEF Malformed
        <4> QED
          BY <1>3, <4>1, <4>2
      <3> QED
        BY <1>3, <2>2, <3>1 DEF Malformed
    <2>3. CASE Question(w)
      <3>1. PICK length \in {"short", "long"} : call' = [call EXCEPT ![w].question = length]
        BY <2>3 DEF Question
      <3>2. [call[w] EXCEPT !.question = length] \in Call
        BY <1>3 DEF Call
      <3> QED
        BY <1>3, <3>1, <3>2
    <2>4. CASE Disapprove(w)
      <3>1. call' = [call EXCEPT ![w].objection = "critic"]
        BY <2>4 DEF Disapprove, Note
      <3>2. [call[w] EXCEPT !.objection = "critic"] \in Call
        BY <1>3 DEF Call, Objections
      <3> QED
        BY <1>3, <3>1, <3>2
    <2> QED
      BY <2>1, <2>2, <2>3, <2>4
  <1>7. DraftTyped'
    BY <1>2, <1>5, <1>6 DEF DraftTyped, DraftingInv
  <1>8. CASE Drafted(w)
    <2>1. PICK s \in Suites :
            worker[w].pc = "drafting" /\
            worker' = [worker EXCEPT ![w] = [@ EXCEPT !.pc = "reviewing", !.suite = s]]
      BY <1>8 DEF Drafted, Draft
    <2>2. /\ worker'[w].pc = "reviewing" /\ worker'[w].task = worker[w].task
          /\ worker'[w].token = worker[w].token /\ worker'[w].attempts = worker[w].attempts
      BY <1>3, <2>1 DEF Worker
    <2>3. Spent(w)' = Spent(w) + 1
      BY <1>4, <1>8, <2>1, <2>2 DEF Drafted, Spent
    <2> QED
      BY <1>1, <1>2, <1>4, <1>5, <1>7, <2>1, <2>2, <2>3, SpentType DEF Within, Busy
  <1>9. CASE Malformed(w) /\ Repairable(w)
    <2>1. worker' = worker /\ worker[w].pc = "drafting"
          /\ call' = [call EXCEPT ![w].repairs = @ + 1]
      BY <1>9 DEF Malformed, vars
    <2>2. /\ call'[w].repairs = call[w].repairs + 1 /\ call'[w].objection = call[w].objection
          /\ call'[w].answer = call[w].answer
      BY <1>3, <2>1 DEF Call
    <2>3. Spent(w)' = Spent(w) + 1
      BY <1>4, <2>1, <2>2 DEF Spent
    <2> QED
      BY <1>1, <1>2, <1>4, <1>5, <1>7, <2>1, <2>2, <2>3, SpentType DEF Within, Busy
  <1>10. CASE (Malformed(w) /\ ~Repairable(w)) \/ Question(w) \/ Approve(w) \/ Disapprove(w)
             \/ InvalidVerdict(w)
    <2>1. PICK pc \in {"failing", "asking", "gating", "rejecting"} :
            Goto(w, pc) /\ (pc = "gating" => Approve(w))
      BY <1>10 DEF Malformed, Question, NeedAnswer, Approve, Accept, Disapprove, Object,
                  InvalidVerdict, Raise
    <2>2. /\ worker'[w].pc = pc /\ worker'[w].task = worker[w].task
          /\ worker'[w].token = worker[w].token /\ worker'[w].attempts = worker[w].attempts
          /\ worker'[w].suite = worker[w].suite
      BY <1>2, <2>1, WorkerGoes
    <2>3. worker[w].pc \in {"drafting", "reviewing"}
      BY <1>10 DEF Malformed, Question, NeedAnswer, Approve, Disapprove, InvalidVerdict
    <2>4. call'[w].repairs = call[w].repairs
      BY <1>3, <1>10 DEF Malformed, Question, Approve, Disapprove, InvalidVerdict, Note, Call
    <2>5. Spent(w) + 1 <= Spent(w)' /\ Spent(w)' \in Nat
      BY <1>4, <2>1, <2>2, <2>3, <2>4 DEF Spent
    <2>6. record'[t].requests + Spent(w) <= record[t].requests + Spent(w)'
      BY <1>2, <1>4, <2>5, SpentType
    <2>7. pc = "gating" => record'[t].approved = worker'[w].suite
      BY <1>2, <2>1, <2>2
    <2> QED
      BY <1>1, <1>2, <1>5, <1>7, <2>1, <2>2, <2>6, <2>7 DEF Within, Busy
  <1> QED
    BY <1>8, <1>9, <1>10

\* Steps of a try without a request.
LEMMA SilentWithin ==
    ASSUME DraftingInv, NEW w \in Workers,
           \/ Gate(w) \/ RefuseQuestion(w) \/ (PromoteConflict(w) /\ UNCHANGED detail)
           \/ /\ Fault /\ UNCHANGED <<feedback, record, call>>
              /\ Raise(w) \/ PromoteRaises(w)
    PROVE  Within(w) /\ DraftTyped'
  <1>1. Busy(w)
    BY DEF Gate, RefuseQuestion, PromoteConflict, Raise, PromoteRaises, Torn, Busy
  <1>2. PICK t \in Tasks : t = worker[w].task
    BY <1>1, OnTask
  <1>3. /\ call[w] \in Call /\ call \in [Workers -> Call] /\ record[t] \in Record
        /\ worker[w] \in Worker /\ worker \in [Workers -> Worker] /\ MaxRepairs \in Nat
    BY <1>1, <1>2, OnTask, DraftingAssumption DEF DraftingInv, DraftTyped, IInv, TypeOK
  <1>4. call[w].repairs \in 0 .. MaxRepairs /\ record[t].requests \in Nat
    BY <1>3 DEF Call, Record
  <1>5. CASE Gate(w)
    <2>1. /\ record' \in [Tasks -> Record]
          /\ \A u \in Tasks : Len(record'[u].runs) \in {0, 2}
          /\ \A u \in Tasks : u # t => record'[u] = record[u]
          /\ record'[t].requests = record[t].requests
          /\ record'[t].objection = record[t].objection
          /\ record'[t].approved = record[t].approved
          /\ worker[w].pc = "gating"
      BY <1>2, <1>5, GateStep DEF Gate
    <2>2. record[t].approved = worker[w].suite
      BY <1>2, <2>1 DEF DraftingInv, Reviewed
    <2>3. UNCHANGED <<jobs, clarifications, vault, feedback, faults>>
      BY <1>5 DEF Gate, Accept, Object, store
    <2>4. CASE Accept(w) /\ UNCHANGED call /\ GateMet(record'[t].runs, worker[w].suite)
      <3>1. Goto(w, "promoting")
        BY <2>1, <2>4 DEF Accept
      <3>2. /\ worker'[w].pc = "promoting" /\ worker'[w].task = worker[w].task
            /\ worker'[w].token = worker[w].token /\ worker'[w].attempts = worker[w].attempts
            /\ worker'[w].suite = worker[w].suite
        BY <1>1, <3>1, WorkerGoes
      <3>3. Spent(w)' = Spent(w)
        BY <2>1, <2>4, <3>2 DEF Spent
      <3>4. Within(w)
        BY <1>1, <1>2, <1>4, <2>1, <2>2, <2>3, <2>4, <3>2, <3>3, SpentType DEF Within, Busy
      <3> QED
        BY <2>1, <2>3, <2>4, <3>4 DEF DraftTyped, DraftingInv
    <2>5. ASSUME NEW o \in Objections, Object(w), Note(w, o)
          PROVE  Within(w) /\ DraftTyped'
      <3>1. Goto(w, "rejecting")
        BY <2>5 DEF Object
      <3>2. /\ worker'[w].pc = "rejecting" /\ worker'[w].task = worker[w].task
            /\ worker'[w].token = worker[w].token /\ worker'[w].attempts = worker[w].attempts
        BY <1>1, <3>1, WorkerGoes
      <3>3. call' \in [Workers -> Call] /\ call'[w].repairs = call[w].repairs
        <4>1. /\ [call[w] EXCEPT !.objection = o] \in Call
              /\ [call[w] EXCEPT !.objection = o].repairs = call[w].repairs
          BY <1>3 DEF Call
        <4>2. call' = [call EXCEPT ![w] = [call[w] EXCEPT !.objection = o]]
          BY <1>3, <2>5 DEF Note
        <4> QED
          BY <1>3, <4>1, <4>2
      <3>4. Spent(w)' = Spent(w)
        BY <2>1, <3>2, <3>3 DEF Spent
      <3>5. Within(w)
        BY <1>1, <1>2, <1>4, <2>1, <2>3, <3>2, <3>4, SpentType DEF Within, Busy
      <3> QED
        BY <2>1, <2>3, <3>3, <3>5 DEF DraftTyped, DraftingInv
    <2> QED
      BY <1>2, <1>5, <2>4, <2>5, GateStep
  <1>6. CASE ~Gate(w)
    <2>1. Goto(w, "failing")
      BY <1>6 DEF RefuseQuestion, PromoteConflict, Raise, PromoteRaises
    <2>2. /\ worker'[w].pc = "failing" /\ worker'[w].task = worker[w].task
          /\ worker'[w].token = worker[w].token /\ worker'[w].attempts = worker[w].attempts
      BY <1>1, <2>1, WorkerGoes
    <2>3. /\ UNCHANGED <<jobs, clarifications, feedback, record, call>>
          /\ faults' = faults \/ Fault
      BY <1>6 DEF RefuseQuestion, PromoteConflict, Raise, PromoteRaises, Torn, detail, store
    <2>4. \A u \in Tasks : u # t => vault'[u] = vault[u]
      BY <1>2, <1>6
      DEF RefuseQuestion, PromoteConflict, Raise, PromoteRaises, Torn, Frozen, DraftingInv, IInv,
          TypeOK
    <2>5. /\ faults \in 0 .. MaxFaults /\ faults' \in 0 .. MaxFaults
          /\ faults' \in {faults, faults + 1}
      BY <2>3, DraftingAssumption DEF Fault, DraftingInv, DraftTyped
    <2>6. Spent(w) <= Spent(w)' /\ Spent(w)' \in Nat
      BY <1>4, <2>2, <2>3 DEF Spent
    <2>7. Within(w)
      <3>1. record'[t].requests + Spent(w) <= record[t].requests + Spent(w)'
        BY <1>4, <2>3, <2>6, SpentType
      <3> QED
        BY <1>1, <1>2, <2>2, <2>3, <2>4, <2>5, <3>1 DEF Within, Busy
    <2> QED
      BY <2>3, <2>5, <2>7 DEF DraftTyped, DraftingInv
  <1> QED
    BY <1>5, <1>6

\* The try of worker w ends. It is paid for by a question or a fault, or leaves the job so
\* that the next one is paid for by an attempt.
Ends(w) ==
    \E t \in Tasks :
        /\ t = worker[w].task /\ Busy(w) /\ ~Busy(w)'
        /\ \A u \in Tasks : u # t => /\ jobs'[u] = jobs[u] /\ record'[u] = record[u]
                                     /\ vault'[u] = vault[u] /\ feedback'[u] = feedback[u]
        /\ record'[t].requests = record[t].requests
        /\ feedback'[t] = record'[t].objection
        /\ jobs'[t].attempts = jobs[t].attempts /\ jobs'[t].state # "absent"
        /\ jobs'[t].state = "ready" => /\ worker[w].pc = "promoting"
                                       /\ vault'[t] = worker[w].suite
                                       /\ record'[t] = record[t]
        /\ Tries(t)' = Tries(t) + 1 \/ (Tries(t)' = Tries(t) /\ ~Owing(t)')
        /\ faults' \in {faults, faults + 1}

LEMMA EndsKept ==
    ASSUME DraftingInv, IInv', DraftTyped', NEW w \in Workers, Ends(w)
    PROVE  (KeepsLease /\ Told /\ Reviewed /\ Covered)'
  <1>1. PICK t \in Tasks :
        /\ t = worker[w].task /\ Busy(w) /\ ~Busy(w)'
        /\ \A u \in Tasks : u # t => /\ jobs'[u] = jobs[u] /\ record'[u] = record[u]
                                     /\ vault'[u] = vault[u] /\ feedback'[u] = feedback[u]
        /\ record'[t].requests = record[t].requests
        /\ feedback'[t] = record'[t].objection
        /\ jobs'[t].attempts = jobs[t].attempts /\ jobs'[t].state # "absent"
        /\ jobs'[t].state = "ready" => /\ worker[w].pc = "promoting"
                                       /\ vault'[t] = worker[w].suite
                                       /\ record'[t] = record[t]
        /\ Tries(t)' = Tries(t) + 1 \/ (Tries(t)' = Tries(t) /\ ~Owing(t)')
        /\ faults' \in {faults, faults + 1}
    BY DEF Ends
  <1>2. /\ \A v \in Workers : v = w
        /\ record[t] \in Record
    BY <1>1, OnTask
  <1>3. \A v \in Workers : ~Busy(v)'
    BY <1>1, <1>2
  <1>4. KeepsLease'
    BY <1>1, <1>3 DEF DraftingInv, KeepsLease
  <1>5. Told'
    BY <1>1, <1>3 DEF DraftingInv, Told, Busy
  <1>6. Reviewed'
    <2>1. ASSUME NEW u \in Tasks, jobs'[u].state = "ready"
          PROVE  vault'[u] = record'[u].approved /\ GateMet(record'[u].runs, vault'[u])
      BY <1>1, <2>1 DEF DraftingInv, Reviewed
    <2>2. \A v \in Workers : worker'[v].pc \notin {"gating", "promoting"}
      BY <1>3 DEF Busy
    <2> QED
      BY <2>1, <2>2 DEF Reviewed
  <1>7. Covered'
    <2>1. record'[t].requests + (IF Owing(t)' THEN TryCost ELSE 0) <= Tries(t)' * TryCost
      <3>1. record[t].requests + TryCost <= Tries(t) * TryCost + Spent(w)
        BY <1>1 DEF DraftingInv, Covered
      <3>2. Spent(w) \in Nat /\ Spent(w) <= TryCost /\ record[t].requests \in Nat
        BY <1>2, SpentType DEF Record
      <3>3. PICK c \in Nat, m \in Nat, n \in Nat :
                c = TryCost /\ m = Tries(t) * TryCost /\ n = Tries(t)' * TryCost
        BY TriesMove
      <3>4. record[t].requests <= m
        BY ONLY <3>1, <3>2, <3>3
      <3>5. n = m + c \/ (n = m /\ ~Owing(t)')
        BY <1>1, <3>3, TriesMove
      <3> QED
        BY ONLY <1>1, <3>2, <3>3, <3>4, <3>5
    <2>2. ASSUME NEW u \in Tasks, u # t
          PROVE  record'[u].requests + (IF Owing(u)' THEN TryCost ELSE 0) <= Tries(u)' * TryCost
      <3>1. ~Served(u)
        BY <1>1, <1>2, <2>2 DEF Served
      <3>2. record[u].requests + (IF Owing(u) THEN TryCost ELSE 0) <= Tries(u) * TryCost
        BY <3>1 DEF DraftingInv, Covered
      <3>3. record'[u] = record[u] /\ jobs'[u] = jobs[u] /\ (Owing(u)' <=> Owing(u))
        BY <1>1, <2>2 DEF Owing
      <3>4. Tries(u) <= Tries(u)'
        <4>1. faults \in Nat /\ faults' \in {faults, faults + 1}
          BY <1>1, DraftingAssumption DEF DraftingInv, DraftTyped
        <4>2. jobs[u] \in Job
          BY DEF DraftingInv, IInv, TypeOK
        <4> QED
          BY <3>3, <4>1, <4>2, AuthoringAssumption DEF Tries, Job
      <3>5. record[u].requests \in Nat
        BY DEF DraftingInv, DraftTyped, Record
      <3> QED
        BY <3>2, <3>3, <3>4, <3>5, TriesMove
    <2> QED
      BY <1>3, <2>1, <2>2 DEF Covered
  <1> QED
    BY <1>4, <1>5, <1>6, <1>7

\* A step of others, or of a worker that does nothing.
Outside ==
    /\ UNCHANGED <<feedback, record, vault>>
    /\ \A v \in Workers : /\ Busy(v)' <=> Busy(v)
                          /\ Busy(v) => worker'[v] = worker[v] /\ call'[v] = call[v]
    /\ \A u \in Tasks :
        /\ jobs'[u].attempts = jobs[u].attempts /\ jobs'[u].revision = jobs[u].revision
        /\ jobs'[u].token = jobs[u].token
        /\ jobs[u].state = "authoring" => /\ jobs'[u].state = "authoring"
                                          /\ clarifications'[u] = clarifications[u]
        /\ jobs'[u].state = "ready" => jobs[u].state = "ready"
        /\ jobs'[u].state = "absent" => jobs[u].state = "absent"
        /\ Owing(u)' => Owing(u)
    /\ faults' \in {faults, faults + 1}

LEMMA OutsideKept ==
    ASSUME DraftingInv, IInv', DraftTyped', Outside
    PROVE  (KeepsLease /\ Told /\ Reviewed /\ Covered)'
  <1>1. ASSUME NEW v \in Workers, Busy(v)'
        PROVE  /\ Busy(v) /\ worker'[v] = worker[v] /\ call'[v] = call[v]
               /\ worker[v].task \in Tasks /\ Mine(v) /\ jobs[worker[v].task].state = "authoring"
    BY <1>1, OnTask DEF Outside
  <1>2. KeepsLease'
    BY <1>1 DEF DraftingInv, KeepsLease, Outside, Mine, Owned
  <1>3. Told'
    <2>1. \A u \in Tasks : feedback'[u] = record'[u].objection
      BY DEF DraftingInv, Told, Outside
    <2>2. ASSUME NEW v \in Workers, worker'[v].pc = "drafting"
          PROVE  LET t == worker'[v].task
                 IN  /\ call'[v].objection = record'[t].objection
                     /\ jobs'[t].revision > 0 =>
                            call'[v].answer = clarifications'[t][jobs'[t].revision].answer
      <3>1. Busy(v)'
        BY <2>2 DEF Busy
      <3>2. PICK t \in Tasks :
              /\ t = worker[v].task /\ t = worker'[v].task /\ worker[v].pc = "drafting"
              /\ call'[v] = call[v] /\ jobs[t].state = "authoring"
        BY <1>1, <2>2, <3>1
      <3>3. /\ call[v].objection = record[t].objection
            /\ jobs[t].revision > 0 =>
                    call[v].answer = clarifications[t][jobs[t].revision].answer
        BY <3>2 DEF DraftingInv, Told
      <3>4. /\ record'[t] = record[t] /\ jobs'[t].revision = jobs[t].revision
            /\ clarifications'[t] = clarifications[t]
        BY <3>2 DEF Outside
      <3>5. /\ call'[v].objection = record'[t].objection
            /\ jobs'[t].revision > 0 =>
                    call'[v].answer = clarifications'[t][jobs'[t].revision].answer
        BY <3>2, <3>3, <3>4
      <3> QED
        BY <3>2, <3>5
    <2> QED
      BY <2>1, <2>2 DEF Told
  <1>4. Reviewed'
    <2>1. ASSUME NEW v \in Workers, worker'[v].pc \in {"gating", "promoting"}
          PROVE  LET t == worker'[v].task
                 IN  /\ record'[t].approved = worker'[v].suite
                     /\ worker'[v].pc = "promoting" => GateMet(record'[t].runs, worker'[v].suite)
      <3>1. Busy(v)'
        BY <2>1 DEF Busy
      <3> QED
        BY <1>1, <2>1, <3>1 DEF DraftingInv, Reviewed, Outside
    <2>2. \A u \in Tasks : jobs'[u].state = "ready" =>
            vault'[u] = record'[u].approved /\ GateMet(record'[u].runs, vault'[u])
      BY DEF DraftingInv, Reviewed, Outside
    <2> QED
      BY <2>1, <2>2 DEF Reviewed
  <1>5. Covered'
    <2>1. ASSUME NEW u \in Tasks
          PROVE  \E c, m, n \in Nat :
                    /\ c = TryCost /\ m = Tries(u) * TryCost /\ n = Tries(u)' * TryCost
                    /\ m <= n /\ record[u].requests \in Nat
      <3>1. Tries(u) <= Tries(u)'
        <4>1. faults \in Nat /\ faults' \in {faults, faults + 1}
          BY DraftingAssumption DEF Outside, DraftingInv, DraftTyped
        <4>2. jobs[u] \in Job
          BY DEF DraftingInv, IInv, TypeOK
        <4> QED
          BY <4>1, <4>2, AuthoringAssumption DEF Tries, Job, Outside
      <3>2. record[u].requests \in Nat
        BY DEF DraftingInv, DraftTyped, Record
      <3> QED
        BY <3>1, <3>2, TriesMove
    <2>2. ASSUME NEW v \in Workers, Busy(v)'
          PROVE  record'[worker'[v].task].requests + TryCost
                    <= Tries(worker[v].task)' * TryCost + Spent(v)'
      <3>1. PICK u \in Tasks : /\ u = worker[v].task /\ u = worker'[v].task /\ Busy(v)
                               /\ worker'[v] = worker[v] /\ call'[v] = call[v]
        BY <1>1, <2>2
      <3>2. PICK c \in Nat, m \in Nat, n \in Nat :
                    /\ c = TryCost /\ m = Tries(u) * TryCost /\ n = Tries(u)' * TryCost
                    /\ m <= n /\ record[u].requests \in Nat
        BY <2>1
      <3>3. record[u].requests + c <= m + Spent(v)
        BY <3>1, <3>2 DEF DraftingInv, Covered
      <3>4. record'[u] = record[u] /\ Spent(v)' = Spent(v) /\ Spent(v) \in Nat
        BY <3>1, SpentType DEF Outside, Spent
      <3>5. record'[u].requests + c <= n + Spent(v)'
        BY ONLY <3>2, <3>3, <3>4
      <3> QED
        BY <3>1, <3>2, <3>5
    <2>3. ASSUME NEW u \in Tasks, ~Served(u)'
          PROVE  record'[u].requests + (IF Owing(u)' THEN TryCost ELSE 0) <= Tries(u)' * TryCost
      <3>1. ~Served(u)
        BY <2>3 DEF Served, Outside
      <3>2. PICK c \in Nat, m \in Nat, n \in Nat :
                    /\ c = TryCost /\ m = Tries(u) * TryCost /\ n = Tries(u)' * TryCost
                    /\ m <= n /\ record[u].requests \in Nat
        BY <2>1
      <3>3. record[u].requests + (IF Owing(u) THEN c ELSE 0) <= m
        BY <3>1, <3>2 DEF DraftingInv, Covered
      <3>4. record'[u] = record[u] /\ (Owing(u)' => Owing(u))
        BY DEF Outside
      <3>5. record'[u].requests + (IF Owing(u)' THEN c ELSE 0) <= n
        BY ONLY <3>2, <3>3, <3>4
      <3> QED
        BY <3>2, <3>5
    <2> QED
      BY <1>1, <2>2, <2>3 DEF Covered
  <1> QED
    BY <1>2, <1>3, <1>4, <1>5

LEMMA ForgetCall ==
    ASSUME DraftTyped, NEW w \in Workers, Forget(w)
    PROVE  call' \in [Workers -> Call]
  <1>1. NoCall \in Call
    BY DraftingAssumption DEF NoCall, Call
  <1> QED
    BY <1>1 DEF DraftTyped, Forget

\* An unsuccessful try leaves a job that is not owed another unless it has an attempt left.
LEMMA SettledJob ==
    ASSUME DraftingInv, NEW w \in Workers, Busy(w), Settled(w, AfterTry(w))
    PROVE  LET t == worker[w].task
           IN  /\ \A u \in Tasks : u # t => jobs'[u] = jobs[u]
               /\ jobs'[t].attempts = jobs[t].attempts /\ jobs'[t].revision = jobs[t].revision
               /\ jobs'[t].state = AfterTry(w) /\ jobs'[t].state \in {"failed", "queued"}
               /\ jobs'[t].state = "queued" => jobs'[t].attempts # MaxAuthorAttempts
  <1>1. PICK t \in Tasks : t = worker[w].task
    BY OnTask
  <1>2. /\ jobs[t] \in Job /\ worker[w].attempts = jobs[t].attempts /\ MaxAuthorAttempts \in Nat
        /\ jobs \in [Tasks -> Job]
    BY <1>1, OnTask, AuthoringAssumption DEF DraftingInv, KeepsLease, IInv, TypeOK
  <1>3. jobs[t].attempts \in 0 .. MaxAuthorAttempts
    BY <1>2 DEF Job
  <1>4. AfterTry(w) = IF jobs[t].attempts >= MaxAuthorAttempts THEN "failed" ELSE "queued"
    BY <1>2 DEF AfterTry
  <1>5. jobs' = [jobs EXCEPT ![t] = [jobs[t] EXCEPT !.state = AfterTry(w), !.token = NoToken,
                                                    !.lease = 0]]
    BY <1>1, <1>2 DEF Settled
  <1>6. /\ \A u \in Tasks : u # t => jobs'[u] = jobs[u]
        /\ jobs'[t].attempts = jobs[t].attempts /\ jobs'[t].revision = jobs[t].revision
        /\ jobs'[t].state = AfterTry(w)
    BY <1>2, <1>5 DEF Job
  <1>7. jobs'[t].state \in {"failed", "queued"}
    BY <1>4, <1>6
  <1>8. jobs'[t].state = "queued" => jobs'[t].attempts # MaxAuthorAttempts
    BY <1>2, <1>3, <1>4, <1>6
  <1> QED
    BY <1>1, <1>6, <1>7, <1>8

\* The worker whose try is over.
LEMMA Idled ==
    ASSUME DraftingInv, NEW w \in Workers, NEW pc \in {"idle", "down"},
           worker' = [worker EXCEPT ![w] = At(pc)]
    PROVE  ~Busy(w)'
  BY DEF DraftingInv, IInv, TypeOK, Busy, At

\* The steps that end a try.
LEMMA EndStep ==
    ASSUME DraftingInv, NEW w \in Workers, Busy(w),
           \/ AskMentor(w) \/ RejectDraft(w) \/ Release(w)
           \/ Promote(w) /\ Forget(w) /\ UNCHANGED <<feedback, record, faults>>
           \/ /\ Fault /\ UNCHANGED <<feedback, record>> /\ Forget(w)
              /\ HandleFailureRaises(w) \/ Crash(w) \/ PromoteCrashes(w)
    PROVE  Ends(w) /\ DraftTyped'
  <1>1. PICK t \in Tasks : t = worker[w].task /\ Mine(w) /\ jobs[t].state = "authoring"
    BY OnTask
  <1>2. /\ jobs[t] \in Job /\ jobs \in [Tasks -> Job] /\ record[t] \in Record
        /\ call[w] \in Call /\ feedback[t] = record[t].objection
        /\ vault \in [Tasks -> Suites \cup {NoSuite}]
    BY <1>1, OnTask DEF DraftingInv, IInv, TypeOK, Told
  <1>3. call' \in [Workers -> Call]
    <2>1. Forget(w)
      BY DEF AskMentor, RejectDraft, Release
    <2> QED
      BY <2>1, ForgetCall DEF DraftingInv
  <1>4. /\ feedback \in [Tasks -> Objections \cup {NoObjection}] /\ record \in [Tasks -> Record]
        /\ \A u \in Tasks : Len(record[u].runs) \in {0, 2}
        /\ faults \in 0 .. MaxFaults /\ MaxFaults \in Nat /\ DraftTyped
    BY DraftingAssumption DEF DraftingInv, DraftTyped
  <1>5. jobs[t].attempts \in Nat /\ jobs[t].revision \in Nat
    BY <1>2, AuthoringAssumption DEF Job
  <1>6. CASE AskMentor(w)
    <2>1. /\ jobs' = [jobs EXCEPT ![t] =
                [jobs[t] EXCEPT !.state = "needs_clarification", !.token = NoToken, !.lease = 0,
                                !.revision = jobs[t].revision + 1, !.answer = NoAnswer]]
          /\ worker' = [worker EXCEPT ![w] = At("idle")]
          /\ UNCHANGED <<vault, feedback, record, faults>>
      BY <1>1, <1>2, <1>6 DEF AskMentor, Ask
    <2>2. /\ \A u \in Tasks : u # t => jobs'[u] = jobs[u]
          /\ jobs'[t].state = "needs_clarification" /\ jobs'[t].attempts = jobs[t].attempts
          /\ jobs'[t].revision = jobs[t].revision + 1
      BY <1>2, <2>1 DEF Job
    <2>3. Tries(t)' = Tries(t) + 1
      BY <1>4, <1>5, <2>1, <2>2 DEF Tries
    <2>4. ~Busy(w)'
      BY <2>1, Idled
    <2>5. Ends(w)
      BY <1>1, <1>2, <2>1, <2>2, <2>3, <2>4 DEF Ends
    <2> QED
      BY <1>3, <1>4, <2>1, <2>5 DEF DraftTyped
  <1>7. CASE RejectDraft(w)
    <2>1. /\ Settled(w, AfterTry(w)) /\ worker' = [worker EXCEPT ![w] = At("idle")]
          /\ UNCHANGED <<vault, faults>>
          /\ feedback' = IF AfterTry(w) = "queued"
                         THEN [feedback EXCEPT ![t] = call[w].objection] ELSE feedback
          /\ record' = [record EXCEPT ![t].objection =
                           IF AfterTry(w) = "queued" THEN call[w].objection ELSE @]
      BY <1>1, <1>7 DEF RejectDraft, Reject
    <2>2. /\ \A u \in Tasks : u # t => jobs'[u] = jobs[u]
          /\ jobs'[t].attempts = jobs[t].attempts /\ jobs'[t].revision = jobs[t].revision
          /\ jobs'[t].state = AfterTry(w) /\ jobs'[t].state \in {"failed", "queued"}
          /\ jobs'[t].state = "queued" => jobs'[t].attempts # MaxAuthorAttempts
      BY <1>1, <2>1, SettledJob
    <2>3. call[w].objection \in Objections \cup {NoObjection}
      BY <1>2 DEF Call
    <2> DEFINE o == IF AfterTry(w) = "queued" THEN call[w].objection ELSE record[t].objection
               q == [record[t] EXCEPT !.objection = o]
    <2>4. o \in Objections \cup {NoObjection}
      BY <1>2, <2>3 DEF Record
    <2> HIDE DEF o
    <2>5. /\ q \in Record /\ q.objection = o /\ q.requests = record[t].requests
          /\ q.runs = record[t].runs
      BY <1>2, <2>4 DEF Record
    <2>6. record' = [record EXCEPT ![t] = q]
      BY <1>2, <1>4, <2>1 DEF o
    <2> HIDE DEF q
    <2>7. /\ record' \in [Tasks -> Record] /\ record'[t] = q
          /\ \A u \in Tasks : u # t => record'[u] = record[u]
      BY <1>4, <2>5, <2>6
    <2>8. /\ feedback' \in [Tasks -> Objections \cup {NoObjection}]
          /\ feedback'[t] = o /\ \A u \in Tasks : u # t => feedback'[u] = feedback[u]
      BY <1>2, <1>4, <2>1, <2>3 DEF o
    <2>9. Tries(t)' = Tries(t) /\ ~Owing(t)'
      BY <2>1, <2>2 DEF Tries, Owing
    <2>10. ~Busy(w)'
      BY <2>1, Idled
    <2>11. Ends(w)
      <3>1. /\ \A u \in Tasks : u # t => /\ jobs'[u] = jobs[u] /\ record'[u] = record[u]
                                         /\ vault'[u] = vault[u] /\ feedback'[u] = feedback[u]
            /\ record'[t].requests = record[t].requests
            /\ feedback'[t] = record'[t].objection
        BY <2>1, <2>2, <2>5, <2>7, <2>8
      <3>2. /\ jobs'[t].attempts = jobs[t].attempts /\ jobs'[t].state # "absent"
            /\ jobs'[t].state # "ready" /\ faults' = faults
        BY <2>1, <2>2
      <3> QED
        BY <1>1, <2>9, <2>10, <3>1, <3>2 DEF Ends
    <2>12. \A u \in Tasks : Len(record'[u].runs) \in {0, 2}
      BY <1>4, <2>5, <2>7
    <2> QED
      BY <1>3, <1>4, <2>1, <2>7, <2>8, <2>11, <2>12 DEF DraftTyped
  <1>8. CASE Release(w)
    <2>1. /\ Settled(w, AfterTry(w)) /\ worker' = [worker EXCEPT ![w] = At("idle")]
          /\ UNCHANGED <<vault, faults, record, feedback>>
      BY <1>1, <1>8 DEF Release, HandleFailure, KeepFeedback
    <2>2. /\ \A u \in Tasks : u # t => jobs'[u] = jobs[u]
          /\ jobs'[t].attempts = jobs[t].attempts /\ jobs'[t].revision = jobs[t].revision
          /\ jobs'[t].state = AfterTry(w) /\ jobs'[t].state \in {"failed", "queued"}
          /\ jobs'[t].state = "queued" => jobs'[t].attempts # MaxAuthorAttempts
      BY <1>1, <2>1, SettledJob
    <2>3. Tries(t)' = Tries(t) /\ ~Owing(t)' /\ ~Busy(w)'
      BY <2>1, <2>2, Idled DEF Tries, Owing
    <2>4. Ends(w)
      BY <1>1, <1>2, <2>1, <2>2, <2>3 DEF Ends
    <2> QED
      BY <1>3, <1>4, <2>1, <2>4 DEF DraftTyped
  <1>9. CASE Promote(w) /\ UNCHANGED <<feedback, record, faults>>
    <2> DEFINE s == worker[w].suite
    <2>1. /\ jobs' = [jobs EXCEPT ![t] = [jobs[t] EXCEPT !.state = "ready", !.suite = s,
                                                         !.token = NoToken, !.lease = 0]]
          /\ worker' = [worker EXCEPT ![w] = At("idle")] /\ worker[w].pc = "promoting"
          /\ vault' = [vault EXCEPT ![t] = s]
      BY <1>1, <1>2, <1>9 DEF Promote, Frozen
    <2>2. /\ \A u \in Tasks : u # t => jobs'[u] = jobs[u] /\ vault'[u] = vault[u]
          /\ jobs'[t].state = "ready" /\ jobs'[t].attempts = jobs[t].attempts
          /\ jobs'[t].revision = jobs[t].revision /\ vault'[t] = s
      BY <1>2, <2>1 DEF Job
    <2>3. Tries(t)' = Tries(t) /\ ~Owing(t)' /\ ~Busy(w)'
      BY <1>9, <2>1, <2>2, Idled DEF Tries, Owing
    <2>4. Ends(w)
      BY <1>1, <1>2, <1>9, <2>1, <2>2, <2>3 DEF Ends
    <2> QED
      BY <1>3, <1>4, <1>9, <2>4 DEF DraftTyped
  <1>10. CASE /\ Fault /\ UNCHANGED <<feedback, record>>
              /\ HandleFailureRaises(w) \/ Crash(w) \/ PromoteCrashes(w)
    <2>1. \E pc \in {"idle", "down"} : worker' = [worker EXCEPT ![w] = At(pc)]
      BY <1>10 DEF HandleFailureRaises, Crash, PromoteCrashes
    <2>2. UNCHANGED jobs /\ \A u \in Tasks : u # t => vault'[u] = vault[u]
      BY <1>1, <1>2, <1>10 DEF HandleFailureRaises, Crash, PromoteCrashes, Torn, Frozen, store
    <2>3. faults' = faults + 1 /\ faults' \in 0 .. MaxFaults
      BY <1>4, <1>10 DEF Fault
    <2>4. Tries(t)' = Tries(t) + 1
      <3>1. faults \in Nat /\ jobs' = jobs
        BY <1>4, <2>2
      <3> QED
        BY ONLY <1>5, <2>3, <3>1 DEF Tries
    <2>5. Ends(w)
      <3>1. ~Busy(w)'
        BY <2>1, Idled
      <3>2. UNCHANGED <<jobs, record, feedback>>
        BY <1>10, <2>2
      <3>3. jobs'[t].state = "authoring" /\ feedback'[t] = record'[t].objection
        BY <1>1, <1>2, <3>2
      <3> QED
        BY <1>1, <2>2, <2>3, <2>4, <3>1, <3>2, <3>3 DEF Ends
    <2> QED
      BY <1>3, <1>4, <1>10, <2>3, <2>5 DEF DraftTyped
  <1> QED
    BY <1>6, <1>7, <1>8, <1>9, <1>10

LEMMA OutsideStep ==
    ASSUME DraftingInv,
           \/ Around
           \/ \E w \in Workers : /\ Fault /\ UNCHANGED <<feedback, record>> /\ Forget(w)
                                 /\ Crash(w) /\ ~Busy(w)
    PROVE  Outside /\ DraftTyped'
  <1>1. jobs \in [Tasks -> Job] /\ worker \in [Workers -> Worker]
    BY DEF DraftingInv, IInv, TypeOK
  <1>2. DraftTyped /\ MaxFaults \in Nat /\ faults \in 0 .. MaxFaults
    BY DraftingAssumption DEF DraftingInv, DraftTyped
  <1>3. ASSUME NEW t \in Tasks, Enqueue(t), UNCHANGED detail PROVE Outside
    <2>1. /\ jobs' = [jobs EXCEPT ![t].state = "queued"] /\ jobs[t].state = "absent"
          /\ UNCHANGED <<clarifications, vault, worker, feedback, call, record, faults>>
      BY <1>3 DEF Enqueue, detail
    <2>2. jobs[t].attempts = 0 /\ MaxAuthorAttempts # 0
      BY <2>1, AuthoringAssumption DEF DraftingInv, KeepsLease
    <2>3. /\ jobs'[t].state = "queued" /\ jobs'[t].attempts = jobs[t].attempts
          /\ jobs'[t].revision = jobs[t].revision /\ jobs'[t].token = jobs[t].token
          /\ \A u \in Tasks : u # t => jobs'[u] = jobs[u]
      BY <1>1, <2>1 DEF Job
    <2> QED
      BY <2>1, <2>2, <2>3 DEF Outside, Owing, Busy
  <1>4. ASSUME NEW t \in Tasks, NEW r \in DOMAIN clarifications[t], NEW x \in Answers,
               Answer(t, r, x), UNCHANGED detail
        PROVE  Outside
    <2>1. r = jobs[t].revision /\ jobs[t].state = "needs_clarification"
      BY <1>4 DEF Answer, DraftingInv, IInv, ClarificationMatchesJob
    <2>2. /\ jobs' = [jobs EXCEPT ![t] = [jobs[t] EXCEPT !.state = "queued", !.answer = x]]
          /\ UNCHANGED <<vault, worker, feedback, call, record, faults>>
          /\ \A u \in Tasks : u # t => clarifications'[u] = clarifications[u]
      BY <1>1, <1>4, <2>1 DEF Answer, detail, DraftingInv, IInv, TypeOK
    <2>3. /\ jobs'[t].state = "queued" /\ jobs'[t].attempts = jobs[t].attempts
          /\ jobs'[t].revision = jobs[t].revision /\ jobs'[t].token = jobs[t].token
          /\ \A u \in Tasks : u # t => jobs'[u] = jobs[u]
      BY <1>1, <2>2 DEF Job
    <2> QED
      BY <2>1, <2>2, <2>3 DEF Outside, Owing, Busy
  <1>5. ASSUME NEW w \in Workers, Start(w), UNCHANGED detail PROVE Outside
    <2>1. /\ worker[w].pc = "down" /\ worker'[w].pc = "idle"
          /\ \A v \in Workers : v # w => worker'[v] = worker[v]
          /\ UNCHANGED <<jobs, clarifications, vault, feedback, call, record, faults>>
      BY <1>1, <1>5 DEF Start, At, store, detail
    <2> QED
      BY <2>1 DEF Outside, Owing, Busy
  <1>6. ASSUME Tick, UNCHANGED detail PROVE Outside
    <2>1. UNCHANGED <<clarifications, vault, worker, feedback, call, record, faults>>
      BY <1>6 DEF Tick, detail
    <2>2. ASSUME NEW u \in Tasks
          PROVE  /\ jobs'[u].state = jobs[u].state /\ jobs'[u].attempts = jobs[u].attempts
                 /\ jobs'[u].revision = jobs[u].revision /\ jobs'[u].token = jobs[u].token
      <3>1. jobs'[u] = [jobs[u] EXCEPT !.lease = Down(jobs[u].lease)] /\ jobs[u] \in Job
        BY <1>1, <1>6 DEF Tick
      <3> QED
        BY <3>1 DEF Job
    <2> QED
      BY <2>1, <2>2 DEF Outside, Owing, Busy
  <1>7. CASE Around
    <2>1. Outside
      BY <1>3, <1>4, <1>5, <1>6, <1>7 DEF Around
    <2>2. UNCHANGED detail
      BY <1>7 DEF Around
    <2> QED
      BY <1>2, <2>1, <2>2 DEF DraftTyped, detail
  <1>8. ASSUME NEW w \in Workers, Fault, UNCHANGED <<feedback, record>>, Forget(w), Crash(w),
               ~Busy(w)
        PROVE  Outside /\ DraftTyped'
    <2>1. /\ worker'[w].pc = "down" /\ \A v \in Workers : v # w => worker'[v] = worker[v]
          /\ UNCHANGED <<jobs, clarifications, vault>>
      BY <1>1, <1>8 DEF Crash, At, store
    <2>2. \A v \in Workers : v # w => call'[v] = call[v]
      BY <1>2, <1>8 DEF Forget, DraftTyped
    <2>3. faults' = faults + 1 /\ faults' \in 0 .. MaxFaults
      BY <1>2, <1>8 DEF Fault
    <2>4. Outside
      BY <1>8, <2>1, <2>2, <2>3 DEF Outside, Owing, Busy
    <2> QED
      BY <1>2, <1>8, <2>3, <2>4, ForgetCall DEF DraftTyped
  <1> QED
    BY <1>7, <1>8

\* A try begins. Its worker, the only one, has done nothing so far.
LEMMA BeginKept ==
    ASSUME DraftingInv, IInv', NEW w \in Workers, Begin(w)
    PROVE  DraftingInv'
  <1>1. PICK t \in Tasks, k \in Tokens :
            /\ Claim(w, t, k)
            /\ call' = [call EXCEPT ![w] = [NoCall EXCEPT !.objection = feedback[t],
                                                          !.answer = jobs[t].answer]]
            /\ UNCHANGED <<feedback, record, faults>>
    BY DEF Begin
  <1>2. /\ jobs \in [Tasks -> Job] /\ jobs[t] \in Job /\ worker \in [Workers -> Worker]
        /\ DraftTyped /\ record[t] \in Record
        /\ MaxRepairs \in Nat /\ MaxFaults \in Nat /\ MaxAuthorAttempts \in Nat \ {0}
    BY DraftingAssumption, AuthoringAssumption DEF DraftingInv, IInv, TypeOK, DraftTyped
  <1>3. jobs[t].attempts \in 0 .. MaxAuthorAttempts /\ jobs[t].answer \in Answers \cup {NoAnswer}
        /\ jobs[t].revision \in Nat
    BY <1>2, AuthoringAssumption DEF Job
  <1> DEFINE tries == IF jobs[t].attempts < MaxAuthorAttempts THEN jobs[t].attempts + 1
                      ELSE MaxAuthorAttempts
  <1>4. /\ worker[w].pc = "idle" /\ jobs[t].state \in {"queued", "authoring"}
        /\ jobs' = [jobs EXCEPT ![t] = [jobs[t] EXCEPT !.state = "authoring", !.token = k,
                                                 !.lease = LeaseTicks, !.attempts = tries]]
        /\ worker' = [worker EXCEPT ![w] = [pc |-> "drafting", task |-> t, token |-> k,
                                            attempts |-> tries, suite |-> NoSuite]]
        /\ UNCHANGED <<arrivals, clarifications, vault>>
    BY <1>1, <1>2 DEF Claim, Oldest, Claimable, Expired
  <1> HIDE DEF tries
  <1>5. /\ \A u \in Tasks : u # t => jobs'[u] = jobs[u]
        /\ jobs'[t].state = "authoring" /\ jobs'[t].token = k /\ jobs'[t].attempts = tries
        /\ jobs'[t].revision = jobs[t].revision
    BY <1>2, <1>4 DEF Job
  <1>6. /\ worker'[w].pc = "drafting" /\ worker'[w].task = t /\ worker'[w].token = k
        /\ worker'[w].attempts = tries
        /\ \A v \in Workers : v = w
    BY <1>2, <1>4, DraftingAssumption
  <1>7. \A u \in Tasks : ~Served(u)
    BY <1>4, <1>6 DEF Served, Busy
  <1>8. DraftTyped' /\ call'[w].objection = feedback[t] /\ call'[w].answer = jobs[t].answer
        /\ call'[w].repairs = 0
    <2> DEFINE c == [NoCall EXCEPT !.objection = feedback[t], !.answer = jobs[t].answer]
    <2>1. feedback[t] \in Objections \cup {NoObjection}
      BY <1>2 DEF DraftTyped
    <2>2. /\ c \in Call /\ c.objection = feedback[t] /\ c.answer = jobs[t].answer
          /\ c.repairs = 0
      <3> DEFINE o == feedback[t]
                 x == jobs[t].answer
                 b == [NoCall EXCEPT !.objection = o]
      <3>1. NoCall \in Call /\ NoCall.repairs = 0
        BY <1>2 DEF NoCall, Call
      <3> HIDE DEF o, x
      <3>2. b \in Call /\ b.objection = o /\ b.repairs = 0
        BY <2>1, <3>1 DEF Call, o
      <3>3. [NoCall EXCEPT !.objection = o, !.answer = x] = [b EXCEPT !.answer = x]
        OBVIOUS
      <3> HIDE DEF b
      <3>4. LET d == [b EXCEPT !.answer = x]
            IN  d \in Call /\ d.objection = o /\ d.answer = x /\ d.repairs = 0
        BY <1>3, <3>2 DEF Call, x
      <3> QED
        BY <3>3, <3>4 DEF o, x
    <2>3. call' = [call EXCEPT ![w] = c]
      BY <1>1
    <2> HIDE DEF c
    <2>4. call' \in [Workers -> Call] /\ call'[w] = c
      BY <1>2, <2>2, <2>3 DEF DraftTyped
    <2> QED
      BY <1>1, <1>2, <2>2, <2>4 DEF DraftTyped
  <1>9. KeepsLease'
    <2>1. Mine(w)' /\ worker'[w].attempts = jobs'[worker'[w].task].attempts
      BY <1>5, <1>6 DEF Mine, Owned
    <2>2. \A u \in Tasks : jobs'[u].state = "absent" => jobs'[u].attempts = 0
      BY <1>5 DEF DraftingInv, KeepsLease
    <2> QED
      BY <1>6, <2>1, <2>2 DEF KeepsLease
  <1>10. Told'
    <2>1. \A u \in Tasks : feedback'[u] = record'[u].objection
      BY <1>1 DEF DraftingInv, Told
    <2>2. call'[w].objection = record'[t].objection
      BY <1>1, <1>8, <2>1
    <2>3. jobs'[t].revision > 0 => call'[w].answer = clarifications'[t][jobs'[t].revision].answer
      <3>1. jobs[t].revision > 0 => jobs[t].answer = clarifications[t][jobs[t].revision].answer
        BY <1>4 DEF DraftingInv, IInv, AnswerReachesAuthor
      <3> QED
        BY <1>4, <1>5, <1>8, <3>1
    <2> QED
      BY <1>6, <2>1, <2>2, <2>3 DEF Told
  <1>11. Reviewed'
    <2>1. \A u \in Tasks : jobs'[u].state = "ready" =>
            vault'[u] = record'[u].approved /\ GateMet(record'[u].runs, vault'[u])
      BY <1>1, <1>4, <1>5 DEF DraftingInv, Reviewed
    <2> QED
      BY <1>6, <2>1 DEF Reviewed
  <1>12. Covered'
    <2>1. record'[t].requests + TryCost <= Tries(t)' * TryCost + Spent(w)'
      <3>1. Spent(w)' = 0
        BY <1>6, <1>8 DEF Spent
      <3>2. PICK c \in Nat, m \in Nat, n \in Nat, q \in Nat :
                /\ c = TryCost /\ m = Tries(t) * TryCost /\ n = Tries(t)' * TryCost
                /\ q = record[t].requests
        BY <1>2, <1>8, TriesMove DEF Record
      <3>3. q + (IF Owing(t) THEN c ELSE 0) <= m
        BY <1>7, <3>2 DEF DraftingInv, Covered
      <3>4. faults \in Nat /\ faults' = faults
        BY <1>1, <1>2 DEF DraftTyped
      <3>5. CASE jobs[t].attempts < MaxAuthorAttempts
        <4>1. Tries(t)' = Tries(t) + 1
          BY <1>3, <1>5, <3>4, <3>5 DEF Tries, tries
        <4>2. n = m + c
          BY <1>8, <3>2, <4>1, TriesMove
        <4>3. q + c <= n + 0
          BY ONLY <3>2, <3>3, <4>2
        <4> QED
          BY <1>1, <3>1, <3>2, <4>3
      <3>6. CASE jobs[t].attempts = MaxAuthorAttempts
        <4>1. Tries(t)' = Tries(t) /\ Owing(t)
          BY <1>2, <1>4, <1>5, <3>4, <3>6 DEF Tries, tries, Owing
        <4>2. n = m
          BY <3>2, <4>1
        <4>3. q + c <= n + 0
          BY ONLY <3>2, <3>3, <4>1, <4>2
        <4> QED
          BY <1>1, <3>1, <3>2, <4>3
      <3> QED
        BY <1>2, <1>3, <3>5, <3>6
    <2>2. ASSUME NEW u \in Tasks, ~Served(u)'
          PROVE  record'[u].requests + (IF Owing(u)' THEN TryCost ELSE 0) <= Tries(u)' * TryCost
      <3>1. u # t
        BY <1>6, <2>2 DEF Served, Busy
      <3>2. record'[u] = record[u] /\ (Owing(u)' <=> Owing(u)) /\ Tries(u)' = Tries(u)
        BY <1>1, <1>5, <3>1 DEF Owing, Tries
      <3>3. record[u].requests + (IF Owing(u) THEN TryCost ELSE 0) <= Tries(u) * TryCost
        BY <1>7 DEF DraftingInv, Covered
      <3> QED
        BY <3>2, <3>3
    <2> QED
      BY <1>6, <2>1, <2>2 DEF Covered
  <1> QED
    BY <1>8, <1>9, <1>10, <1>11, <1>12 DEF DraftingInv

LEMMA DraftingInvNext == DraftingInv /\ [DraftingNext]_<<vars, detail>> => DraftingInv'
  <1> SUFFICES ASSUME DraftingInv, [DraftingNext]_<<vars, detail>> PROVE DraftingInv'
    OBVIOUS
  <1>1. IInv'
    BY DraftingStep, NextInv DEF DraftingInv
  <1>2. ASSUME NEW w \in Workers, Begin(w) PROVE DraftingInv'
    BY <1>1, <1>2, BeginKept
  <1>3. ASSUME NEW w \in Workers, Within(w), DraftTyped' PROVE DraftingInv'
    BY <1>1, <1>3, WithinKept DEF DraftingInv
  <1>4. ASSUME NEW w \in Workers, Ends(w), DraftTyped' PROVE DraftingInv'
    BY <1>1, <1>4, EndsKept DEF DraftingInv
  <1>5. ASSUME Outside, DraftTyped' PROVE DraftingInv'
    BY <1>1, <1>5, OutsideKept DEF DraftingInv
  <1>6. ASSUME NEW w \in Workers,
               \/ Drafted(w) \/ Malformed(w) \/ Question(w) \/ Approve(w) \/ Disapprove(w)
               \/ InvalidVerdict(w)
        PROVE  DraftingInv'
    BY <1>3, <1>6, RequestWithin
  <1>7. ASSUME NEW w \in Workers, Gate(w) \/ RefuseQuestion(w) PROVE DraftingInv'
    BY <1>3, <1>7, SilentWithin
  <1>8. ASSUME NEW w \in Workers, AskMentor(w) \/ RejectDraft(w) \/ Release(w)
        PROVE  DraftingInv'
    <2>1. Busy(w)
      BY <1>8 DEF AskMentor, Ask, RejectDraft, Reject, Release, HandleFailure, Busy
    <2> QED
      BY <1>4, <1>8, <2>1, EndStep
  <1>9. ASSUME NEW w \in Workers, Freeze(w) PROVE DraftingInv'
    <2>1. CASE Promote(w) /\ Forget(w) /\ UNCHANGED <<feedback, record, faults>>
      <3>1. Busy(w)
        BY <2>1 DEF Promote, Busy
      <3> QED
        BY <1>4, <2>1, <3>1, EndStep
    <2>2. CASE PromoteConflict(w) /\ UNCHANGED detail
      BY <1>3, <2>2, SilentWithin
    <2> QED
      BY <1>9, <2>1, <2>2 DEF Freeze
  <1>10. ASSUME NEW w \in Workers, Disturb(w) PROVE DraftingInv'
    <2>1. Fault /\ UNCHANGED <<feedback, record>>
      BY <1>10 DEF Disturb
    <2>2. CASE (Raise(w) \/ PromoteRaises(w)) /\ UNCHANGED call
      <3>1. UNCHANGED <<feedback, record, call>>
        BY <2>1, <2>2
      <3> QED
        BY <1>3, <2>1, <2>2, <3>1, SilentWithin
    <2>3. CASE (HandleFailureRaises(w) \/ Crash(w) \/ PromoteCrashes(w)) /\ Forget(w)
      <3>1. CASE Busy(w)
        BY <1>4, <2>1, <2>3, <3>1, EndStep
      <3>2. CASE ~Busy(w)
        <4>1. Crash(w)
          BY <2>3, <3>2 DEF HandleFailureRaises, PromoteCrashes, Torn, Busy
        <4> QED
          BY <1>5, <2>1, <2>3, <3>2, <4>1, OutsideStep
      <3> QED
        BY <3>1, <3>2
    <2> QED
      BY <1>10, <2>2, <2>3 DEF Disturb
  <1>11. CASE Around
    BY <1>5, <1>11, OutsideStep
  <1>12. CASE UNCHANGED <<vars, detail>>
    <2>1. UNCHANGED <<jobs, clarifications, vault, worker, feedback, call, record, faults>>
      BY <1>12 DEF vars, store, detail
    <2>2. DraftTyped' /\ KeepsLease' /\ Told' /\ Reviewed'
      BY <2>1 DEF DraftingInv, DraftTyped, KeepsLease, Told, Reviewed, Busy, Mine
    <2>3. Covered'
      BY <2>1 DEF DraftingInv, Covered, Served, Owing, Tries, Spent, Busy
    <2> QED
      BY <1>1, <2>2, <2>3 DEF DraftingInv
  <1> QED
    BY <1>2, <1>6, <1>7, <1>8, <1>9, <1>10, <1>11, <1>12 DEF DraftingNext

LEMMA DraftingInvariance == DraftingSpec => []DraftingInv
  BY DraftingInvInit, DraftingInvNext, PTL DEF DraftingSpec

-----------------------------------------------------------------------------
(* What follows.                                                           *)

\* Every feedback, call and record is of its kind, and the gate has made no run or two.
THEOREM DraftingTypeCorrect == DraftingSpec => []DraftingTypeOK
  <1>1. DraftingInv => DraftingTypeOK
    BY DEF DraftingInv, IInv, DraftTyped, DraftingTypeOK
  <1> QED
    BY <1>1, DraftingInvariance, PTL

\* The suite on disk of a ready job is the one that the critic approved last, and the starter
\* failed it twice alike, whatever an earlier try left in the vault.
THEOREM FrozenAccepted == DraftingSpec => []FrozenIsAccepted
  <1>1. DraftingInv => FrozenIsAccepted
    BY DEF DraftingInv, Reviewed, GateMet, FrozenIsAccepted
  <1> QED
    BY <1>1, DraftingInvariance, PTL

\* The author of every try is told the latest objection and the latest answer of the mentor,
\* through tries that failed, crashed or asked.
THEOREM AuthorTold == DraftingSpec => []AuthorIsTold
  <1>1. DraftingInv => AuthorIsTold
    BY DEF DraftingInv, Told, AuthorIsTold
  <1> QED
    BY <1>1, DraftingInvariance, PTL

\* The language model is asked a bounded number of times for a task, however often its tries
\* fail, crash or ask.
THEOREM RequestsBounded == DraftingSpec => []RequestsAreBounded
  <1>1. ASSUME DraftingInv, NEW t \in Tasks
        PROVE  record[t].requests
                 <= (MaxAuthorAttempts + jobs[t].revision + faults) * (MaxRepairs + 2)
    <2>1. /\ record[t] \in Record /\ jobs[t] \in Job /\ faults \in Nat /\ TryCost \in Nat
          /\ MaxAuthorAttempts \in Nat
      BY <1>1, DraftingAssumption, AuthoringAssumption
      DEF DraftingInv, IInv, TypeOK, DraftTyped, TryCost
    <2>2. /\ record[t].requests \in Nat /\ jobs[t].revision \in Nat
          /\ jobs[t].attempts \in 0 .. MaxAuthorAttempts
      BY <2>1, AuthoringAssumption DEF Record, Job
    <2> DEFINE all == MaxAuthorAttempts + jobs[t].revision + faults
    <2>3. Tries(t) \in Nat /\ all \in Nat /\ Tries(t) <= all
      BY <2>1, <2>2 DEF Tries
    <2> HIDE DEF all
    <2>4. PICK c \in Nat, m \in Nat, n \in Nat :
            c = TryCost /\ m = Tries(t) * TryCost /\ n = all * TryCost /\ m <= n
      BY <2>1, <2>3, OneMore, MoreOf
    <2>5. record[t].requests <= m
      <3>1. CASE Served(t)
        <4>1. PICK w \in Workers : Busy(w) /\ worker[w].task = t
          BY <3>1 DEF Served
        <4>2. record[t].requests + c <= m + Spent(w)
          BY <1>1, <2>4, <4>1 DEF DraftingInv, Covered
        <4>3. Spent(w) \in Nat /\ Spent(w) <= c
          BY <1>1, <2>4, SpentType
        <4> QED
          BY ONLY <2>2, <2>4, <4>2, <4>3
      <3>2. CASE ~Served(t)
        <4>1. record[t].requests + (IF Owing(t) THEN c ELSE 0) <= m
          BY <1>1, <2>4, <3>2 DEF DraftingInv, Covered
        <4> QED
          BY ONLY <2>2, <2>4, <4>1
      <3> QED
        BY <3>1, <3>2
    <2>6. record[t].requests <= all * TryCost
      BY ONLY <2>2, <2>4, <2>5
    <2> QED
      BY <2>6 DEF all, TryCost
  <1>2. DraftingInv => RequestsAreBounded
    BY <1>1 DEF RequestsAreBounded
  <1> QED
    BY <1>2, DraftingInvariance, PTL

-----------------------------------------------------------------------------
(* MentiBot.                                                               *)

-----------------------------------------------------------------------------
(* The inductive invariant.                                                *)

Pcs == {"down", "report", "deliver", "delivered", "sync", "prompt", "activate", "poll",
        "handle", "mark", "clear", "acknowledge"}

Update == [kind : {"reply"} \cup Commands, to : Nat]

Typed ==
    /\ status \in [Questions -> {"unasked", "pending", "answered"}]
    /\ answer \in [Questions -> Nat]
    /\ report \in {"absent", "queued", "delivering", "expired", "sent"} /\ delivered \in Nat
    /\ prompts \in Seq(Questions)
    /\ updates \in Seq(Update)
    /\ confirmed \in Nat
    /\ processed \subseteq DOMAIN updates
    /\ conv \in [q : Questions, prompt : DOMAIN prompts, state : {"active", "paused"}]
               \cup {NoConv}
    /\ bot \in [pc : Pcs, offset : Nat, next : Nat, last : Nat]
    /\ mishaps \in Nat

\* Questions are asked in their order, and a question is prompted once all before it are
\* answered.
Orderly ==
    /\ \A q \in Questions : status[q] # "unasked" =>
            \A p \in Questions : p < q => status[p] # "unasked"
    /\ \A i \in DOMAIN prompts :
            /\ status[prompts[i]] # "unasked"
            /\ \A p \in Questions : p < prompts[i] => status[p] = "answered"

\* A reply is to a prompt that was sent, a conversation about the question that its prompt
\* showed, and so is an answer.
Truthful ==
    /\ \A i \in DOMAIN updates :
            IF updates[i].kind = "reply" THEN updates[i].to \in DOMAIN prompts
                                         ELSE updates[i].to = 0
    /\ conv # NoConv => prompts[conv.prompt] = conv.q
    /\ \A q \in Questions : status[q] = "answered" =>
            /\ answer[q] \in DOMAIN updates
            /\ updates[answer[q]].kind = "reply" /\ prompts[updates[answer[q]].to] = q
    /\ \A q \in Questions : status[q] # "answered" => answer[q] = 0

\* What Telegram has forgotten, or may forget at the next poll, is processed, and so is what
\* comes before the update in hand.
Batch ==
    /\ bot.pc \in {"handle", "mark", "clear", "acknowledge"} => InBatch
    /\ bot.pc \in {"down", "report", "deliver", "delivered", "sync", "poll"} => ~InBatch
    /\ 1 .. confirmed \subseteq processed /\ 1 .. bot.offset \subseteq processed
    /\ bot.last <= Len(updates)
    /\ InBatch =>
            /\ confirmed < bot.next /\ bot.next <= bot.last
            /\ \A u \in 1 .. bot.last : u < bot.next => u \in processed
            /\ bot.pc \notin {"handle", "mark"} => bot.next \in processed

\* What the bot is in the middle of.
Doing ==
    /\ BotAt("mark") => /\ Current.kind \in {"reply", "cancel"}
                        /\ Current.kind = "reply" =>
                               /\ conv.state = "active" /\ Current.to = conv.prompt
                               /\ status[conv.q] = "answered"
    /\ BotAt("clear") => conv # NoConv /\ status[conv.q] = "answered"
    /\ BotAt("prompt") => IF InBatch THEN conv # NoConv
                          ELSE Pending # {} /\ conv.q \notin Pending
    /\ BotAt("activate") =>
            /\ prompts # <<>> /\ \A u \in processed : updates[u].to # Len(prompts)
            /\ IF InBatch THEN conv # NoConv /\ prompts[Len(prompts)] = conv.q
               ELSE prompts[Len(prompts)] \in Pending /\ conv.q \notin Pending

ReplyCounts ==
    conv.state = "active" =>
        \A u \in processed : updates[u].to = conv.prompt => status[conv.q] = "answered"

Reported ==
    /\ BotAt("deliver") \/ BotAt("delivered") => report = "delivering"
    /\ BotAt("delivered") \/ report = "sent" => delivered > 0
    /\ delivered <= mishaps + (IF BotAt("delivered") \/ report = "sent" THEN 1 ELSE 0)

\* The questions that the mentor has been shown by a prompt that the bot knows of.
Known == {q \in Questions : status[q] = "answered" \/ conv.q = q}

Started == {u \in processed : updates[u].kind = "start"}

\* The prompts are paid for by a question, by a /start, or by a fault.
Paid ==
    LET budget == Cardinality(Known) + Cardinality(Started) + mishaps
    IN  Len(prompts) + (IF BotAt("prompt") /\ InBatch THEN 1 ELSE 0)
            <= budget + (IF BotAt("activate") /\ ~InBatch THEN 1 ELSE 0)

MentiInv == Typed /\ Orderly /\ Truthful /\ Batch /\ Doing /\ ReplyCounts /\ Reported /\ Paid

-----------------------------------------------------------------------------
(* Lemmas.                                                                 *)

BotType == [pc : Pcs, offset : Nat, next : Nat, last : Nat]

LEMMA BotMoves ==
    ASSUME Typed
    PROVE  /\ \A pc \in Pcs : LET b == [bot EXCEPT !.pc = pc]
                              IN  /\ b \in BotType /\ b.pc = pc /\ b.offset = bot.offset
                                  /\ b.next = bot.next /\ b.last = bot.last
           /\ BotDown \in BotType /\ BotDown.pc = "down" /\ BotDown.offset = 0
           /\ BotDown.next = 0 /\ BotDown.last = 0
           /\ NextCycle \in BotType /\ NextCycle.pc = "report" /\ NextCycle.offset = bot.offset
           /\ NextCycle.next = 0 /\ NextCycle.last = 0
           /\ AfterUpdate \in BotType
           /\ IF bot.next < bot.last
              THEN /\ AfterUpdate.pc = "handle" /\ AfterUpdate.offset = bot.offset
                   /\ AfterUpdate.next = bot.next + 1 /\ AfterUpdate.last = bot.last
              ELSE /\ AfterUpdate.pc = "report" /\ AfterUpdate.offset = bot.last
                   /\ AfterUpdate.next = 0 /\ AfterUpdate.last = 0
  <1>1. bot \in BotType
    BY DEF Typed, BotType
  <1>2. \A pc \in Pcs : LET b == [bot EXCEPT !.pc = pc]
                        IN  /\ b \in BotType /\ b.pc = pc /\ b.offset = bot.offset
                            /\ b.next = bot.next /\ b.last = bot.last
    BY <1>1 DEF BotType
  <1>3. /\ BotDown \in BotType /\ BotDown.pc = "down" /\ BotDown.offset = 0
        /\ BotDown.next = 0 /\ BotDown.last = 0
    BY DEF BotDown, BotType, Pcs
  <1>4. /\ NextCycle \in BotType /\ NextCycle.pc = "report" /\ NextCycle.offset = bot.offset
        /\ NextCycle.next = 0 /\ NextCycle.last = 0
    BY <1>1 DEF NextCycle, BotDown, BotType, Pcs
  <1>5. CASE bot.next < bot.last
    <2>1. AfterUpdate = [pc |-> "handle", offset |-> bot.offset, next |-> bot.next + 1,
                         last |-> bot.last]
      <3>1. AfterUpdate = [bot EXCEPT !.pc = "handle", !.next = @ + 1]
        BY <1>5 DEF AfterUpdate
      <3> QED
        BY <1>1, <3>1 DEF BotType
    <2>2. "handle" \in Pcs
      BY DEF Pcs
    <2>3. /\ AfterUpdate \in BotType
          /\ AfterUpdate.pc = "handle" /\ AfterUpdate.offset = bot.offset
          /\ AfterUpdate.next = bot.next + 1 /\ AfterUpdate.last = bot.last
      BY <1>1, <2>1, <2>2 DEF BotType
    <2> QED
      BY <1>2, <1>3, <1>4, <1>5, <2>3
  <1>6. CASE ~(bot.next < bot.last)
    <2>1. AfterUpdate = [NextCycle EXCEPT !.offset = bot.last]
      BY <1>6 DEF AfterUpdate
    <2>2. /\ AfterUpdate \in BotType
          /\ AfterUpdate.pc = "report" /\ AfterUpdate.offset = bot.last
          /\ AfterUpdate.next = 0 /\ AfterUpdate.last = 0
      BY <1>1, <1>4, <2>1 DEF BotType
    <2> QED
      BY <1>2, <1>3, <1>4, <1>6, <2>2
  <1> QED
    BY <1>5, <1>6

\* What is in a sequence stays where it is.
LEMMA Appended ==
    ASSUME NEW S, NEW s \in Seq(S), NEW x \in S
    PROVE  LET t == Append(s, x)
           IN  /\ t \in Seq(S) /\ Len(s) \in Nat /\ Len(t) = Len(s) + 1
               /\ DOMAIN s = 1 .. Len(s) /\ DOMAIN t = 1 .. Len(s) + 1
               /\ \A i \in DOMAIN s : t[i] = s[i]
               /\ t[Len(s) + 1] = x
  OBVIOUS

\* The update in hand has been written.
LEMMA InHand ==
    ASSUME Typed, Batch, bot.pc \in {"handle", "mark", "clear", "acknowledge"}
    PROVE  /\ bot.next \in DOMAIN updates /\ bot.next # 0
           /\ Current \in Update
  BY DEF Typed, Batch, InBatch, Current

LEMMA LeastNatural ==
    ASSUME NEW S \in SUBSET Nat, S # {}
    PROVE  \E x \in S : \A y \in S : x <= y
  <1> DEFINE R == {ss \in Nat \X Nat : ss[1] < ss[2]}
  <1>1. IsWellFoundedOn(R, Nat)
    BY NatLessThanWellFounded, Zenon DEF OpToRel
  <1> HIDE DEF R
  <1>2. PICK x \in S : \A y \in S : <<y, x>> \notin R
    BY <1>1, WFMin
  <1>3. \A y \in S : ~(y < x)
    BY <1>2 DEF R
  <1> QED
    BY <1>3

LEMMA OldestPending ==
    ASSUME Pending # {}
    PROVE  OldestQuestion \in Pending /\ \A q \in Pending : OldestQuestion <= q
  <1>1. Pending \in SUBSET Nat
    BY MentiAssumption DEF Pending
  <1>2. \E m \in Pending : \A q \in Pending : m <= q
    BY <1>1, LeastNatural
  <1> QED
    BY <1>2 DEF OldestQuestion

\* A conversation is about a question that was asked, and any pending one is the oldest if it
\* was prompted.
LEMMA Conversation ==
    ASSUME Typed, Orderly, Truthful, conv # NoConv
    PROVE  /\ conv.q \in Questions /\ conv.prompt \in DOMAIN prompts
           /\ prompts[conv.prompt] = conv.q
           /\ conv.prompt \in Nat \ {0}
           /\ conv.state \in {"active", "paused"} /\ status[conv.q] \in {"pending", "answered"}
  BY DEF Typed, Orderly, Truthful, NoConv

LEMMA NoConversation == NoConv.state = "none" /\ NoConv.q = 0 /\ NoConv.q \notin Questions
  BY MentiAssumption DEF NoConv

\* The question that a prompt shows.
LEMMA ShownTyped ==
    ASSUME Typed, Orderly, Truthful, Doing, BotAt("prompt")
    PROVE  Shown \in Questions /\ (IF InBatch THEN conv # NoConv /\ Shown = conv.q
                                   ELSE Shown \in Pending /\ \A q \in Pending : Shown <= q)
  BY Conversation, OldestPending DEF Doing, Shown, Pending

-----------------------------------------------------------------------------
(* The initial state and the steps.                                        *)

LEMMA MentiInvInit == MentiInit => MentiInv
  <1> SUFFICES ASSUME MentiInit PROVE MentiInv
    OBVIOUS
  <1> USE MentiAssumption DEF MentiInit
  <1>1. Typed
    BY DEF Typed, BotDown, Pcs, NoConv
  <1>2. Orderly /\ Truthful
    BY DEF Orderly, Truthful
  <1>3. Batch /\ Doing /\ ReplyCounts /\ Reported
    BY DEF Batch, Doing, ReplyCounts, Reported, BotDown, InBatch, BotAt, NoConv
  <1>4. Paid
    <2>1. Known = {} /\ Started = {}
      BY DEF Known, Started, NoConv
    <2>2. Cardinality({}) = 0
      BY FS_EmptySet
    <2> QED
      BY <2>1, <2>2 DEF Paid, BotDown, BotAt
  <1> QED
    BY <1>1, <1>2, <1>3, <1>4 DEF MentiInv

LEMMA NextTyped ==
    ASSUME MentiInv, [MentiNext]_mentiVars
    PROVE  Typed'
  <1> DEFINE Same == UNCHANGED <<status, answer, report, delivered, prompts, updates, confirmed,
                                 processed, conv>>
             Convs == [q : Questions, prompt : DOMAIN prompts, state : {"active", "paused"}]
                         \cup {NoConv}
  <1>1. Typed /\ Batch /\ Doing /\ Orderly /\ Truthful
    BY DEF MentiInv
  <1>2. /\ bot \in BotType /\ mishaps \in Nat
        /\ \A pc \in Pcs : [bot EXCEPT !.pc = pc] \in BotType
        /\ BotDown \in BotType /\ NextCycle \in BotType /\ AfterUpdate \in BotType
    BY <1>1, BotMoves DEF Typed, BotType
  <1>3. \A pc \in {"deliver", "delivered", "sync", "prompt", "activate", "poll", "handle", "mark",
                   "clear", "acknowledge"} : pc \in Pcs
    BY DEF Pcs
  <1>4. CASE BotStarts \/ BotDies \/ SyncQuestion \/ PollFails \/ Duplicate \/ Acknowledge
             \/ UNCHANGED mentiVars
    <2>1. bot' \in BotType /\ mishaps' \in Nat
      BY <1>2, <1>3, <1>4
      DEF BotStarts, BotDies, SyncQuestion, PollFails, Duplicate, Acknowledge, mentiVars,
          Interrupted, EndCycle, Mishap, BotGoto
    <2>2. Same
      BY <1>4
      DEF BotStarts, BotDies, SyncQuestion, PollFails, Duplicate, Acknowledge, mentiVars,
          grader, notes, telegram
    <2> QED
      BY <1>1, <2>1, <2>2 DEF Typed, BotType
  <1>5. CASE ClaimReport \/ DeliverReport \/ MarkSent \/ Report \/ Expire
    <2>1. bot' \in BotType /\ mishaps' \in Nat
      BY <1>2, <1>3, <1>5
      DEF ClaimReport, DeliverReport, MarkSent, Report, Expire, Interrupted, EndCycle, Mishap, BotGoto
    <2>2. /\ report' \in {"absent", "queued", "delivering", "expired", "sent"}
          /\ delivered' \in Nat
      BY <1>1, <1>5
      DEF ClaimReport, DeliverReport, MarkSent, Report, Expire, ReleaseReport, Typed
    <2>3. UNCHANGED <<status, answer, prompts, updates, confirmed, processed, conv>>
      BY <1>5 DEF ClaimReport, DeliverReport, MarkSent, Report, Expire, grader, telegram
    <2> QED
      BY <1>1, <2>1, <2>2, <2>3 DEF Typed, BotType
  <1>6. CASE SendPrompt
    <2>1. Shown \in Questions
      BY <1>1, <1>6, ShownTyped DEF SendPrompt
    <2>2. bot' \in BotType /\ mishaps' \in Nat
      BY <1>2, <1>3, <1>6 DEF SendPrompt, Interrupted, EndCycle, Mishap, BotGoto
    <2>3. prompts' = prompts \/ prompts' = Append(prompts, Shown)
      BY <1>6 DEF SendPrompt
    <2>4. prompts' \in Seq(Questions) /\ DOMAIN prompts \subseteq DOMAIN prompts'
      <3>1. prompts \in Seq(Questions)
        BY <1>1 DEF Typed
      <3> QED
        BY <2>1, <2>3, <3>1, Appended
    <2>5. UNCHANGED <<status, answer, report, delivered, updates, confirmed, processed, conv>>
      BY <1>6 DEF SendPrompt, grader, notes
    <2> QED
      BY <1>1, <2>2, <2>4, <2>5 DEF Typed, BotType
  <1>7. CASE Activate \/ Pause \/ Clear
    <2>1. bot' \in BotType
      BY <1>2, <1>3, <1>7 DEF Activate, Pause, Clear, BotGoto
    <2>2. conv' \in Convs
      <3>1. conv \in Convs /\ prompts \in Seq(Questions)
        BY <1>1 DEF Typed
      <3>2. CASE Activate
        <4>1. Len(prompts) \in DOMAIN prompts
          BY <1>1, <3>1, <3>2 DEF Doing, Activate
        <4> QED
          BY <3>1, <3>2, <4>1 DEF Activate
      <3>3. CASE Pause
        BY <3>1, <3>3, NoConversation DEF Pause
      <3>4. CASE Clear
        BY <3>4 DEF Clear
      <3> QED
        BY <1>7, <3>2, <3>3, <3>4
    <2>3. UNCHANGED <<status, answer, report, delivered, prompts, updates, confirmed, processed,
                      mishaps>>
      BY <1>7 DEF Activate, Pause, Clear, grader, notes, telegram
    <2> QED
      BY <1>1, <2>1, <2>2, <2>3 DEF Typed, BotType
  <1>8. CASE Poll
    <2>1. confirmed' \in Nat
      BY <1>1, <1>8 DEF Poll, Typed
    <2>2. bot' \in BotType
      <3>1. updates \in Seq(Update)
        BY <1>1 DEF Typed
      <3>2. Len(updates) \in Nat
        BY <3>1
      <3>3. \A n \in Nat : n + 1 \in Nat
        OBVIOUS
      <3> QED
        BY <1>2, <1>3, <1>8, <2>1, <3>2, <3>3 DEF Poll, BotType
    <2>3. UNCHANGED <<status, answer, report, delivered, prompts, updates, processed, conv, mishaps>>
      BY <1>8 DEF Poll, grader, notes
    <2> QED
      BY <1>1, <2>1, <2>2, <2>3 DEF Typed, BotType
  <1>9. CASE Resume \/ Decline \/ Mark
    <2>1. bot' \in BotType
      BY <1>2, <1>3, <1>9 DEF Resume, Decline, Mark, BotGoto
    <2>2. processed' \subseteq DOMAIN updates
      <3>1. bot.next \in DOMAIN updates
        BY <1>1, <1>9, InHand DEF Resume, Decline, Mark, Handling, BotAt
      <3> QED
        BY <1>1, <1>9, <3>1 DEF Resume, Decline, Mark, MarkProcessed, Typed
    <2>3. UNCHANGED <<status, answer, report, delivered, prompts, updates, confirmed, conv, mishaps>>
      BY <1>9 DEF Resume, Decline, Mark, grader, notes, telegram
    <2> QED
      BY <1>1, <2>1, <2>2, <2>3 DEF Typed, BotType
  <1>10. CASE Take \/ \E q \in Questions : Pose(q)
    <2>1. bot' \in BotType
      BY <1>2, <1>3, <1>10 DEF Take, Pose, BotGoto
    <2>2. /\ status' \in [Questions -> {"unasked", "pending", "answered"}]
          /\ answer' \in [Questions -> Nat]
      BY <1>1, <1>2, <1>10 DEF Take, Pose, Typed, grader, BotType
    <2>3. UNCHANGED <<report, delivered, prompts, updates, confirmed, processed, conv, mishaps>>
      BY <1>10 DEF Take, Pose, notes, telegram
    <2> QED
      BY <1>1, <2>1, <2>2, <2>3 DEF Typed, BotType
  <1>11. CASE (\E p \in DOMAIN prompts : Reply(p)) \/ (\E kind \in Commands : Command(kind))
              \/ Continue
    <2>1. PICK u \in Update : Write(u)
      <3>1. \A p \in DOMAIN prompts : [kind |-> "reply", to |-> p] \in Update
        BY <1>1 DEF Typed, Update
      <3>2. \A kind \in Commands : Message(kind) \in Update
        BY DEF Message, Update
      <3> QED
        BY <1>11, <3>1, <3>2 DEF Reply, Command, Continue, Commands
    <2>2. updates' \in Seq(Update) /\ DOMAIN updates \subseteq DOMAIN updates'
      <3>1. updates \in Seq(Update)
        BY <1>1 DEF Typed
      <3> QED
        BY <2>1, <3>1, Appended DEF Write
    <2>3. UNCHANGED <<status, answer, report, delivered, prompts, confirmed, processed, conv, bot,
                      mishaps>>
      BY <2>1 DEF Write, grader, notes
    <2> QED
      BY <1>1, <2>2, <2>3 DEF Typed
  <1> QED
    BY <1>4, <1>5, <1>6, <1>7, <1>8, <1>9, <1>10, <1>11 DEF MentiNext, Cycle

\* Which action writes what.
LEMMA Footprint ==
    ASSUME [MentiNext]_mentiVars
    PROVE  /\ SendPrompt \/ prompts' = prompts
           /\ (\E u \in {[kind |-> "reply", to |-> p] : p \in DOMAIN prompts}
                        \cup {Message(kind) : kind \in Commands} : Write(u)) \/ updates' = updates
           /\ Take \/ (\E q \in Questions : Pose(q)) \/ UNCHANGED <<status, answer>>
           /\ Resume \/ Decline \/ Mark \/ processed' = processed
           /\ Activate \/ Pause \/ Clear \/ conv' = conv
           /\ Poll \/ confirmed' = confirmed
  BY DEF MentiNext, Cycle, BotStarts, ClaimReport, DeliverReport, MarkSent, SyncQuestion,
      SendPrompt, Activate, Poll, Duplicate, Pause, Resume, Decline, Take, Mark, Clear,
      Acknowledge, PollFails, BotDies, Pose, Report, Expire, Reply, Command, Continue, Write,
      grader, notes, telegram, mentiVars, Commands

\* Nothing that was sent or written, and no mark, is taken back.
LEMMA Grows ==
    ASSUME MentiInv, [MentiNext]_mentiVars
    PROVE  /\ DOMAIN prompts \subseteq DOMAIN prompts' /\ DOMAIN updates \subseteq DOMAIN updates'
           /\ \A i \in DOMAIN prompts : prompts'[i] = prompts[i]
           /\ \A i \in DOMAIN updates : updates'[i] = updates[i]
           /\ Len(updates) <= Len(updates') /\ Len(prompts) \in Nat /\ Len(updates) \in Nat
           /\ processed \subseteq processed'
  <1> DEFINE Kept == /\ DOMAIN updates \subseteq DOMAIN updates'
                     /\ \A i \in DOMAIN updates : updates'[i] = updates[i]
                     /\ Len(updates) <= Len(updates')
  <1>1. prompts \in Seq(Questions) /\ updates \in Seq(Update)
    BY DEF MentiInv, Typed
  <1>2. /\ DOMAIN prompts \subseteq DOMAIN prompts'
        /\ \A i \in DOMAIN prompts : prompts'[i] = prompts[i]
    <2>1. CASE SendPrompt
      <3>1. Shown \in Questions
        BY <2>1, ShownTyped DEF SendPrompt, MentiInv
      <3> QED
        BY <1>1, <2>1, <3>1, Appended DEF SendPrompt
    <2> QED
      BY <2>1, Footprint
  <1>3. Kept
    <2>1. CASE updates' = updates
      BY <1>1, <2>1
    <2>2. ASSUME NEW u \in {[kind |-> "reply", to |-> p] : p \in DOMAIN prompts}
                           \cup {Message(kind) : kind \in Commands}, Write(u)
          PROVE  Kept
      <3>1. u \in Update
        <4>1. DOMAIN prompts \subseteq Nat
          BY <1>1
        <4> QED
          BY <4>1 DEF Message, Update
      <3>2. updates' = Append(updates, u)
        BY <2>2 DEF Write
      <3> QED
        BY <1>1, <3>1, <3>2, Appended
    <2> QED
      BY <2>1, <2>2, Footprint
  <1>4. processed \subseteq processed'
    BY Footprint DEF Resume, Decline, Mark, MarkProcessed
  <1> QED
    BY <1>1, <1>2, <1>3, <1>4

\* And no question becomes unasked, and no answered one pending again.
LEMMA NextStatus ==
    ASSUME MentiInv, [MentiNext]_mentiVars
    PROVE  /\ \A q \in Questions : /\ status[q] = "answered" => /\ status'[q] = "answered"
                                                               /\ answer'[q] = answer[q]
                                   /\ status[q] # "unasked" => status'[q] # "unasked"
           /\ Pending' \subseteq Pending \cup {q \in Questions : status[q] = "unasked"}
  <1>1. /\ status \in [Questions -> {"unasked", "pending", "answered"}]
        /\ answer \in [Questions -> Nat]
    BY DEF MentiInv, Typed
  <1>2. CASE Take
    BY <1>1, <1>2 DEF Take, Pending, grader
  <1>3. CASE \E q \in Questions : Pose(q)
    BY <1>1, <1>3 DEF Pose, Pending
  <1>4. CASE UNCHANGED <<status, answer>>
    BY <1>4 DEF Pending
  <1> QED
    BY <1>2, <1>3, <1>4, Footprint

LEMMA NextOrderly ==
    ASSUME MentiInv, [MentiNext]_mentiVars
    PROVE  Orderly'
  <1>1. Typed /\ Orderly /\ Truthful /\ Doing
    BY DEF MentiInv
  <1>2. /\ status \in [Questions -> {"unasked", "pending", "answered"}]
        /\ prompts \in Seq(Questions) /\ Questions \subseteq Nat
    BY <1>1, MentiAssumption DEF Typed
  <1>3. \A q \in Questions : status'[q] # "unasked" =>
            \A p \in Questions : p < q => status'[p] # "unasked"
    <2>1. CASE \E q \in Questions : Pose(q)
      <3>1. PICK q \in Questions : Pose(q)
        BY <2>1
      <3>2. \A p \in Questions : status'[p] = IF p = q THEN "pending" ELSE status[p]
        BY <1>2, <3>1 DEF Pose
      <3> QED
        BY <1>1, <1>2, <3>1, <3>2 DEF Pose, Orderly
    <2>2. CASE Take \/ UNCHANGED <<status, answer>>
      <3>1. \A p \in Questions : status'[p] = "unasked" <=> status[p] = "unasked"
        BY <1>2, <2>2 DEF Take, grader
      <3> QED
        BY <1>1, <3>1 DEF Orderly
    <2> QED
      BY <2>1, <2>2, Footprint
  <1>4. ASSUME NEW i \in DOMAIN prompts'
        PROVE  /\ status'[prompts'[i]] # "unasked"
               /\ \A p \in Questions : p < prompts'[i] => status'[p] = "answered"
    <2>1. CASE i \in DOMAIN prompts
      <3>1. prompts'[i] = prompts[i] /\ prompts[i] \in Questions
        BY <1>2, <2>1, Grows
      <3> QED
        BY <1>1, <2>1, <3>1, NextStatus DEF Orderly
    <2>2. CASE i \notin DOMAIN prompts
      <3>1. SendPrompt
        BY <2>2, Footprint
      <3>2. Shown \in Questions
        BY <1>1, <3>1, ShownTyped DEF SendPrompt
      <3>3. prompts'[i] = Shown /\ status' = status
        BY <1>2, <2>2, <3>1, <3>2, Appended DEF SendPrompt, grader
      <3>4. CASE InBatch
        <4>1. Shown = conv.q /\ prompts[conv.prompt] = conv.q /\ conv.prompt \in DOMAIN prompts
          BY <1>1, <3>1, <3>4, ShownTyped, Conversation DEF SendPrompt
        <4> QED
          BY <1>1, <3>3, <4>1 DEF Orderly
      <3>5. CASE ~InBatch
        <4>1. status[Shown] = "pending"
              /\ \A q \in Questions : status[q] = "pending" => Shown <= q
          BY <1>1, <3>1, <3>5, ShownTyped DEF SendPrompt, Pending
        <4>2. \A p \in Questions : p < Shown => status[p] # "unasked" /\ status[p] # "pending"
          BY <1>1, <1>2, <3>2, <4>1 DEF Orderly
        <4> QED
          BY <1>2, <3>3, <4>1, <4>2
      <3> QED
        BY <3>4, <3>5
    <2> QED
      BY <2>1, <2>2
  <1> QED
    BY <1>3, <1>4 DEF Orderly

LEMMA NextTruthful ==
    ASSUME MentiInv, [MentiNext]_mentiVars
    PROVE  Truthful'
  <1>1. Typed /\ Typed' /\ Orderly /\ Truthful /\ Doing /\ Batch
    BY NextTyped DEF MentiInv
  <1>2. /\ status \in [Questions -> {"unasked", "pending", "answered"}]
        /\ answer \in [Questions -> Nat] /\ prompts \in Seq(Questions) /\ updates \in Seq(Update)
    BY <1>1 DEF Typed
  <1>3. ASSUME NEW i \in DOMAIN updates'
        PROVE  IF updates'[i].kind = "reply" THEN updates'[i].to \in DOMAIN prompts'
                                             ELSE updates'[i].to = 0
    <2>1. CASE i \in DOMAIN updates
      BY <1>1, <2>1, Grows DEF Truthful
    <2>2. CASE i \notin DOMAIN updates
      <3>1. PICK u \in {[kind |-> "reply", to |-> p] : p \in DOMAIN prompts}
                       \cup {Message(kind) : kind \in Commands} : Write(u)
        BY <2>2, Footprint
      <3>2. u \in Update /\ (IF u.kind = "reply" THEN u.to \in DOMAIN prompts ELSE u.to = 0)
        <4>1. CASE \E p \in DOMAIN prompts : u = [kind |-> "reply", to |-> p]
          BY <1>2, <4>1 DEF Update
        <4>2. CASE \E kind \in Commands : u = Message(kind)
          BY <4>2 DEF Update, Message, Commands
        <4> QED
          BY <3>1, <4>1, <4>2
      <3>3. updates'[i] = u
        BY <1>2, <2>2, <3>1, <3>2, Appended DEF Write
      <3> QED
        BY <3>2, <3>3, Grows
    <2> QED
      BY <2>1, <2>2
  <1>4. conv' # NoConv => prompts'[conv'.prompt] = conv'.q
    <2>1. CASE Activate
      <3>1. Len(prompts) \in DOMAIN prompts
        BY <1>1, <1>2, <2>1 DEF Doing, Activate
      <3>2. conv'.prompt = Len(prompts) /\ conv'.q = prompts[Len(prompts)]
        BY <2>1 DEF Activate
      <3> QED
        BY <3>1, <3>2, Grows
    <2>2. CASE Pause
      <3>1. conv' # NoConv =>
                conv # NoConv /\ conv'.q = conv.q /\ conv'.prompt = conv.prompt
        <4>1. CASE conv = NoConv
          BY <2>2, <4>1, NoConversation DEF Pause
        <4>2. CASE conv # NoConv
          BY <1>1, <2>2, <4>2 DEF Pause, Typed
        <4> QED
          BY <4>1, <4>2
      <3> QED
        BY <1>1, <3>1, Conversation, Grows
    <2>3. CASE Clear
      BY <2>3 DEF Clear
    <2>4. CASE conv' = conv
      BY <1>1, <2>4, Conversation, Grows
    <2> QED
      BY <2>1, <2>2, <2>3, <2>4, Footprint
  <1>5. ASSUME NEW q \in Questions, status'[q] = "answered"
        PROVE  /\ answer'[q] \in DOMAIN updates'
               /\ updates'[answer'[q]].kind = "reply"
               /\ prompts'[updates'[answer'[q]].to] = q
    <2>1. CASE status[q] = "answered"
      <3>1. answer'[q] = answer[q] /\ answer[q] \in DOMAIN updates
        BY <1>1, <2>1, NextStatus DEF Truthful
      <3>2. updates[answer[q]].kind = "reply" /\ prompts[updates[answer[q]].to] = q
        BY <1>1, <2>1 DEF Truthful
      <3>3. updates[answer[q]].to \in DOMAIN prompts
        BY <1>1, <3>1, <3>2 DEF Truthful
      <3> QED
        BY <3>1, <3>2, <3>3, Grows
    <2>2. CASE status[q] # "answered"
      <3>1. Take
        <4>1. CASE \E p \in Questions : Pose(p)
          BY <1>2, <1>5, <2>2, <4>1 DEF Pose
        <4> QED
          BY <1>5, <2>2, <4>1, Footprint
      <3>2. q = conv.q /\ answer'[q] = bot.next
        BY <1>2, <1>5, <2>2, <3>1 DEF Take, grader
      <3>3. Current.kind = "reply" /\ Current.to = conv.prompt /\ conv # NoConv
        BY <3>1, NoConversation DEF Take, Replies
      <3>4. prompts[conv.prompt] = conv.q /\ conv.prompt \in DOMAIN prompts
        BY <1>1, <3>3, Conversation
      <3>5. bot.next \in DOMAIN updates /\ Current = updates[bot.next]
        BY <1>1, <3>1, InHand DEF Take, BotAt, Current
      <3> QED
        BY <3>2, <3>3, <3>4, <3>5, Grows
    <2> QED
      BY <2>1, <2>2
  <1>6. ASSUME NEW q \in Questions, status'[q] # "answered"
        PROVE  answer'[q] = 0
    <2>1. status[q] # "answered" /\ answer[q] = 0
      BY <1>1, <1>6, NextStatus DEF Truthful
    <2>2. answer'[q] = answer[q]
      <3>1. CASE Take
        BY <1>2, <1>6, <3>1 DEF Take, grader
      <3>2. CASE \E p \in Questions : Pose(p)
        BY <3>2 DEF Pose
      <3> QED
        BY <3>1, <3>2, Footprint
    <2> QED
      BY <2>1, <2>2
  <1> QED
    BY <1>3, <1>4, <1>5, <1>6 DEF Truthful

-----------------------------------------------------------------------------
(* The batch of updates.                                                   *)

LEMMA CycleEnds ==
    ASSUME MentiInv, [MentiNext]_mentiVars, bot' \in {NextCycle, BotDown}, confirmed' = confirmed
    PROVE  Batch'
  <1>1. /\ bot'.pc \in {"report", "down"} /\ bot'.offset \in {bot.offset, 0}
        /\ bot'.next = 0 /\ bot'.last = 0
    BY BotMoves DEF MentiInv
  <1>2. 1 .. bot'.offset \subseteq processed /\ 1 .. confirmed \subseteq processed
    BY <1>1 DEF MentiInv, Batch
  <1>3. updates' \in Seq(Update) /\ processed \subseteq processed'
    BY NextTyped, Grows DEF Typed
  <1> QED
    BY <1>1, <1>2, <1>3 DEF Batch, InBatch

LEMMA BatchMoves ==
    ASSUME MentiInv, [MentiNext]_mentiVars, NEW pc \in Pcs, bot' = [bot EXCEPT !.pc = pc],
           confirmed' = confirmed,
           pc \in {"handle", "mark", "clear", "acknowledge"} => InBatch,
           pc \in {"down", "report", "deliver", "delivered", "sync", "poll"} => ~InBatch,
           InBatch /\ pc \notin {"handle", "mark"} => bot.next \in processed'
    PROVE  Batch'
  <1>1. /\ bot'.pc = pc /\ bot'.offset = bot.offset
        /\ bot'.next = bot.next /\ bot'.last = bot.last
    BY BotMoves DEF MentiInv
  <1>2. /\ Len(updates) <= Len(updates') /\ Len(updates) \in Nat /\ processed \subseteq processed'
        /\ Len(updates') \in Nat /\ bot.last \in Nat
    <2>1. updates' \in Seq(Update) /\ bot \in BotType
      BY NextTyped DEF Typed, MentiInv, BotType
    <2> QED
      BY <2>1, Grows DEF BotType
  <1>3. Batch
    BY DEF MentiInv
  <1>4. bot'.last <= Len(updates')
    BY <1>1, <1>2, <1>3 DEF Batch
  <1> QED
    BY <1>1, <1>2, <1>3, <1>4 DEF Batch, InBatch

LEMMA NextUpdate ==
    ASSUME MentiInv, [MentiNext]_mentiVars, InBatch, bot.next \in processed', bot' = AfterUpdate,
           confirmed' = confirmed
    PROVE  Batch'
  <1>1. /\ Len(updates) <= Len(updates') /\ Len(updates) \in Nat /\ processed \subseteq processed'
        /\ Len(updates') \in Nat /\ bot.last \in Nat /\ bot.next \in Nat /\ confirmed \in Nat
    <2>1. updates' \in Seq(Update) /\ bot \in BotType /\ confirmed \in Nat
      BY NextTyped DEF Typed, MentiInv, BotType
    <2> QED
      BY <2>1, Grows DEF BotType
  <1>2. Batch
    BY DEF MentiInv
  <1>3. bot.last <= Len(updates')
    BY <1>1, <1>2 DEF Batch
  <1>4. CASE bot.next < bot.last
    <2>1. /\ bot'.pc = "handle" /\ bot'.offset = bot.offset
          /\ bot'.next = bot.next + 1 /\ bot'.last = bot.last
      BY <1>4, BotMoves DEF MentiInv
    <2>2. \A u \in 1 .. bot.last : u < bot.next + 1 => u \in processed'
      BY <1>1, <1>2 DEF Batch
    <2> QED
      BY <1>1, <1>2, <1>3, <1>4, <2>1, <2>2 DEF Batch, InBatch
  <1>5. CASE ~(bot.next < bot.last)
    <2>1. /\ bot'.pc = "report" /\ bot'.offset = bot.last
          /\ bot'.next = 0 /\ bot'.last = 0
      BY <1>5, BotMoves DEF MentiInv
    <2>2. \A u \in 1 .. bot.last : u \in processed'
      BY <1>1, <1>2, <1>5 DEF Batch
    <2> QED
      BY <1>1, <1>2, <2>1, <2>2 DEF Batch, InBatch
  <1> QED
    BY <1>4, <1>5

LEMMA NextBatch ==
    ASSUME MentiInv, [MentiNext]_mentiVars
    PROVE  Batch'
  <1>1. Typed /\ Batch /\ Doing
    BY DEF MentiInv
  <1>2. \A pc \in {"deliver", "delivered", "sync", "prompt", "activate", "poll", "mark", "clear",
                   "acknowledge"} : pc \in Pcs
    BY DEF Pcs
  <1>3. CASE BotStarts \/ BotDies \/ PollFails \/ (DeliverReport /\ Interrupted)
             \/ (SendPrompt /\ Interrupted) \/ (Acknowledge /\ Interrupted)
    <2>1. bot' \in {NextCycle, BotDown} /\ confirmed' = confirmed
      BY <1>3
      DEF BotStarts, BotDies, PollFails, DeliverReport, SendPrompt, Acknowledge, Interrupted,
          EndCycle, telegram
    <2> QED
      BY <2>1, CycleEnds
  <1>4. CASE ClaimReport \/ MarkSent \/ SyncQuestion \/ (DeliverReport /\ ~Interrupted)
    <2>1. ~InBatch /\ confirmed' = confirmed
      BY <1>1, <1>4
      DEF ClaimReport, MarkSent, SyncQuestion, DeliverReport, BotAt, Batch, telegram
    <2>2. PICK pc \in {"deliver", "delivered", "sync", "prompt", "poll"} : BotGoto(pc)
      BY <1>4 DEF ClaimReport, MarkSent, SyncQuestion, DeliverReport
    <2> QED
      BY <1>2, <2>1, <2>2, BatchMoves DEF BotGoto
  <1>5. CASE SendPrompt /\ ~Interrupted
    <2>1. bot' = [bot EXCEPT !.pc = "activate"] /\ confirmed' = confirmed /\ bot.pc = "prompt"
      BY <1>5 DEF SendPrompt, BotGoto, BotAt
    <2>2. InBatch => bot.next \in processed'
      BY <1>1, <2>1, Grows DEF Batch
    <2> QED
      BY <1>2, <2>1, <2>2, BatchMoves
  <1>6. CASE Activate
    <2>1. confirmed' = confirmed /\ bot.pc = "activate"
      BY <1>6 DEF Activate, BotAt, telegram
    <2>2. CASE InBatch
      <3>1. bot.next \in processed' /\ bot' = AfterUpdate
        BY <1>1, <1>6, <2>1, <2>2, Grows DEF Batch, Activate
      <3> QED
        BY <2>1, <2>2, <3>1, NextUpdate
    <2>3. CASE ~InBatch
      <3>1. bot' = [bot EXCEPT !.pc = "poll"]
        BY <1>6, <2>3 DEF Activate, BotGoto
      <3> QED
        BY <1>2, <2>1, <2>3, <3>1, BatchMoves
    <2> QED
      BY <2>2, <2>3
  <1>7. CASE Poll
    <2>1. /\ updates \in Seq(Update) /\ updates' = updates /\ processed' = processed
          /\ confirmed \in Nat /\ bot.offset \in Nat /\ bot \in BotType
      BY <1>1, <1>7 DEF Typed, Poll, BotType
    <2>2. confirmed' \in {confirmed, bot.offset}
      BY <1>7 DEF Poll
    <2>3. 1 .. confirmed' \subseteq processed /\ confirmed' \in Nat
      BY <1>1, <2>1, <2>2 DEF Batch
    <2>4. Len(updates) \in Nat /\ processed \subseteq 1 .. Len(updates)
      BY <1>1, <2>1 DEF Typed
    <2>5. confirmed' <= Len(updates)
      <3>1. PICK n \in Nat : n = confirmed'
        BY <2>3
      <3>2. n = 0 \/ n \in 1 .. n
        OBVIOUS
      <3> QED
        BY <2>3, <2>4, <3>1, <3>2
    <2>6. CASE confirmed' = Len(updates)
      <3>1. bot' = NextCycle
        BY <1>7, <2>6 DEF Poll
      <3>2. /\ bot'.pc = "report" /\ bot'.offset = bot.offset
            /\ bot'.next = 0 /\ bot'.last = 0
        BY <1>1, <3>1, BotMoves
      <3> QED
        BY <1>1, <2>1, <2>3, <2>4, <3>2 DEF Batch, InBatch
    <2>7. CASE confirmed' # Len(updates)
      <3>1. bot' = [bot EXCEPT !.pc = "handle", !.next = confirmed' + 1, !.last = Len(updates)]
        BY <1>7, <2>7 DEF Poll
      <3>2. /\ bot'.pc = "handle" /\ bot'.offset = bot.offset
            /\ bot'.next = confirmed' + 1 /\ bot'.last = Len(updates)
        BY <2>1, <3>1 DEF BotType
      <3>3. PICK n \in Nat, m \in Nat : n = confirmed' /\ m = Len(updates)
        BY <2>3, <2>4
      <3>4. n < n + 1 /\ n + 1 <= m /\ n + 1 # 0
        <4>1. n <= m
          BY <2>5, <3>3, Zenon
        <4>2. n # m
          BY <2>7, <3>3, Zenon
        <4> QED
          BY <4>1, <4>2
      <3>5. \A u \in 1 .. m : u < n + 1 => u \in processed
        <4>1. \A u \in 1 .. m : u < n + 1 => u \in 1 .. n
          OBVIOUS
        <4> QED
          BY <2>3, <3>3, <4>1
      <3>6. /\ bot'.pc = "handle" /\ bot'.offset = bot.offset
            /\ bot'.next = n + 1 /\ bot'.last = m /\ confirmed' = n /\ Len(updates') = m
        BY <2>1, <3>2, <3>3
      <3> QED
        BY <1>1, <2>1, <2>3, <3>4, <3>5, <3>6 DEF Batch, InBatch
    <2> QED
      BY <2>6, <2>7
  <1>8. CASE Duplicate \/ (Acknowledge /\ ~Interrupted) \/ (Decline /\ conv.state # "active")
    <2>1. /\ bot.pc \in {"handle", "acknowledge"} /\ bot' = AfterUpdate /\ confirmed' = confirmed
      BY <1>8 DEF Duplicate, Acknowledge, Decline, BotAt, telegram
    <2>2. bot.next \in processed'
      BY <1>1, <1>8, Grows
      DEF Duplicate, Acknowledge, Decline, BotAt, Handled, MarkProcessed, Batch
    <2> QED
      BY <1>1, <2>1, <2>2, NextUpdate DEF Batch
  <1>9. CASE Pause \/ Take
    <2>1. bot' = [bot EXCEPT !.pc = "mark"] /\ confirmed' = confirmed /\ bot.pc = "handle"
      BY <1>9 DEF Pause, Take, BotGoto, Handling, BotAt, telegram
    <2> QED
      BY <1>1, <1>2, <2>1, BatchMoves DEF Batch
  <1>10. CASE Resume \/ (Decline /\ conv.state = "active") \/ Mark \/ Clear
    <2>1. /\ bot.pc \in {"handle", "mark", "clear"} /\ bot.next \in processed'
          /\ confirmed' = confirmed
      BY <1>1, <1>10, Grows
      DEF Resume, Decline, Mark, Clear, MarkProcessed, Handling, BotAt, telegram, Batch
    <2>2. PICK pc \in {"prompt", "acknowledge", "clear"} : BotGoto(pc)
      BY <1>10 DEF Resume, Decline, Mark, Clear
    <2> QED
      BY <1>1, <1>2, <2>1, <2>2, BatchMoves DEF BotGoto, Batch
  <1>11. CASE bot' = bot /\ confirmed' = confirmed
    <2>1. bot.pc \in Pcs /\ bot' = [bot EXCEPT !.pc = bot.pc]
      BY <1>1, <1>11 DEF Typed
    <2> QED
      BY <1>1, <1>11, <2>1, BatchMoves, Grows DEF Batch
  <1>12. CASE (\E q \in Questions : Pose(q)) \/ Report \/ Expire
              \/ (\E p \in DOMAIN prompts : Reply(p))
              \/ (\E kind \in Commands : Command(kind)) \/ Continue \/ UNCHANGED mentiVars
    BY <1>11, <1>12 DEF Pose, Report, Expire, Reply, Command, Continue, Write, telegram, mentiVars
  <1> QED
    BY <1>3, <1>4, <1>5, <1>6, <1>7, <1>8, <1>9, <1>10, <1>12 DEF MentiNext, Cycle

-----------------------------------------------------------------------------
(* What the bot is in the middle of.                                       *)

\* Nothing outside the bot disturbs it.
LEMMA Undisturbed ==
    ASSUME MentiInv, [MentiNext]_mentiVars, UNCHANGED <<prompts, processed, conv, bot>>
    PROVE  Doing'
  <1>1. Typed /\ Orderly /\ Truthful /\ Batch /\ Doing
    BY DEF MentiInv
  <1>2. BotAt("mark") => Current' = Current
    BY <1>1, InHand, Grows DEF BotAt, Current
  <1>3. \A u \in processed : updates'[u] = updates[u]
    BY <1>1, Grows DEF Typed
  <1>4. conv # NoConv => /\ status[conv.q] = "answered" => status'[conv.q] = "answered"
                         /\ conv.q \notin Pending => conv.q \notin Pending'
    <2> HAVE conv # NoConv
    <2>1. conv.q \in Questions /\ status[conv.q] # "unasked"
      BY <1>1, Conversation
    <2> QED
      BY <2>1, NextStatus DEF Pending
  <1>5. conv = NoConv => conv.q \notin Pending'
    BY NoConversation DEF Pending
  <1>6. Pending \subseteq Pending'
    <2>1. status \in [Questions -> {"unasked", "pending", "answered"}]
      BY <1>1 DEF Typed
    <2>2. ASSUME Take
          PROVE  FALSE
      <3>1. bot'.pc = "mark" /\ bot.pc = "handle"
        BY <1>1, <2>2, BotMoves DEF Take, BotAt, BotGoto, Pcs
      <3> QED
        BY <3>1
    <2>3. CASE \E q \in Questions : Pose(q)
      BY <2>1, <2>3 DEF Pose, Pending
    <2>4. CASE UNCHANGED <<status, answer>>
      BY <2>4 DEF Pending
    <2> QED
      BY <2>2, <2>3, <2>4, Footprint
  <1>7. BotAt("mark") => /\ Current'.kind \in {"reply", "cancel"}
                         /\ Current'.kind = "reply" =>
                               /\ conv.state = "active" /\ Current'.to = conv.prompt
                               /\ status'[conv.q] = "answered"
    BY <1>1, <1>2, <1>4, NoConversation DEF Doing
  <1>8. BotAt("clear") => conv # NoConv /\ status'[conv.q] = "answered"
    BY <1>1, <1>4 DEF Doing
  <1>9. BotAt("prompt") => IF InBatch THEN conv # NoConv
                           ELSE Pending' # {} /\ conv.q \notin Pending'
    BY <1>1, <1>4, <1>5, <1>6 DEF Doing, BotAt
  <1>10. BotAt("activate") =>
            /\ prompts # <<>> /\ \A u \in processed : updates'[u].to # Len(prompts)
            /\ IF InBatch THEN conv # NoConv /\ prompts[Len(prompts)] = conv.q
               ELSE prompts[Len(prompts)] \in Pending' /\ conv.q \notin Pending'
    BY <1>1, <1>3, <1>4, <1>5, <1>6 DEF Doing, BotAt
  <1> QED
    BY <1>7, <1>8, <1>9, <1>10 DEF Doing, BotAt, InBatch

LEMMA NextDoing ==
    ASSUME MentiInv, [MentiNext]_mentiVars
    PROVE  Doing'
  <1>1. Typed /\ Orderly /\ Truthful /\ Batch /\ Doing
    BY DEF MentiInv
  <1>2. \A pc \in {"deliver", "delivered", "sync", "prompt", "activate", "poll", "mark", "clear",
                   "acknowledge"} : pc \in Pcs
    BY DEF Pcs
  <1>3. ASSUME bot'.pc \notin {"mark", "clear", "prompt", "activate"}
        PROVE  Doing'
    BY <1>3 DEF Doing, BotAt
  <1>4. CASE BotStarts \/ BotDies \/ PollFails \/ Duplicate \/ Acknowledge \/ ClaimReport
             \/ DeliverReport \/ MarkSent \/ Activate \/ Poll \/ Clear \/ (Decline /\ conv.state # "active")
             \/ (SendPrompt /\ Interrupted)
    <2>1. bot'.pc \notin {"mark", "clear", "prompt", "activate"}
      <3>1. CASE bot' \in {NextCycle, BotDown, AfterUpdate}
        <4>1. bot'.pc \in {"report", "down", "handle"}
          BY <1>1, <3>1, BotMoves
        <4> QED
          BY <4>1
      <3>2. CASE \E pc \in {"deliver", "delivered", "sync", "poll", "acknowledge"} : BotGoto(pc)
        BY <1>1, <1>2, <3>2, BotMoves DEF BotGoto
      <3>3. CASE bot' = [bot EXCEPT !.pc = "handle", !.next = confirmed' + 1, !.last = Len(updates)]
        <4>1. bot \in BotType
          BY <1>1 DEF Typed, BotType
        <4> QED
          BY <3>3, <4>1 DEF BotType
      <3> QED
        BY <1>4, <3>1, <3>2, <3>3
        DEF BotStarts, BotDies, PollFails, Duplicate, Acknowledge, ClaimReport, DeliverReport,
            MarkSent, Activate, Poll, Clear, Decline, SendPrompt, Interrupted, EndCycle
    <2> QED
      BY <1>3, <2>1
  <1>5. CASE SyncQuestion
    <2>1. PICK pc \in {"prompt", "poll"} : BotGoto(pc)
      BY <1>5 DEF SyncQuestion
    <2>2. /\ bot'.pc = pc /\ bot'.next = bot.next
          /\ UNCHANGED <<status, prompts, updates, processed, conv>>
      BY <1>1, <1>2, <1>5, <2>1, BotMoves DEF SyncQuestion, BotGoto, grader, telegram
    <2>3. CASE pc = "prompt"
      <3>1. Pending # {} /\ conv.q # OldestQuestion
        <4>1. bot'.pc # "poll"
          BY <2>2, <2>3
        <4>2. [bot EXCEPT !.pc = "poll"].pc = "poll"
          BY <1>1, <1>2, BotMoves
        <4>3. ~BotGoto("poll")
          BY <4>1, <4>2 DEF BotGoto
        <4> QED
          BY <1>5, <4>3 DEF SyncQuestion, Waiting
      <3>2. conv.q \notin Pending
        <4>1. SUFFICES ASSUME conv.q \in Pending PROVE FALSE
          OBVIOUS
        <4>2. conv # NoConv
          BY <4>1, NoConversation DEF Pending
        <4>3. /\ conv.q \in Questions /\ prompts[conv.prompt] = conv.q
              /\ conv.prompt \in DOMAIN prompts
          BY <1>1, <4>2, Conversation
        <4>4. OldestQuestion \in Pending /\ OldestQuestion <= conv.q /\ OldestQuestion \in Questions
          BY <3>1, <4>1, OldestPending DEF Pending
        <4>5. OldestQuestion < conv.q
          <5>1. PICK n \in Nat, m \in Nat : n = OldestQuestion /\ m = conv.q
            BY <4>3, <4>4, MentiAssumption
          <5>2. n <= m
            BY <4>4, <5>1, Zenon
          <5>3. n # m
            BY <3>1, <5>1, Zenon
          <5>4. n < m
            BY <5>2, <5>3
          <5> QED
            BY <5>1, <5>4, Zenon
        <4>6. status[OldestQuestion] = "answered"
          BY <1>1, <4>3, <4>4, <4>5 DEF Orderly
        <4> QED
          BY <4>4, <4>6 DEF Pending
      <3>3. ~InBatch
        BY <1>1, <1>5 DEF SyncQuestion, BotAt, Batch
      <3> QED
        BY <2>2, <2>3, <3>1, <3>2, <3>3 DEF Doing, BotAt, InBatch, Pending
    <2>4. CASE pc = "poll"
      BY <1>3, <2>2, <2>4
    <2> QED
      BY <2>3, <2>4
  <1>6. CASE SendPrompt /\ ~Interrupted
    <2>1. /\ bot' = [bot EXCEPT !.pc = "activate"] /\ prompts' = Append(prompts, Shown)
          /\ UNCHANGED <<status, updates, processed, conv>> /\ BotAt("prompt")
      BY <1>6 DEF SendPrompt, BotGoto, grader
    <2>2. bot'.pc = "activate" /\ bot'.next = bot.next
      BY <1>1, <1>2, <2>1, BotMoves
    <2>3. prompts \in Seq(Questions) /\ Shown \in Questions
      BY <1>1, <2>1, ShownTyped DEF Typed
    <2>4. /\ prompts' # <<>> /\ Len(prompts') = Len(prompts) + 1 /\ Len(prompts) \in Nat
          /\ prompts'[Len(prompts')] = Shown /\ DOMAIN prompts = 1 .. Len(prompts)
      BY <2>1, <2>3, Appended
    <2>5. \A u \in processed : updates[u].to # Len(prompts')
      <3>1. \A u \in processed : updates[u].to \in DOMAIN prompts \cup {0}
        BY <1>1 DEF Typed, Truthful
      <3> QED
        BY <2>4, <3>1
    <2>6. IF InBatch THEN conv # NoConv /\ Shown = conv.q
          ELSE Shown \in Pending /\ conv.q \notin Pending
      BY <1>1, <2>1, ShownTyped DEF Doing
    <2> QED
      BY <2>1, <2>2, <2>4, <2>5, <2>6 DEF Doing, BotAt, InBatch, Pending
  <1>7. CASE Pause
    <2>1. bot'.pc = "mark" /\ bot'.next = bot.next /\ updates' = updates
      BY <1>1, <1>2, <1>7, BotMoves DEF Pause, BotGoto, telegram
    <2>2. Current'.kind = "cancel"
      BY <1>7, <2>1 DEF Pause, Handling, Current
    <2> QED
      BY <2>1, <2>2 DEF Doing, BotAt
  <1>8. CASE Take
    <2>1. /\ bot'.pc = "mark" /\ bot'.next = bot.next
          /\ UNCHANGED <<updates, prompts, processed, conv>>
      BY <1>1, <1>2, <1>8, BotMoves DEF Take, BotGoto, telegram
    <2>2. Current' = Current /\ Current.kind = "reply" /\ Current.to = conv.prompt
          /\ conv.state = "active"
      BY <1>8, <2>1 DEF Take, Replies, Current
    <2>3. status'[conv.q] = "answered"
      <3>1. conv.q \in Questions /\ status[conv.q] \in {"pending", "answered"}
        BY <1>1, <2>2, Conversation, NoConversation
      <3>2. status \in [Questions -> {"unasked", "pending", "answered"}]
        BY <1>1 DEF Typed
      <3> QED
        BY <1>8, <3>1, <3>2 DEF Take, grader
    <2> QED
      BY <2>1, <2>2, <2>3 DEF Doing, BotAt
  <1>9. CASE Resume
    <2>1. PICK pc \in {"prompt", "acknowledge"} : BotGoto(pc) /\ (pc = "prompt" => conv # NoConv)
      BY <1>9 DEF Resume
    <2>2. bot'.pc = pc /\ bot'.next = bot.next /\ conv' = conv
      BY <1>1, <1>2, <1>9, <2>1, BotMoves DEF Resume, BotGoto
    <2>3. InBatch
      BY <1>1, <1>9 DEF Resume, Handling, BotAt, Batch
    <2> QED
      BY <2>1, <2>2, <2>3 DEF Doing, BotAt, InBatch
  <1>10. CASE Decline /\ conv.state = "active"
    <2>1. BotGoto("acknowledge")
      BY <1>10 DEF Decline
    <2>2. bot'.pc = "acknowledge"
      BY <1>1, <1>2, <2>1, BotMoves DEF BotGoto
    <2> QED
      BY <1>3, <2>2
  <1>11. CASE Mark
    <2>1. /\ bot' = [bot EXCEPT !.pc = IF Current.kind = "reply" THEN "clear" ELSE "acknowledge"]
          /\ UNCHANGED <<status, conv>> /\ BotAt("mark")
      BY <1>11 DEF Mark, BotGoto, grader
    <2>2. bot'.pc = IF Current.kind = "reply" THEN "clear" ELSE "acknowledge"
      BY <1>1, <1>2, <2>1, BotMoves
    <2>3. Current.kind = "reply" => conv # NoConv /\ status[conv.q] = "answered"
      BY <1>1, <2>1, NoConversation DEF Doing
    <2> QED
      BY <2>1, <2>2, <2>3 DEF Doing, BotAt
  <1>12. CASE (\E q \in Questions : Pose(q)) \/ Report \/ Expire
              \/ (\E p \in DOMAIN prompts : Reply(p))
              \/ (\E kind \in Commands : Command(kind)) \/ Continue \/ UNCHANGED mentiVars
    <2>1. UNCHANGED <<prompts, processed, conv, bot>>
      BY <1>12 DEF Pose, Report, Expire, Reply, Command, Continue, Write, telegram, mentiVars
    <2> QED
      BY <2>1, Undisturbed
  <1> QED
    BY <1>4, <1>5, <1>6, <1>7, <1>8, <1>9, <1>10, <1>11, <1>12 DEF MentiNext, Cycle

LEMMA NextReplyCounts ==
    ASSUME MentiInv, [MentiNext]_mentiVars
    PROVE  ReplyCounts'
  <1>1. Typed /\ Orderly /\ Truthful /\ Batch /\ Doing /\ ReplyCounts
    BY DEF MentiInv
  <1>2. \A u \in processed : updates'[u] = updates[u]
    BY <1>1, Grows DEF Typed
  <1>3. SUFFICES ASSUME conv'.state = "active", NEW u \in processed', updates'[u].to = conv'.prompt
                 PROVE  status'[conv'.q] = "answered"
    BY DEF ReplyCounts
  <1>4. CASE Activate
    <2>1. /\ conv'.prompt = Len(prompts) /\ processed' = processed /\ BotAt("activate")
      BY <1>4 DEF Activate
    <2> QED
      BY <1>1, <1>2, <1>3, <2>1 DEF Doing
  <1>5. CASE Pause \/ Clear
    <2>1. conv'.state # "active"
      <3>1. CASE Clear
        BY <3>1, NoConversation DEF Clear
      <3>2. CASE Pause /\ conv.state # "active"
        BY <3>2 DEF Pause
      <3>3. CASE Pause /\ conv.state = "active"
        <4>1. conv # NoConv
          BY <3>3, NoConversation
        <4>2. conv \in [q : Questions, prompt : DOMAIN prompts, state : {"active", "paused"}]
          BY <1>1, <4>1 DEF Typed
        <4> QED
          BY <3>3, <4>2 DEF Pause
      <3> QED
        BY <1>5, <3>1, <3>2, <3>3
    <2> QED
      BY <1>3, <2>1
  <1>6. CASE conv' = conv
    <2>1. /\ conv.q \in Questions /\ conv.prompt \in Nat \ {0}
          /\ status[conv.q] = "answered" => status'[conv.q] = "answered"
      BY <1>1, <1>3, <1>6, Conversation, NoConversation, NextStatus
    <2>2. CASE u \in processed
      BY <1>1, <1>2, <1>3, <1>6, <2>1, <2>2 DEF ReplyCounts
    <2>3. CASE u \notin processed
      <3>1. Resume \/ Decline \/ Mark
        BY <2>3, Footprint
      <3>2. u = bot.next /\ updates' = updates
        BY <1>3, <2>3, <3>1 DEF Resume, Decline, Mark, MarkProcessed, telegram
      <3>3. Current.to = conv.prompt
        BY <1>3, <1>6, <3>2 DEF Current
      <3>4. u \in DOMAIN updates
        BY <1>1, <3>1, <3>2, InHand DEF Resume, Decline, Mark, Handling, BotAt
      <3>5. Current.kind = "reply"
        BY <1>1, <2>1, <3>2, <3>3, <3>4 DEF Truthful, Current
      <3>6. Mark
        BY <1>3, <1>6, <3>1, <3>3, <3>5 DEF Resume, Decline, Handling, Replies
      <3> QED
        BY <1>1, <1>6, <2>1, <3>5, <3>6 DEF Mark, Doing
    <2> QED
      BY <2>2, <2>3
  <1> QED
    BY <1>4, <1>5, <1>6, Footprint

-----------------------------------------------------------------------------
(* Reports, and the account of the prompts.                                *)

LEMMA NextReported ==
    ASSUME MentiInv, [MentiNext]_mentiVars
    PROVE  Reported'
  <1>1. Typed /\ Reported /\ delivered \in Nat /\ mishaps \in Nat
    BY DEF MentiInv, Typed
  <1>2. \A pc \in {"deliver", "delivered", "sync", "prompt", "activate", "poll", "mark", "clear",
                   "acknowledge"} : pc \in Pcs
    BY DEF Pcs
  <1>3. CASE ClaimReport
    <2>1. UNCHANGED <<delivered, mishaps>> /\ BotAt("report")
      BY <1>3 DEF ClaimReport
    <2>2. CASE ReportClaimable
      <3>1. bot' = [bot EXCEPT !.pc = "deliver"] /\ report' = "delivering"
        BY <1>3, <2>2 DEF ClaimReport, BotGoto
      <3>2. bot'.pc = "deliver"
        BY <1>1, <1>2, <3>1, BotMoves
      <3> QED
        BY <1>1, <2>1, <2>2, <3>1, <3>2 DEF Reported, BotAt, ReportClaimable
    <2>3. CASE ~ReportClaimable
      <3>1. bot' = [bot EXCEPT !.pc = "sync"] /\ report' = report
        BY <1>3, <2>3 DEF ClaimReport, BotGoto
      <3>2. bot'.pc = "sync"
        BY <1>1, <1>2, <3>1, BotMoves
      <3> QED
        BY <1>1, <2>1, <3>1, <3>2 DEF Reported, BotAt
    <2> QED
      BY <2>2, <2>3
  <1>4. CASE DeliverReport /\ ~Interrupted
    <2>1. /\ bot' = [bot EXCEPT !.pc = "delivered"] /\ delivered' = delivered + 1
          /\ UNCHANGED <<report, mishaps>> /\ BotAt("deliver")
      BY <1>4 DEF DeliverReport, BotGoto
    <2>2. bot'.pc = "delivered"
      BY <1>1, <1>2, <2>1, BotMoves
    <2> QED
      BY <1>1, <2>1, <2>2 DEF Reported, BotAt
  <1>5. CASE DeliverReport /\ Interrupted
    <2>1. /\ bot' = NextCycle /\ delivered' \in {delivered, delivered + 1} /\ report' = "queued"
          /\ mishaps' = mishaps + 1 /\ BotAt("deliver")
      BY <1>1, <1>5 DEF DeliverReport, Interrupted, EndCycle, Mishap, ReleaseReport
    <2>2. bot'.pc = "report"
      BY <1>1, <2>1, BotMoves
    <2> QED
      BY <1>1, <2>1, <2>2 DEF Reported, BotAt
  <1>6. CASE MarkSent
    <2>1. /\ bot' = [bot EXCEPT !.pc = "sync"] /\ report' = "sent"
          /\ UNCHANGED <<delivered, mishaps>> /\ BotAt("delivered")
      BY <1>6 DEF MarkSent, BotGoto
    <2>2. bot'.pc = "sync"
      BY <1>1, <1>2, <2>1, BotMoves
    <2> QED
      BY <1>1, <2>1, <2>2 DEF Reported, BotAt
  <1>7. CASE Report \/ Expire
    BY <1>1, <1>7 DEF Report, Expire, Reported, BotAt
  <1>8. ASSUME UNCHANGED <<report, delivered>>, mishaps' \in {mishaps, mishaps + 1},
               bot'.pc \notin {"deliver", "delivered"},
               BotAt("delivered") => mishaps' = mishaps + 1
        PROVE  Reported'
    <2>1. CASE BotAt("delivered")
      <3>1. delivered <= mishaps + 1 /\ mishaps' = mishaps + 1 /\ delivered > 0
        BY <1>1, <1>8, <2>1 DEF Reported
      <3> QED
        BY <1>1, <1>8, <3>1 DEF Reported, BotAt
    <2>2. CASE ~BotAt("delivered")
      <3>1. delivered <= mishaps + (IF report = "sent" THEN 1 ELSE 0)
        BY <1>1, <2>2 DEF Reported
      <3> DEFINE marked == IF report = "sent" THEN 1 ELSE 0
      <3>a. \A d, m, n, k \in Nat : d <= n + k /\ m \in {n, n + 1} => d <= m + k
        OBVIOUS
      <3>b. marked \in Nat /\ delivered \in Nat /\ mishaps \in Nat
        BY <1>1 DEF Typed
      <3>c. mishaps' \in Nat /\ mishaps' \in {mishaps, mishaps + 1}
        <4>1. PICK n \in Nat : mishaps = n
          BY <3>b
        <4> QED
          BY <1>8, <4>1
      <3> HIDE DEF marked
      <3>2. delivered <= mishaps' + marked
        <4>1. delivered <= mishaps + marked
          BY <3>1 DEF marked
        <4> QED
          BY <3>a, <3>b, <3>c, <4>1, Zenon
      <3> QED
        BY <1>1, <1>8, <2>2, <3>2 DEF Reported, BotAt, marked
    <2> QED
      BY <2>1, <2>2
  <1>9. CASE BotStarts \/ BotDies \/ PollFails \/ SyncQuestion \/ SendPrompt \/ Activate \/ Poll
             \/ Duplicate \/ Pause \/ Resume \/ Decline \/ Take \/ Mark \/ Clear \/ Acknowledge
    <2>1. UNCHANGED <<report, delivered>> /\ mishaps' \in {mishaps, mishaps + 1}
      BY <1>9
      DEF BotStarts, BotDies, PollFails, SyncQuestion, SendPrompt, Activate, Poll, Duplicate,
          Pause, Resume, Decline, Take, Mark, Clear, Acknowledge, notes, Interrupted, Mishap
    <2>2. BotAt("delivered") => mishaps' = mishaps + 1
      BY <1>9
      DEF BotStarts, BotDies, PollFails, SyncQuestion, SendPrompt, Activate, Poll, Duplicate,
          Pause, Resume, Decline, Take, Mark, Clear, Acknowledge, BotAt, Handling, Mishap
    <2>3. bot'.pc \notin {"deliver", "delivered"}
      <3>1. CASE bot' \in {NextCycle, BotDown, AfterUpdate}
        <4>1. bot'.pc \in {"report", "down", "handle"}
          BY <1>1, <3>1, BotMoves
        <4> QED
          BY <4>1
      <3>2. CASE \E pc \in {"sync", "prompt", "activate", "poll", "mark", "clear", "acknowledge"} :
                    BotGoto(pc)
        BY <1>1, <1>2, <3>2, BotMoves DEF BotGoto
      <3>3. CASE bot' = [bot EXCEPT !.pc = "handle", !.next = confirmed' + 1, !.last = Len(updates)]
        <4>1. bot \in BotType
          BY <1>1 DEF Typed, BotType
        <4> QED
          BY <3>3, <4>1 DEF BotType
      <3> QED
        BY <1>9, <3>1, <3>2, <3>3
        DEF BotStarts, BotDies, PollFails, SyncQuestion, SendPrompt, Activate, Poll, Duplicate,
            Pause, Resume, Decline, Take, Mark, Clear, Acknowledge, Interrupted, EndCycle
    <2> QED
      BY <1>8, <2>1, <2>2, <2>3
  <1>10. CASE (\E q \in Questions : Pose(q)) \/ (\E p \in DOMAIN prompts : Reply(p))
              \/ (\E kind \in Commands : Command(kind)) \/ Continue \/ UNCHANGED mentiVars
    <2>1. UNCHANGED <<report, delivered, mishaps, bot>>
      BY <1>10 DEF Pose, Reply, Command, Continue, Write, notes, mentiVars
    <2> QED
      BY <1>1, <2>1 DEF Reported, BotAt
  <1> QED
    BY <1>3, <1>4, <1>5, <1>6, <1>7, <1>9, <1>10 DEF MentiNext, Cycle

\* The two parts of the budget are finite.
LEMMA Budget ==
    ASSUME Typed
    PROVE  /\ IsFiniteSet(Known) /\ Cardinality(Known) \in Nat
           /\ IsFiniteSet(Started) /\ Cardinality(Started) \in Nat
           /\ IsFiniteSet(processed) /\ IsFiniteSet(DOMAIN updates)
  <1>1. IsFiniteSet(Known)
    BY MentiAssumption, FS_Subset DEF Known
  <1>2. IsFiniteSet(DOMAIN updates)
    <2>1. updates \in Seq(Update)
      BY DEF Typed
    <2>2. DOMAIN updates = 1 .. Len(updates) /\ Len(updates) \in Nat
      BY <2>1
    <2> QED
      BY <2>2, FS_Interval
  <1>3. IsFiniteSet(processed)
    BY <1>2, FS_Subset DEF Typed
  <1>4. IsFiniteSet(Started)
    BY <1>3, FS_Subset DEF Started
  <1> QED
    BY <1>1, <1>2, <1>3, <1>4, FS_CardinalityType

\* A question becomes known at "activate", and never unknown.
LEMMA NextKnown ==
    ASSUME MentiInv, [MentiNext]_mentiVars
    PROVE  IF Activate /\ ~InBatch THEN Cardinality(Known') = Cardinality(Known) + 1
                                   ELSE Known' = Known
  <1>1. Typed /\ Orderly /\ Truthful /\ Batch /\ Doing
    BY DEF MentiInv
  <1>2. status \in [Questions -> {"unasked", "pending", "answered"}]
    BY <1>1 DEF Typed
  <1>3. CASE Activate
    <2>1. conv'.q = prompts[Len(prompts)] /\ status' = status /\ BotAt("activate")
      BY <1>3 DEF Activate, grader
    <2>2. CASE InBatch
      BY <1>1, <2>1, <2>2 DEF Doing, Known
    <2>3. CASE ~InBatch
      <3>1. conv'.q \in Pending /\ conv.q \notin Pending
        BY <1>1, <2>1, <2>3 DEF Doing
      <3>2. conv.q \in Questions => status[conv.q] = "answered"
        <4>1. conv.q \in Questions => conv # NoConv
          BY NoConversation
        <4> QED
          BY <1>1, <3>1, <4>1, Conversation DEF Pending
      <3>3. Known' = Known \cup {conv'.q} /\ conv'.q \notin Known
        BY <2>1, <3>1, <3>2 DEF Known, Pending
      <3> QED
        BY <1>1, <1>3, <2>3, <3>3, Budget, FS_AddElement
    <2> QED
      BY <2>2, <2>3
  <1>4. CASE Clear
    <2>1. /\ status' = status /\ conv' = NoConv /\ conv # NoConv /\ status[conv.q] = "answered"
      BY <1>1, <1>4 DEF Clear, Doing, grader
    <2>2. Known' = Known
      BY <2>1, NoConversation DEF Known
    <2>3. ~Activate
      BY <1>4 DEF Clear, Activate, BotAt
    <2> QED
      BY <2>2, <2>3
  <1>5. CASE ~Activate /\ ~Clear
    <2>1. conv'.q = conv.q
      <3>1. CASE Pause
        BY <1>1, <3>1, NoConversation DEF Pause, Typed
      <3>2. CASE conv' = conv
        BY <3>2
      <3> QED
        BY <1>5, <3>1, <3>2, Footprint
    <2>2. \A q \in Questions : q # conv.q => (status'[q] = "answered" <=> status[q] = "answered")
      <3>1. CASE Take
        BY <1>2, <3>1 DEF Take, grader
      <3>2. CASE \E q \in Questions : Pose(q)
        BY <1>2, <3>2 DEF Pose
      <3> QED
        BY <3>1, <3>2, Footprint
    <2>3. Known' = Known
      BY <2>1, <2>2 DEF Known
    <2> QED
      BY <1>5, <2>3
  <1> QED
    BY <1>3, <1>4, <1>5

LEMMA NextStarted ==
    ASSUME MentiInv, [MentiNext]_mentiVars
    PROVE  IF Resume THEN Cardinality(Started') = Cardinality(Started) + 1
                     ELSE Started' = Started
  <1>1. Typed /\ Batch /\ Doing
    BY DEF MentiInv
  <1>2. \A u \in processed : updates'[u] = updates[u]
    BY <1>1, Grows DEF Typed
  <1>3. CASE Resume
    <2>1. /\ bot.next \notin processed /\ processed' = processed \cup {bot.next}
          /\ updates' = updates /\ updates[bot.next].kind = "start"
      BY <1>3 DEF Resume, Handled, MarkProcessed, Handling, Current, telegram
    <2>2. Started' = Started \cup {bot.next} /\ bot.next \notin Started
      BY <2>1 DEF Started
    <2> QED
      BY <1>1, <1>3, <2>2, Budget, FS_AddElement
  <1>4. CASE Decline \/ Mark
    <2>1. /\ processed' = processed \cup {bot.next} /\ updates' = updates
      BY <1>4 DEF Decline, Mark, MarkProcessed, telegram
    <2>2. updates[bot.next].kind # "start"
      BY <1>1, <1>4 DEF Decline, Mark, Doing, Current
    <2>3. ~Resume
      BY <1>4, <2>2 DEF Resume, Handling, Current
    <2> QED
      BY <2>1, <2>2, <2>3 DEF Started
  <1>5. CASE ~Resume /\ processed' = processed
    BY <1>2, <1>5 DEF Started
  <1> QED
    BY <1>3, <1>4, <1>5, Footprint

LEMMA NextPaid ==
    ASSUME MentiInv, [MentiNext]_mentiVars
    PROVE  Paid'
  <1> DEFINE B == Cardinality(Known) + Cardinality(Started) + mishaps
             Payable == BotAt("prompt") /\ InBatch
             Owed == BotAt("activate") /\ ~InBatch
  <1>1. Typed /\ Typed' /\ Orderly /\ Truthful /\ Batch /\ Doing /\ Paid
    BY NextTyped DEF MentiInv
  <1>2. \A pc \in {"deliver", "delivered", "sync", "prompt", "activate", "poll", "mark", "clear",
                   "acknowledge"} : pc \in Pcs
    BY DEF Pcs
  <1>3. /\ Len(prompts) \in Nat /\ Cardinality(Known) \in Nat /\ Cardinality(Started) \in Nat
        /\ mishaps \in Nat /\ B \in Nat /\ mishaps' \in Nat /\ Len(prompts') \in Nat
    <2>1. /\ prompts \in Seq(Questions) /\ prompts' \in Seq(Questions)
          /\ mishaps \in Nat /\ mishaps' \in Nat
      BY <1>1 DEF Typed
    <2> QED
      BY <1>1, <2>1, Budget
  <1>4. Len(prompts) + (IF Payable THEN 1 ELSE 0) <= B + (IF Owed THEN 1 ELSE 0)
    BY <1>1 DEF Paid
  <1>5. Paid' <=> Len(prompts') + (IF Payable' THEN 1 ELSE 0) <= B' + (IF Owed' THEN 1 ELSE 0)
    BY DEF Paid
  <1> HIDE DEF B, Payable, Owed
  <1>6. ASSUME BotDies \/ PollFails \/ (DeliverReport /\ Interrupted) \/ (SendPrompt /\ Interrupted)
               \/ (Acknowledge /\ Interrupted)
        PROVE  Paid'
    <2>1. bot' \in {NextCycle, BotDown} /\ mishaps' = mishaps + 1
      BY <1>3, <1>6
      DEF BotDies, PollFails, DeliverReport, SendPrompt, Acknowledge, Interrupted, EndCycle, Mishap
    <2>2. ~Payable' /\ ~Owed'
      <3>1. bot'.pc \in {"report", "down"}
        BY <1>1, <2>1, BotMoves
      <3> QED
        BY <3>1 DEF Payable, Owed, BotAt
    <2>3. ~Resume /\ ~Activate
      BY <1>3, <1>6, <2>1
      DEF BotDies, PollFails, DeliverReport, SendPrompt, Acknowledge, Interrupted, Mishap, Resume,
          Activate
    <2>4. B' = B + 1
      BY <1>3, <2>1, <2>3, NextKnown, NextStarted DEF B
    <2>5. Len(prompts') = Len(prompts) \/ (BotAt("prompt") /\ Len(prompts') = Len(prompts) + 1)
      <3>1. CASE SendPrompt
        <4>1. prompts \in Seq(Questions) /\ Shown \in Questions
          BY <1>1, <3>1, ShownTyped DEF Typed, SendPrompt
        <4> QED
          BY <3>1, <4>1, Appended DEF SendPrompt
      <3> QED
        BY <3>1, Footprint
    <2>6. BotAt("prompt") => ~Owed
      BY DEF BotAt, Owed
    <2> QED
      BY <1>3, <1>4, <1>5, <2>2, <2>4, <2>5, <2>6
  <1>7. CASE SendPrompt /\ ~Interrupted
    <2>1. /\ bot' = [bot EXCEPT !.pc = "activate"] /\ prompts' = Append(prompts, Shown)
          /\ mishaps' = mishaps /\ BotAt("prompt")
      BY <1>7 DEF SendPrompt, BotGoto
    <2>2. prompts \in Seq(Questions) /\ Shown \in Questions
      BY <1>1, <2>1, ShownTyped DEF Typed
    <2>3. Len(prompts') = Len(prompts) + 1
      BY <2>1, <2>2, Appended
    <2>4. bot'.pc = "activate" /\ bot'.next = bot.next
      BY <1>1, <1>2, <2>1, BotMoves
    <2>5. ~Payable' /\ (Owed' <=> ~InBatch) /\ (Payable <=> InBatch) /\ ~Owed
      BY <2>1, <2>4 DEF Payable, Owed, BotAt, InBatch
    <2>6. B' = B
      BY <1>7, <2>1, NextKnown, NextStarted DEF B, SendPrompt, Resume, Activate, Handling, BotAt
    <2> QED
      BY <1>3, <1>4, <1>5, <2>3, <2>5, <2>6
  <1>8. CASE Activate
    <2>1. mishaps' = mishaps /\ prompts' = prompts /\ BotAt("activate") /\ ~Resume
      BY <1>8 DEF Activate, telegram, Resume, Handling, BotAt
    <2>2. bot'.pc \notin {"prompt", "activate"}
      <3>1. CASE bot' = AfterUpdate
        <4>1. bot'.pc \in {"report", "handle"}
          BY <1>1, <3>1, BotMoves
        <4> QED
          BY <4>1
      <3>2. CASE bot' = [bot EXCEPT !.pc = "poll"]
        BY <1>1, <1>2, <3>2, BotMoves
      <3> QED
        BY <1>8, <3>1, <3>2 DEF Activate, BotGoto
    <2>3. ~Payable' /\ ~Owed' /\ ~Payable /\ (Owed <=> ~InBatch)
      BY <2>1, <2>2 DEF Payable, Owed, BotAt
    <2>4. B' = B + (IF InBatch THEN 0 ELSE 1)
      BY <1>3, <1>8, <2>1, NextKnown, NextStarted DEF B
    <2> QED
      BY <1>3, <1>4, <1>5, <2>1, <2>3, <2>4
  <1>9. CASE Resume
    <2>1. mishaps' = mishaps /\ prompts' = prompts /\ BotAt("handle") /\ ~Activate
      BY <1>9 DEF Activate, telegram, Resume, Handling, BotAt
    <2>2. ~Payable /\ ~Owed
      BY <2>1 DEF Payable, Owed, BotAt
    <2>3. ~Owed'
      <3>1. PICK pc \in {"prompt", "acknowledge"} : bot' = [bot EXCEPT !.pc = pc]
        BY <1>9 DEF Resume, BotGoto
      <3>2. bot'.pc = pc
        BY <1>1, <1>2, <3>1, BotMoves
      <3> QED
        BY <3>2 DEF Owed, BotAt
    <2>4. B' = B + 1
      BY <1>3, <1>9, <2>1, NextKnown, NextStarted DEF B
    <2> QED
      BY <1>3, <1>4, <1>5, <2>1, <2>2, <2>3, <2>4
  <1>10. ASSUME UNCHANGED <<prompts, mishaps>>, ~Resume, ~Activate, ~Payable', Owed' \/ ~Owed
         PROVE  Paid'
    <2>1. B' = B
      BY <1>10, NextKnown, NextStarted DEF B
    <2> QED
      BY <1>3, <1>4, <1>5, <1>10, <2>1
  <1>11. CASE BotStarts \/ ClaimReport \/ (DeliverReport /\ ~Interrupted) \/ MarkSent \/ SyncQuestion
              \/ Poll \/ Duplicate \/ Pause \/ Decline \/ Take \/ Mark \/ Clear
              \/ (Acknowledge /\ ~Interrupted)
    <2>1. UNCHANGED <<prompts, mishaps>>
      BY <1>11
      DEF BotStarts, ClaimReport, DeliverReport, MarkSent, SyncQuestion, Poll, Duplicate, Pause,
          Decline, Take, Mark, Clear, Acknowledge, telegram
    <2>2. ~BotAt("activate")
      BY <1>11
      DEF BotStarts, ClaimReport, DeliverReport, MarkSent, SyncQuestion, Poll, Duplicate, Pause,
          Decline, Take, Mark, Clear, Acknowledge, BotAt, Handling
    <2>3. ~Resume
      <3>1. CASE Duplicate \/ Pause \/ Decline \/ Take
        BY <3>1 DEF Duplicate, Pause, Decline, Take, Resume, Handling, Replies
      <3>2. CASE ~BotAt("handle")
        BY <3>2 DEF Resume, Handling
      <3> QED
        BY <1>11, <3>1, <3>2
        DEF BotStarts, ClaimReport, DeliverReport, MarkSent, SyncQuestion, Poll, Mark, Clear,
            Acknowledge, BotAt
    <2>4. ~Payable'
      <3>1. CASE SyncQuestion
        <4>1. ~InBatch
          BY <1>1, <3>1 DEF SyncQuestion, BotAt, Batch
        <4>2. PICK pc \in {"prompt", "poll"} : bot' = [bot EXCEPT !.pc = pc]
          BY <3>1 DEF SyncQuestion, BotGoto
        <4>3. bot'.next = bot.next
          BY <1>1, <1>2, <4>2, BotMoves
        <4> QED
          BY <4>1, <4>3 DEF Payable, InBatch
      <3>2. CASE bot' \in {NextCycle, AfterUpdate}
        <4>1. bot'.pc \in {"report", "handle"}
          BY <1>1, <3>2, BotMoves
        <4> QED
          BY <4>1 DEF Payable, BotAt
      <3>3. CASE \E pc \in {"deliver", "delivered", "sync", "mark", "clear", "acknowledge"} :
                    BotGoto(pc)
        <4>1. bot'.pc # "prompt"
          BY <1>1, <1>2, <3>3, BotMoves DEF BotGoto
        <4> QED
          BY <4>1 DEF Payable, BotAt
      <3>4. CASE bot' = [bot EXCEPT !.pc = "handle", !.next = confirmed' + 1, !.last = Len(updates)]
        <4>1. bot \in BotType
          BY <1>1 DEF Typed, BotType
        <4> QED
          BY <3>4, <4>1 DEF BotType, Payable, BotAt
      <3>5. \/ SyncQuestion
            \/ bot' \in {NextCycle, AfterUpdate}
            \/ \E pc \in {"deliver", "delivered", "sync", "mark", "clear", "acknowledge"} : BotGoto(pc)
            \/ Poll
        <4>1. CASE BotStarts \/ MarkSent \/ Poll \/ Duplicate \/ (Acknowledge /\ ~Interrupted)
          BY <4>1 DEF BotStarts, MarkSent, Duplicate, Acknowledge, EndCycle
        <4>2. CASE ClaimReport \/ (DeliverReport /\ ~Interrupted)
          BY <4>2 DEF ClaimReport, DeliverReport
        <4>3. CASE Pause \/ Decline \/ Take
          BY <4>3 DEF Pause, Decline, Take
        <4>4. CASE Mark \/ Clear
          BY <4>4 DEF Mark, Clear
        <4> QED
          BY <1>11, <4>1, <4>2, <4>3, <4>4
      <3>6. CASE Poll
        <4>1. bot' = NextCycle \/ bot' = [bot EXCEPT !.pc = "handle", !.next = confirmed' + 1,
                                                     !.last = Len(updates)]
          BY <3>6 DEF Poll
        <4> QED
          BY <3>2, <3>4, <4>1
      <3> QED
        BY <3>1, <3>2, <3>3, <3>5, <3>6
    <2> QED
      BY <1>10, <2>1, <2>2, <2>3, <2>4 DEF Activate, Owed
  <1>12. CASE (\E q \in Questions : Pose(q)) \/ Report \/ Expire
              \/ (\E p \in DOMAIN prompts : Reply(p))
              \/ (\E kind \in Commands : Command(kind)) \/ Continue \/ UNCHANGED mentiVars
    <2>1. UNCHANGED <<prompts, processed, conv, bot, mishaps>>
      BY <1>12 DEF Pose, Report, Expire, Reply, Command, Continue, Write, telegram, mentiVars
    <2>2. ~Resume
      BY <1>1, <2>1, InHand DEF Resume, MarkProcessed, Handling, Handled
    <2>3. ~(Activate /\ ~InBatch)
      <3>1. SUFFICES ASSUME Activate, ~InBatch PROVE FALSE
        OBVIOUS
      <3>2. bot'.pc = "poll" /\ bot.pc = "activate"
        <4>1. [bot EXCEPT !.pc = "poll"].pc = "poll"
          BY <1>1, <1>2, BotMoves
        <4>2. bot' = [bot EXCEPT !.pc = "poll"] /\ bot.pc = "activate"
          BY <3>1 DEF Activate, BotGoto, BotAt
        <4> QED
          BY <4>1, <4>2
      <3>3. bot'.pc = bot.pc
        BY <2>1
      <3>4. bot.pc = "poll"
        BY <3>2, <3>3, Zenon
      <3> QED
        BY <3>2, <3>4
    <2>4. B' = B
      BY <2>1, <2>2, <2>3, NextKnown, NextStarted DEF B
    <2>5. (Payable' <=> Payable) /\ (Owed' <=> Owed)
      BY <2>1 DEF Payable, Owed, BotAt, InBatch
    <2> QED
      BY <1>4, <1>5, <2>1, <2>4, <2>5
  <1> QED
    BY <1>6, <1>7, <1>8, <1>9, <1>11, <1>12 DEF MentiNext, Cycle

-----------------------------------------------------------------------------
LEMMA MentiInvNext == MentiInv /\ [MentiNext]_mentiVars => MentiInv'
  <1> SUFFICES ASSUME MentiInv, [MentiNext]_mentiVars PROVE MentiInv'
    OBVIOUS
  <1> QED
    BY NextTyped, NextOrderly, NextTruthful, NextBatch, NextDoing, NextReplyCounts, NextReported,
       NextPaid DEF MentiInv

LEMMA MentiInvariance == MentiSpec => []MentiInv
  BY MentiInvInit, MentiInvNext, PTL DEF MentiSpec

\* The ids stay in their order: of updates, offsets and batches too.
THEOREM MentiTypeCorrect == MentiSpec => []MentiTypeOK
  <1>1. MentiInv => MentiTypeOK
    <2> SUFFICES ASSUME MentiInv PROVE MentiTypeOK
      OBVIOUS
    <2>1. Typed /\ Truthful /\ Batch
      BY DEF MentiInv
    <2>2. /\ updates \in Seq(Update) /\ bot \in BotType /\ confirmed \in Nat
          /\ processed \subseteq DOMAIN updates
      BY <2>1 DEF Typed, BotType
    <2>3. DOMAIN updates = 1 .. Len(updates) /\ Len(updates) \in Nat
      BY <2>2
    <2>4. \A n \in Nat : 1 .. n \subseteq processed => n <= Len(updates)
      <3> TAKE n \in Nat
      <3> HAVE 1 .. n \subseteq processed
      <3>1. n = 0 \/ n \in 1 .. n
        OBVIOUS
      <3> QED
        BY <2>2, <2>3, <3>1
    <2>5. bot.offset <= Len(updates) /\ confirmed <= Len(updates)
      BY <2>1, <2>2, <2>4 DEF Batch, BotType
    <2>6. answer \in [Questions -> {0} \cup DOMAIN updates]
      <3>1. \A q \in Questions : answer[q] \in {0} \cup DOMAIN updates
        BY <2>1 DEF Truthful
      <3> QED
        BY <2>1, <3>1 DEF Typed
    <2> QED
      BY <2>1, <2>5, <2>6 DEF Typed, Batch, MentiTypeOK
  <1> QED
    BY <1>1, MentiInvariance, PTL

\* Whatever prompts are sent again and however late replies come: an answer was given to
\* its question.
THEOREM AnswersTruthful == MentiSpec => []AnswerIsToItsQuestion
  <1>1. MentiInv => AnswerIsToItsQuestion
    BY DEF MentiInv, Truthful, AnswerIsToItsQuestion
  <1> QED
    BY <1>1, MentiInvariance, PTL

\* No reply, no update and no report is lost, to any crash between the two databases and Telegram.
THEOREM NoneLost == MentiSpec => []NothingLost
  <1>1. MentiInv => NothingLost
    BY DEF MentiInv, ReplyCounts, Batch, Reported, NothingLost
  <1> QED
    BY <1>1, MentiInvariance, PTL

\* The mentor is not told more often than faults and /start account for.
THEOREM NoneNeedless == MentiSpec => []NoNeedlessMessage
  <1>1. ASSUME MentiInv
        PROVE  NoNeedlessMessage
    <2> DEFINE A == {q \in Questions : status[q] # "unasked"}
               S == {i \in DOMAIN updates : updates[i].kind \in {"start"}}
    <2>1. Typed /\ Orderly /\ Truthful /\ Doing /\ Reported /\ Paid
      BY <1>1 DEF MentiInv
    <2>2. /\ Cardinality(Known) \in Nat /\ Cardinality(Started) \in Nat
          /\ IsFiniteSet(DOMAIN updates) /\ mishaps \in Nat /\ delivered \in Nat
      BY <2>1, Budget DEF Typed
    <2>3. Known \subseteq A
      <3>1. \A q \in Questions : conv.q = q => status[q] # "unasked"
        <4>1. \A q \in Questions : conv.q = q => conv # NoConv
          BY NoConversation
        <4> QED
          BY <2>1, <4>1, Conversation
      <3> QED
        BY <3>1 DEF Known
    <2>4. Cardinality(A) \in Nat /\ Cardinality(Known) <= Cardinality(A)
      <3>1. IsFiniteSet(A)
        BY MentiAssumption, FS_Subset
      <3> QED
        BY <2>3, <3>1, FS_Subset, FS_CardinalityType
    <2>5. Cardinality(S) \in Nat /\ Cardinality(Started) <= Cardinality(S)
      <3>1. IsFiniteSet(S)
        BY <2>2, FS_Subset
      <3>2. Started \subseteq S
        BY <2>1 DEF Started, Typed
      <3> QED
        BY <3>1, <3>2, FS_Subset, FS_CardinalityType
    <2>6. Len(prompts) \in Nat
      <3>1. prompts \in Seq(Questions)
        BY <2>1 DEF Typed
      <3> QED
        BY <3>1
    <2>7. BotAt("activate") /\ ~InBatch => Cardinality(Known) + 1 <= Cardinality(A)
      <3> HAVE BotAt("activate") /\ ~InBatch
      <3> DEFINE m == prompts[Len(prompts)]
      <3>1. m \in Pending /\ conv.q \notin Pending
        BY <2>1 DEF Doing
      <3>2. m \notin Known /\ m \in A
        BY <3>1 DEF Known, Pending
      <3>3. IsFiniteSet(A)
        BY MentiAssumption, FS_Subset
      <3>4. IsFiniteSet(Known) /\ Cardinality(Known \cup {m}) = Cardinality(Known) + 1
        BY <2>1, <3>2, Budget, FS_AddElement
      <3>5. Known \cup {m} \subseteq A
        BY <2>3, <3>2
      <3> QED
        BY <3>3, <3>4, <3>5, FS_Subset
    <2>8. Len(prompts) <= Cardinality(A) + Cardinality(S) + mishaps
      <3>1. Len(prompts) <= Cardinality(Known) + Cardinality(Started) + mishaps
                            + (IF BotAt("activate") /\ ~InBatch THEN 1 ELSE 0)
        BY <2>1, <2>2, <2>6 DEF Paid
      <3> QED
        BY <2>2, <2>4, <2>5, <2>6, <2>7, <3>1
    <2>9. delivered <= 1 + mishaps
      BY <2>1, <2>2 DEF Reported
    <2> QED
      BY <2>8, <2>9 DEF NoNeedlessMessage, Count
  <1> QED
    BY <1>1, MentiInvariance, PTL
=============================================================================
