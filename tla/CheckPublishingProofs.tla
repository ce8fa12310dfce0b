------------------------ MODULE CheckPublishingProofs ------------------------
(***************************************************************************)
(* Proofs about module CheckPublishing, for any number of attempts,        *)
(* publishers, tokens and belated requests, and for either publisher.      *)
(***************************************************************************)
EXTENDS CheckPublishing, TLAPS

\* A status shows the grade of a commit, and so of one attempt only if no two share it.
OneCommitEach == \A a, b \in Attempts : CommitOf[a] = CommitOf[b] => a = b

-----------------------------------------------------------------------------
(* The inductive invariant.                                                *)

\* Only a queued row waits for its delay, and only a claimed one has a lease.
RowShape ==
    \A a \in Attempts :
        /\ publications[a].state \in {"publishing", "published"} => publications[a].delay = 0
        /\ publications[a].state = "published" => publications[a].lease = 0

Busy(p) == publisher[p].pc \notin {"down", "idle"}

\* A busy publisher has an attempt whose row, and so whose grade, is there.
PublisherShape ==
    \A p \in Publishers :
        Busy(p) => /\ publisher[p].attempt \in Attempts
                   /\ publications[publisher[p].attempt].state # "absent"

\* A publisher that has an answer, or has found the run, knows that the grade is shown.
AnswerIsShown ==
    \A p \in Publishers :
        publisher[p].pc \in {"patching", "answered"} => Shown(publisher[p].attempt)

IInv ==
    /\ TypeOK
    /\ RowShape
    /\ PublisherShape
    /\ OneCommitEach => AnswerIsShown /\ PublishedIsShown

LEMMA InitInv == Init => IInv
  <1> SUFFICES ASSUME Init PROVE IInv
    OBVIOUS
  <1> USE LeasesAssumption, PublishingAssumption DEF Init
  <1>1. TypeOK
    BY DEF TypeOK, Row, Publisher, At, MaybeToken, MaybeVerdict, NoVerdict
  <1>2. RowShape /\ PublisherShape /\ AnswerIsShown /\ PublishedIsShown
    BY DEF RowShape, PublisherShape, Busy, AnswerIsShown, PublishedIsShown, At
  <1> QED
    BY <1>1, <1>2 DEF IInv

-----------------------------------------------------------------------------
(* What GitHub shows.                                                      *)

\* All that a step can change of what GitHub shows.
Requested == UNCHANGED <<checkRuns, statuses>> \/ \E b \in Attempts : CarriedOut(b)

LEMMA UnansweredType ==
    ASSUME IInv, NEW b \in Attempts, Unanswered(b) \/ UNCHANGED github, UNCHANGED checks
    PROVE  Requested /\ late' \in [Attempts -> 0..MaxLate]
  <1>1. late' \in [Attempts -> 0..MaxLate]
    BY PublishingAssumption DEF IInv, TypeOK, Unanswered, github
  <1>2. Requested
    BY DEF Requested, Unanswered, github
  <1> QED
    BY <1>1, <1>2

LEMMA RequestedType ==
    ASSUME IInv, Requested
    PROVE  checkRuns' \in [Attempts -> Nat] /\ statuses' \in [Commits -> MaybeVerdict]
  <1> USE DEF IInv, TypeOK
  <1>1. CASE UNCHANGED <<checkRuns, statuses>>
    BY <1>1
  <1>2. ASSUME NEW b \in Attempts, CarriedOut(b)
        PROVE  checkRuns' \in [Attempts -> Nat] /\ statuses' \in [Commits -> MaybeVerdict]
    <2>1. publications[b].passed \in MaybeVerdict
      BY DEF Row
    <2>2. CASE checks
      <3>1. checkRuns[b] + 1 \in Nat
        OBVIOUS
      <3> QED
        BY <1>2, <2>2, <3>1 DEF CarriedOut
    <2>3. CASE ~checks
      BY <1>2, <2>1, <2>3 DEF CarriedOut
    <2> QED
      BY <2>2, <2>3
  <1> QED
    BY <1>1, <1>2 DEF Requested

\* What is shown stays shown, as long as the grade in the database is the same.
LEMMA ShownKept ==
    ASSUME IInv, OneCommitEach, Requested, UNCHANGED checks,
           NEW a \in Attempts, Shown(a), publications'[a].passed = publications[a].passed
    PROVE  Shown(a)'
  <1> USE PublishingAssumption DEF IInv, TypeOK
  <1>1. CASE UNCHANGED <<checkRuns, statuses>>
    BY <1>1 DEF Shown
  <1>2. ASSUME NEW b \in Attempts, CarriedOut(b) PROVE Shown(a)'
    <2>1. CASE checks
      <3>1. checkRuns[a] \in Nat /\ checkRuns[a] > 0 /\ checkRuns'[a] \in {checkRuns[a], checkRuns[a] + 1}
        BY <1>2, <2>1 DEF CarriedOut, Shown
      <3> QED
        BY <2>1, <3>1 DEF Shown
    <2>2. CASE ~checks
      <3>1. CommitOf[a] \in Commits /\ CommitOf[b] \in Commits
        BY PublishingAssumption
      <3>2. statuses'[CommitOf[a]] = IF a = b THEN publications[a].passed ELSE statuses[CommitOf[a]]
        BY <1>2, <2>2, <3>1 DEF CarriedOut, OneCommitEach
      <3> QED
        BY <2>2, <3>2 DEF Shown
    <2> QED
      BY <2>1, <2>2
  <1> QED
    BY <1>1, <1>2 DEF Requested

\* A request that is carried out shows the grade.
LEMMA CarriedOutShows ==
    ASSUME IInv, NEW a \in Attempts, CarriedOut(a), UNCHANGED <<store, checks>>
    PROVE  Shown(a)'
  <1> USE PublishingAssumption DEF IInv, TypeOK, store
  <1>1. CASE checks
    <2>1. checkRuns[a] \in Nat /\ checkRuns'[a] = checkRuns[a] + 1
      BY <1>1 DEF CarriedOut
    <2> QED
      BY <1>1, <2>1 DEF Shown
  <1>2. CASE ~checks
    <2>1. CommitOf[a] \in Commits
      BY PublishingAssumption
    <2> QED
      BY <1>2, <2>1 DEF CarriedOut, Shown
  <1> QED
    BY <1>1, <1>2

-----------------------------------------------------------------------------
(* Steps.                                                                  *)

\* A publisher moves, and leaves the database alone.
LEMMA MoveInv ==
    ASSUME IInv, NEW p \in Publishers, NEW r \in Publisher,
           publisher' = [publisher EXCEPT ![p] = r], UNCHANGED <<store, checks>>,
           Requested, late' \in [Attempts -> 0..MaxLate],
           r.pc \notin {"down", "idle"} => Busy(p) /\ r.attempt = publisher[p].attempt,
           OneCommitEach /\ r.pc \in {"patching", "answered"} => Shown(r.attempt)'
    PROVE  IInv'
  <1> USE DEF store
  <1>1. /\ publisher \in [Publishers -> Publisher] /\ publisher' \in [Publishers -> Publisher]
        /\ publisher'[p] = r /\ \A q \in Publishers \ {p} : publisher'[q] = publisher[q]
    BY DEF IInv, TypeOK
  <1>2. TypeOK'
    BY <1>1, RequestedType DEF IInv, TypeOK
  <1>3. RowShape'
    BY DEF IInv, RowShape
  <1>4. PublisherShape'
    BY <1>1 DEF IInv, PublisherShape, Busy
  <1>5. OneCommitEach => AnswerIsShown'
    <2> SUFFICES ASSUME OneCommitEach, NEW q \in Publishers \ {p},
                        publisher[q].pc \in {"patching", "answered"}
                 PROVE  Shown(publisher[q].attempt)'
      BY <1>1 DEF AnswerIsShown
    <2>1. publisher[q].attempt \in Attempts /\ Shown(publisher[q].attempt)
      BY DEF IInv, PublisherShape, Busy, AnswerIsShown
    <2> QED
      BY <2>1, ShownKept
  <1>6. OneCommitEach => PublishedIsShown'
    BY ShownKept DEF IInv, PublishedIsShown
  <1> QED
    BY <1>2, <1>3, <1>4, <1>5, <1>6 DEF IInv

\* Goto, as such a move.
LEMMA GotoInv ==
    ASSUME IInv, NEW p \in Publishers, Busy(p), UNCHANGED <<store, checks>>,
           NEW pc \in {"posting", "patching", "answered", "failing"}, Goto(p, pc),
           Requested, late' \in [Attempts -> 0..MaxLate],
           \A a \in Attempts :
                OneCommitEach /\ a = publisher[p].attempt /\ pc \in {"patching", "answered"}
                    => Shown(a)'
    PROVE  IInv'
  <1>1. PICK r \in Publisher : r = [publisher[p] EXCEPT !.pc = pc]
    BY DEF IInv, TypeOK, Publisher
  <1>2. PICK a \in Attempts : a = publisher[p].attempt
    BY DEF IInv, PublisherShape
  <1>3. r.pc = pc /\ r.attempt = a
    BY <1>1, <1>2 DEF IInv, TypeOK, Publisher
  <1>4. publisher' = [publisher EXCEPT ![p] = r]
    BY <1>1 DEF Goto
  <1>5. OneCommitEach /\ pc \in {"patching", "answered"} => Shown(a)'
    BY <1>2
  <1> QED
    BY <1>2, <1>3, <1>4, <1>5, MoveInv

\* The row of an attempt changes, but not its grade; it may be published if that is shown.
LEMMA RowInv ==
    ASSUME IInv, NEW a \in Attempts, NEW row \in Row, NEW p \in Publishers, NEW r \in Publisher,
           publications' = [publications EXCEPT ![a] = row],
           publisher' = [publisher EXCEPT ![p] = r],
           UNCHANGED <<arrivals, checks, github>>,
           row.state # "absent", row.passed = publications[a].passed,
           row.state \in {"publishing", "published"} => row.delay = 0,
           row.state = "published" => row.lease = 0 /\ (OneCommitEach => Shown(a)),
           r.pc \in {"idle", "claimed"}, r.pc = "claimed" => r.attempt = a
    PROVE  IInv'
  <1> USE DEF github
  <1>1. /\ publisher \in [Publishers -> Publisher] /\ publisher' \in [Publishers -> Publisher]
        /\ publisher'[p] = r /\ \A q \in Publishers \ {p} : publisher'[q] = publisher[q]
    BY DEF IInv, TypeOK
  <1>2. /\ publications \in [Attempts -> Row] /\ publications' \in [Attempts -> Row]
        /\ publications'[a] = row /\ \A b \in Attempts \ {a} : publications'[b] = publications[b]
    BY DEF IInv, TypeOK
  <1>3. \A b \in Attempts : Shown(b) => Shown(b)'
    BY <1>2 DEF Shown
  <1>4. TypeOK'
    BY <1>1, <1>2 DEF IInv, TypeOK
  <1>5. RowShape'
    BY <1>2 DEF IInv, RowShape
  <1>6. PublisherShape'
    BY <1>1, <1>2 DEF IInv, PublisherShape, Busy
  <1>7. OneCommitEach => AnswerIsShown'
    BY <1>1, <1>3 DEF IInv, AnswerIsShown, PublisherShape, Busy
  <1>8. OneCommitEach => PublishedIsShown'
    BY <1>2, <1>3 DEF IInv, PublishedIsShown
  <1> QED
    BY <1>4, <1>5, <1>6, <1>7, <1>8 DEF IInv

LEMMA IdleType == At("idle") \in Publisher /\ At("idle").pc = "idle"
                  /\ At("down") \in Publisher /\ At("down").pc = "down"
  BY DEF At, Publisher, MaybeToken

LEMMA InsertInv ==
    ASSUME IInv, NEW a \in Attempts, NEW v \in Verdicts, Insert(a, v)
    PROVE  IInv'
  <1>1. /\ publications' \in [Attempts -> Row] /\ publications[a].state = "absent"
        /\ publications'[a].state = "queued"
        /\ \A b \in Attempts \ {a} : publications'[b] = publications[b]
        /\ UNCHANGED <<publisher, checks, checkRuns, statuses, late>>
    BY DEF Insert, IInv, TypeOK, Row, MaybeVerdict, github
  <1>2. TypeOK'
    BY <1>1 DEF IInv, TypeOK, Insert
  <1>3. RowShape'
    BY <1>1 DEF IInv, RowShape
  <1>4. PublisherShape'
    BY <1>1 DEF IInv, PublisherShape, Busy
  <1>5. \A b \in Attempts \ {a} : Shown(b) => Shown(b)'
    BY <1>1 DEF Shown
  <1>6. OneCommitEach => AnswerIsShown'
    BY <1>1, <1>5 DEF IInv, AnswerIsShown, PublisherShape, Busy
  <1>7. OneCommitEach => PublishedIsShown'
    BY <1>1, <1>5 DEF IInv, PublishedIsShown
  <1> QED
    BY <1>2, <1>3, <1>4, <1>6, <1>7 DEF IInv
\* A row that changes hands.
Changed(row, state, token, lease, delay) ==
    [row EXCEPT !.state = state, !.token = token, !.lease = lease, !.delay = delay]

LEMMA ChangedType ==
    ASSUME NEW row \in Row, NEW s \in {"queued", "publishing", "published"},
           NEW k \in MaybeToken, NEW l \in 0..LeaseTicks, NEW d \in 0..RetryTicks
    PROVE  /\ Changed(row, s, k, l, d) \in Row
           /\ Changed(row, s, k, l, d).state = s
           /\ Changed(row, s, k, l, d).lease = l
           /\ Changed(row, s, k, l, d).delay = d
           /\ Changed(row, s, k, l, d).passed = row.passed
  BY DEF Changed, Row

LEMMA ClaimInv ==
    ASSUME IInv, NEW p \in Publishers, NEW a \in Attempts, NEW t \in Tokens, Claim(p, a, t)
    PROVE  IInv'
  <1>0. /\ publications[a] \in Row /\ t \in MaybeToken
        /\ LeaseTicks \in 0..LeaseTicks /\ 0 \in 0..RetryTicks
    BY LeasesAssumption, PublishingAssumption DEF IInv, TypeOK, MaybeToken
  <1>1. PICK row \in Row : row = Changed(publications[a], "publishing", t, LeaseTicks, 0)
    BY ONLY <1>0, ChangedType
  <1>2. PICK r \in Publisher : r = [pc |-> "claimed", attempt |-> a, token |-> t]
    BY DEF Publisher, MaybeToken
  <1>3. row.state = "publishing" /\ row.delay = 0 /\ row.passed = publications[a].passed
    BY ONLY <1>0, <1>1, ChangedType
  <1>4. r.pc = "claimed" /\ r.attempt = a
    BY <1>2
  <1>5. /\ publications' = [publications EXCEPT ![a] = row]
        /\ publisher' = [publisher EXCEPT ![p] = r]
        /\ UNCHANGED <<arrivals, checks, github>>
    BY <1>1, <1>2 DEF Claim, Changed
  <1> QED
    BY <1>3, <1>4, <1>5, RowInv

\* What a try leaves behind in its row.
LEMMA EndInv ==
    ASSUME IInv, NEW p \in Publishers, NEW s \in {"queued", "published"}, NEW d \in 0..RetryTicks,
           Busy(p), s = "published" => publisher[p].pc = "answered" /\ d = 0,
           publications' = IF Mine(p)
                           THEN [publications EXCEPT ![publisher[p].attempt] =
                                    [@ EXCEPT !.state = s, !.token = NoToken, !.lease = 0,
                                              !.delay = d]]
                           ELSE publications,
           publisher' = [publisher EXCEPT ![p] = At("idle")],
           UNCHANGED <<arrivals, checks, github>>
    PROVE  IInv'
  <1>1. PICK r \in Publisher : r = At("idle") /\ r.pc = "idle"
    BY IdleType
  <1>2. CASE Mine(p)
    <2>1. PICK a \in Attempts : a = publisher[p].attempt
      BY DEF IInv, PublisherShape
    <2>0. publications[a] \in Row /\ NoToken \in MaybeToken /\ 0 \in 0..LeaseTicks
      BY LeasesAssumption DEF IInv, TypeOK, MaybeToken
    <2>2. PICK row \in Row : row = Changed(publications[a], s, NoToken, 0, d)
      BY ONLY <2>0, s \in {"queued", "published"}, d \in 0..RetryTicks, ChangedType
    <2>3. row.state = s /\ row.lease = 0 /\ row.delay = d /\ row.passed = publications[a].passed
      BY ONLY <2>0, <2>2, s \in {"queued", "published"}, d \in 0..RetryTicks, ChangedType
    <2>4. publications' = [publications EXCEPT ![a] = row]
      BY <1>2, <2>1, <2>2 DEF Changed
    <2>5. s = "published" /\ OneCommitEach => Shown(a)
      BY <2>1 DEF IInv, AnswerIsShown
    <2> QED
      BY <1>1, <2>3, <2>4, <2>5, RowInv
  <1>3. CASE ~Mine(p)
    <2>1. UNCHANGED <<store, checks, checkRuns, statuses, late>>
      BY <1>3 DEF store, github
    <2>2. Requested /\ late' \in [Attempts -> 0..MaxLate]
      BY <2>1 DEF Requested, IInv, TypeOK
    <2> QED
      BY <1>1, <2>1, <2>2, MoveInv
  <1> QED
    BY <1>2, <1>3

LEMMA CompleteInv ==
    ASSUME IInv, NEW p \in Publishers, Complete(p)
    PROVE  IInv'
  <1>1. Busy(p) /\ publisher[p].pc = "answered"
    BY DEF Complete, Busy
  <1>2. PICK a \in Attempts : a = publisher[p].attempt
    BY <1>1 DEF IInv, PublisherShape
  <1>3. Mine(p) => publications[a].delay = 0 /\ publications[a] \in Row
    BY <1>2 DEF Mine, Owned, IInv, RowShape, TypeOK
  <1>4. Mine(p) => [publications[a] EXCEPT !.state = "published", !.token = NoToken, !.lease = 0]
                 = [publications[a] EXCEPT !.state = "published", !.token = NoToken, !.lease = 0,
                                           !.delay = 0]
    BY <1>3 DEF Row
  <1>5. publications' = IF Mine(p)
                        THEN [publications EXCEPT ![publisher[p].attempt] =
                                 [@ EXCEPT !.state = "published", !.token = NoToken, !.lease = 0,
                                           !.delay = 0]]
                        ELSE publications
    BY <1>2, <1>4 DEF Complete
  <1>6. 0 \in 0..RetryTicks
    BY PublishingAssumption
  <1>7. publisher' = [publisher EXCEPT ![p] = At("idle")] /\ UNCHANGED <<arrivals, checks, github>>
    BY DEF Complete
  <1> QED
    BY <1>1, <1>5, <1>6, <1>7, EndInv

LEMMA ReleaseInv ==
    ASSUME IInv, NEW p \in Publishers, Release(p)
    PROVE  IInv'
  <1>1. Busy(p) /\ RetryTicks \in 0..RetryTicks
    BY PublishingAssumption DEF Release, Busy
  <1>2. /\ publications' = IF Mine(p)
                           THEN [publications EXCEPT ![publisher[p].attempt] =
                                    [@ EXCEPT !.state = "queued", !.token = NoToken, !.lease = 0,
                                              !.delay = RetryTicks]]
                           ELSE publications
        /\ publisher' = [publisher EXCEPT ![p] = At("idle")]
        /\ UNCHANGED <<arrivals, checks, github>>
    BY DEF Release
  <1> QED
    BY <1>1, <1>2, EndInv

\* Requests, and what their senders hear of them.
LEMMA RequestInv ==
    ASSUME IInv, NEW p \in Publishers,
           Find(p) \/ Post(p) \/ PostFails(p) \/ Patch(p) \/ RequestFails(p)
    PROVE  IInv'
  <1>1. Busy(p) /\ UNCHANGED <<store, checks>>
    BY DEF Find, Post, PostFails, Patch, RequestFails, Busy
  <1>2. PICK a \in Attempts : a = publisher[p].attempt
    BY <1>1 DEF IInv, PublisherShape
  <1>3. UNCHANGED github => Requested /\ late' \in [Attempts -> 0..MaxLate]
    BY DEF github, Requested, IInv, TypeOK
  <1>4. CASE Find(p)
    <2>1. PICK pc \in {"posting", "patching", "failing"} :
             Goto(p, pc) /\ (pc = "patching" => checks /\ checkRuns[a] = 1)
      BY <1>2, <1>4 DEF Find
    <2>2. pc = "patching" => Shown(a)'
      BY <1>4, <2>1 DEF Find, github, Shown
    <2> QED
      BY <1>1, <1>2, <1>3, <1>4, <2>1, <2>2, GotoInv DEF Find
  <1>5. CASE Post(p)
    <2>1. CarriedOut(a) /\ Goto(p, "answered") /\ UNCHANGED late
      BY <1>2, <1>5 DEF Post
    <2>2. Shown(a)'
      BY <1>1, <2>1, CarriedOutShows
    <2>3. Requested /\ late' \in [Attempts -> 0..MaxLate]
      BY <2>1 DEF Requested, IInv, TypeOK
    <2> QED
      BY <1>1, <1>2, <2>1, <2>2, <2>3, GotoInv
  <1>6. CASE PostFails(p)
    <2>1. Unanswered(a) /\ Goto(p, "failing")
      BY <1>2, <1>6 DEF PostFails
    <2> QED
      BY <1>1, <2>1, UnansweredType, GotoInv
  <1>7. CASE Patch(p)
    <2>1. Goto(p, "answered") /\ UNCHANGED github
      BY <1>7 DEF Patch
    <2>2. OneCommitEach => Shown(a)'
      BY <1>1, <1>2, <1>7, <2>1 DEF Patch, IInv, AnswerIsShown, Shown, store, github
    <2> QED
      BY <1>1, <1>2, <1>3, <2>1, <2>2, GotoInv
  <1>8. CASE RequestFails(p)
    BY <1>1, <1>3, <1>8, GotoInv DEF RequestFails
  <1> QED
    BY <1>4, <1>5, <1>6, <1>7, <1>8

LEMMA ProcessInv ==
    ASSUME IInv, NEW p \in Publishers, Start(p) \/ Crash(p)
    PROVE  IInv'
  <1>1. PICK r \in Publisher :
            publisher' = [publisher EXCEPT ![p] = r] /\ r.pc \in {"idle", "down"}
    BY IdleType DEF Start, Crash
  <1>2. UNCHANGED <<store, checks>>
    BY DEF Start, Crash
  <1>3. CASE UNCHANGED github
    <2>1. Requested /\ late' \in [Attempts -> 0..MaxLate]
      BY <1>3 DEF github, Requested, IInv, TypeOK
    <2> QED
      BY <1>1, <1>2, <2>1, MoveInv
  <1>4. CASE publisher[p].pc = "posting" /\ Unanswered(publisher[p].attempt)
    <2>1. PICK a \in Attempts : a = publisher[p].attempt
      BY <1>4 DEF IInv, PublisherShape, Busy
    <2>2. Requested /\ late' \in [Attempts -> 0..MaxLate]
      BY <1>2, <1>4, <2>1, UnansweredType
    <2> QED
      BY <1>1, <1>2, <2>2, MoveInv
  <1> QED
    BY <1>3, <1>4 DEF Start, Crash

LEMMA CarryOutLateInv ==
    ASSUME IInv, NEW a \in Attempts, CarryOutLate(a)
    PROVE  IInv'
  <1>1. CarriedOut(a) /\ UNCHANGED <<store, publisher, checks>>
    BY DEF CarryOutLate
  <1>2. Requested
    BY <1>1 DEF Requested
  <1>3. late' \in [Attempts -> 0..MaxLate]
    <2>1. late[a] \in 0..MaxLate /\ late[a] > 0 /\ MaxLate \in Nat
      BY PublishingAssumption DEF CarryOutLate, IInv, TypeOK
    <2>2. late[a] - 1 \in 0..MaxLate
      BY ONLY <2>1
    <2> QED
      BY <2>2 DEF CarryOutLate, IInv, TypeOK
  <1>4. TypeOK'
    BY <1>1, <1>2, <1>3, RequestedType DEF IInv, TypeOK, store
  <1>5. RowShape' /\ PublisherShape'
    BY <1>1 DEF IInv, RowShape, PublisherShape, Busy, store
  <1>6. ASSUME OneCommitEach PROVE AnswerIsShown' /\ PublishedIsShown'
    <2>1. \A b \in Attempts : Shown(b) => Shown(b)'
      BY <1>1, <1>2, <1>6, ShownKept DEF store
    <2> QED
      BY <1>1, <1>6, <2>1
      DEF IInv, AnswerIsShown, PublishedIsShown, PublisherShape, Busy, store
  <1> QED
    BY <1>4, <1>5, <1>6 DEF IInv

LEMMA TickInv == ASSUME IInv, Tick PROVE IInv'
  <1>1. ASSUME NEW a \in Attempts
        PROVE  /\ publications'[a] \in Row
               /\ publications'[a].state = publications[a].state
               /\ publications'[a].passed = publications[a].passed
               /\ publications[a].lease = 0 => publications'[a].lease = 0
               /\ publications[a].delay = 0 => publications'[a].delay = 0
    <2>1. publications[a] \in Row /\ publications'[a] = Aged(publications[a])
      BY DEF Tick, IInv, TypeOK
    <2>2. \A n \in Nat : \A k \in 0..n : Down(k) \in 0..n /\ (k = 0 => Down(k) = 0)
      BY DEF Down
    <2>3. /\ Down(publications[a].lease) \in 0..LeaseTicks
          /\ Down(publications[a].delay) \in 0..RetryTicks
          /\ publications[a].lease = 0 => Down(publications[a].lease) = 0
          /\ publications[a].delay = 0 => Down(publications[a].delay) = 0
      BY <2>1, <2>2, LeasesAssumption, PublishingAssumption DEF Row
    <2> QED
      BY <2>1, <2>3 DEF Aged, Row
  <1>2. /\ UNCHANGED <<arrivals, publisher, checks, checkRuns, statuses, late>>
        /\ publications' = [a \in Attempts |-> publications'[a]]
    BY DEF Tick, github
  <1>3. TypeOK'
    BY <1>1, <1>2 DEF IInv, TypeOK
  <1>4. RowShape' /\ PublisherShape'
    BY <1>1, <1>2 DEF IInv, RowShape, PublisherShape, Busy
  <1>5. \A a \in Attempts : Shown(a) => Shown(a)'
    BY <1>1, <1>2 DEF Shown
  <1>6. OneCommitEach => AnswerIsShown' /\ PublishedIsShown'
    BY <1>1, <1>2, <1>5 DEF IInv, AnswerIsShown, PublishedIsShown, PublisherShape, Busy
  <1> QED
    BY <1>3, <1>4, <1>6 DEF IInv

LEMMA NextInv == ASSUME IInv, [Next]_vars PROVE IInv'
  <1>1. ASSUME NEW p \in Publishers, PublisherStep(p) \/ Crash(p) PROVE IInv'
    BY <1>1, ClaimInv, CompleteInv, ReleaseInv, RequestInv, ProcessInv DEF PublisherStep
  <1>2. CASE UNCHANGED vars
    BY <1>2 DEF vars, store, github, IInv, TypeOK, RowShape, PublisherShape, Busy, AnswerIsShown,
                PublishedIsShown, Shown
  <1> QED
    BY <1>1, <1>2, InsertInv, CarryOutLateInv, TickInv DEF Next, Work

LEMMA Invariance == Spec => []IInv
  BY InitInv, NextInv, PTL DEF Spec

-----------------------------------------------------------------------------
(* What follows.                                                           *)

\* Rows, publishers and timers stay within their kinds, and no more requests are belated than
\* the bound allows.
THEOREM TypeCorrect == Spec => []TypeOK
  BY Invariance, PTL DEF IInv

\* A publication is closed only when its grade is to be seen on GitHub, if each attempt
\* graded a commit of its own.
THEOREM PublishedShown == OneCommitEach => (Spec => []PublishedIsShown)
  <1> SUFFICES ASSUME OneCommitEach PROVE Spec => []PublishedIsShown
    OBVIOUS
  <1>1. IInv => PublishedIsShown
    BY DEF IInv
  <1> QED
    BY <1>1, Invariance, PTL

\* No late publisher reopens a publication.
THEOREM PublishedFinal == Spec => PublishedIsFinal
  <1>1. IInv /\ [Next]_vars => PublishedKept
    <2> SUFFICES ASSUME IInv, [Next]_vars, NEW a \in Attempts, publications[a].state = "published"
                 PROVE  publications'[a] = publications[a]
      BY DEF PublishedKept
    <2>0. /\ publications \in [Attempts -> Row] /\ publications[a] \in Row
          /\ publications[a].lease = 0 /\ publications[a].delay = 0
      BY DEF IInv, TypeOK, RowShape
    <2>1. ASSUME NEW b \in Attempts, NEW v \in Verdicts, Insert(b, v)
          PROVE  publications'[a] = publications[a]
      BY <2>0, <2>1 DEF Insert
    <2>2. ASSUME NEW p \in Publishers, NEW b \in Attempts, NEW t \in Tokens, Claim(p, b, t)
          PROVE  publications'[a] = publications[a]
      <3>1. publications[b].state # "published"
        BY <2>2 DEF Claim, Oldest, Claimable, Due, Expired
      <3> QED
        BY <2>0, <2>2, <3>1 DEF Claim
    <2>3. ASSUME NEW p \in Publishers, Complete(p) \/ Release(p)
          PROVE  publications'[a] = publications[a]
      BY <2>0, <2>3 DEF Complete, Release, Mine, Owned
    <2>4. CASE Tick
      <3>1. publications'[a] = [publications[a] EXCEPT !.lease = 0, !.delay = 0]
        BY <2>0, <2>4 DEF Tick, Aged, Down
      <3> QED
        BY <2>0, <3>1 DEF Row
    <2>5. CASE UNCHANGED publications
      BY <2>5
    <2> QED
      BY <2>1, <2>2, <2>3, <2>4, <2>5
      DEF Next, Work, PublisherStep, Start, Crash, Find, Post, PostFails, Patch, RequestFails,
          CarryOutLate, vars, store
  <1> QED
    BY <1>1, Invariance, PTL DEF Spec, PublishedIsFinal

-----------------------------------------------------------------------------
(* What reaches GitHub.                                                    *)

\* Every request is for a row that is there, and every status tells what a row tells.
Asked ==
    /\ \A a \in Attempts : publications[a].state = "absent" <=> publications[a].passed = NoVerdict
    /\ \A a \in Attempts : late[a] > 0 \/ checkRuns[a] > 0 => publications[a].state # "absent"
    /\ \A c \in Commits : statuses[c] # NoVerdict =>
           \E a \in Attempts : CommitOf[a] = c /\ statuses[c] = publications[a].passed

\* A row is inserted, or all rows keep their verdicts.
Inserts == \E a \in Attempts, v \in Verdicts : Insert(a, v)
VerdictsKept ==
    \A a \in Attempts :
        /\ publications'[a].passed = publications[a].passed
        /\ publications'[a].state = "absent" <=> publications[a].state = "absent"

\* GitHub is asked for nothing, or for what a row says.
Delivers ==
    \/ UNCHANGED <<checkRuns, statuses>>
    \/ \E a \in Attempts : publications[a].state # "absent" /\ CarriedOut(a)
Belated == \A a \in Attempts : late'[a] > late[a] => publications[a].state # "absent"

LEMMA UnansweredDelivers ==
    ASSUME IInv, NEW a \in Attempts, publications[a].state # "absent",
           Unanswered(a) \/ UNCHANGED github
    PROVE  Delivers /\ Belated
  <1>1. CASE UNCHANGED github
    BY <1>1 DEF github, Delivers, Belated, IInv, TypeOK
  <1>2. CASE CarriedOut(a) /\ UNCHANGED late
    BY <1>2 DEF Delivers, Belated, IInv, TypeOK
  <1>3. CASE late' = [late EXCEPT ![a] = late[a] + 1] /\ UNCHANGED <<checkRuns, statuses>>
    BY <1>3 DEF Delivers, Belated, IInv, TypeOK
  <1> QED
    BY <1>1, <1>2, <1>3 DEF Unanswered

\* The whole of what a step does to verdicts and to GitHub.
LEMMA StepDelivers ==
    ASSUME IInv, Asked, [Next]_vars
    PROVE  /\ UNCHANGED checks
           /\ (Inserts /\ UNCHANGED github) \/ (VerdictsKept /\ Delivers /\ Belated)
  <1> USE DEF IInv, TypeOK
  <1>0. UNCHANGED github => Delivers /\ Belated
    BY DEF github, Delivers, Belated
  <1>1. UNCHANGED publications => VerdictsKept
    BY DEF VerdictsKept
  <1>2. ASSUME NEW p \in Publishers, Busy(p)
        PROVE  publisher[p].attempt \in Attempts
               /\ publications[publisher[p].attempt].state # "absent"
    BY <1>2 DEF PublisherShape
  <1>3. ASSUME NEW a \in Attempts, NEW v \in Verdicts, Insert(a, v)
        PROVE  UNCHANGED checks /\ Inserts /\ UNCHANGED github
    BY <1>3 DEF Insert, Inserts
  <1>4. ASSUME NEW p \in Publishers, NEW a \in Attempts, NEW t \in Tokens, Claim(p, a, t)
        PROVE  UNCHANGED <<checks, github>> /\ VerdictsKept
    BY <1>4 DEF Claim, Oldest, Claimable, Due, Expired, VerdictsKept, Row
  <1>5. ASSUME NEW p \in Publishers, Complete(p) \/ Release(p)
        PROVE  UNCHANGED <<checks, github>> /\ VerdictsKept
    <2>1. publisher[p].attempt \in Attempts /\ Busy(p)
      BY <1>2, <1>5 DEF Complete, Release, Busy
    <2>2. publications[publisher[p].attempt] \in Row
      BY <2>1
    <2>3. PICK a \in Attempts, row \in Row :
              /\ row = publications[a] /\ row.state # "absent"
              /\ publications' = [publications EXCEPT ![a] = publications'[a]]
              /\ publications'[a].passed = row.passed /\ publications'[a].state # "absent"
      <3>1. PICK a \in Attempts, row \in Row : a = publisher[p].attempt /\ row = publications[a]
        BY <2>1, <2>2
      <3>2. row.state # "absent"
        BY <1>2, <2>1, <3>1
      <3>3. CASE Mine(p) /\ Complete(p)
        <4>1. publications' = [publications EXCEPT ![a] =
                  [row EXCEPT !.state = "published", !.token = NoToken, !.lease = 0]]
          BY <3>1, <3>3 DEF Complete
        <4> QED
          BY <3>1, <3>2, <4>1 DEF Row
      <3>4. CASE Mine(p) /\ Release(p)
        <4>1. publications' = [publications EXCEPT ![a] =
                  [row EXCEPT !.state = "queued", !.token = NoToken, !.lease = 0,
                              !.delay = RetryTicks]]
          BY <3>1, <3>4 DEF Release
        <4> QED
          BY <3>1, <3>2, <4>1 DEF Row
      <3>5. CASE ~Mine(p)
        BY <1>5, <3>1, <3>2, <3>5 DEF Complete, Release
      <3> QED
        BY <1>5, <3>3, <3>4, <3>5
    <2> QED
      BY <1>5, <2>3 DEF Complete, Release, VerdictsKept
  <1>6. ASSUME NEW p \in Publishers,
               Find(p) \/ Patch(p) \/ RequestFails(p) \/ Start(p)
        PROVE  UNCHANGED <<checks, github>> /\ UNCHANGED publications
    BY <1>6 DEF Find, Patch, RequestFails, Start, store
  <1>7. ASSUME NEW p \in Publishers, Post(p) \/ PostFails(p) \/ Crash(p)
        PROVE  UNCHANGED checks /\ UNCHANGED publications /\ Delivers /\ Belated
    <2>1. CASE Post(p)
      <3>1. Busy(p) /\ UNCHANGED checks /\ UNCHANGED publications /\ UNCHANGED late
            /\ CarriedOut(publisher[p].attempt)
        BY <2>1 DEF Post, Busy, store
      <3> QED
        BY <1>2, <3>1 DEF Delivers, Belated
    <2>2. CASE PostFails(p)
      <3>1. Busy(p) /\ UNCHANGED checks /\ UNCHANGED publications
            /\ Unanswered(publisher[p].attempt)
        BY <2>2 DEF PostFails, Busy, store
      <3> QED
        BY <1>2, <3>1, UnansweredDelivers
    <2>3. CASE Crash(p)
      <3>1. /\ UNCHANGED checks /\ UNCHANGED publications
            /\ UNCHANGED github \/ (Busy(p) /\ Unanswered(publisher[p].attempt))
        BY <2>3 DEF Crash, Busy, store
      <3> QED
        BY <1>0, <1>2, <3>1, UnansweredDelivers
    <2> QED
      BY <1>7, <2>1, <2>2, <2>3
  <1>8. ASSUME NEW a \in Attempts, CarryOutLate(a)
        PROVE  UNCHANGED checks /\ UNCHANGED publications /\ Delivers /\ Belated
    <2>1. /\ late[a] > 0 /\ late' = [late EXCEPT ![a] = late[a] - 1] /\ CarriedOut(a)
          /\ UNCHANGED checks /\ UNCHANGED publications
      BY <1>8 DEF CarryOutLate, store
    <2>2. publications[a].state # "absent"
      BY <2>1 DEF Asked
    <2> QED
      BY <2>1, <2>2 DEF Delivers, Belated
  <1>9. CASE Tick
    <2>1. UNCHANGED <<checks, github>>
          /\ \A a \in Attempts : publications'[a] = Aged(publications[a])
      BY <1>9 DEF Tick
    <2>2. VerdictsKept
      <3>1. \A a \in Attempts : /\ Aged(publications[a]).passed = publications[a].passed
                                    /\ Aged(publications[a]).state = publications[a].state
        BY DEF Aged, Row
      <3> QED
        BY ONLY <2>1, <3>1 DEF VerdictsKept
    <2> QED
      BY <1>0, <2>1, <2>2
  <1>10. CASE UNCHANGED vars
    BY <1>0, <1>1, <1>10 DEF vars, store
  <1> QED
    BY <1>0, <1>1, <1>3, <1>4, <1>5, <1>6, <1>7, <1>8, <1>9, <1>10 DEF Next, Work, PublisherStep

LEMMA InitAsked == Init => Asked
  BY DEF Init, Asked

LEMMA NextAsked == IInv /\ Asked /\ [Next]_vars => Asked'
  <1> SUFFICES ASSUME IInv, Asked, [Next]_vars PROVE Asked'
    OBVIOUS
  <1> USE PublishingAssumption
  <1>0. IInv'
    BY NextInv
  <1>1. CASE Inserts /\ UNCHANGED github
    <2>1. PICK a \in Attempts, v \in Verdicts : Insert(a, v)
      BY <1>1 DEF Inserts
    <2>2. /\ publications[a].state = "absent" /\ publications[a].passed = NoVerdict
          /\ publications'[a].state = "queued" /\ publications'[a].passed = v
          /\ \A b \in Attempts \ {a} : publications'[b] = publications[b]
          /\ v # NoVerdict
          /\ checkRuns' = checkRuns /\ statuses' = statuses /\ late' = late
      BY <1>1, <2>1 DEF Insert, Asked, IInv, TypeOK, Row, github, Verdicts, NoVerdict
    <2>3. \A c \in Commits : statuses[c] # NoVerdict =>
              \E b \in Attempts : CommitOf[b] = c /\ statuses[c] = publications'[b].passed
      BY <2>2 DEF Asked
    <2> QED
      BY <2>2, <2>3 DEF Asked
  <1>2. CASE VerdictsKept /\ Delivers /\ Belated
    <2> USE <1>2 DEF VerdictsKept
    <2>1. \A a \in Attempts : publications'[a].state = "absent" <=> publications'[a].passed = NoVerdict
      BY DEF Asked
    <2>2. \A a \in Attempts : late'[a] > 0 => publications'[a].state # "absent"
      <3>1. \A a \in Attempts : late'[a] \in Nat /\ late[a] \in Nat
        BY <1>0 DEF IInv, TypeOK
      <3>2. \A a \in Attempts : late'[a] > 0 => late'[a] > late[a] \/ late[a] > 0
        BY <3>1
      <3> QED
        BY <3>2 DEF Belated, Asked
    <2>3. CASE UNCHANGED <<checkRuns, statuses>>
      BY <2>1, <2>2, <2>3 DEF Asked
    <2>4. ASSUME NEW b \in Attempts, publications[b].state # "absent", CarriedOut(b)
          PROVE  Asked'
      <3>1. CASE checks
        <4>1. checkRuns' = [checkRuns EXCEPT ![b] = checkRuns[b] + 1] /\ statuses' = statuses
          BY <2>4, <3>1 DEF CarriedOut
        <4>2. \A a \in Attempts : checkRuns'[a] > 0 => a = b \/ checkRuns[a] > 0
          BY <4>1 DEF IInv, TypeOK
        <4> QED
          BY <2>1, <2>2, <2>4, <4>1, <4>2 DEF Asked
      <3>2. CASE ~checks
        <4>1. /\ statuses' = [statuses EXCEPT ![CommitOf[b]] = publications[b].passed]
              /\ checkRuns' = checkRuns
          BY <2>4, <3>2 DEF CarriedOut
        <4>2. \A c \in Commits : statuses'[c] # NoVerdict =>
                  \E a \in Attempts : CommitOf[a] = c /\ statuses'[c] = publications'[a].passed
          <5> SUFFICES ASSUME NEW c \in Commits, statuses'[c] # NoVerdict
                       PROVE  \E a \in Attempts :
                                  CommitOf[a] = c /\ statuses'[c] = publications'[a].passed
            OBVIOUS
          <5>1. CASE c = CommitOf[b]
            BY <4>1, <5>1 DEF IInv, TypeOK
          <5>2. CASE c # CommitOf[b]
            <6>1. statuses'[c] = statuses[c]
              BY <4>1, <5>2 DEF IInv, TypeOK
            <6>2. PICK a \in Attempts : CommitOf[a] = c /\ statuses[c] = publications[a].passed
              BY <6>1 DEF Asked
            <6>3. publications'[a].passed = publications[a].passed
              OBVIOUS
            <6> QED
              BY <6>1, <6>2, <6>3
          <5> QED
            BY <5>1, <5>2
        <4> QED
          BY <2>1, <2>2, <4>1, <4>2 DEF Asked
      <3> QED
        BY <3>1, <3>2
    <2> QED
      BY <2>3, <2>4 DEF Delivers
  <1> QED
    BY <1>1, <1>2, StepDelivers
=============================================================================
