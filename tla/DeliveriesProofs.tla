-------------------------- MODULE DeliveriesProofs --------------------------
(***************************************************************************)
(* Proofs about module Deliveries, for any number of deliveries, HTTP      *)
(* threads and tokens, any lease and any retention.                        *)
(***************************************************************************)
EXTENDS Deliveries, SequenceTheorems, TLAPS

-----------------------------------------------------------------------------
(* The inductive invariant.                                                *)

\* TypeOK without the queue.
Typed ==
    /\ rows \in [Ids -> Row]
    /\ finished \in Seq(Ids)
    /\ applied \subseteq Ids
    /\ thread \in [Threads -> Thread]

\* A row has a token exactly while it is leased, and only then does a lease run.
RowShape ==
    \A d \in Ids :
        /\ rows[d].state = "processing" <=> rows[d].token # NoToken
        /\ rows[d].state # "processing" => rows[d].lease = 0
        /\ Done(d) => rows[d].delay <= 0

\* A busy thread has a delivery and a token, and has applied what it is about to complete.
ThreadShape ==
    \A th \in Threads : thread[th].pc # "idle" =>
        /\ thread[th].id \in Ids
        /\ thread[th].token \in Tokens
        /\ thread[th].pc = "handled" => thread[th].id \in applied

\* complete_delivery prunes from a list of completed deliveries, each of them in it once.
FinishedShape ==
    \A i \in DOMAIN finished :
        /\ rows[finished[i]].state = "completed"
        /\ \A j \in DOMAIN finished : finished[i] = finished[j] => i = j

IInv == Typed /\ RowShape /\ ThreadShape /\ FinishedShape /\ DoneIsApplied

LEMMA InitInv == Init => IInv
  <1> SUFFICES ASSUME Init PROVE IInv
    OBVIOUS
  <1> USE LeasesAssumption, DeliveriesAssumption DEF Init, Gone, Idle, NeverReleased
  <1>1. Typed
    BY DEF Typed, Row, Thread, MaybeToken
  <1>2. RowShape /\ ThreadShape /\ FinishedShape /\ DoneIsApplied
    BY DEF RowShape, ThreadShape, FinishedShape, DoneIsApplied, Done
  <1> QED
    BY <1>1, <1>2 DEF IInv

-----------------------------------------------------------------------------
(* The steps, one by one.                                                  *)

\* Whatever a claim takes is neither completed nor leased.
LEMMA TakeInv ==
    ASSUME IInv, NEW th \in Threads, NEW d \in Ids, NEW t \in Tokens, Take(th, d, t),
           rows[d].state # "completed"
    PROVE  IInv'
  <1> USE LeasesAssumption, DeliveriesAssumption DEF IInv, Typed, Take, Done
  <1>1. Typed'
    <2>1. rows'[d] \in Row
      <3>1. rows[d] \in Row /\ rows'[d] = [rows[d] EXCEPT !.state = "processing", !.token = t,
                                                         !.lease = LeaseTicks]
        OBVIOUS
      <3>2. LeaseTicks \in 0 .. LeaseTicks /\ t \in MaybeToken
        BY DEF MaybeToken
      <3> QED
        BY ONLY <3>1, <3>2 DEF Row
    <2>2. thread'[th] \in Thread
      BY DEF Thread, MaybeToken
    <2> QED
      BY <2>1, <2>2
  <1>2. RowShape'
    BY DEF RowShape, Row
  <1>3. ThreadShape'
    BY DEF ThreadShape
  <1>4. FinishedShape'
    <2>1. \A i \in DOMAIN finished : finished[i] \in Ids /\ finished[i] # d
      BY DEF FinishedShape
    <2> QED
      BY <2>1 DEF FinishedShape
  <1>5. DoneIsApplied'
    BY DEF DoneIsApplied
  <1> QED
    BY <1>1, <1>2, <1>3, <1>4, <1>5

\* complete_delivery, with its pruning.
LEMMA CompleteInv ==
    ASSUME IInv, NEW th \in Threads, Complete(th)
    PROVE  IInv'
  <1> DEFINE d == thread[th].id
             latest == Append(finished, d)
             pruned == IF Len(latest) > Retention THEN {latest[1]} ELSE {}
  <1> USE DEF IInv, Typed
  <1>1. d \in Ids /\ d \in applied /\ rows[d].state = "processing"
    BY DEF Complete, Mine, Owned, ThreadShape
  <1>2. /\ latest \in Seq(Ids) /\ Len(latest) = Len(finished) + 1 /\ latest # <<>>
        /\ latest[Len(latest)] = d
        /\ \A i \in 1 .. Len(finished) : latest[i] = finished[i]
    BY <1>1
  <1>3. \A i \in DOMAIN finished : finished[i] \in Ids /\ finished[i] # d
    BY <1>1 DEF FinishedShape
  <1>4. /\ \A i \in DOMAIN latest : latest[i] = d \/ rows[latest[i]].state = "completed"
        /\ \A i, j \in DOMAIN latest : latest[i] = latest[j] => i = j
    BY <1>1, <1>2, <1>3 DEF FinishedShape
  <1>5. /\ rows' = [e \in Ids |-> IF e \in pruned THEN Gone("pruned")
                                  ELSE IF e = d THEN Gone("completed") ELSE rows[e]]
        /\ finished' = IF pruned = {} THEN latest ELSE Tail(latest)
        /\ thread' = [thread EXCEPT ![th] = Idle]
        /\ applied' = applied
    BY DEF Complete
  <1>6. pruned = {} \/ pruned = {latest[1]}
    OBVIOUS
  <1>7. latest[1] \in applied
    BY <1>1, <1>2, <1>4 DEF DoneIsApplied, Done
  <1> HIDE DEF d, latest, pruned
  <1>8. Typed'
    <2>1. rows' \in [Ids -> Row]
      BY <1>5, LeasesAssumption, DeliveriesAssumption DEF Row, Gone, MaybeToken, NeverReleased
    <2>2. finished' \in Seq(Ids)
      BY <1>2, <1>5
    <2>3. thread' \in [Threads -> Thread]
      BY <1>5 DEF Thread, Idle, MaybeToken
    <2> QED
      BY <1>5, <2>1, <2>2, <2>3
  <1>9. RowShape'
    BY <1>5, LeasesAssumption DEF RowShape, Done, Gone, NeverReleased
  <1>10. ThreadShape'
    BY <1>5 DEF ThreadShape, Idle
  <1>11. FinishedShape'
    <2>1. CASE pruned = {}
      BY <1>2, <1>4, <1>5, <2>1 DEF FinishedShape, Gone
    <2>2. CASE pruned = {latest[1]}
      <3>0. finished' = Tail(latest)
        <4>1. latest[1] \in pruned
          BY <2>2
        <4> QED
          BY <1>5, <4>1
      <3>1. /\ Len(finished') = Len(latest) - 1
            /\ DOMAIN finished' = 1 .. Len(latest) - 1
            /\ \A i \in DOMAIN finished' : finished'[i] = latest[i + 1] /\ i + 1 \in DOMAIN latest
        <4>1. Len(latest) \in Nat \ {0} /\ DOMAIN latest = 1 .. Len(latest)
          BY <1>2, LenProperties, EmptySeq
        <4> QED
          BY ONLY <1>2, <3>0, <4>1, HeadTailProperties, LenProperties
      <3>2. ASSUME NEW i \in DOMAIN finished'
            PROVE  /\ finished'[i] \in Ids /\ finished'[i] # latest[1]
                   /\ rows'[finished'[i]].state = "completed"
        <4>1. /\ finished'[i] = latest[i + 1] /\ i + 1 \in DOMAIN latest
              /\ 1 \in DOMAIN latest /\ i + 1 # 1
          BY <1>2, <3>1, LenProperties
        <4>2. finished'[i] \in Ids
          BY <1>2, <4>1, LenProperties, ElementOfSeq
        <4>3. finished'[i] # latest[1]
          BY ONLY <1>4, <4>1
        <4>4. finished'[i] = d \/ rows[finished'[i]].state = "completed"
          BY ONLY <1>4, <4>1
        <4>5. finished'[i] \notin pruned
          BY <2>2, <4>3
        <4> QED
          BY <1>5, <4>2, <4>3, <4>4, <4>5 DEF Gone
      <3>4. \A i, j \in DOMAIN finished' : finished'[i] = finished'[j] => i = j
        BY <1>2, <1>4, <3>1
      <3> QED
        BY <3>2, <3>4 DEF FinishedShape
    <2> QED
      BY <1>6, <2>1, <2>2
  <1>12. DoneIsApplied'
    BY <1>1, <1>5, <1>6, <1>7 DEF DoneIsApplied, Done
  <1> QED
    BY <1>8, <1>9, <1>10, <1>11, <1>12

LEMMA NextInv == IInv /\ [Next]_vars => IInv'
  <1> SUFFICES ASSUME IInv, [Next]_vars PROVE IInv'
    OBVIOUS
  <1> USE LeasesAssumption, DeliveriesAssumption DEF IInv, Typed
  <1>0. Idle \in Thread
    BY DEF Idle, Thread, MaybeToken
  <1>1. ASSUME NEW h \in Handlers, NEW d \in Ids, NEW t \in Tokens, Receive(h, d, t) PROVE IInv'
    BY <1>1, TakeInv DEF Receive, Expired, Threads
  <1>2. ASSUME NEW d \in Ids, NEW t \in Tokens, RetryClaim(d, t) PROVE IInv'
    BY <1>2, TakeInv DEF RetryClaim, Retriable, Expired, Threads
  <1>3. ASSUME NEW th \in Threads, Handle(th) PROVE IInv'
    <2>1. thread[th].id \in Ids
      BY <1>3 DEF Handle, ThreadShape
    <2>2. Typed'
      BY <1>3, <2>1 DEF Handle, Goto, Thread
    <2>3. RowShape' /\ FinishedShape' /\ DoneIsApplied'
      BY <1>3 DEF Handle, RowShape, FinishedShape, DoneIsApplied, Done
    <2>4. ThreadShape'
      BY <1>3 DEF Handle, Goto, ThreadShape, Thread
    <2> QED
      BY <2>2, <2>3, <2>4
  <1>4. ASSUME NEW th \in Threads, Raise(th) PROVE IInv'
    <2>1. Typed'
      BY <1>4 DEF Raise, Goto, Thread
    <2>2. RowShape' /\ FinishedShape' /\ DoneIsApplied'
      BY <1>4 DEF Raise, RowShape, FinishedShape, DoneIsApplied, Done
    <2>3. ThreadShape'
      BY <1>4 DEF Raise, Goto, ThreadShape, Thread
    <2> QED
      BY <2>1, <2>2, <2>3
  <1>5. ASSUME NEW th \in Threads, Complete(th) PROVE IInv'
    BY <1>5, CompleteInv
  <1>6. ASSUME NEW th \in Threads, Release(th) PROVE IInv'
    <2> DEFINE d == thread[th].id
               n == ReleaseDelay(th)
    <2>1. d \in Ids /\ rows[d].state = "processing"
      BY <1>6 DEF Release, Mine, Owned, ThreadShape
    <2>2. /\ rows' = [rows EXCEPT ![d] = [Gone("pending") EXCEPT !.delay = n]]
          /\ thread' = [thread EXCEPT ![th] = Idle]
          /\ UNCHANGED <<finished, applied>>
      BY <1>6 DEF Release
    <2>3. Typed'
      <3>1. n \in NeverReleased .. RetryTicks
        BY DEF ReleaseDelay, NeverReleased
      <3> HIDE DEF n
      <3>2. [Gone("pending") EXCEPT !.delay = n] \in Row
        <4>1. NoToken \in MaybeToken /\ 0 \in 0 .. LeaseTicks
          BY DEF MaybeToken
        <4> QED
          BY ONLY <3>1, <4>1 DEF Row, Gone
      <3> HIDE DEF d
      <3>3. rows' \in [Ids -> Row] /\ thread' \in [Threads -> Thread]
        BY ONLY <2>1, <2>2, <3>2, <1>0, IInv DEF IInv, Typed
      <3> QED
        BY ONLY <2>2, <3>3, IInv DEF IInv, Typed
    <2> HIDE DEF d, n
    <2>4. RowShape'
      BY <2>2 DEF RowShape, Gone, Done
    <2>5. ThreadShape'
      BY <2>2 DEF ThreadShape, Idle
    <2>6. FinishedShape'
      <3>1. \A i \in DOMAIN finished : finished[i] \in Ids /\ finished[i] # d
        BY <2>1 DEF FinishedShape
      <3> QED
        BY <2>2, <3>1 DEF FinishedShape
    <2>7. DoneIsApplied'
      BY <2>2 DEF DoneIsApplied, Done, Gone
    <2> QED
      BY <2>3, <2>4, <2>5, <2>6, <2>7
  <1>7. ASSUME UNCHANGED <<rows, finished, applied>>,
               \A th \in Threads : thread'[th] = thread[th] \/ thread'[th] = Idle,
               thread' \in [Threads -> Thread]
        PROVE  IInv'
    BY <1>7 DEF RowShape, ThreadShape, FinishedShape, DoneIsApplied, Done, Idle
  <1>9. ASSUME NEW th \in Threads, Abandon(th) PROVE IInv'
    BY <1>7, <1>0, <1>9 DEF Abandon
  <1>10. CASE Crash
    BY <1>7, <1>0, <1>10 DEF Crash
  <1>11. CASE Tick
    <2>0. ASSUME NEW d \in Ids
          PROVE  /\ rows'[d] \in Row
                 /\ rows'[d].state = rows[d].state /\ rows'[d].token = rows[d].token
                 /\ rows[d].lease = 0 => rows'[d].lease = 0
                 /\ rows[d].delay <= 0 => rows'[d].delay <= 0
      <3>1. rows'[d] = [rows[d] EXCEPT !.lease = Down(rows[d].lease),
                          !.delay = IF rows[d].delay > 0 THEN Down(rows[d].delay) ELSE rows[d].delay]
        BY <1>11 DEF Tick
      <3>2. /\ rows[d] \in Row /\ rows[d].lease \in 0 .. LeaseTicks
            /\ rows[d].delay \in NeverReleased .. RetryTicks
        BY DEF Row
      <3>3. /\ Down(rows[d].lease) \in 0 .. LeaseTicks
            /\ rows[d].lease = 0 => Down(rows[d].lease) = 0
            /\ rows[d].delay > 0 => Down(rows[d].delay) \in NeverReleased .. RetryTicks
        BY <3>2 DEF Down, NeverReleased
      <3>4. rows'[d] \in Row
        BY ONLY <3>1, <3>2, <3>3 DEF Row
      <3>5. rows'[d].lease = Down(rows[d].lease) /\ (rows[d].delay <= 0 => rows'[d].delay <= 0)
        BY ONLY <3>1, <3>2 DEF Row, NeverReleased
      <3> QED
        BY ONLY <3>1, <3>2, <3>3, <3>4, <3>5 DEF Row
    <2>1. Typed'
      BY <1>11, <2>0 DEF Tick
    <2>2. RowShape'
      BY ONLY <2>0, RowShape DEF RowShape, Done
    <2>3. FinishedShape'
      <3>1. \A i \in DOMAIN finished : finished[i] \in Ids
        OBVIOUS
      <3> QED
        BY <1>11, <2>0, <3>1 DEF Tick, FinishedShape
    <2>4. ThreadShape' /\ DoneIsApplied'
      BY <1>11, <2>0 DEF Tick, ThreadShape, DoneIsApplied, Done
    <2> QED
      BY <2>1, <2>2, <2>3, <2>4
  <1>12. CASE UNCHANGED vars
    BY <1>12, <1>7 DEF vars
  <1> QED
    BY <1>1, <1>2, <1>3, <1>4, <1>5, <1>6, <1>9, <1>10, <1>11, <1>12
    DEF Next, Work, Arrive, Retry, Process

LEMMA Invariance == Spec => []IInv
  BY InitInv, NextInv, PTL DEF Spec

\* Whatever joins the queue, or leaves it, is a delivery.
QueueTyped == queue \in SUBSET (Ids \X Ids)

LEMMA QueueType == IInv /\ QueueTyped /\ [Next]_vars => QueueTyped'
  <1> SUFFICES ASSUME IInv, queue \in SUBSET (Ids \X Ids), [Next]_vars
               PROVE  queue' \in SUBSET (Ids \X Ids)
    BY DEF QueueTyped
  <1>1. ASSUME NEW d \in Ids PROVE Without(d) \in SUBSET (Ids \X Ids)
    BY DEF Without
  <1>2. ASSUME NEW d \in Ids, NEW n PROVE Placed(d, n) \in SUBSET (Ids \X Ids)
    BY <1>1 DEF Placed
  <1>3. ASSUME NEW h \in Handlers, NEW d \in Ids, NEW t \in Tokens, Receive(h, d, t)
        PROVE  queue' \in SUBSET (Ids \X Ids)
    BY <1>2, <1>3 DEF Receive
  <1>4. ASSUME NEW th \in Threads, thread[th].pc # "idle", Complete(th) \/ Release(th)
        PROVE  queue' \in SUBSET (Ids \X Ids)
    BY <1>1, <1>2, <1>4 DEF Complete, Release, IInv, ThreadShape
  <1>5. ASSUME NEW th \in Threads, Complete(th) \/ Release(th) PROVE thread[th].pc # "idle"
    BY <1>5 DEF Complete, Release
  <1>6. UNCHANGED queue => queue' \in SUBSET (Ids \X Ids)
    OBVIOUS
  <1> QED
    BY <1>3, <1>4, <1>5, <1>6 DEF Next, Work, Arrive, Retry, RetryClaim, Process, Handle, Raise,
       Abandon, Crash, Tick, vars

-----------------------------------------------------------------------------
(* What follows.                                                           *)

\* Types, those of the queue's order too.
THEOREM TypeCorrect == Spec => []TypeOK
  <1>1. Init => QueueTyped
    BY DEF Init, QueueTyped
  <1>2. IInv /\ QueueTyped => TypeOK
    BY DEF IInv, Typed, TypeOK, QueueTyped
  <1>3. Spec => []QueueTyped
    BY <1>1, QueueType, Invariance, PTL DEF Spec
  <1> QED
    BY <1>2, <1>3, Invariance, PTL

\* Nothing that GitHub delivered is lost: a delivery is done with only after a handler has
\* returned for it.
THEOREM DeliveriesApplied == Spec => []DoneIsApplied
  <1>1. IInv => DoneIsApplied
    BY DEF IInv
  <1> QED
    BY <1>1, Invariance, PTL

\* No thread that lost its lease reopens a completed delivery.
THEOREM CompletedFinal == Spec => CompletedIsFinal
  <1>1. IInv /\ [Next]_vars => CompletedKept
    <2> SUFFICES ASSUME IInv, [Next]_vars, NEW d \in Ids, rows[d].state = "completed"
                 PROVE  rows'[d] = rows[d] \/ rows'[d].state = "pruned"
      BY DEF CompletedKept
    <2> USE DEF IInv, Typed
    <2>1. ASSUME NEW h \in Handlers, NEW e \in Ids, NEW t \in Tokens, Receive(h, e, t)
          PROVE  rows'[d] = rows[d]
      BY <2>1 DEF Receive, Take, Expired
    <2>2. ASSUME NEW e \in Ids, NEW t \in Tokens, RetryClaim(e, t) PROVE rows'[d] = rows[d]
      BY <2>2 DEF RetryClaim, Take, Oldest, Retriable, Expired
    <2>3. ASSUME NEW th \in Threads, Complete(th)
          PROVE  rows'[d] = rows[d] \/ rows'[d].state = "pruned"
      BY <2>3 DEF Complete, Mine, Owned, Gone
    <2>4. ASSUME NEW th \in Threads, Release(th) PROVE rows'[d] = rows[d]
      BY <2>4 DEF Release, Mine, Owned
    <2>5. CASE Tick
      <3>1. rows[d].lease = 0 /\ ~(rows[d].delay > 0) /\ rows[d] \in Row
        BY DEF RowShape, Done, Row, NeverReleased
      <3> QED
        BY <2>5, <3>1 DEF Tick, Down, Row
    <2>6. CASE UNCHANGED rows
      BY <2>6
    <2> QED
      BY <2>1, <2>2, <2>3, <2>4, <2>5, <2>6
      DEF Next, Work, Arrive, Retry, Process, Handle, Raise, Abandon, Crash, vars
  <1> QED
    BY <1>1, Invariance, PTL DEF Spec, CompletedIsFinal

\* A running lease is ended by its own thread or by nobody.
THEOREM LeasesProtect == Spec => LeaseProtects
  <1>1. IInv /\ [Next]_vars => LeaseHonoured
    <2> DEFINE Ended(d) == \E th \in Threads : thread[th].token = rows[d].token /\ thread'[th] = Idle
    <2> SUFFICES ASSUME IInv, [Next]_vars, NEW d \in Ids,
                        rows[d].lease > 0, rows'[d].token # rows[d].token
                 PROVE  Ended(d)
      BY DEF LeaseHonoured
    <2> USE DEF IInv, Typed
    <2>0. rows[d].state = "processing" /\ rows[d].lease # 0
      BY LeasesAssumption DEF RowShape, Row
    <2>1. ASSUME NEW h \in Handlers, NEW e \in Ids, NEW t \in Tokens, Receive(h, e, t)
          PROVE  FALSE
      BY <2>0, <2>1 DEF Receive, Take, Expired
    <2>2. ASSUME NEW e \in Ids, NEW t \in Tokens, RetryClaim(e, t) PROVE FALSE
      BY <2>0, <2>2 DEF RetryClaim, Take, Oldest, Retriable, Expired
    <2>3. ASSUME NEW th \in Threads, Complete(th) PROVE Ended(d)
      <3>1. \A i \in DOMAIN finished : finished[i] # d
        BY <2>0 DEF FinishedShape
      <3>2. Append(finished, thread[th].id)[1] = d => thread[th].id = d
        <4>1. thread[th].id \in Ids
          BY <2>3 DEF Complete, ThreadShape
        <4> QED
          BY <3>1, <4>1
      <3>3. thread[th].id = d
        BY <2>3, <3>2 DEF Complete
      <3>4. thread[th].token = rows[d].token /\ thread'[th] = Idle
        BY <2>3, <3>3 DEF Complete, Mine, Owned
      <3> QED
        BY <3>4
    <2>4. ASSUME NEW th \in Threads, Release(th) PROVE Ended(d)
      <3>1. thread[th].id = d
        BY <2>4 DEF Release
      <3>2. thread[th].token = rows[d].token /\ thread'[th] = Idle
        BY <2>4, <3>1 DEF Release, Mine, Owned
      <3> QED
        BY <3>2
    <2>5. CASE Tick
      BY <2>5 DEF Tick, Row
    <2>6. CASE UNCHANGED rows
      BY <2>6
    <2> QED
      BY <2>1, <2>2, <2>3, <2>4, <2>5, <2>6
      DEF Next, Work, Arrive, Retry, Process, Handle, Raise, Abandon, Crash, vars
  <1> QED
    BY <1>1, Invariance, PTL DEF Spec, LeaseProtects

-----------------------------------------------------------------------------
(* What has arrived.                                                       *)

\* Only what has arrived is handled, and stays on record.
Known ==
    /\ \A d \in applied : rows[d].state # "absent"
    /\ \A th \in Threads : thread[th].pc # "idle" => rows[thread[th].id].state # "absent"

\* At most one delivery arrives, and none that has arrived is forgotten.
NoneArrives == \A d \in Ids : rows'[d].state = "absent" <=> rows[d].state = "absent"
OneArrives ==
    \E d \in Ids :
        /\ rows[d].state = "absent" /\ rows'[d].state # "absent"
        /\ \A e \in Ids \ {d} : rows'[e].state = "absent" <=> rows[e].state = "absent"

\* A step of the queue: handlers, and they alone, apply deliveries.
LEMMA StepArrives ==
    ASSUME IInv, Known, [Next]_vars
    PROVE  /\ NoneArrives \/ (OneArrives /\ Arrive)
           /\ applied' = applied \/ \E th \in Threads : Handle(th)
  <1> USE DEF IInv, Typed
  <1>1. ASSUME NEW th \in Threads, NEW d \in Ids, NEW t \in Tokens, Take(th, d, t)
        PROVE  /\ NoneArrives \/ OneArrives
               /\ applied' = applied
               /\ rows[d].state # "absent" => NoneArrives
    BY <1>1 DEF Take, NoneArrives, OneArrives, Row
  <1>2. ASSUME NEW h \in Handlers, NEW d \in Ids, NEW t \in Tokens, Receive(h, d, t)
        PROVE  (NoneArrives \/ (OneArrives /\ Arrive)) /\ applied' = applied
    BY <1>1, <1>2 DEF Receive, Arrive, Threads
  <1>3. ASSUME NEW d \in Ids, NEW t \in Tokens, RetryClaim(d, t)
        PROVE  NoneArrives /\ applied' = applied
    <2>1. rows[d].state # "absent"
      BY <1>3 DEF RetryClaim, Retriable, Expired
    <2> QED
      BY <1>1, <1>3, <2>1 DEF RetryClaim, Threads
  <1>4. UNCHANGED rows => NoneArrives
    BY DEF NoneArrives
  <1>5. ASSUME NEW th \in Threads, Release(th)
        PROVE  NoneArrives /\ applied' = applied
    <2>1. thread[th].id \in Ids /\ rows[thread[th].id].state # "absent"
      BY <1>5 DEF Release, Known, ThreadShape
    <2> QED
      BY <1>5, <2>1 DEF Release, NoneArrives, Gone
  <1>6. ASSUME NEW th \in Threads, Complete(th)
        PROVE  NoneArrives /\ applied' = applied
    <2> DEFINE d == thread[th].id
               latest == Append(finished, d)
               pruned == IF Len(latest) > Retention THEN {latest[1]} ELSE {}
    <2>1. d \in Ids /\ rows[d].state # "absent"
      BY <1>6 DEF Complete, Known, ThreadShape
    <2>2. pruned = {} \/ pruned = {latest[1]}
      OBVIOUS
    <2>3. latest[1] = d \/ (1 \in DOMAIN finished /\ latest[1] = finished[1])
      BY <2>1
    <2>4. rows[latest[1]].state # "absent"
      BY <2>1, <2>3 DEF FinishedShape
    <2>5. /\ rows' = [e \in Ids |-> IF e \in pruned THEN Gone("pruned")
                                    ELSE IF e = d THEN Gone("completed") ELSE rows[e]]
          /\ applied' = applied
      BY <1>6 DEF Complete
    <2> HIDE DEF latest, pruned, d
    <2> QED
      BY <2>1, <2>2, <2>4, <2>5 DEF NoneArrives, Gone
  <1>7. CASE Tick
    BY <1>7 DEF Tick, NoneArrives, Row
  <1> QED
    BY <1>2, <1>3, <1>4, <1>5, <1>6, <1>7
    DEF Next, Work, Arrive, Retry, Process, Handle, Raise, Abandon, Crash, vars

LEMMA InitKnown == Init => Known
  BY DEF Init, Known, Idle

LEMMA NextKnown == IInv /\ Known /\ [Next]_vars => Known'
  <1> SUFFICES ASSUME IInv, Known, [Next]_vars PROVE Known'
    OBVIOUS
  <1> USE DEF IInv, Typed
  <1>1. \A d \in Ids : rows[d].state # "absent" => rows'[d].state # "absent"
    BY StepArrives DEF NoneArrives, OneArrives
  <1>2. \A d \in applied : d \in Ids /\ rows'[d].state # "absent"
    BY <1>1 DEF Known
  <1>3. \A th \in Threads : thread[th].pc # "idle" =>
            thread[th].id \in Ids /\ rows'[thread[th].id].state # "absent"
    BY <1>1 DEF Known, ThreadShape
  <1>4. ASSUME \A th \in Threads :
                   \/ thread'[th] = Idle
                   \/ /\ thread'[th].id = thread[th].id
                      /\ thread'[th].pc # "idle" => thread[th].pc # "idle",
               applied' \subseteq applied \cup {thread[th].id : th \in
                                   {th \in Threads : thread[th].pc # "idle"}}
        PROVE  Known'
    BY <1>2, <1>3, <1>4 DEF Known, Idle
  <1>5. ASSUME NEW th \in Threads, NEW d \in Ids, NEW t \in Tokens, Take(th, d, t)
        PROVE  Known'
    <2>1. rows'[d].state # "absent" /\ applied' = applied
      BY <1>5 DEF Take, Row
    <2>2. \A u \in Threads : u # th => thread'[u] = thread[u]
      BY <1>5 DEF Take
    <2>3. thread'[th].id = d
      BY <1>5 DEF Take
    <2> QED
      BY <1>2, <1>3, <2>1, <2>2, <2>3 DEF Known
  <1>6. ASSUME NEW th \in Threads, Process(th)
        PROVE  Known'
    BY <1>4, <1>6 DEF Process, Handle, Raise, Complete, Release, Abandon, Goto, Thread
  <1>7. CASE Crash
    BY <1>4, <1>7 DEF Crash
  <1>8. CASE Tick \/ UNCHANGED vars
    BY <1>4, <1>8 DEF Tick, vars
  <1> QED
    BY <1>5, <1>6, <1>7, <1>8 DEF Next, Work, Arrive, Receive, Retry, RetryClaim, Threads
=============================================================================
