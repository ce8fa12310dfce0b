------------------------------ MODULE BoardProofs ------------------------------
(***************************************************************************)
(* Proofs about the two ways the bridge comes to write the board: module   *)
(* PullRequests, for any number of pull requests, seconds, deliveries and  *)
(* threads, and module Reconcile, for any board, any number of passes at a *)
(* time, and any edits and faults.  The two share nothing but the prover's *)
(* lemmas; the names of the first begin with Pr where both have one.       *)
(***************************************************************************)
EXTENDS PullRequests, Reconcile, FiniteSetTheorems, WellFoundedInduction, TLAPS

-----------------------------------------------------------------------------
(* Pull requests.  The inductive invariant.                                *)

Current(n) == PrState(pulls[n].state)

Writing(h) == handler[h].pc \in {"updating", "recording"}

\* What a thread that holds the lock is about to record.
Write(h) == [number |-> sent[handler[h].event].number,
              state |-> handler[h].state, time |-> handler[h].time]

\* A handler has decided what the event is good for and done it.
Processed(e) ==
    e \in done \/ \E h \in Handlers : handler[h].pc = "handled" /\ handler[h].event = e

\* Said of an event, the record or a write: GitHub has been in that state.
Possible(w) ==
    /\ w.number \in Numbers /\ w.state \in PrStates /\ w.time \in Seconds
    /\ pulls[w.number].state # "none" /\ w.time <= pulls[w.number].time
    /\ w.state = "done" => pulls[w.number].state = "merged"

\* Nothing is known or written that GitHub has not said.
Grounded ==
    /\ \A n \in Numbers : pulls[n].time <= second
    /\ \A e \in Events : sent[e] = Nothing \/ Possible(sent[e])
    /\ record = Nothing \/ Possible(record)
    /\ \A e \in done : sent[e] # Nothing
    /\ \A h \in Handlers : handler[h].pc # "idle" => /\ handler[h].event \in Events
                                                     /\ sent[handler[h].event] # Nothing

\* One thread at a time writes, and what it writes is further on than the record.
LockShape ==
    \A h \in Handlers : Writing(h) =>
        /\ Possible(Write(h))
        /\ \A u \in Handlers : Writing(u) => u = h
        /\ \/ Write(h).number > record.number
           \/ /\ Write(h).number = record.number
              /\ Write(h).time >= record.time
              /\ record.state = "done" => Write(h).state = "done"

\* What is dated after the newest event was looked up after it.
Later(n, e, w) == w.number = n /\ w.time > sent[e].time => w.state = Current(n)

Reflects(n, e, w) == w.number = n /\ w.state = Current(n) /\ w.time >= sent[e].time

\* e tells of the last change of pull request n, and once it has been processed no
\* write takes the record behind it again.
Newest(n, e) ==
    /\ sent[e].number = n /\ sent[e].state = Current(n)
    /\ \A f \in Events : sent[f].number = n => sent[f].time <= sent[e].time
    /\ Later(n, e, record)
    /\ Processed(e) => record.number > n \/ Reflects(n, e, record)
    /\ \A h \in Handlers : Writing(h) =>
            /\ Later(n, e, Write(h))
            /\ Write(h).number = n /\ (Processed(e) \/ handler[h].event = e)
                    => Reflects(n, e, Write(h))

NewestKnown == \A n \in Numbers : pulls[n].state # "none" => \E e \in Events : Newest(n, e)

\* Between two handlers the card says what the record says, unless one was cut off.
CardShape ==
    torn = 0 =>
        \/ \E h \in Handlers : handler[h].pc = "recording" /\ card = NewCard(h)
        \/ /\ \A h \in Handlers : handler[h].pc # "recording"
           /\ card.number = record.number /\ card.state = record.state

PrInv == PrTypeOK /\ Grounded /\ LockShape /\ NewestKnown /\ CardShape

LEMMA PrStates3 ==
    \A s : /\ PrState(s) \in {"in_progress", "review", "done"}
           /\ PrState(s) = "done" <=> s = "merged"
  BY DEF PrState

LEMMA PrInvInit == PrInit => PrInv
  <1> SUFFICES ASSUME PrInit PROVE PrInv
    OBVIOUS
  <1> USE PullRequestsAssumption DEF PrInit
  <1>1. PrTypeOK
    BY DEF PrTypeOK, Seconds, Numbers, Payload, PrStates, Handler, IdleHandler, Nothing
  <1>2. Grounded
    BY DEF Grounded, IdleHandler
  <1>3. LockShape /\ NewestKnown /\ CardShape
    BY DEF LockShape, NewestKnown, CardShape, Writing, IdleHandler, Nothing
  <1> QED
    BY <1>1, <1>2, <1>3 DEF PrInv

-----------------------------------------------------------------------------
(* Steps of the handler that leave GitHub and the record alone, and begin  *)
(* no write.                                                               *)

LEMMA QuietInv ==
    ASSUME PrInv, UNCHANGED <<github, record>>, PrTypeOK', CardShape',
           \A h \in Handlers : Writing(h)' => Writing(h) /\ Write(h)' = Write(h)
                                               /\ handler'[h].event = handler[h].event,
           \A e \in Events : Processed(e)' => Processed(e),
           \A e \in done' : sent[e] # Nothing,
           \A h \in Handlers : handler'[h].pc # "idle" => /\ handler'[h].event \in Events
                                                          /\ sent[handler'[h].event] # Nothing
    PROVE  PrInv'
  <1>1. UNCHANGED <<second, pulls, sent, record>>
    BY DEF github
  <1>2. Grounded'
    BY ONLY PrInv, <1>1, \A e \in done' : sent[e] # Nothing,
       \A h \in Handlers : handler'[h].pc # "idle" => /\ handler'[h].event \in Events
                                                      /\ sent[handler'[h].event] # Nothing
       DEF PrInv, Grounded, Possible
  <1>3. LockShape'
    <2> SUFFICES ASSUME NEW h \in Handlers, Writing(h)'
                 PROVE  /\ Possible(Write(h))' /\ \A u \in Handlers : Writing(u)' => u = h
                        /\ \/ Write(h)'.number > record'.number
                           \/ /\ Write(h)'.number = record'.number
                              /\ Write(h)'.time >= record'.time
                              /\ record'.state = "done" => Write(h)'.state = "done"
      BY DEF LockShape
    <2>1. Writing(h) /\ Write(h)' = Write(h)
      OBVIOUS
    <2>2. Possible(Write(h)) /\ \A u \in Handlers : Writing(u) => u = h
      BY <2>1 DEF PrInv, LockShape
    <2>3. Possible(Write(h))'
      BY ONLY <1>1, <2>1, <2>2 DEF Possible
    <2> QED
      BY <1>1, <2>1, <2>2, <2>3 DEF PrInv, LockShape
  <1>4. NewestKnown'
    <2> SUFFICES ASSUME NEW n \in Numbers, pulls[n].state # "none"
                 PROVE  \E e \in Events : Newest(n, e)'
      BY <1>1 DEF NewestKnown
    <2>1. PICK e \in Events : Newest(n, e)
      BY DEF PrInv, NewestKnown
    <2>2. Current(n)' = Current(n) /\ (Processed(e)' => Processed(e))
      BY <1>1 DEF Current
    <2>3. (/\ sent[e].number = n /\ sent[e].state = Current(n)
           /\ \A f \in Events : sent[f].number = n => sent[f].time <= sent[e].time
           /\ Later(n, e, record)
           /\ Processed(e) => record.number > n \/ Reflects(n, e, record))'
      BY ONLY <1>1, <2>1, <2>2 DEF Newest, Later, Reflects
    <2>4. (\A h \in Handlers : Writing(h) =>
                /\ Later(n, e, Write(h))
                /\ Write(h).number = n /\ (Processed(e) \/ handler[h].event = e)
                        => Reflects(n, e, Write(h)))'
      <3> SUFFICES ASSUME NEW h \in Handlers, Writing(h)'
                   PROVE  (/\ Later(n, e, Write(h))
                           /\ Write(h).number = n /\ (Processed(e) \/ handler[h].event = e)
                                => Reflects(n, e, Write(h)))'
        OBVIOUS
      <3>1. Writing(h) /\ Write(h)' = Write(h) /\ handler'[h].event = handler[h].event
        OBVIOUS
      <3> QED
        BY ONLY <1>1, <2>1, <2>2, <3>1 DEF Newest, Later, Reflects
    <2>5. Newest(n, e)'
      BY ONLY <2>3, <2>4, Zenon DEF Newest
    <2> QED
      BY <2>5
  <1> QED
    BY <1>2, <1>3, <1>4 DEF PrInv

LEMMA IdleType ==
    IdleHandler \in Handler /\ IdleHandler.pc = "idle" /\ NoEvent \in Events \cup {NoEvent}
  BY PullRequestsAssumption DEF Handler, IdleHandler, PrStates, Seconds

\* One thread goes on to r, which is no new write and nothing processed.
LEMMA ThreadInv ==
    ASSUME PrInv, NEW h \in Handlers, NEW r \in Handler, handler' = [handler EXCEPT ![h] = r],
           UNCHANGED <<github, done, record>>,
           card' \in [number : 0..MaxNumber, state : PrStates], torn' \in 0..MaxTorn, CardShape',
           r.pc # "handled",
           r.pc # "idle" => r.event \in Events /\ sent[r.event] # Nothing,
           r.pc \in {"updating", "recording"} =>
                Writing(h) /\ r.event = handler[h].event
                /\ r.state = handler[h].state /\ r.time = handler[h].time
    PROVE  PrInv'
  <1>1. UNCHANGED <<second, pulls, sent, done, record>>
    BY DEF github
  <1>2. handler'[h] = r /\ \A u \in Handlers \ {h} : handler'[u] = handler[u]
    BY DEF PrInv, PrTypeOK
  <1>3. PrTypeOK'
    BY <1>1 DEF PrInv, PrTypeOK
  <1>4. \A u \in Handlers : Writing(u)' => Writing(u) /\ Write(u)' = Write(u)
                                          /\ handler'[u].event = handler[u].event
    BY ONLY <1>1, <1>2, r.pc \in {"updating", "recording"} =>
                Writing(h) /\ r.event = handler[h].event
                /\ r.state = handler[h].state /\ r.time = handler[h].time
       DEF Writing, Write
  <1>5. \A e \in Events : Processed(e)' => Processed(e)
    BY <1>1, <1>2 DEF Processed
  <1>6. \A e \in done' : sent[e] # Nothing
    BY <1>1 DEF PrInv, Grounded
  <1>7. \A u \in Handlers : handler'[u].pc # "idle" => /\ handler'[u].event \in Events
                                                     /\ sent[handler'[u].event] # Nothing
    BY <1>2 DEF PrInv, Grounded
  <1> QED
    BY <1>3, <1>4, <1>5, <1>6, <1>7, QuietInv

LEMMA TakeInv ==
    ASSUME PrInv, NEW h \in Handlers, NEW e \in Events, Take(h, e)
    PROVE  PrInv'
  <1> DEFINE r == [IdleHandler EXCEPT !.pc = "handling", !.event = e]
  <1>1. /\ handler[h].pc = "idle" /\ sent[e] # Nothing
        /\ handler' = [handler EXCEPT ![h] = r]
        /\ UNCHANGED <<github, done, record, card, torn>>
    BY DEF Take
  <1>2. r \in Handler /\ r.pc = "handling" /\ r.event = e
    BY ONLY IdleType DEF Handler, IdleHandler
  <1> HIDE DEF r
  <1>3. handler'[h] = r /\ \A u \in Handlers \ {h} : handler'[u] = handler[u]
    BY <1>1 DEF PrInv, PrTypeOK
  <1>4. CardShape'
    BY <1>1, <1>2, <1>3 DEF PrInv, CardShape, NewCard, github
  <1> QED
    BY <1>1, <1>2, <1>4, ThreadInv DEF PrInv, PrTypeOK

\* The handler gives the delivery back, before its first write, between the two, or
\* without knowing of the first.
LEMMA GiveUpInv ==
    ASSUME PrInv, NEW h \in Handlers, DecideFails(h) \/ UpdateFails(h)
                                     \/ UpdateUnanswered(h) \/ RecordFails(h)
    PROVE  PrInv'
  <1>1. /\ handler' = [handler EXCEPT ![h] = IdleHandler]
        /\ UNCHANGED <<github, done, record>>
    BY DEF DecideFails, UpdateFails, UpdateUnanswered, RecordFails
  <1>2. IdleHandler \in Handler /\ IdleHandler.pc = "idle"
    BY IdleType
  <1>3. handler'[h] = IdleHandler /\ \A u \in Handlers \ {h} : handler'[u] = handler[u]
    BY <1>1 DEF PrInv, PrTypeOK
  <1>4. torn' \in 0..MaxTorn /\ card' \in [number : 0..MaxNumber, state : PrStates]
    <2>1. torn \in 0..MaxTorn /\ card \in [number : 0..MaxNumber, state : PrStates]
      BY DEF PrInv, PrTypeOK
    <2>2. CASE UpdateUnanswered(h)
      <3>1. sent[handler[h].event] \in Payload /\ handler[h].state \in PrStates
        BY <2>2 DEF UpdateUnanswered, PrInv, PrTypeOK, Grounded, Handler
      <3>2. card' = NewCard(h) /\ torn' = torn + 1 /\ torn < MaxTorn
        BY <2>2 DEF UpdateUnanswered
      <3> QED
        BY ONLY <2>1, <3>1, <3>2, PullRequestsAssumption DEF NewCard, Payload
    <2>3. CASE RecordFails(h)
      BY ONLY <2>1, <2>3, PullRequestsAssumption DEF RecordFails
    <2>4. CASE DecideFails(h) \/ UpdateFails(h)
      BY <2>1, <2>4 DEF DecideFails, UpdateFails
    <2> QED
      BY <2>2, <2>3, <2>4
  <1>5. CardShape'
    <2>1. CASE UpdateUnanswered(h) \/ RecordFails(h)
      <3>1. torn' # 0
        BY <2>1 DEF UpdateUnanswered, RecordFails, PrInv, PrTypeOK
      <3> QED
        BY <3>1 DEF CardShape
    <2>2. CASE DecideFails(h) \/ UpdateFails(h)
      <3>1. handler[h].pc # "recording" /\ UNCHANGED <<card, torn, sent>>
        BY <2>2 DEF DecideFails, UpdateFails, github
      <3> QED
        BY <1>1, <1>2, <1>3, <3>1 DEF PrInv, CardShape, NewCard
    <2> QED
      BY <2>1, <2>2
  <1> QED
    BY <1>1, <1>2, <1>4, <1>5, ThreadInv

LEMMA UpdateCardInv ==
    ASSUME PrInv, NEW h \in Handlers, UpdateCard(h)
    PROVE  PrInv'
  <1> DEFINE r == [handler[h] EXCEPT !.pc = "recording"]
  <1>1. /\ handler[h].pc = "updating" /\ handler' = [handler EXCEPT ![h] = r]
        /\ card' = NewCard(h) /\ UNCHANGED <<github, done, record, torn>>
    BY DEF UpdateCard, MoveTo
  <1>2. /\ r \in Handler /\ r.pc = "recording" /\ r.event = handler[h].event
        /\ r.state = handler[h].state /\ r.time = handler[h].time
    <2>1. handler[h] \in Handler
      BY DEF PrInv, PrTypeOK
    <2> QED
      BY ONLY <2>1 DEF Handler
  <1> HIDE DEF r
  <1>3. handler'[h] = r
    BY <1>1 DEF PrInv, PrTypeOK
  <1>4. handler[h].event \in Events /\ sent[handler[h].event] # Nothing
    BY <1>1 DEF PrInv, Grounded
  <1>5. card' \in [number : 0..MaxNumber, state : PrStates]
    <2>1. sent[handler[h].event] \in Payload /\ handler[h].state \in PrStates
      BY <1>4 DEF PrInv, PrTypeOK, Handler
    <2> QED
      BY ONLY <1>1, <2>1 DEF NewCard, Payload
  <1>6. CardShape'
    <2>1. NewCard(h)' = NewCard(h)
      BY <1>1, <1>2, <1>3 DEF NewCard, github
    <2> QED
      BY <1>1, <1>2, <1>3, <2>1 DEF CardShape
  <1>7. Writing(h) /\ torn' \in 0..MaxTorn
    BY <1>1 DEF Writing, PrInv, PrTypeOK
  <1> QED
    BY <1>1, <1>2, <1>4, <1>5, <1>6, <1>7, ThreadInv

LEMMA FinishInv ==
    ASSUME PrInv, NEW h \in Handlers, Finish(h)
    PROVE  PrInv'
  <1>1. /\ handler[h].pc = "handled" /\ handler' = [handler EXCEPT ![h] = IdleHandler]
        /\ done' \in {done, done \cup {handler[h].event}}
        /\ UNCHANGED <<second, pulls, sent, record, card, torn>>
    BY DEF Finish, github
  <1>2. handler'[h] = IdleHandler /\ \A u \in Handlers \ {h} : handler'[u] = handler[u]
    BY <1>1 DEF PrInv, PrTypeOK
  <1>3. handler[h].event \in Events /\ sent[handler[h].event] # Nothing
    BY <1>1 DEF PrInv, Grounded
  <1>4. PrTypeOK'
    BY <1>1, <1>3, IdleType DEF PrInv, PrTypeOK
  <1>5. CardShape'
    BY <1>1, <1>2, IdleType DEF PrInv, CardShape, NewCard
  <1>6. \A u \in Handlers : Writing(u)' => Writing(u) /\ Write(u)' = Write(u)
                                          /\ handler'[u].event = handler[u].event
    BY <1>1, <1>2, IdleType DEF Writing, Write
  <1>7. \A e \in Events : Processed(e)' => Processed(e)
    BY ONLY <1>1, <1>2, IdleType, h \in Handlers DEF Processed
  <1>8. \A e \in done' : sent[e] # Nothing
    BY <1>1, <1>3 DEF PrInv, Grounded
  <1>9. \A u \in Handlers : handler'[u].pc # "idle" => /\ handler'[u].event \in Events
                                                     /\ sent[handler'[u].event] # Nothing
    BY <1>2, IdleType DEF PrInv, Grounded
  <1> QED
    BY <1>1, <1>4, <1>5, <1>6, <1>7, <1>8, <1>9, QuietInv DEF github

LEMMA CrashInv ==
    ASSUME PrInv, BridgeDies
    PROVE  PrInv'
  <1>1. /\ handler' = [h \in Handlers |-> IdleHandler]
        /\ UNCHANGED <<second, pulls, sent, done, record, card>>
    BY DEF BridgeDies, github
  <1>2. PrTypeOK'
    <2>1. torn' \in 0..MaxTorn
      BY PullRequestsAssumption DEF BridgeDies, PrInv, PrTypeOK
    <2> QED
      BY <1>1, <2>1, IdleType DEF PrInv, PrTypeOK
  <1>3. CardShape'
    <2> SUFFICES ASSUME torn' = 0
                 PROVE  card.number = record.number /\ card.state = record.state
      BY <1>1, IdleType DEF CardShape
    <2>1. torn = 0 /\ ~\E h \in Handlers : handler[h].pc = "recording"
      BY DEF BridgeDies, PrInv, PrTypeOK
    <2> QED
      BY <2>1 DEF PrInv, CardShape
  <1>4. \A h \in Handlers : ~Writing(h)' /\ handler'[h].pc = "idle"
    BY <1>1, IdleType DEF Writing
  <1>5. \A e \in Events : Processed(e)' => Processed(e)
    BY <1>1, IdleType DEF Processed
  <1>6. \A e \in done' : sent[e] # Nothing
    BY <1>1 DEF PrInv, Grounded
  <1> QED
    BY <1>1, <1>2, <1>3, <1>4, <1>5, <1>6, QuietInv DEF github

-----------------------------------------------------------------------------
(* The decision and the record.                                            *)

\* What Decide compares with the record: the event, or what GitHub says now.
Answer(e) == [number |-> sent[e].number,
              state |-> IF Ambiguous(sent[e]) THEN Current(sent[e].number) ELSE sent[e].state,
              time |-> IF Ambiguous(sent[e]) THEN pulls[sent[e].number].time ELSE sent[e].time]

Applies(e) == ShouldApply(Answer(e).number, Answer(e).state, Answer(e).time, Ambiguous(sent[e]))

LEMMA AnswerPossible ==
    ASSUME PrInv, NEW e \in Events, sent[e] # Nothing
    PROVE  Possible(sent[e]) /\ Possible(Answer(e)) /\ Answer(e).number = sent[e].number
  <1>1. Possible(sent[e])
    BY DEF PrInv, Grounded
  <1>2. pulls[sent[e].number].time \in Seconds
    BY <1>1 DEF PrInv, PrTypeOK, Possible
  <1>3. CASE Ambiguous(sent[e])
    <2>1. /\ Current(sent[e].number) \in PrStates
          /\ Current(sent[e].number) = "done" => pulls[sent[e].number].state = "merged"
      BY PrStates3 DEF Current, PrStates
    <2> QED
      BY <1>1, <1>2, <1>3, <2>1 DEF Possible, Answer, Seconds
  <1>4. CASE ~Ambiguous(sent[e])
    BY <1>1, <1>4 DEF Possible, Answer
  <1> QED
    BY <1>1, <1>3, <1>4 DEF Answer

\* What is applied takes the record forward.
LEMMA AppliedIsLater ==
    ASSUME PrInv, NEW e \in Events, sent[e] # Nothing, Applies(e)
    PROVE  \/ Answer(e).number > record.number
           \/ /\ Answer(e).number = record.number
              /\ Answer(e).time >= record.time
              /\ record.state = "done" => Answer(e).state = "done"
  <1>1. Possible(Answer(e)) /\ record \in Payload
    BY AnswerPossible DEF PrInv, PrTypeOK
  <1>2. Answer(e).number \in Nat /\ Answer(e).number > 0 /\ Answer(e).time \in Nat
        /\ record.time \in Nat
    BY <1>1, PullRequestsAssumption DEF Possible, Payload, Numbers, Seconds
  <1> QED
    BY ONLY <1>2, Applies(e) DEF Applies, ShouldApply

\* Once its newest event has been processed, a pull request is applied only as it is.
LEMMA AppliedIsCurrent ==
    ASSUME PrInv, NEW n \in Numbers, NEW e \in Events, Newest(n, e),
           NEW f \in Events, sent[f] # Nothing, sent[f].number = n, Applies(f),
           Processed(e) \/ f = e
    PROVE  Reflects(n, e, Answer(f))
  <1>1. Possible(sent[e]) /\ Possible(sent[f]) /\ Answer(f).number = n
    BY AnswerPossible, PullRequestsAssumption DEF Newest, Nothing, Numbers
  <1>2. /\ sent[e].time \in Nat /\ sent[f].time \in Nat /\ sent[f].time <= sent[e].time
        /\ n \in Nat /\ n > 0 /\ record.time \in Nat /\ record.number \in Nat
    BY <1>1 DEF PrInv, PrTypeOK, Payload, Possible, Seconds, Numbers, Newest
  <1>3. CASE Ambiguous(sent[f])
    BY <1>1, <1>3 DEF Reflects, Answer, Possible, Newest
  <1>4. CASE ~Ambiguous(sent[f])
    <2>1. Answer(f).state = sent[f].state /\ Answer(f).time = sent[f].time
      BY <1>4 DEF Answer
    <2>2. CASE f = e
      BY <1>1, <1>2, <2>1, <2>2 DEF Reflects, Newest
    <2>3. CASE Processed(e)
      <3>1. record.number > n \/ (record.number = n /\ record.time >= sent[e].time)
        BY <2>3 DEF Newest, Reflects
      <3>2. record.number = n /\ sent[f].time > record.time
        BY ONLY <1>1, <1>2, <1>4, <2>1, <3>1, Applies(f) DEF Applies, ShouldApply
      <3> QED
        BY ONLY <1>2, <3>1, <3>2
    <2> QED
      BY <2>2, <2>3
  <1> QED
    BY <1>3, <1>4

\* The newest event is passed over only when the record is as far.
LEMMA PassedOver ==
    ASSUME PrInv, NEW n \in Numbers, NEW e \in Events, Newest(n, e), ~Applies(e)
    PROVE  record.number > n \/ Reflects(n, e, record)
  <1> SUFFICES ASSUME ~(record.number > n)
               PROVE  Reflects(n, e, record)
    OBVIOUS
  <1>1. /\ Possible(sent[e]) /\ Answer(e).number = n
        /\ sent[e].state = Current(n) /\ sent[e].number = n
    BY AnswerPossible, PullRequestsAssumption DEF Newest, Nothing, Numbers, PrInv, Grounded
  <1>2. /\ sent[e].time \in Nat /\ pulls[n].time \in Nat /\ sent[e].time <= pulls[n].time
        /\ n \in Nat /\ n > 0 /\ record.time \in Nat /\ record.number \in Nat
    BY <1>1 DEF PrInv, PrTypeOK, Payload, Possible, Seconds, Numbers
  <1>3. record.number = n
    BY ONLY <1>1, <1>2, ~Applies(e), ~(record.number > n) DEF Applies, ShouldApply
  <1>4. Possible(record)
    BY <1>2, <1>3 DEF PrInv, Grounded, Nothing
  <1>5. record.time <= pulls[n].time /\ (record.state = "done" => Current(n) = "done")
    BY <1>3, <1>4, PrStates3 DEF Possible, Current
  <1>6. Answer(e).state = Current(n)
    BY <1>1 DEF Answer
  <1>7. /\ ~(Answer(e).time > record.time)
        /\ Ambiguous(sent[e]) => Answer(e).time # record.time \/ Current(n) = record.state
    BY ONLY <1>1, <1>3, <1>5, <1>6, ~Applies(e) DEF Applies, ShouldApply
  <1>8. CASE Ambiguous(sent[e])
    <2>1. Answer(e).time = pulls[n].time
      BY <1>1, <1>8 DEF Answer
    <2> QED
      BY ONLY <1>1, <1>2, <1>3, <1>5, <1>7, <1>8, <2>1 DEF Ambiguous
  <1>9. CASE ~Ambiguous(sent[e])
    <2>1. sent[e].time <= record.time
      BY <1>2, <1>7, <1>9 DEF Answer
    <2>2. record.state = Current(n)
      BY <1>1, <1>2, <1>3, <1>9, <2>1 DEF Ambiguous, Newest, Later
    <2> QED
      BY <1>2, <1>3, <2>1, <2>2 DEF Reflects
  <1> QED
    BY <1>8, <1>9

\* Decide goes on to write the answer, or is through with the event.
LEMMA Decided ==
    ASSUME PrInv, NEW h \in Handlers, Decide(h)
    PROVE  /\ handler[h].pc = "handling" /\ \A u \in Handlers : ~Writing(u)
           /\ handler[h].event \in Events /\ sent[handler[h].event] # Nothing
           /\ handler' \in [Handlers -> Handler]
           /\ handler'[h].event = handler[h].event
           /\ \A u \in Handlers \ {h} : handler'[u] = handler[u]
           /\ \/ /\ Applies(handler[h].event)
                 /\ handler'[h].pc = "updating" /\ Write(h)' = Answer(handler[h].event)
              \/ ~Applies(handler[h].event) /\ handler'[h].pc = "handled"
           /\ UNCHANGED <<second, pulls, sent, done, record, card, torn>>
  <1> DEFINE e == handler[h].event
             r == [handler[h] EXCEPT !.pc = "updating", !.state = Answer(e).state,
                                     !.time = Answer(e).time]
             q == [handler[h] EXCEPT !.pc = "handled"]
  <1>1. handler[h].pc = "handling" /\ \A u \in Handlers : ~Writing(u)
    BY DEF Decide, LockFree, Writing
  <1>2. e \in Events /\ sent[e] # Nothing /\ handler[h] \in Handler
    BY <1>1 DEF PrInv, Grounded, PrTypeOK
  <1>3. Answer(e).state \in PrStates /\ Answer(e).time \in Seconds
    BY <1>2, AnswerPossible DEF Possible
  <1>4. /\ r \in Handler /\ r.event = e /\ r.pc = "updating"
        /\ r.state = Answer(e).state /\ r.time = Answer(e).time
        /\ q \in Handler /\ q.event = e /\ q.pc = "handled"
    <2> HIDE DEF e
    <2>1. handler[h].event = e
      BY DEF e
    <2> QED
      BY ONLY <1>2, <1>3, <2>1 DEF Handler
  <1>5. /\ \/ Applies(e) /\ handler' = [handler EXCEPT ![h] = r]
           \/ ~Applies(e) /\ handler' = [handler EXCEPT ![h] = q]
        /\ UNCHANGED <<second, pulls, sent, done, record, card, torn>>
    BY DEF Decide, MoveTo, Applies, Answer, Current, github
  <1> HIDE DEF r, q
  <1>6. /\ handler' \in [Handlers -> Handler] /\ \A u \in Handlers \ {h} : handler'[u] = handler[u]
        /\ \/ Applies(e) /\ handler'[h] = r
           \/ ~Applies(e) /\ handler'[h] = q
    BY <1>4, <1>5 DEF PrInv, PrTypeOK
  <1>7. handler'[h] = r => Write(h)' = Answer(e)
    BY <1>4, <1>5 DEF Write, Answer
  <1> QED
    BY <1>1, <1>2, <1>4, <1>5, <1>6, <1>7

LEMMA DecideInv ==
    ASSUME PrInv, NEW h \in Handlers, Decide(h)
    PROVE  PrInv'
  <1> DEFINE f == handler[h].event
  <1>1. /\ handler[h].pc = "handling" /\ \A u \in Handlers : ~Writing(u)
        /\ f \in Events /\ sent[f] # Nothing /\ handler' \in [Handlers -> Handler]
        /\ handler'[h].event = f /\ \A u \in Handlers \ {h} : handler'[u] = handler[u]
        /\ \/ Applies(f) /\ handler'[h].pc = "updating" /\ Write(h)' = Answer(f)
           \/ ~Applies(f) /\ handler'[h].pc = "handled"
        /\ UNCHANGED <<second, pulls, sent, done, record, card, torn>>
    BY Decided
  <1>2. PrTypeOK'
    BY <1>1 DEF PrInv, PrTypeOK
  <1>3. Grounded'
    BY <1>1 DEF PrInv, Grounded, Possible
  <1>4. CardShape'
    <2>1. \A u \in Handlers : handler[u].pc # "recording" /\ handler'[u].pc # "recording"
      BY <1>1 DEF Writing
    <2> QED
      BY <1>1, <2>1 DEF PrInv, CardShape
  <1>5. \A u \in Handlers : Writing(u)' => u = h /\ Applies(f) /\ Write(u)' = Answer(f)
    BY <1>1 DEF Writing
  <1>6. LockShape'
    <2> SUFFICES ASSUME NEW u \in Handlers, Writing(u)'
                 PROVE  /\ Possible(Write(u))' /\ \A v \in Handlers : Writing(v)' => v = u
                        /\ \/ Write(u)'.number > record'.number
                           \/ /\ Write(u)'.number = record'.number
                              /\ Write(u)'.time >= record'.time
                              /\ record'.state = "done" => Write(u)'.state = "done"
      BY DEF LockShape
    <2>1. u = h /\ Applies(f) /\ Write(u)' = Answer(f) /\ Possible(Answer(f))
      BY <1>1, <1>5, AnswerPossible
    <2>2. Possible(Write(u))'
      BY ONLY <1>1, <2>1 DEF Possible
    <2> QED
      BY <1>1, <1>5, <2>1, <2>2, AppliedIsLater
  <1>7. NewestKnown'
    <2> SUFFICES ASSUME NEW n \in Numbers, pulls[n].state # "none"
                 PROVE  \E e \in Events : Newest(n, e)'
      BY <1>1 DEF NewestKnown
    <2>1. PICK e \in Events : Newest(n, e)
      BY DEF PrInv, NewestKnown
    <2>2. Processed(e)' => Processed(e) \/ (f = e /\ ~Applies(f))
      BY <1>1 DEF Processed
    <2>3. Processed(e)' => record.number > n \/ Reflects(n, e, record)
      BY <2>1, <2>2, PassedOver DEF Newest
    <2>4. ASSUME NEW u \in Handlers, Writing(u)'
          PROVE  /\ Later(n, e, Answer(f))
                 /\ Answer(f).number = n /\ (Processed(e) \/ f = e) => Reflects(n, e, Answer(f))
      <3>1. Applies(f) /\ Answer(f).number = sent[f].number
        BY <1>1, <1>5, <2>4, AnswerPossible
      <3>2. Later(n, e, Answer(f))
        BY <2>1, <1>1 DEF Later, Answer, Newest, PrInv, PrTypeOK, Payload, Seconds
      <3> QED
        BY <1>1, <2>1, <3>1, <3>2, AppliedIsCurrent
    <2>5. Current(n)' = Current(n)
      BY <1>1 DEF Current
    <2>6. \A u \in Handlers : Writing(u)' =>
             /\ Write(u)' = Answer(f) /\ handler'[u].event = f /\ (Processed(e)' => Processed(e))
             /\ Later(n, e, Answer(f))
             /\ Answer(f).number = n /\ (Processed(e) \/ f = e) => Reflects(n, e, Answer(f))
      BY <1>1, <1>5, <2>2, <2>4
    <2> HIDE DEF f
    <2> QED
      BY ONLY <1>1, <2>1, <2>3, <2>5, <2>6 DEF Newest, Later, Reflects
  <1> QED
    BY <1>2, <1>3, <1>4, <1>6, <1>7 DEF PrInv

LEMMA RecordInv ==
    ASSUME PrInv, NEW h \in Handlers, Record(h)
    PROVE  PrInv'
  <1> DEFINE f == handler[h].event
             q == [handler[h] EXCEPT !.pc = "handled"]
  <1>1. /\ handler[h].pc = "recording" /\ record' = Write(h) /\ handler' = [handler EXCEPT ![h] = q]
        /\ UNCHANGED <<second, pulls, sent, done, card, torn>>
    BY DEF Record, MoveTo, Write, github
  <1>2. q \in Handler /\ q.pc = "handled" /\ q.event = f
    <2>1. handler[h] \in Handler
      BY DEF PrInv, PrTypeOK
    <2> QED
      BY ONLY <2>1 DEF Handler
  <1> HIDE DEF q
  <1>3. handler'[h] = q /\ \A u \in Handlers \ {h} : handler'[u] = handler[u]
    BY <1>1 DEF PrInv, PrTypeOK
  <1>4. /\ f \in Events /\ sent[f] # Nothing /\ Possible(Write(h)) /\ Writing(h)
        /\ \A u \in Handlers : Writing(u) => u = h
        /\ \/ Write(h).number > record.number
           \/ Write(h).number = record.number
    BY <1>1 DEF PrInv, Grounded, LockShape, Writing
  <1>5. \A u \in Handlers : ~Writing(u)'
    BY <1>2, <1>3, <1>4 DEF Writing
  <1>6. PrTypeOK'
    <2>1. Write(h) \in Payload
      BY <1>4, PullRequestsAssumption DEF Possible, Payload, Write, Numbers
    <2> QED
      BY <1>1, <1>2, <2>1 DEF PrInv, PrTypeOK
  <1>7. Grounded'
    <2>1. Possible(record)'
      BY ONLY <1>1, <1>4 DEF Possible
    <2> QED
      BY <1>1, <1>2, <1>3, <1>4, <2>1 DEF PrInv, Grounded, Possible
  <1>8. LockShape'
    BY <1>5 DEF LockShape
  <1>9. NewestKnown'
    <2> SUFFICES ASSUME NEW n \in Numbers, pulls[n].state # "none"
                 PROVE  \E e \in Events : Newest(n, e)'
      BY <1>1 DEF NewestKnown
    <2>1. PICK e \in Events : Newest(n, e)
      BY DEF PrInv, NewestKnown
    <2>2. Processed(e)' => Processed(e) \/ f = e
      BY <1>1, <1>2, <1>3 DEF Processed
    <2>3. Processed(e)' => record'.number > n \/ Reflects(n, e, Write(h))
      <3>1. ASSUME Write(h).number = n, Processed(e) \/ f = e
            PROVE  Reflects(n, e, Write(h))
        BY <1>4, <2>1, <3>1 DEF Newest
      <3>2. ASSUME Write(h).number # n, Processed(e)
            PROVE  Write(h).number > n
        <4>1. record.number >= n /\ record.number \in Nat /\ Write(h).number \in Nat /\ n \in Nat
          BY <1>4, <2>1, <3>2 DEF Newest, Reflects, PrInv, PrTypeOK, Payload, Possible, Numbers
        <4> QED
          BY <1>4, <3>2, <4>1
      <3>3. f = e => Write(h).number = n
        BY <2>1 DEF Newest, Write
      <3> QED
        BY <1>1, <2>2, <3>1, <3>2, <3>3
    <2>4. Later(n, e, Write(h)) /\ Current(n)' = Current(n)
      BY <1>1, <1>4, <2>1 DEF Newest, Current
    <2> QED
      BY ONLY <1>1, <1>5, <2>1, <2>3, <2>4 DEF Newest, Later, Reflects
  <1>10. CardShape'
    <2> SUFFICES ASSUME torn = 0
                 PROVE  card.number = record'.number /\ card.state = record'.state
      BY <1>1, <1>5 DEF CardShape, Writing
    <2>1. card = NewCard(h)
      BY <1>1, <1>4 DEF PrInv, CardShape, Writing
    <2> QED
      BY <1>1, <2>1 DEF NewCard, Write
  <1> QED
    BY <1>6, <1>7, <1>8, <1>9, <1>10 DEF PrInv

-----------------------------------------------------------------------------
(* GitHub.                                                                 *)

\* A change of pull request n is told by e, which nobody has seen yet.
LEMMA ChangeInv ==
    ASSUME PrInv, NEW e \in Events, NEW n \in Numbers,
           NEW s \in {"draft", "open", "closed", "merged"}, Change(e, n, s)
    PROVE  PrInv'
  <1> DEFINE now == [state |-> s, time |-> second]
             told == [number |-> n, state |-> PrState(s), time |-> second]
  <1>1. /\ sent[e] = Nothing /\ CanBecome(n, s)
        /\ pulls' = [pulls EXCEPT ![n] = now] /\ sent' = [sent EXCEPT ![e] = told]
        /\ UNCHANGED <<second, done, record, card, handler, torn>>
    BY DEF Change
  <1>2. /\ pulls'[n] = now /\ \A m \in Numbers \ {n} : pulls'[m] = pulls[m]
        /\ sent'[e] = told /\ \A f \in Events \ {e} : sent'[f] = sent[f]
    BY <1>1 DEF PrInv, PrTypeOK
  <1>3. second \in Seconds /\ second \in Nat /\ n \in Nat /\ n > 0 /\ 0 \notin Numbers
    BY PullRequestsAssumption DEF PrInv, PrTypeOK, Seconds, Numbers
  <1>4. told \in Payload /\ told # Nothing /\ told.number = n /\ told.state = PrState(s)
        /\ told.time = second
    BY <1>3, PrStates3 DEF Payload, Nothing, PrStates, Numbers
  <1>5. /\ now \in [state : {"none", "draft", "open", "closed", "merged"}, time : Seconds]
        /\ now.state = s /\ now.time = second
    BY <1>3
  <1>6. pulls[n].state # "merged" /\ pulls[n].time <= second
    BY <1>1 DEF CanBecome, PrInv, Grounded
  <1>7. e \notin done /\ \A h \in Handlers : handler[h].pc # "idle" => handler[h].event # e
    BY <1>1 DEF PrInv, Grounded
  <1> HIDE DEF now, told
  <1>8. PrTypeOK'
    BY <1>1, <1>4, <1>5 DEF PrInv, PrTypeOK
  <1>9. ASSUME NEW w, Possible(w)
        PROVE  /\ w.number \in Numbers /\ w.state \in PrStates /\ w.time \in Seconds
               /\ pulls'[w.number].state # "none" /\ w.time <= pulls'[w.number].time
               /\ w.state = "done" => pulls'[w.number].state = "merged"
    <2>1. CASE w.number = n
      <3>1. /\ w.time \in Nat /\ w.time <= pulls[n].time /\ pulls[n].time \in Nat
            /\ w.state # "done"
        BY <1>6, <1>9, <2>1 DEF Possible, PrInv, PrTypeOK, Seconds
      <3> QED
        BY <1>2, <1>3, <1>5, <1>6, <1>9, <2>1, <3>1 DEF Possible
    <2>2. CASE w.number # n
      BY <1>2, <1>9, <2>2 DEF Possible
    <2> QED
      BY <2>1, <2>2
  <1>10. Grounded'
    <2>1. \A m \in Numbers : pulls'[m].time <= second
      BY <1>2, <1>3, <1>5 DEF PrInv, Grounded
    <2>2. Possible(sent[e])'
      BY <1>2, <1>3, <1>4, <1>5, PrStates3 DEF Possible, PrStates
    <2>3. ASSUME NEW f \in Events \ {e}
          PROVE  sent'[f] = Nothing \/ Possible(sent[f])'
      <3>1. sent'[f] = sent[f] /\ (sent[f] = Nothing \/ Possible(sent[f]))
        BY <1>2 DEF PrInv, Grounded
      <3> QED
        BY <1>9, <3>1 DEF Possible
    <2>4. record = Nothing \/ Possible(record)'
      BY <1>1, <1>9 DEF PrInv, Grounded, Possible
    <2> QED
      BY <1>1, <1>2, <1>4, <1>7, <2>1, <2>2, <2>3, <2>4 DEF PrInv, Grounded
  <1>11. \A h \in Handlers : Writing(h) => Write(h)' = Write(h)
    BY <1>1, <1>2, <1>7 DEF Writing, Write, PrInv, Grounded
  <1>12. LockShape'
    <2> SUFFICES ASSUME NEW h \in Handlers, Writing(h)
                 PROVE  /\ Possible(Write(h))' /\ \A u \in Handlers : Writing(u) => u = h
                        /\ \/ Write(h)'.number > record.number
                           \/ /\ Write(h)'.number = record.number
                              /\ Write(h)'.time >= record.time
                              /\ record.state = "done" => Write(h)'.state = "done"
      BY <1>1 DEF LockShape, Writing
    <2>1. Write(h)' = Write(h) /\ Possible(Write(h))
      BY <1>11 DEF PrInv, LockShape
    <2>2. Possible(Write(h))'
      BY <1>9, <2>1 DEF Possible
    <2> QED
      BY <2>1, <2>2 DEF PrInv, LockShape
  <1>13. \A f \in Events : Processed(f)' = Processed(f)
    BY <1>1 DEF Processed
  <1>14. Newest(n, e)'
    <2>1. ~Processed(e)' /\ \A h \in Handlers : Writing(h)' => Writing(h) /\ handler'[h].event # e
      BY <1>1, <1>7 DEF Processed, Writing
    <2>2. \A f \in Events : sent'[f].number = n => sent'[f].time <= second
      BY <1>2, <1>3, <1>4, <1>6 DEF PrInv, Grounded, Possible, PrTypeOK, Seconds, Nothing
    <2>3. ASSUME NEW w, Possible(w), w.number = n
          PROVE  ~(w.time > second)
      BY <1>3, <1>6, <2>3 DEF Possible, PrInv, PrTypeOK, Seconds
    <2>4. Later(n, e, record)'
      BY <1>1, <1>2, <1>3, <1>4, <2>3 DEF Later, PrInv, Grounded, Nothing
    <2>5. ASSUME NEW h \in Handlers, Writing(h)'
          PROVE  Later(n, e, Write(h))'
      <3>1. Possible(Write(h)) /\ Write(h)' = Write(h)
        BY <1>11, <2>1, <2>5 DEF PrInv, LockShape
      <3> QED
        BY <1>2, <1>4, <2>3, <3>1 DEF Later
    <2> QED
      BY <1>2, <1>4, <1>5, <2>1, <2>2, <2>4, <2>5 DEF Newest, Current
  <1>15. ASSUME NEW m \in Numbers \ {n}, NEW f \in Events, Newest(m, f)
         PROVE  Newest(m, f)'
    <2>1. f # e /\ sent'[f] = sent[f] /\ Current(m)' = Current(m)
      BY <1>1, <1>2, <1>3, <1>15 DEF Newest, Nothing, Current
    <2>2. \A g \in Events : sent'[g].number = m => sent'[g].time <= sent'[f].time
      BY <1>2, <1>4, <1>15, <2>1 DEF Newest
    <2>3. \A h \in Handlers : Writing(h)' <=> Writing(h)
      BY <1>1 DEF Writing
    <2> QED
      BY ONLY <1>1, <1>11, <1>13, <1>15, <2>1, <2>2, <2>3 DEF Newest, Later, Reflects
  <1>16. NewestKnown'
    BY <1>2, <1>14, <1>15 DEF PrInv, NewestKnown
  <1>17. CardShape'
    BY <1>1, <1>2, <1>7 DEF PrInv, CardShape, NewCard, Grounded
  <1> QED
    BY <1>8, <1>10, <1>12, <1>16, <1>17 DEF PrInv

\* Time passes, of a pull request or of the clock.
LEMMA TimeInv ==
    ASSUME PrInv, NextSecond \/ \E n \in Numbers : Touch(n)
    PROVE  PrInv'
  <1>1. UNCHANGED <<sent, done, record, card, handler, torn>>
    BY DEF NextSecond, Touch
  <1>2. /\ PrTypeOK' /\ second <= second'
        /\ \A n \in Numbers : /\ pulls'[n].state = pulls[n].state
                              /\ pulls[n].time <= pulls'[n].time /\ pulls'[n].time <= second'
    <2>1. /\ second \in Nat /\ second \in 0..MaxSecond
          /\ \A n \in Numbers : pulls[n].time \in Nat /\ pulls[n].time <= second
      BY DEF PrInv, PrTypeOK, Seconds, Grounded
    <2>2. CASE NextSecond
      <3>1. second' = second + 1 /\ second' \in Seconds /\ pulls' = pulls
        BY <2>1, <2>2, PullRequestsAssumption DEF NextSecond, Seconds
      <3> QED
        BY <1>1, <2>1, <3>1 DEF PrInv, PrTypeOK
    <2>3. CASE \E n \in Numbers : Touch(n)
      <3>1. PICK n \in Numbers : Touch(n)
        BY <2>3
      <3>2. /\ second' = second
            /\ pulls' = [pulls EXCEPT ![n] = [pulls[n] EXCEPT !.time = second]]
        BY <3>1 DEF Touch
      <3>3. LET r == [pulls[n] EXCEPT !.time = second]
            IN  /\ r \in [state : {"none", "draft", "open", "closed", "merged"}, time : Seconds]
                /\ r.time = second /\ r.state = pulls[n].state
        BY DEF PrInv, PrTypeOK
      <3> QED
        BY <1>1, <2>1, <3>2, <3>3 DEF PrInv, PrTypeOK
    <2> QED
      BY <2>2, <2>3
  <1>3. \A w : Possible(w) =>
            /\ w.number \in Numbers /\ w.state \in PrStates /\ w.time \in Seconds
            /\ pulls'[w.number].state # "none" /\ w.time <= pulls'[w.number].time
            /\ w.state = "done" => pulls'[w.number].state = "merged"
    <2> SUFFICES ASSUME NEW w, Possible(w) PROVE w.time <= pulls'[w.number].time
      BY <1>2 DEF Possible
    <2>1. w.time \in Nat /\ pulls[w.number].time \in Nat /\ pulls'[w.number].time \in Nat
      BY <1>2 DEF Possible, PrInv, PrTypeOK, Seconds
    <2> QED
      BY <1>2, <2>1 DEF Possible
  <1>4. Grounded'
    BY <1>1, <1>2, <1>3 DEF PrInv, Grounded, Possible
  <1>5. \A h \in Handlers : Writing(h)' = Writing(h) /\ Write(h)' = Write(h)
    BY <1>1 DEF Writing, Write
  <1>6. LockShape'
    <2>1. \A h \in Handlers : Writing(h) => Possible(Write(h))'
      BY <1>3, <1>5 DEF PrInv, LockShape, Possible
    <2> QED
      BY <1>1, <1>5, <2>1 DEF PrInv, LockShape
  <1>7. NewestKnown'
    <2> SUFFICES ASSUME NEW n \in Numbers, pulls[n].state # "none"
                 PROVE  \E e \in Events : Newest(n, e)'
      BY <1>2 DEF NewestKnown
    <2>1. PICK e \in Events : Newest(n, e)
      BY DEF PrInv, NewestKnown
    <2>2. Processed(e)' = Processed(e) /\ Current(n)' = Current(n)
      BY <1>1, <1>2 DEF Processed, Current
    <2> QED
      BY ONLY <1>1, <1>5, <2>1, <2>2 DEF Newest, Later, Reflects
  <1>8. CardShape'
    BY <1>1 DEF PrInv, CardShape, NewCard
  <1> QED
    BY <1>2, <1>4, <1>6, <1>7, <1>8 DEF PrInv

-----------------------------------------------------------------------------
(* The theorems.                                                           *)

LEMMA PrInvNext == PrInv /\ [PrNext]_prVars => PrInv'
  <1> SUFFICES ASSUME PrInv, [PrNext]_prVars PROVE PrInv'
    OBVIOUS
  <1>1. CASE GitHub
    BY <1>1, ChangeInv, TimeInv DEF GitHub
  <1>2. ASSUME NEW h \in Handlers, Handle(h)
        PROVE  PrInv'
    BY <1>2, TakeInv, DecideInv, GiveUpInv, UpdateCardInv, RecordInv, FinishInv DEF Handle
  <1>3. CASE BridgeDies
    BY <1>3, CrashInv
  <1>4. CASE UNCHANGED prVars
    <2>1. UNCHANGED <<github, record, done, handler, card, torn>>
      BY <1>4 DEF prVars
    <2>2. UNCHANGED <<second, pulls, sent>>
      BY <2>1 DEF github
    <2>3. PrTypeOK' /\ CardShape'
      BY <2>1, <2>2 DEF PrInv, PrTypeOK, CardShape, NewCard
    <2> QED
      BY <2>1, <2>2, <2>3, QuietInv DEF Writing, Write, Processed, PrInv, Grounded
  <1> QED
    BY <1>1, <1>2, <1>3, <1>4 DEF PrNext

LEMMA SpecInv == PrSpec => []PrInv
  BY PrInvInit, PrInvNext, PTL DEF PrSpec

\* Payloads, rows, cards and threads are what the handler's code takes them for.
THEOREM PrTypeCorrect == PrSpec => []PrTypeOK
  <1>1. PrInv => PrTypeOK
    BY DEF PrInv
  <1> QED
    BY <1>1, SpecInv, PTL

LEMMA SettledRecord == PrInv /\ Settled => RecordConverges
  <1> SUFFICES ASSUME PrInv, Settled
               PROVE  /\ \A n \in Numbers : pulls[n].state # "none" => n <= record.number
                      /\ record.number # 0 => record.state = PrState(pulls[record.number].state)
    BY DEF RecordConverges
  <1>1. ASSUME NEW n \in Numbers, pulls[n].state # "none"
        PROVE  /\ n \in Nat /\ record.number \in Nat
               /\ record.number > n \/ (record.number = n /\ record.state = Current(n))
    <2>1. PICK e \in Events : Newest(n, e)
      BY <1>1 DEF PrInv, NewestKnown
    <2>2. sent[e] # Nothing
      BY <2>1, PullRequestsAssumption DEF Newest, Nothing, Numbers
    <2>3. Processed(e)
      BY <2>2 DEF Settled, Processed
    <2> QED
      BY <2>1, <2>3 DEF Newest, Reflects, PrInv, PrTypeOK, Payload, Numbers
  <1>2. ASSUME record.number # 0
        PROVE  record.number \in Numbers /\ pulls[record.number].state # "none"
    BY <1>2 DEF PrInv, Grounded, Possible, Nothing
  <1>3. \A n \in Numbers : pulls[n].state # "none" => n <= record.number
    BY <1>1
  <1>4. record.number # 0 => record.state = PrState(pulls[record.number].state)
    BY <1>1, <1>2 DEF Current
  <1> QED
    BY <1>3, <1>4

\* However the events of a branch are ordered, repeated, interleaved and cut off: once
\* all are done with, the record (_should_apply, record_pr_event) is the newest pull
\* request in the state GitHub has it in.
THEOREM RecordRight == PrSpec => []RecordConverges
  <1>1. PrInv => RecordConverges
    BY SettledRecord DEF RecordConverges
  <1> QED
    BY <1>1, SpecInv, PTL

\* And so is the card in Yonote, if no handler was cut off between update_task and
\* record_pr_event.
THEOREM CardRight == PrSpec => []CardConvergesUntorn
  <1>1. ASSUME PrInv PROVE CardConvergesUntorn
    <2> SUFFICES ASSUME torn = 0, Settled
                 PROVE  /\ card.number = record.number
                        /\ record.number # 0 => card.state = PrState(pulls[record.number].state)
      BY DEF CardConvergesUntorn, CardConverges
    <2>1. card.number = record.number /\ card.state = record.state
      BY <1>1 DEF PrInv, CardShape, Settled
    <2> QED
      BY <1>1, <2>1, SettledRecord DEF RecordConverges
  <1> QED
    BY <1>1, SpecInv, PTL

\* No event, whenever it comes, takes the record back to an older pull request or an
\* older time, or a merged one out of "done".
THEOREM RecordForward == PrSpec => RecordOnlyAdvances
  <1>1. ASSUME PrInv, [PrNext]_prVars PROVE [RecordAdvances]_prVars
    <2>1. CASE UNCHANGED record
      <3>1. record.time \in Nat
        BY <1>1 DEF PrInv, PrTypeOK, Payload, Seconds
      <3> QED
        BY <2>1, <3>1 DEF RecordAdvances
    <2>2. ASSUME NEW h \in Handlers, Record(h) PROVE RecordAdvances
      <3>1. record' = Write(h) /\ Writing(h)
        BY <2>2 DEF Record, Write, Writing
      <3> QED
        BY <1>1, <3>1 DEF PrInv, LockShape, RecordAdvances
    <2>3. UNCHANGED record \/ \E h \in Handlers : Record(h)
      BY <1>1 DEF PrNext, GitHub, Change, Touch, NextSecond, Handle, Take, Decide, DecideFails,
                  UpdateCard, UpdateFails, UpdateUnanswered, RecordFails, Finish, BridgeDies, prVars
    <2> QED
      BY <2>1, <2>2, <2>3
  <1> QED
    BY <1>1, SpecInv, PTL DEF PrSpec, RecordOnlyAdvances

-----------------------------------------------------------------------------
(* Reconciliation.  The inductive invariant.                               *)

\* The later state n of a mapping m, which a pass may have read long ago.
Extends(n, m) ==
    /\ m.id # None => n.id = m.id
    /\ m.branch # None => n.branch = m.branch
    /\ m.starter # None => n.starter = m.starter
    /\ m.url => n.url

\* What pass v knows of the row it works on: its copy of the mapping is an earlier state of
\* the mapping, its snapshot has the people of the card unless they were edited, and each
\* of its steps has what the earlier ones were to provide.
Fits(v) ==
    LET r == Min(v.todo)
        m == v.m
    IN  /\ v.todo # {}
        /\ Filled(m) /\ Extends(mappings[r], m)
        /\ \A x \in Rows : "who" \notin edited[x] => v.seen[x].who = cards[x].who
        /\ v.pc = "register" => m = NoMapping
        /\ v.pc = "reserve" => m.id # None
        /\ v.pc \in {"prepare", "starter"} => m.branch # None
        /\ v.pc = "starter" => v.sha # None
        /\ v.pc \in {"push", "branch", "suite", "publish"} => m.starter # None
        /\ v.pc = "branch" => remote[<<r, m.branch>>] # NoBranch
        /\ v.pc \notin {"register", "find", "suite"} => ~v.seen[r].url
        /\ v.pc \in {"suite", "publish"} => v.seen[r].url \/ m.url
        /\ v.pc = "publish" /\ ForLearner(v.seen[r]) => jobs[r].state = "ready"

PassesFit == \A t \in Threads : thread[t] # Idle => Fits(thread[t])

\* A recorded branch URL is that of a branch.
UrlsExist ==
    \A r \in Rows : mappings[r].url => remote[<<r, mappings[r].branch>>] # NoBranch

Stores == OneStarter /\ WithheldUntilReady /\ CardTellsTheTruth /\ UrlsExist

IInv == TypeOK /\ Stores /\ PassesFit
-----------------------------------------------------------------------------
(* Least and greatest numbers.                                             *)

LEMMA LeastNatural ==
    ASSUME NEW S \in SUBSET Nat, S # {}
    PROVE  \E x \in S : \A y \in S : x <= y
  <1> DEFINE R == {ss \in Nat \X Nat : ss[1] < ss[2]}
  <1>1. IsWellFoundedOn(R, Nat)
    BY NatLessThanWellFounded, Zenon DEF OpToRel
  <1> HIDE DEF R
  <1>2. PICK x \in S : \A y \in S : <<y, x>> \notin R
    BY <1>1, WFMin
  <1>3. \A y \in S : ~(y < x)
    BY <1>2 DEF R
  <1> QED
    BY <1>3

LEMMA LargestNatural ==
    ASSUME NEW S \in SUBSET Nat, IsFiniteSet(S), S # {}
    PROVE  \E x \in S : \A y \in S : y <= x
  <1> DEFINE R == StrictSubsetOrdering(S)
             F == FiniteSubsetsOf(S)
             T == {U \in F : U # {} /\ ~\E x \in U : \A y \in U : y <= x}
  <1>1. IsWellFoundedOn(R, F)
    BY FS_StrictSubsetOrderingWellFounded
  <1>2. T = {}
    <2> SUFFICES ASSUME T # {} PROVE FALSE
      OBVIOUS
    <2>1. PICK U \in T : \A V \in T : ~(<<V, U>> \in R)
      <3> HIDE DEF R, F
      <3>1. T \subseteq F
        OBVIOUS
      <3> HIDE DEF T
      <3> QED
        BY <1>1, <3>1, WFMin
    <2>2. PICK u : u \in U
      OBVIOUS
    <2> DEFINE V == U \ {u}
    <2>3. V \in F /\ <<V, U>> \in R
      BY <2>2, FS_RemoveElement DEF FiniteSubsetsOf, StrictSubsetOrdering
    <2>4. V = {} \/ \E x \in V : \A y \in V : y <= x
      BY <2>1, <2>3
    <2>5. \E x \in U : \A y \in U : y <= x
      BY <2>2, <2>4 DEF FiniteSubsetsOf
    <2> QED
      BY <2>5
  <1> QED
    BY <1>2 DEF FiniteSubsetsOf

LEMMA MinIsIn ==
    ASSUME NEW S \in SUBSET Rows, S # {}
    PROVE  Min(S) \in S /\ Min(S) \in Rows
  <1>1. S \in SUBSET Nat
    BY ReconcileAssumption
  <1>2. \E x \in S : \A y \in S : x <= y
    BY <1>1, LeastNatural
  <1> QED
    BY <1>2 DEF Min

\* The id that is allocated is new.
LEMMA NextTaskIdIsNew ==
    ASSUME mappings \in [Rows -> Mapping]
    PROVE  NextTaskId \in Nat /\ \A r \in Rows : mappings[r].id # NextTaskId
  <1> DEFINE J == {NumberOf(id) : id \in Ids} \cup {0}
  <1>1. Ids \subseteq TaskIds /\ \A r \in Rows : mappings[r].id \in Ids \cup {None}
    BY DEF Ids, Mapping
  <1>2. \A id \in TaskIds : NumberOf(id) \in Nat
    BY ReconcileAssumption DEF NumberOf, TaskIds
  <1>3. J \in SUBSET Nat /\ J # {}
    BY <1>1, <1>2
  <1>4. IsFiniteSet(J)
    <2>1. IsFiniteSet({mappings[r].id : r \in Rows})
      <3> DEFINE T == {mappings[r].id : r \in Rows}
                 f == [r \in Rows |-> mappings[r].id]
      <3>1. f \in Surjection(Rows, T)
        BY DEF Surjection
      <3> QED
        BY <3>1, ReconcileAssumption, FS_Surjection
    <2>2. IsFiniteSet(Ids)
      BY <2>1, FS_Subset DEF Ids
    <2>3. IsFiniteSet({NumberOf(id) : id \in Ids})
      <3> DEFINE T == {NumberOf(id) : id \in Ids}
                 f == [id \in Ids |-> NumberOf(id)]
      <3>1. f \in Surjection(Ids, T)
        BY DEF Surjection
      <3> QED
        BY <2>2, <3>1, FS_Surjection
    <2> QED
      BY <2>3, FS_AddElement
  <1>5. \E x \in J : \A y \in J : y <= x
    BY <1>3, <1>4, LargestNatural
  <1>6. Max(J) \in J /\ \A y \in J : y <= Max(J)
    <2> HIDE DEF J
    <2> QED
      BY <1>5 DEF Max
  <1>7. NextTaskId = Max(J) + 1
    BY DEF NextTaskId
  <1>8. \A id \in Ids : NumberOf(id) \in J
    OBVIOUS
  <1> HIDE DEF J
  <1>9. PICK k : k = Max(J)
    OBVIOUS
  <1>10. k \in Nat /\ (\A y \in J : y <= k) /\ NextTaskId = k + 1
    BY <1>3, <1>6, <1>7, <1>9
  <1>11. ASSUME NEW id \in Ids \cup {None}
         PROVE  id # k + 1
    <2>1. k + 1 \in Nat /\ k + 1 # None /\ k + 1 \notin Words
      BY <1>10, ReconcileAssumption
    <2>2. CASE id \in Ids
      <3>1. NumberOf(id) <= k
        BY <1>8, <1>10, <2>2
      <3>2. CASE id \in Words
        BY <2>1, <3>2
      <3>3. CASE id \notin Words
        <4>1. id \in Nat /\ id <= k
          BY <1>1, <2>2, <3>1, <3>3 DEF NumberOf, TaskIds
        <4> QED
          BY <1>10, <4>1
      <3> QED
        BY <3>2, <3>3
    <2> QED
      BY <2>1, <2>2
  <1> QED
    BY <1>1, <1>10, <1>11

-----------------------------------------------------------------------------
(* What a step may do to the stores that passes have read.                 *)

\* Types, without the assertions about the passes.
Typed ==
    /\ cards \in [Rows -> Card]
    /\ mappings \in [Rows -> Mapping]
    /\ remote \in [Rows \X Texts -> {NoBranch} \cup [start : Shas, moved : BOOLEAN]]
    /\ jobs \in [Rows -> {NoJob} \cup Job]
    /\ edited \in [Rows -> SUBSET Edits] /\ edits \in Nat /\ faults \in Nat
    /\ \A r \in Rows : Filled(mappings[r])

\* Nothing that a pass relies on is taken back.
Grows ==
    /\ \A r \in Rows : Extends(mappings'[r], mappings[r])
    /\ \A b \in Rows \X Texts : remote[b] # NoBranch => remote'[b] # NoBranch
    /\ \A r \in Rows : jobs[r].state = "ready" => jobs'[r].state = "ready"
    /\ \A r \in Rows :
           "who" \notin edited'[r] => "who" \notin edited[r] /\ cards'[r].who = cards[r].who

LEMMA FitsKept ==
    ASSUME Typed, Grows, NEW v \in Pass, Fits(v)
    PROVE  Fits(v)'
  <1> DEFINE r == Min(v.todo)
             m == v.m
  <1>1. v.todo \in SUBSET Rows /\ v.todo # {} /\ m \in Mapping
    BY DEF Pass, Fits
  <1>2. r \in Rows
    BY <1>1, MinIsIn
  <1> HIDE DEF r
  <1>3. Filled(m) /\ Extends(mappings'[r], m)
    <2>1. Filled(m) /\ Extends(mappings[r], m) /\ Extends(mappings'[r], mappings[r])
      BY <1>2 DEF Fits, Grows, r
    <2> QED
      BY <2>1 DEF Extends, Filled
  <1>4. \A x \in Rows : "who" \notin edited'[x] => v.seen[x].who = cards'[x].who
    BY DEF Fits, Grows
  <1>5. v.pc = "branch" => remote'[<<r, m.branch>>] # NoBranch
    <2>1. v.pc = "branch" => m.branch # None /\ remote[<<r, m.branch>>] # NoBranch
      BY <1>3 DEF Fits, Filled, r
    <2>2. m.branch # None => <<r, m.branch>> \in Rows \X Texts
      BY <1>1, <1>2 DEF Mapping
    <2> QED
      BY <2>1, <2>2 DEF Grows
  <1>6. v.pc = "publish" /\ ForLearner(v.seen[r]) => jobs'[r].state = "ready"
    BY <1>2 DEF Fits, Grows, r
  <1> QED
    BY <1>1, <1>3, <1>4, <1>5, <1>6 DEF Fits, r

\* A step of thread t, which goes on with pass v or ends its own.
LEMMA PassesKept ==
    ASSUME Typed, Typed', Grows, thread \in [Threads -> {Idle} \cup Pass], PassesFit,
           NEW t \in Threads, NEW v \in {Idle} \cup Pass, v = Idle \/ Fits(v)',
           thread' = [thread EXCEPT ![t] = v]
    PROVE  TypeOK' /\ PassesFit'
  <1>1. thread' \in [Threads -> {Idle} \cup Pass] /\ thread'[t] = v
    OBVIOUS
  <1>2. ASSUME NEW u \in Threads, thread'[u] # Idle
        PROVE  Fits(thread[u])'
    <2>1. CASE u = t
      BY <1>1, <1>2, <2>1 DEF Fits
    <2>2. CASE u # t
      <3>1. PICK w \in Pass : w = thread[u] /\ thread'[u] = w
        BY <1>2, <2>2
      <3>2. Fits(w)
        BY <1>2, <3>1, <2>2 DEF PassesFit
      <3>3. Fits(w)'
        BY <3>2, FitsKept
      <3> QED
        BY <3>1, <3>3 DEF Fits
    <2> QED
      BY <2>1, <2>2
  <1>3. PassesFit'
    BY <1>2 DEF PassesFit
  <1>4. \A u \in Threads :
            /\ thread'[u].pc = "prepare" => thread'[u].m.branch # None
            /\ thread'[u].pc \in {"push", "branch", "suite"} => thread'[u].m.starter # None
    <2> SUFFICES ASSUME NEW u \in Threads
                 PROVE  /\ thread'[u].pc = "prepare" => thread'[u].m.branch # None
                        /\ thread'[u].pc \in {"push", "branch", "suite"} =>
                               thread'[u].m.starter # None
      OBVIOUS
    <2>1. CASE thread'[u] = Idle
      BY <2>1 DEF Idle
    <2>2. CASE thread'[u] # Idle
      BY <1>2, <2>2 DEF Fits
    <2> QED
      BY <2>1, <2>2
  <1> QED
    BY <1>1, <1>3, <1>4 DEF TypeOK, Typed, At

\* A step that changes one mapping as the stores allow it.
LEMMA MappingStep ==
    ASSUME Typed, Stores, NEW r \in Rows, NEW n \in Mapping,
           Filled(n), Extends(n, mappings[r]),
           n.id # mappings[r].id => \A s \in Rows : mappings[s].id # n.id,
           n.url => remote[<<r, n.branch>>] # NoBranch,
           mappings' = [mappings EXCEPT ![r] = n],
           UNCHANGED <<cards, remote, jobs, bounds>>
    PROVE  Typed' /\ Stores' /\ Grows /\ mappings'[r] = n
  <1>0. UNCHANGED cards /\ UNCHANGED remote /\ UNCHANGED jobs
        /\ UNCHANGED edited /\ UNCHANGED edits /\ UNCHANGED faults
    BY DEF bounds
  <1>1. /\ mappings'[r] = n
        /\ \A s \in Rows \ {r} : mappings'[s] = mappings[s]
        /\ mappings' \in [Rows -> Mapping]
    BY DEF Typed
  <1>2. Typed'
    BY <1>0, <1>1 DEF Typed
  <1>3. \A s \in Rows : Extends(mappings'[s], mappings[s])
    BY <1>1 DEF Extends
  <1>4. Grows
    BY <1>0, <1>3 DEF Grows
  <1>5. OneStarter'
    <2> SUFFICES ASSUME NEW s \in Rows
                 PROVE  /\ \A x \in Texts : remote[<<s, x>>] # NoBranch =>
                               /\ x = mappings'[s].branch
                               /\ remote[<<s, x>>].start = mappings'[s].starter
                        /\ jobs[s] # NoJob =>
                               /\ jobs[s].input.id = mappings'[s].id
                               /\ jobs[s].input.branch = mappings'[s].branch
                               /\ jobs[s].input.starter = mappings'[s].starter
      BY <1>0 DEF OneStarter
    <2>1. ASSUME NEW x \in Texts, remote[<<s, x>>] # NoBranch
          PROVE  x = mappings'[s].branch /\ remote[<<s, x>>].start = mappings'[s].starter
      <3>1. x = mappings[s].branch /\ remote[<<s, x>>].start = mappings[s].starter
        BY <2>1 DEF Stores, OneStarter
      <3>2. x # None /\ remote[<<s, x>>].start \in Shas /\ None \notin Shas
        BY <2>1, ReconcileAssumption DEF Typed
      <3> QED
        BY <1>3, <3>1, <3>2 DEF Extends
    <2>2. ASSUME jobs[s] # NoJob
          PROVE  /\ jobs[s].input.id = mappings'[s].id
                 /\ jobs[s].input.branch = mappings'[s].branch
                 /\ jobs[s].input.starter = mappings'[s].starter
      <3>1. /\ jobs[s].input.id = mappings[s].id
            /\ jobs[s].input.branch = mappings[s].branch
            /\ jobs[s].input.starter = mappings[s].starter
        BY <2>2 DEF Stores, OneStarter
      <3>2. jobs[s] \in Job
        BY <2>2 DEF Typed
      <3>3. jobs[s].input.id # None /\ jobs[s].input.branch # None /\ jobs[s].input.starter # None
        BY <3>2, ReconcileAssumption DEF Job, TaskIds
      <3> QED
        BY <1>3, <3>1, <3>3 DEF Extends
    <2> QED
      BY <2>1, <2>2
  <1>6. WithheldUntilReady'
    BY <1>0 DEF Stores, WithheldUntilReady, published
  <1>7. \A s \in Rows : mappings[s].url => mappings[s].id # None /\ mappings[s].branch # None
    BY DEF Typed, Filled
  <1>8. CardTellsTheTruth'
    <2>1. \A s \in published : /\ mappings'[s].url /\ cards[s].id = mappings'[s].id
                               /\ remote[<<s, mappings'[s].branch>>] # NoBranch
      BY <1>3, <1>7 DEF Stores, CardTellsTheTruth, Extends, published
    <2>2. \A x, y \in Rows : x # y /\ mappings'[x].id # None => mappings'[x].id # mappings'[y].id
      BY <1>1 DEF Stores, CardTellsTheTruth
    <2> QED
      BY <1>0, <2>1, <2>2 DEF CardTellsTheTruth, published
  <1>9. UrlsExist'
    BY <1>0, <1>1 DEF Stores, UrlsExist
  <1> QED
    BY <1>1, <1>2, <1>4, <1>5, <1>6, <1>8, <1>9 DEF Stores

-----------------------------------------------------------------------------
(* How a pass goes on.                                                     *)

LEMMA PassOf ==
    ASSUME IInv, NEW t \in Threads, thread[t].pc # "idle"
    PROVE  /\ thread[t] \in Pass /\ Fits(thread[t]) /\ Typed
           /\ Row(t) \in Rows /\ Row(t) \in thread[t].todo /\ Seen(t) \in Card
           /\ thread[t].m \in Mapping /\ Filled(thread[t].m)
           /\ Extends(mappings[Row(t)], thread[t].m)
           /\ mappings[Row(t)] \in Mapping /\ Filled(mappings[Row(t)])
  <1>1. thread[t] \in Pass /\ Fits(thread[t])
    BY DEF IInv, TypeOK, PassesFit, Idle
  <1>2. thread[t].todo \in SUBSET Rows /\ thread[t].todo # {} /\ thread[t].m \in Mapping
    BY <1>1 DEF Pass, Fits
  <1>3. Row(t) \in Rows /\ Row(t) \in thread[t].todo
    BY <1>2, MinIsIn DEF Row
  <1>4. Typed
    BY DEF IInv, TypeOK, Typed
  <1>5. Seen(t) \in Card
    BY <1>1, <1>3 DEF Pass, Seen
  <1>6. Filled(thread[t].m) /\ Extends(mappings[Row(t)], thread[t].m)
    BY <1>1 DEF Fits, Row
  <1> QED
    BY <1>1, <1>2, <1>3, <1>4, <1>5, <1>6 DEF Typed

LEMMA RaiseKept ==
    ASSUME IInv, Typed', Grows, NEW t \in Threads, Raise(t)
    PROVE  TypeOK' /\ PassesFit'
  <1>1. Typed /\ thread \in [Threads -> {Idle} \cup Pass]
    BY DEF IInv, TypeOK, Typed
  <1> QED
    BY <1>1, PassesKept DEF IInv, Raise

LEMMA NextTaskKept ==
    ASSUME IInv, Typed', Grows, NEW t \in Threads, thread[t].pc # "idle", NextTask(t)
    PROVE  TypeOK' /\ PassesFit'
  <1>1. PICK v \in Pass : v = thread[t]
    BY PassOf
  <1>2. Fits(v)' /\ Typed /\ Row(t) \in v.todo /\ thread \in [Threads -> {Idle} \cup Pass]
    BY <1>1, PassOf, FitsKept DEF IInv, TypeOK
  <1>3. PICK r : r = Row(t)
    OBVIOUS
  <1> DEFINE w == [v EXCEPT !.pc = "find", !.todo = v.todo \ {r}, !.m = NoMapping, !.sha = None]
  <1>4. thread' = [thread EXCEPT ![t] = IF v.todo = {r} THEN Idle ELSE w]
    <2>1. thread' = [thread EXCEPT ![t] = IF v.todo \ {r} = {} THEN Idle ELSE w]
      BY <1>1, <1>2, <1>3 DEF NextTask, Left
    <2> QED
      BY <1>2, <1>3, <2>1
  <1>5. w \in Pass
    BY DEF Pass, Steps, NoMapping, Mapping
  <1>6. ASSUME v.todo # {r} PROVE Fits(w)'
    <2>1. w.todo # {} /\ w.pc = "find" /\ w.m = NoMapping /\ w.seen = v.seen
      BY <1>2, <1>3, <1>6 DEF Pass
    <2>2. Filled(NoMapping) /\ Extends(mappings'[Min(w.todo)], NoMapping)
      BY DEF Filled, Extends, NoMapping
    <2> QED
      BY <1>2, <2>1, <2>2 DEF Fits
  <1> HIDE DEF w
  <1> QED
    BY <1>2, <1>4, <1>5, <1>6, PassesKept DEF IInv

\* What step pc of the task of thread t needs from the earlier ones.
Provided(t, pc, m) ==
    /\ pc \in Steps \ {"find", "starter"} /\ m \in Mapping /\ Filled(m)
    /\ Extends(mappings'[Row(t)], m)
    /\ pc = "reserve" => m.id # None
    /\ pc = "prepare" => m.branch # None
    /\ pc \in {"push", "branch", "suite", "publish"} => m.starter # None
    /\ pc = "branch" => remote'[<<Row(t), m.branch>>] # NoBranch
    /\ pc # "suite" => ~Seen(t).url
    /\ pc \in {"suite", "publish"} => Seen(t).url \/ m.url
    /\ pc = "publish" /\ ForLearner(Seen(t)) => jobs'[Row(t)].state = "ready"

LEMMA GotoKept ==
    ASSUME IInv, Typed', Grows, NEW t \in Threads, thread[t].pc # "idle",
           NEW pc, NEW m, Provided(t, pc, m), Goto(t, pc, m)
    PROVE  TypeOK' /\ PassesFit'
  <1>1. PICK v \in Pass : v = thread[t]
    BY PassOf
  <1>2. Fits(v)' /\ Typed /\ thread \in [Threads -> {Idle} \cup Pass]
    BY <1>1, PassOf, FitsKept DEF IInv, TypeOK
  <1>3. PICK r, c : r = Row(t) /\ c = Seen(t)
    OBVIOUS
  <1>4. r = Min(v.todo) /\ c = v.seen[r]
    BY <1>1, <1>3 DEF Row, Seen
  <1> DEFINE w == [v EXCEPT !.pc = pc, !.m = m, !.sha = None]
  <1>5. thread' = [thread EXCEPT ![t] = w]
    BY <1>1, <1>2 DEF Goto
  <1>6. w \in Pass
    BY DEF Pass, Provided
  <1>7. Fits(w)'
    <2>1. w.todo = v.todo /\ w.pc = pc /\ w.m = m /\ w.seen = v.seen
      BY DEF Pass
    <2>2. pc # "register"
      BY DEF Provided, Steps
    <2> HIDE DEF w
    <2> QED
      BY <1>2, <1>3, <1>4, <2>1, <2>2 DEF Fits, Provided
  <1> HIDE DEF w
  <1> QED
    BY <1>2, <1>5, <1>6, <1>7, PassesKept DEF IInv

LEMMA AfterProvided ==
    ASSUME NEW t \in Threads, NEW m \in Mapping, Filled(m), m.branch # None,
           Extends(mappings'[Row(t)], m), ~Seen(t).url
    PROVE  Provided(t, After(m, Seen(t)), m)
  <1>1. CASE m.starter = None
    <2>1. After(m, Seen(t)) = "prepare"
      BY <1>1 DEF After
    <2> QED
      BY <2>1 DEF Provided, Steps
  <1>2. CASE m.starter # None /\ ~m.url
    <2>1. After(m, Seen(t)) = "push"
      BY <1>2 DEF After
    <2> QED
      BY <1>2, <2>1 DEF Provided, Steps
  <1>3. CASE m.starter # None /\ m.url
    <2>1. After(m, Seen(t)) = IF ForLearner(Seen(t)) THEN "suite" ELSE "publish"
      BY <1>3 DEF After, Following
    <2> QED
      BY <1>3, <2>1 DEF Provided, Steps
  <1> QED
    BY <1>1, <1>2, <1>3

\* Nothing that Yonote, the grader or GitHub keep changes, or the mappings.
LEMMA SameWorld ==
    ASSUME IInv, UNCHANGED <<world, bounds>>
    PROVE  Typed' /\ Stores' /\ Grows
  <1>1. /\ UNCHANGED cards /\ UNCHANGED mappings /\ UNCHANGED remote /\ UNCHANGED jobs
        /\ UNCHANGED edited /\ UNCHANGED edits /\ UNCHANGED faults
    BY DEF world, bounds
  <1>2. Typed' /\ Grows
    BY <1>1 DEF IInv, TypeOK, Typed, Grows, Extends
  <1>3. Stores'
    BY <1>1 DEF IInv, Stores, OneStarter, WithheldUntilReady, CardTellsTheTruth, UrlsExist,
                published
  <1> QED
    BY <1>2, <1>3

-----------------------------------------------------------------------------
(* The start of a pass, and the registration of the ids on the board.      *)

LEMMA InitInv == Init => IInv
  <1> SUFFICES ASSUME Init PROVE IInv
    OBVIOUS
  <1> USE DEF Init
  <1>1. PICK s \in Scenarios : cards = s.cards /\ edits = s.edits /\ faults = s.faults
    OBVIOUS
  <1>2. Typed
    <2>1. cards \in [Rows -> Card] /\ edits \in Nat /\ faults \in Nat
      BY <1>1, ReconcileAssumption
    <2>2. NoMapping \in Mapping /\ Filled(NoMapping)
      BY DEF NoMapping, Mapping, Filled
    <2>3. edited \in [Rows -> SUBSET Edits]
      BY DEF Edits
    <2> QED
      BY <2>1, <2>2, <2>3 DEF Typed
  <1>3. TypeOK /\ PassesFit
    BY <1>2 DEF Typed, TypeOK, PassesFit, Idle, At
  <1>4. OneStarter /\ UrlsExist
    BY DEF OneStarter, UrlsExist, NoMapping
  <1>5. WithheldUntilReady /\ CardTellsTheTruth
    <2>1. published = {}
      BY DEF published
    <2> QED
      BY <2>1 DEF WithheldUntilReady, CardTellsTheTruth, NoMapping
  <1> QED
    BY <1>3, <1>4, <1>5 DEF IInv, Stores

\* A pass that starts with the tasks of its snapshot.
LEMMA WorkingFits ==
    ASSUME NEW seen \in [Rows -> Card],
           \A x \in Rows : "who" \notin edited'[x] => seen[x].who = cards'[x].who
    PROVE  LET v == Working(seen) IN v \in {Idle} \cup Pass /\ (v = Idle \/ Fits(v)')
  <1> DEFINE w == [pc |-> "find", seen |-> seen, todo |-> Tasks(seen), m |-> NoMapping,
                   sha |-> None]
  <1>1. w \in Pass
    BY DEF Pass, Steps, NoMapping, Mapping, Tasks
  <1>2. Tasks(seen) # {} => Fits(w)'
    BY DEF Fits, NoMapping, Filled, Extends
  <1> QED
    BY <1>1, <1>2 DEF Working

LEMMA ListStep ==
    ASSUME IInv, NEW t \in Threads, List(t)
    PROVE  IInv'
  <1>1. UNCHANGED <<world, bounds>> /\ thread' = [thread EXCEPT ![t] = Registering(cards)]
    BY DEF List
  <1>2. Typed' /\ Stores' /\ Grows
    BY <1>1, SameWorld
  <1>3. Typed /\ thread \in [Threads -> {Idle} \cup Pass]
    BY DEF IInv, TypeOK, Typed
  <1>4. cards' = cards
    BY <1>1 DEF world
  <1>5. PICK seen \in [Rows -> Card] : seen = cards
    BY <1>3 DEF Typed
  <1> DEFINE w == [pc |-> "register", seen |-> seen, todo |-> Numbered(seen),
                   m |-> NoMapping, sha |-> None]
             v == Registering(seen)
  <1>6. w \in Pass
    BY DEF Pass, NoMapping, Mapping, Numbered
  <1>7. Numbered(seen) # {} => Fits(w)'
    BY <1>4, <1>5 DEF Fits, NoMapping, Filled, Extends
  <1>8. v \in {Idle} \cup Pass /\ (v = Idle \/ Fits(v)')
    <2>1. CASE Numbered(seen) = {}
      BY <2>1, <1>4, <1>5, WorkingFits DEF Registering
    <2>2. CASE Numbered(seen) # {}
      <3>1. v = w
        BY <2>2 DEF Registering
      <3> HIDE DEF v, w
      <3> QED
        BY <2>2, <3>1, <1>6, <1>7
    <2> QED
      BY <2>1, <2>2
  <1>9. thread' = [thread EXCEPT ![t] = v]
    BY <1>1, <1>5
  <1> HIDE DEF v
  <1> QED
    BY <1>2, <1>3, <1>8, <1>9, PassesKept DEF IInv

\* get_or_allocate, when it does not raise.
LEMMA AllocatedMapping ==
    ASSUME Typed, NEW r \in Rows, NEW id \in TaskIds \cup {None}, ~Refused(r, id)
    PROVE  LET n == Allocated(r, id) IN
           /\ n \in Mapping /\ Filled(n) /\ Extends(n, mappings[r]) /\ n.id # None
           /\ n.id # mappings[r].id => \A s \in Rows : mappings[s].id # n.id
           /\ n.url => mappings[r].url /\ n.branch = mappings[r].branch
  <1>1. mappings[r] \in Mapping /\ Filled(mappings[r]) /\ mappings \in [Rows -> Mapping]
    BY DEF Typed
  <1>2. NextTaskId \in Nat /\ \A s \in Rows : mappings[s].id # NextTaskId
    BY <1>1, NextTaskIdIsNew
  <1>3. CASE mappings[r].id # None
    BY <1>1, <1>3 DEF Allocated, Extends
  <1>4. CASE mappings[r].id = None
    <2> DEFINE k == IF id # None THEN id ELSE NextTaskId
               n == [NoMapping EXCEPT !.id = k]
    <2>1. k \in TaskIds /\ k # None /\ \A s \in Rows : mappings[s].id # k
      BY <1>2, <1>4, ReconcileAssumption DEF Refused, Ids, TaskIds
    <2>2. Allocated(r, id) = n
      BY <1>4 DEF Allocated
    <2> HIDE DEF k
    <2>3. n.id = k /\ n.url = FALSE /\ n \in Mapping /\ Filled(n)
      BY <2>1 DEF NoMapping, Mapping, Filled
    <2>4. Extends(n, mappings[r])
      BY <1>1, <1>4 DEF Extends, Filled
    <2> QED
      BY <2>1, <2>2, <2>3, <2>4
  <1> QED
    BY <1>3, <1>4

LEMMA RegisterStep ==
    ASSUME IInv, NEW t \in Threads, Register(t)
    PROVE  IInv'
  <1>1. UNCHANGED <<cards, remote, jobs, bounds>> /\ thread[t].pc = "register"
    BY DEF Register, At
  <1>2. PICK v \in Pass, r \in Rows, c \in Card :
            v = thread[t] /\ r = Row(t) /\ c = Seen(t)
    BY <1>1, PassOf
  <1>3. Typed /\ Stores /\ Fits(v) /\ thread \in [Threads -> {Idle} \cup Pass]
    BY <1>1, <1>2, PassOf DEF IInv, TypeOK
  <1>4. CASE Refused(r, c.id)
    <2>1. Raise(t) /\ UNCHANGED <<world, bounds>>
      BY <1>1, <1>2, <1>4 DEF Register, world
    <2> QED
      BY <2>1, SameWorld, RaiseKept DEF IInv
  <1>5. CASE ~Refused(r, c.id)
    <2>0. PICK todo : todo = Left(t)
      OBVIOUS
    <2> DEFINE n == Allocated(r, c.id)
               u == [v EXCEPT !.todo = todo]
               w == IF todo = {} THEN Working(v.seen) ELSE u
    <2>1. mappings' = [mappings EXCEPT ![r] = n] /\ thread' = [thread EXCEPT ![t] = w]
      BY <1>2, <1>3, <1>5, <2>0 DEF Register
    <2>2. c.id \in TaskIds \cup {None}
      BY DEF Card
    <2>3. /\ n \in Mapping /\ Filled(n) /\ Extends(n, mappings[r])
          /\ n.id # mappings[r].id => \A s \in Rows : mappings[s].id # n.id
          /\ n.url => remote[<<r, n.branch>>] # NoBranch
      BY <1>3, <1>5, <2>2, AllocatedMapping DEF Stores, UrlsExist
    <2> HIDE DEF n
    <2>4. Typed' /\ Stores' /\ Grows
      BY <1>1, <1>3, <2>1, <2>3, MappingStep
    <2>5. Fits(v)'
      BY <1>3, <2>4, FitsKept
    <2>6. v.seen \in [Rows -> Card]
          /\ \A x \in Rows : "who" \notin edited'[x] => v.seen[x].who = cards'[x].who
      BY <2>5 DEF Fits, Pass
    <2>7. w \in {Idle} \cup Pass /\ (w = Idle \/ Fits(w)')
      <3>1. CASE todo = {}
        BY <2>6, <3>1, WorkingFits
      <3>2. CASE todo # {}
        <4>1. todo \in SUBSET Rows
          BY <1>2, <2>0 DEF Left, Pass
        <4>2. u \in Pass /\ u.pc = "register" /\ u.todo = todo /\ u.seen = v.seen /\ u.m = v.m
          BY <1>1, <1>2, <4>1 DEF Pass
        <4>3. v.m = NoMapping
          BY <1>1, <1>2, <1>3 DEF Fits
        <4>4. Filled(NoMapping) /\ Extends(mappings'[Min(todo)], NoMapping)
          BY DEF NoMapping, Filled, Extends
        <4> HIDE DEF u
        <4> QED
          BY <2>5, <3>2, <4>2, <4>3, <4>4 DEF Fits
      <3> QED
        BY <3>1, <3>2
    <2> HIDE DEF w
    <2> QED
      BY <1>3, <2>1, <2>4, <2>7, PassesKept DEF IInv
  <1> QED
    BY <1>4, <1>5

-----------------------------------------------------------------------------
(* The steps of a task.                                                    *)

LEMMA FindStep ==
    ASSUME IInv, NEW t \in Threads, Find(t)
    PROVE  IInv'
  <1>1. UNCHANGED <<world, bounds>> /\ thread[t].pc = "find"
    BY DEF Find, At
  <1>2. Typed' /\ Stores' /\ Grows /\ mappings' = mappings
    BY <1>1, SameWorld DEF world
  <1>3. PICK r \in Rows, c \in Card, m \in Mapping :
            r = Row(t) /\ c = Seen(t) /\ m = mappings[r] /\ Filled(m)
    BY <1>1, PassOf
  <1>4. Extends(mappings'[Row(t)], m)
    BY <1>2, <1>3 DEF Extends
  <1> DEFINE pc == IF c.url THEN FindShown(c, m) ELSE FindNew(c, m)
  <1>5. IF pc = "next" THEN NextTask(t) ELSE Goto(t, pc, m)
    BY <1>3 DEF Find
  <1>6. pc # "next" => Provided(t, pc, m)
    <2>1. CASE c.url
      BY <1>3, <1>4, <2>1 DEF Provided, FindShown, Steps
    <2>2. CASE ~c.url /\ m.branch # None
      BY <1>3, <1>4, <2>2, AfterProvided DEF FindNew
    <2>3. CASE ~c.url /\ m.branch = None
      BY <1>3, <1>4, <2>3 DEF Provided, FindNew, Steps
    <2> QED
      BY <2>1, <2>2, <2>3
  <1> HIDE DEF pc
  <1> QED
    BY <1>1, <1>2, <1>5, <1>6, NextTaskKept, GotoKept DEF IInv

LEMMA AllocateStep ==
    ASSUME IInv, NEW t \in Threads, Allocate(t)
    PROVE  IInv'
  <1>1. UNCHANGED <<cards, remote, jobs, bounds>> /\ thread[t].pc = "allocate"
    BY DEF Allocate, At
  <1>2. PICK r \in Rows, c \in Card : r = Row(t) /\ c = Seen(t)
    BY <1>1, PassOf
  <1>3. Typed /\ Stores /\ ~c.url
    BY <1>1, <1>2, PassOf DEF IInv, Fits, Row, Seen
  <1>4. CASE Refused(r, c.id)
    <2>1. Raise(t) /\ UNCHANGED <<world, bounds>>
      BY <1>1, <1>2, <1>4 DEF Allocate, world
    <2> QED
      BY <2>1, SameWorld, RaiseKept DEF IInv
  <1>5. CASE ~Refused(r, c.id)
    <2>1. PICK n : n = Allocated(r, c.id)
      OBVIOUS
    <2>2. mappings' = [mappings EXCEPT ![r] = n] /\ Goto(t, "reserve", mappings'[r])
      BY <1>2, <1>5, <2>1 DEF Allocate
    <2>3. c.id \in TaskIds \cup {None}
      BY DEF Card
    <2>4. /\ n \in Mapping /\ Filled(n) /\ Extends(n, mappings[r]) /\ n.id # None
          /\ n.id # mappings[r].id => \A s \in Rows : mappings[s].id # n.id
          /\ n.url => remote[<<r, n.branch>>] # NoBranch
      BY <1>3, <1>5, <2>1, <2>3, AllocatedMapping DEF Stores, UrlsExist
    <2>5. Typed' /\ Stores' /\ Grows /\ mappings'[r] = n
      BY <1>1, <1>3, <2>2, <2>4, MappingStep
    <2>6. Provided(t, "reserve", n)
      BY <1>2, <1>3, <2>4, <2>5 DEF Provided, Extends, Steps
    <2> QED
      BY <1>1, <2>2, <2>5, <2>6, GotoKept DEF IInv
  <1> QED
    BY <1>4, <1>5

LEMMA ReserveStep ==
    ASSUME IInv, NEW t \in Threads, Reserve(t)
    PROVE  IInv'
  <1>1. UNCHANGED <<cards, remote, jobs, bounds>> /\ thread[t].pc = "reserve"
    BY DEF Reserve, At
  <1>2. PICK r \in Rows, c \in Card, o \in Mapping :
            r = Row(t) /\ c = Seen(t) /\ o = mappings[r] /\ Filled(o)
    BY <1>1, PassOf
  <1>3. Typed /\ Stores /\ ~c.url /\ o.id # None
    BY <1>1, <1>2, PassOf DEF IInv, Fits, Row, Seen, Extends
  <1>4. PICK n : n = [o EXCEPT !.branch = IF o.branch = None THEN c.text ELSE o.branch]
    OBVIOUS
  <1>5. mappings' = [mappings EXCEPT ![r] = n] /\ Goto(t, After(mappings'[r], c), mappings'[r])
    BY <1>2, <1>4 DEF Reserve
  <1>6. c.text \in Texts /\ c.text # None
    BY ReconcileAssumption DEF Card
  <1>7. /\ n \in Mapping /\ Filled(n) /\ Extends(n, o) /\ n.branch # None
        /\ n.id = o.id /\ n.url = o.url /\ (n.url => n.branch = o.branch)
    BY <1>2, <1>3, <1>4, <1>6 DEF Mapping, Filled, Extends
  <1>8. n.url => remote[<<r, n.branch>>] # NoBranch
    BY <1>2, <1>3, <1>7 DEF Stores, UrlsExist
  <1>9. Typed' /\ Stores' /\ Grows /\ mappings'[r] = n
    BY <1>1, <1>2, <1>3, <1>5, <1>7, <1>8, MappingStep
  <1>10. Provided(t, After(n, c), n)
    BY <1>2, <1>3, <1>7, <1>9, AfterProvided DEF Extends
  <1> QED
    BY <1>1, <1>5, <1>9, <1>10, GotoKept DEF IInv

LEMMA PrepareBranchStep ==
    ASSUME IInv, NEW t \in Threads, PrepareBranch(t)
    PROVE  IInv'
  <1>1. UNCHANGED <<world, bounds>> /\ thread[t].pc = "prepare"
    BY DEF PrepareBranch, At
  <1>2. Typed' /\ Stores' /\ Grows
    BY <1>1, SameWorld
  <1>3. PICK v \in Pass : v = thread[t]
    BY <1>1, PassOf
  <1>4. Fits(v)' /\ Typed /\ thread \in [Threads -> {Idle} \cup Pass]
    BY <1>1, <1>2, <1>3, PassOf, FitsKept DEF IInv, TypeOK
  <1>5. CASE Raise(t)
    BY <1>1, <1>2, <1>5, RaiseKept DEF IInv
  <1>6. CASE \E s \in ProjectCommits :
                 thread' = [thread EXCEPT ![t].pc = "starter", ![t].sha = s]
    <2>1. PICK s \in Shas : thread' = [thread EXCEPT ![t].pc = "starter", ![t].sha = s]
      BY <1>6 DEF ProjectCommits
    <2> DEFINE w == [v EXCEPT !.pc = "starter", !.sha = s]
    <2>2. thread' = [thread EXCEPT ![t] = w]
      BY <1>3, <1>4, <2>1
    <2>3. w \in Pass
      BY DEF Pass, Steps
    <2>4. Fits(w)'
      <3>1. w.todo = v.todo /\ w.pc = "starter" /\ w.m = v.m /\ w.seen = v.seen /\ w.sha = s
        BY DEF Pass
      <3>2. v.pc = "prepare" /\ s # None
        BY <1>1, <1>3, ReconcileAssumption
      <3> HIDE DEF w
      <3> QED
        BY <1>4, <3>1, <3>2 DEF Fits
    <2> HIDE DEF w
    <2> QED
      BY <1>2, <1>4, <2>2, <2>3, <2>4, PassesKept DEF IInv
  <1> QED
    BY <1>5, <1>6 DEF PrepareBranch

LEMMA RecordStarterStep ==
    ASSUME IInv, NEW t \in Threads, RecordStarter(t)
    PROVE  IInv'
  <1>1. UNCHANGED <<cards, remote, jobs, bounds>> /\ thread[t].pc = "starter"
    BY DEF RecordStarter, At
  <1>2. PICK v \in Pass, r \in Rows, c \in Card, o \in Mapping :
            v = thread[t] /\ r = Row(t) /\ c = Seen(t) /\ o = mappings[r] /\ Filled(o)
    BY <1>1, PassOf
  <1>3. /\ Typed /\ Stores /\ ~c.url /\ o.branch # None
        /\ v.sha \in Shas /\ v.sha # None
    BY <1>1, <1>2, PassOf DEF IInv, Fits, Row, Seen, Extends, Pass
  <1>4. CASE o.starter \notin {None, v.sha}
    <2>1. Raise(t) /\ UNCHANGED <<world, bounds>>
      BY <1>1, <1>2, <1>4 DEF RecordStarter, world
    <2> QED
      BY <2>1, SameWorld, RaiseKept DEF IInv
  <1>5. CASE o.starter \in {None, v.sha}
    <2>1. PICK n : n = [o EXCEPT !.starter = v.sha]
      OBVIOUS
    <2>2. /\ mappings' = [mappings EXCEPT ![r] = n]
          /\ Goto(t, After(mappings'[r], c), mappings'[r])
      BY <1>2, <1>5, <2>1 DEF RecordStarter
    <2>3. /\ n \in Mapping /\ Filled(n) /\ Extends(n, o) /\ n.branch # None
          /\ n.id = o.id /\ n.url = o.url /\ n.branch = o.branch
      BY <1>2, <1>3, <1>5, <2>1 DEF Mapping, Filled, Extends
    <2>4. n.url => remote[<<r, n.branch>>] # NoBranch
      BY <1>2, <1>3, <2>3 DEF Stores, UrlsExist
    <2>5. Typed' /\ Stores' /\ Grows /\ mappings'[r] = n
      BY <1>1, <1>2, <1>3, <2>2, <2>3, <2>4, MappingStep
    <2>6. Provided(t, After(n, c), n)
      BY <1>2, <1>3, <2>3, <2>5, AfterProvided DEF Extends
    <2> QED
      BY <1>1, <2>2, <2>5, <2>6, GotoKept DEF IInv
  <1> QED
    BY <1>4, <1>5

\* The first commit that a pass gets into the branch is the recorded one.
LEMMA EnsurePreparedStep ==
    ASSUME IInv, NEW t \in Threads, EnsurePrepared(t)
    PROVE  IInv'
  <1>1. /\ UNCHANGED cards /\ UNCHANGED mappings /\ UNCHANGED jobs
        /\ UNCHANGED edited /\ UNCHANGED edits /\ thread[t].pc = "push"
    BY DEF EnsurePrepared, At
  <1>2. PICK v \in Pass, r \in Rows, c \in Card, m \in Mapping :
            v = thread[t] /\ r = Row(t) /\ c = Seen(t) /\ m = v.m /\ Filled(m)
    BY <1>1, PassOf
  <1>3. /\ Typed /\ Stores /\ ~c.url /\ m.starter # None /\ m.branch # None
        /\ Extends(mappings[r], m)
    BY <1>1, <1>2, PassOf DEF IInv, Fits, Row, Seen, Filled
  <1> DEFINE b == <<r, m.branch>>
             starter == [start |-> m.starter, moved |-> FALSE]
  <1>4. /\ b \in Rows \X Texts /\ m.starter \in Shas
        /\ starter # NoBranch /\ starter \in [start : Shas, moved : BOOLEAN]
        /\ mappings[r].branch = m.branch /\ mappings[r].starter = m.starter
    BY <1>3 DEF Mapping, NoBranch, Extends
  <1> DEFINE Created == remote[b] = NoBranch /\ remote' = [remote EXCEPT ![b] = starter]
  <1>5. \/ remote[b] = starter /\ UNCHANGED <<remote, faults>> /\ Goto(t, "branch", m)
        \/ Created /\ UNCHANGED faults /\ Goto(t, "branch", m)
        \/ Created /\ faults > 0 /\ faults' = faults - 1 /\ Raise(t)
        \/ UNCHANGED <<remote, faults>> /\ Raise(t)
    <2> HIDE DEF starter
    <2>1. EnsurePrepared(t) =>
              CASE remote[b] = starter ->
                     Goto(t, "branch", m) /\ UNCHANGED <<remote, faults>>
                [] remote[b] = NoBranch ->
                     /\ remote' = [remote EXCEPT ![b] = starter]
                     /\ \/ Goto(t, "branch", m) /\ UNCHANGED faults
                        \/ faults > 0 /\ faults' = faults - 1 /\ Raise(t)
                [] OTHER -> Raise(t) /\ UNCHANGED <<remote, faults>>
      BY <1>2 DEF EnsurePrepared, starter
    <2>2. CASE remote[b] = starter
      BY <1>4, <2>1, <2>2
    <2>3. CASE remote[b] = NoBranch
      BY <1>4, <2>1, <2>3
    <2>4. CASE remote[b] # starter /\ remote[b] # NoBranch
      BY <2>1, <2>4
    <2> QED
      BY <2>2, <2>3, <2>4
  <1>6. faults' \in Nat
    BY <1>3, <1>5 DEF Typed
  <1>7. ASSUME UNCHANGED remote
        PROVE  Typed' /\ Stores' /\ Grows
    <2>1. Typed' /\ Grows
      BY <1>1, <1>3, <1>6, <1>7 DEF Typed, Grows, Extends
    <2>2. Stores'
      BY <1>1, <1>3, <1>7 DEF Stores, OneStarter, WithheldUntilReady, CardTellsTheTruth,
                             UrlsExist, published
    <2> QED
      BY <2>1, <2>2
  <1>8. ASSUME Created
        PROVE  Typed' /\ Stores' /\ Grows
    <2> HIDE DEF starter
    <2>0. /\ remote'[b] = starter
          /\ \A d \in Rows \X Texts : d # b => remote'[d] = remote[d]
      BY <1>3, <1>4, <1>8 DEF Typed
    <2>1. Typed'
      BY <1>1, <1>3, <1>4, <1>6, <1>8 DEF Typed
    <2>2. Grows
      BY <1>1, <1>4, <2>0 DEF Grows, Extends
    <2>3. ASSUME NEW s \in Rows, NEW x \in Texts, remote'[<<s, x>>] # NoBranch
          PROVE  x = mappings[s].branch /\ remote'[<<s, x>>].start = mappings[s].starter
      <3>1. CASE <<s, x>> = b
        BY <1>4, <2>0, <3>1 DEF starter
      <3>2. CASE <<s, x>> # b
        BY <1>3, <2>0, <2>3, <3>2 DEF Stores, OneStarter
      <3> QED
        BY <3>1, <3>2
    <2>4. OneStarter'
      BY <1>1, <1>3, <2>3 DEF Stores, OneStarter
    <2>5. \A s \in Rows : mappings[s].url => mappings[s].branch \in Texts
      BY <1>3 DEF Typed, Filled, Mapping
    <2>6. UrlsExist'
      BY <1>1, <1>3, <2>2, <2>5 DEF Stores, UrlsExist, Grows
    <2>7. CardTellsTheTruth'
      BY <1>1, <1>3, <2>2, <2>5 DEF Stores, CardTellsTheTruth, Grows, published
    <2>8. WithheldUntilReady'
      BY <1>1, <1>3 DEF Stores, WithheldUntilReady, published
    <2> QED
      BY <2>1, <2>2, <2>4, <2>6, <2>7, <2>8 DEF Stores
  <1>9. Typed' /\ Stores' /\ Grows
    BY <1>5, <1>7, <1>8
  <1>10. remote'[b] # NoBranch => Provided(t, "branch", m)
    BY <1>1, <1>2, <1>3 DEF Provided, Steps
  <1>11. (Goto(t, "branch", m) /\ remote'[b] # NoBranch) \/ Raise(t)
    <2> HIDE DEF starter
    <2>1. Created => remote'[b] = starter
      BY <1>3, <1>4 DEF Typed
    <2> QED
      BY <1>4, <1>5, <2>1
  <1> QED
    BY <1>1, <1>9, <1>10, <1>11, RaiseKept, GotoKept DEF IInv

LEMMA RecordBranchStep ==
    ASSUME IInv, NEW t \in Threads, RecordBranch(t)
    PROVE  IInv'
  <1>1. UNCHANGED <<cards, remote, jobs, bounds>> /\ thread[t].pc = "branch"
    BY DEF RecordBranch, At
  <1>2. PICK v \in Pass, r \in Rows, c \in Card, o \in Mapping, m \in Mapping :
            /\ v = thread[t] /\ r = Row(t) /\ c = Seen(t) /\ o = mappings[r] /\ m = v.m
            /\ Filled(o) /\ Filled(m)
    BY <1>1, PassOf
  <1>3. /\ Typed /\ Stores /\ ~c.url /\ m.starter # None /\ m.branch # None
        /\ Extends(o, m) /\ remote[<<r, m.branch>>] # NoBranch
    BY <1>1, <1>2, PassOf DEF IInv, Fits, Row, Seen, Filled
  <1>4. PICK n : n = [o EXCEPT !.branch = m.branch, !.url = TRUE]
    OBVIOUS
  <1>5. mappings' = [mappings EXCEPT ![r] = n] /\ Goto(t, Following(c), mappings'[r])
    BY <1>2, <1>4 DEF RecordBranch
  <1>6. /\ n \in Mapping /\ Filled(n) /\ Extends(n, o) /\ n.id = o.id
        /\ n.url /\ n.branch = m.branch /\ n.starter # None
    BY <1>2, <1>3, <1>4 DEF Mapping, Filled, Extends
  <1>7. Typed' /\ Stores' /\ Grows /\ mappings'[r] = n
    <2>1. remote[<<r, n.branch>>] # NoBranch /\ Extends(n, mappings[r])
          /\ n.id = mappings[r].id
      BY <1>2, <1>3, <1>6
    <2> QED
      BY <1>1, <1>3, <1>5, <1>6, <2>1, MappingStep
  <1>8. Provided(t, Following(c), n)
    BY <1>2, <1>3, <1>6, <1>7 DEF Provided, Following, Extends, Steps
  <1> QED
    BY <1>1, <1>5, <1>7, <1>8, GotoKept DEF IInv

\* A step that changes only the jobs, and takes no suite back.
LEMMA JobStep ==
    ASSUME IInv, NEW r \in Rows, NEW j \in Job, jobs' = [jobs EXCEPT ![r] = j],
           UNCHANGED <<cards, mappings, remote, bounds>>,
           jobs[r].state = "ready" => j.state = "ready",
           /\ j.input.id = mappings[r].id
           /\ j.input.branch = mappings[r].branch
           /\ j.input.starter = mappings[r].starter
    PROVE  Typed' /\ Stores' /\ Grows
  <1>1. /\ UNCHANGED cards /\ UNCHANGED mappings /\ UNCHANGED remote
        /\ UNCHANGED edited /\ UNCHANGED edits /\ UNCHANGED faults
    BY DEF bounds
  <1>2. Typed /\ Stores
    BY DEF IInv, TypeOK, Typed
  <1>3. jobs'[r] = j /\ \A s \in Rows \ {r} : jobs'[s] = jobs[s]
    BY <1>2 DEF Typed
  <1>4. Typed' /\ Grows
    BY <1>1, <1>2, <1>3 DEF Typed, Grows, Extends
  <1>5. OneStarter' /\ UrlsExist' /\ CardTellsTheTruth'
    BY <1>1, <1>2, <1>3 DEF Stores, OneStarter, UrlsExist, CardTellsTheTruth, published
  <1>6. WithheldUntilReady'
    <2>1. \A s \in Rows : jobs[s].state = "ready" => jobs'[s].state = "ready"
      BY <1>3
    <2>2. \A s \in Rows : jobs'[s].state = "ready" => jobs'[s] # NoJob
      BY DEF NoJob
    <2> QED
      BY <1>1, <1>2, <2>1, <2>2 DEF Stores, WithheldUntilReady, published
  <1> QED
    BY <1>4, <1>5, <1>6, <1>2 DEF Stores

LEMMA EnsureSuiteStep ==
    ASSUME IInv, NEW t \in Threads, EnsureSuite(t)
    PROVE  IInv'
  <1>1. UNCHANGED <<cards, mappings, remote, bounds>> /\ thread[t].pc = "suite"
    BY DEF EnsureSuite, At
  <1>2. PICK v \in Pass, r \in Rows, c \in Card, m \in Mapping :
            v = thread[t] /\ r = Row(t) /\ c = Seen(t) /\ m = v.m /\ Filled(m)
    BY <1>1, PassOf
  <1>3. /\ Typed /\ Stores /\ m.starter # None /\ m.branch # None /\ m.id # None
        /\ Extends(mappings[r], m) /\ (c.url \/ m.url)
    BY <1>1, <1>2, PassOf DEF IInv, Fits, Row, Seen, Filled
  <1>4. CASE jobs[r] = NoJob /\ jobs' = [jobs EXCEPT ![r] = Enqueued(t)] /\ NextTask(t)
    <2>1. PICK j : j = Enqueued(t)
      OBVIOUS
    <2>2. j = [state |-> "queued", input |->
                  [id |-> m.id, branch |-> m.branch, starter |-> m.starter, text |-> c.text]]
      BY <1>2, <2>1 DEF Enqueued, Input
    <2>3. /\ j \in Job /\ j.input.id = m.id /\ j.input.branch = m.branch
          /\ j.input.starter = m.starter
      BY <1>3, <2>2 DEF Job, Mapping, Card
    <2>4. Typed' /\ Stores' /\ Grows
      <3>1. /\ m.id = mappings[r].id /\ m.branch = mappings[r].branch
            /\ m.starter = mappings[r].starter /\ jobs[r].state # "ready"
        BY <1>3, <1>4 DEF Extends, NoJob
      <3> QED
        BY <1>1, <1>4, <2>1, <2>3, <3>1, JobStep
    <2> QED
      BY <1>1, <1>4, <2>4, NextTaskKept DEF IInv
  <1>5. CASE Raise(t) /\ UNCHANGED jobs
    <2>1. UNCHANGED <<world, bounds>>
      BY <1>1, <1>5 DEF world
    <2> QED
      BY <1>5, <2>1, SameWorld, RaiseKept DEF IInv
  <1>6. CASE NextTask(t) /\ UNCHANGED jobs
    <2>1. UNCHANGED <<world, bounds>>
      BY <1>1, <1>6 DEF world
    <2> QED
      BY <1>1, <1>6, <2>1, SameWorld, NextTaskKept DEF IInv
  <1>7. CASE jobs[r].state = "ready" /\ ~c.url /\ Goto(t, "publish", m) /\ UNCHANGED jobs
    <2>1. UNCHANGED <<world, bounds>>
      BY <1>1, <1>7 DEF world
    <2>2. Provided(t, "publish", m)
      BY <1>1, <1>2, <1>3, <1>7 DEF Provided, Steps
    <2> QED
      BY <1>1, <1>7, <2>1, <2>2, SameWorld, GotoKept DEF IInv
  <1> QED
    BY <1>2, <1>4, <1>5, <1>6, <1>7 DEF EnsureSuite

\* The card is told what the pass knows: the snapshot says whose the task is, and the
\* copy of the mapping has the id.
LEMMA PublishStep ==
    ASSUME IInv, NEW t \in Threads, Publish(t)
    PROVE  IInv'
  <1>1. /\ UNCHANGED mappings /\ UNCHANGED remote /\ UNCHANGED jobs
        /\ UNCHANGED edited /\ UNCHANGED edits /\ thread[t].pc = "publish"
    BY DEF Publish, At
  <1>2. PICK v \in Pass, r \in Rows, c \in Card, m \in Mapping :
            v = thread[t] /\ r = Row(t) /\ c = Seen(t) /\ m = v.m /\ Filled(m)
    BY <1>1, PassOf
  <1>3. /\ Typed /\ Stores /\ ~c.url /\ m.url /\ m.id # None /\ Extends(mappings[r], m)
        /\ "who" \notin edited[r] => c.who = cards[r].who
        /\ ForLearner(c) => jobs[r].state = "ready"
    BY <1>1, <1>2, PassOf DEF IInv, Fits, Row, Seen, Filled
  <1>4. /\ cards' = [cards EXCEPT ![r].id = m.id, ![r].url = TRUE]
        /\ \/ NextTask(t) /\ UNCHANGED faults
           \/ faults > 0 /\ faults' = faults - 1 /\ Raise(t)
    BY <1>2 DEF Publish
  <1>5. /\ \A s \in Rows : /\ cards'[s].who = cards[s].who
                           /\ s # r => cards'[s] = cards[s]
        /\ cards'[r].id = m.id /\ cards'[r].url /\ cards' \in [Rows -> Card]
    <2>1. cards[r] \in Card /\ m.id \in TaskIds /\ cards \in [Rows -> Card]
      BY <1>3 DEF Typed, Mapping
    <2>2. PICK d : d = [cards[r] EXCEPT !.id = m.id, !.url = TRUE]
      OBVIOUS
    <2>3. d \in Card /\ d.who = cards[r].who /\ d.id = m.id /\ d.url
      BY <2>1, <2>2 DEF Card
    <2>4. cards' = [cards EXCEPT ![r] = d]
      BY <1>4, <2>1, <2>2
    <2> QED
      BY <2>1, <2>3, <2>4
  <1>6. Typed' /\ Grows
    BY <1>1, <1>3, <1>4, <1>5 DEF Typed, Grows, Extends
  <1>7. OneStarter' /\ UrlsExist'
    BY <1>1, <1>3 DEF Stores, OneStarter, UrlsExist
  <1>8. WithheldUntilReady'
    <2> SUFFICES ASSUME NEW s \in Rows, s \in published', ForLearner(cards'[s]),
                        "who" \notin edited[s]
                 PROVE  jobs[s] # NoJob /\ jobs[s].state = "ready"
      BY <1>1 DEF WithheldUntilReady
    <2>1. CASE s = r
      BY <1>3, <1>5, <2>1 DEF ForLearner, NoJob
    <2>2. CASE s # r
      BY <1>1, <1>3, <1>5, <2>2 DEF Stores, WithheldUntilReady, published
    <2> QED
      BY <2>1, <2>2
  <1>9. CardTellsTheTruth'
    <2>1. ASSUME NEW s \in Rows, s \in published'
          PROVE  /\ mappings[s].url /\ cards'[s].id = mappings[s].id
                 /\ remote[<<s, mappings[s].branch>>] # NoBranch
      <3>1. CASE s = r
        BY <1>3, <1>5, <3>1 DEF Stores, UrlsExist, Extends
      <3>2. CASE s # r
        BY <1>1, <1>3, <1>5, <2>1, <3>2 DEF Stores, CardTellsTheTruth, published
      <3> QED
        BY <3>1, <3>2
    <2>2. published' \subseteq Rows
      BY DEF published
    <2> QED
      BY <1>1, <1>3, <2>1, <2>2 DEF Stores, CardTellsTheTruth
  <1> QED
    BY <1>1, <1>4, <1>6, <1>7, <1>8, <1>9, NextTaskKept, RaiseKept DEF IInv, Stores

-----------------------------------------------------------------------------
(* Failures, and the world outside the bridge.                             *)

\* A step that uses up a fault and changes no store.
LEMMA FaultyWorld ==
    ASSUME IInv, faults > 0, faults' = faults - 1, UNCHANGED <<world, edited, edits>>
    PROVE  Typed' /\ Stores' /\ Grows
  <1>1. /\ UNCHANGED cards /\ UNCHANGED mappings /\ UNCHANGED remote /\ UNCHANGED jobs
        /\ UNCHANGED edited /\ UNCHANGED edits
    BY DEF world
  <1>2. Typed
    BY DEF IInv, TypeOK, Typed
  <1>3. Typed' /\ Grows
    BY <1>1, <1>2 DEF Typed, Grows, Extends
  <1>4. Stores'
    BY <1>1 DEF IInv, Stores, OneStarter, WithheldUntilReady, CardTellsTheTruth, UrlsExist,
                published
  <1> QED
    BY <1>3, <1>4

LEMMA FailStep ==
    ASSUME IInv, NEW t \in Threads, Fail(t)
    PROVE  IInv'
  BY FaultyWorld, RaiseKept DEF Fail, IInv

LEMMA CrashStep ==
    ASSUME IInv, Crash
    PROVE  IInv'
  <1>1. Typed' /\ Stores' /\ thread' = [t \in Threads |-> Idle]
    BY FaultyWorld DEF Crash
  <1>2. TypeOK' /\ PassesFit'
    BY <1>1 DEF Typed, TypeOK, PassesFit, Idle, At
  <1> QED
    BY <1>1, <1>2 DEF IInv

\* The passes go on as they were.
LEMMA OutsideKept ==
    ASSUME IInv, Typed', Grows, UNCHANGED thread
    PROVE  TypeOK' /\ PassesFit'
  <1>1. PICK t \in Threads : TRUE
    BY ReconcileAssumption
  <1>2. Typed /\ thread \in [Threads -> {Idle} \cup Pass]
    BY DEF IInv, TypeOK, Typed
  <1>3. PICK v \in {Idle} \cup Pass : v = thread[t]
    BY <1>2
  <1>4. v = Idle \/ Fits(v)'
    BY <1>2, <1>3, FitsKept DEF IInv, PassesFit
  <1>5. thread' = [thread EXCEPT ![t] = v]
    BY <1>2, <1>3
  <1> QED
    BY <1>2, <1>4, <1>5, PassesKept DEF IInv

LEMMA SuiteStep ==
    ASSUME IInv, NEW r \in Rows, Suite(r)
    PROVE  IInv'
  <1>1. /\ UNCHANGED <<cards, mappings, remote, bounds>> /\ UNCHANGED thread
        /\ jobs[r].state = "queued"
    BY DEF Suite
  <1>2. Stores /\ jobs \in [Rows -> {NoJob} \cup Job]
    BY DEF IInv, TypeOK
  <1>3. PICK j : j = [jobs[r] EXCEPT !.state = "ready"]
    OBVIOUS
  <1>4. jobs[r] \in Job /\ jobs[r] # NoJob
    BY <1>1, <1>2 DEF NoJob
  <1>5. j \in Job /\ j.input = jobs[r].input /\ j.state = "ready"
    BY <1>3, <1>4 DEF Job
  <1>6. jobs' = [jobs EXCEPT ![r] = j]
    BY <1>2, <1>3 DEF Suite
  <1>7. Typed' /\ Stores' /\ Grows
    BY <1>1, <1>2, <1>4, <1>5, <1>6, JobStep DEF Stores, OneStarter
  <1> QED
    BY <1>1, <1>7, OutsideKept DEF IInv

LEMMA StudentPushStep ==
    ASSUME IInv, NEW b \in Rows \X Texts, StudentPush(b)
    PROVE  IInv'
  <1>1. /\ UNCHANGED cards /\ UNCHANGED mappings /\ UNCHANGED jobs /\ UNCHANGED thread
        /\ UNCHANGED edited /\ UNCHANGED edits /\ UNCHANGED faults
    BY DEF StudentPush, bounds
  <1>2. Typed /\ Stores
    BY DEF IInv, TypeOK, Typed
  <1>3. /\ \A d \in Rows \X Texts : remote'[d].start = remote[d].start
                                    /\ (remote'[d] = NoBranch <=> remote[d] = NoBranch)
        /\ remote' \in [Rows \X Texts -> {NoBranch} \cup [start : Shas, moved : BOOLEAN]]
    <2>1. remote[b] \in [start : Shas, moved : BOOLEAN]
          /\ remote \in [Rows \X Texts -> {NoBranch} \cup [start : Shas, moved : BOOLEAN]]
      BY <1>2 DEF StudentPush, Typed
    <2>2. PICK n : n = [remote[b] EXCEPT !.moved = TRUE]
      OBVIOUS
    <2>3. n \in [start : Shas, moved : BOOLEAN] /\ n.start = remote[b].start /\ n # NoBranch
      BY <2>1, <2>2 DEF NoBranch
    <2>4. remote' = [remote EXCEPT ![b] = n] /\ remote[b] # NoBranch
      BY <2>1, <2>2 DEF StudentPush
    <2> QED
      BY <2>1, <2>3, <2>4
  <1>4. Typed' /\ Grows
    BY <1>1, <1>2, <1>3 DEF Typed, Grows, Extends
  <1>5. \A s \in Rows : mappings[s].url => mappings[s].branch \in Texts
    BY <1>2 DEF Typed, Filled, Mapping
  <1>6. Stores'
    <2>1. published' = published
      BY ONLY <1>1 DEF published
    <2>2. OneStarter'
      BY ONLY <1>1, <1>2, <1>3 DEF Stores, OneStarter
    <2>3. WithheldUntilReady'
      BY ONLY <1>1, <1>2, <2>1 DEF Stores, WithheldUntilReady
    <2>4. CardTellsTheTruth'
      BY ONLY <1>1, <1>2, <1>3, <1>5, <2>1 DEF Stores, CardTellsTheTruth, published
    <2>5. UrlsExist'
      BY ONLY <1>1, <1>2, <1>3, <1>5 DEF Stores, UrlsExist
    <2> QED
      BY ONLY <2>2, <2>3, <2>4, <2>5 DEF Stores
  <1> QED
    BY <1>1, <1>4, <1>6, OutsideKept DEF IInv

LEMMA EditStep ==
    ASSUME IInv, NEW r \in Rows, NEW kind \in Edits, Edit(r, kind)
    PROVE  IInv'
  <1>1. /\ UNCHANGED mappings /\ UNCHANGED remote /\ UNCHANGED jobs /\ UNCHANGED thread
        /\ UNCHANGED faults
    BY DEF Edit
  <1>2. Typed /\ Stores
    BY DEF IInv, TypeOK, Typed
  <1>3. PICK c \in Card :
            /\ cards' = [cards EXCEPT ![r] = c] /\ c.id = cards[r].id
            /\ kind # "who" => c.who = cards[r].who
            /\ kind # "url" => c.url = cards[r].url
    <2> DEFINE o == cards[r]
    <2>0. o \in Card
      BY <1>2 DEF Typed
    <2>1. CASE kind = "text"
      <3>1. PICK x \in Texts : cards' = [cards EXCEPT ![r].text = x]
        BY <2>1 DEF Edit
      <3>2. [o EXCEPT !.text = x] \in Card
        BY <2>0 DEF Card
      <3> QED
        BY <1>2, <2>0, <3>1, <3>2 DEF Typed, Card
    <2>2. CASE kind = "who"
      <3>1. PICK w \in SUBSET People : cards' = [cards EXCEPT ![r].who = w]
        BY <2>2 DEF Edit
      <3>2. [o EXCEPT !.who = w] \in Card
        BY <2>0 DEF Card
      <3> QED
        BY <1>2, <2>0, <2>2, <3>1, <3>2 DEF Typed, Card
    <2>3. CASE kind = "url"
      <3>1. cards' = [cards EXCEPT ![r].url = TRUE]
        BY <2>3 DEF Edit
      <3>2. [o EXCEPT !.url = TRUE] \in Card
        BY <2>0 DEF Card
      <3> QED
        BY <1>2, <2>0, <2>3, <3>1, <3>2 DEF Typed, Card
    <2>4. CASE kind = "active"
      <3>1. cards' = [cards EXCEPT ![r].active = ~o.active]
        BY <2>4 DEF Edit
      <3>2. [o EXCEPT !.active = ~o.active] \in Card
        BY <2>0 DEF Card
      <3> QED
        BY <1>2, <2>0, <3>1, <3>2 DEF Typed, Card
    <2> QED
      BY <2>1, <2>2, <2>3, <2>4 DEF Edits
  <1>4. /\ edited' = [edited EXCEPT ![r] = edited[r] \cup {kind}]
        /\ edits > 0 /\ edits' = edits - 1
    BY DEF Edit
  <1>5. /\ cards'[r] = c /\ \A s \in Rows \ {r} : cards'[s] = cards[s]
        /\ edited'[r] = edited[r] \cup {kind}
        /\ \A s \in Rows \ {r} : edited'[s] = edited[s]
    BY <1>2, <1>3, <1>4 DEF Typed
  <1>6. Typed'
    BY <1>1, <1>2, <1>3, <1>4 DEF Typed
  <1>7. Grows
    BY <1>1, <1>3, <1>5 DEF Grows, Extends
  <1>8. /\ published' \subseteq published
        /\ \A s \in Rows : cards'[s].id = cards[s].id
        /\ \A s \in Rows : "who" \notin edited'[s] =>
               "who" \notin edited[s] /\ cards'[s].who = cards[s].who
    BY <1>3, <1>5 DEF published
  <1>9. Stores'
    <2>1. OneStarter' /\ UrlsExist'
      BY <1>1, <1>2 DEF Stores, OneStarter, UrlsExist
    <2>2. CardTellsTheTruth'
      <3>1. published \subseteq Rows
        BY DEF published
      <3> QED
        BY <1>1, <1>2, <1>8, <3>1 DEF Stores, CardTellsTheTruth
    <2>3. WithheldUntilReady'
      BY <1>1, <1>2, <1>8 DEF Stores, WithheldUntilReady, ForLearner
    <2> QED
      BY <2>1, <2>2, <2>3 DEF Stores
  <1> QED
    BY <1>1, <1>6, <1>7, <1>9, OutsideKept DEF IInv

-----------------------------------------------------------------------------
(* The theorems.                                                           *)

LEMMA NextInv == IInv /\ [Next]_vars => IInv'
  <1> SUFFICES ASSUME IInv, [Next]_vars PROVE IInv'
    OBVIOUS
  <1>1. ASSUME NEW t \in Threads, List(t) PROVE IInv'
    BY <1>1, ListStep
  <1>2. ASSUME NEW t \in Threads, Step(t) PROVE IInv'
    BY <1>2, RegisterStep, FindStep, AllocateStep, ReserveStep, PrepareBranchStep,
       RecordStarterStep, EnsurePreparedStep, RecordBranchStep, EnsureSuiteStep, PublishStep
       DEF Step
  <1>3. ASSUME NEW t \in Threads, Fail(t) PROVE IInv'
    BY <1>3, FailStep
  <1>4. ASSUME Crash PROVE IInv'
    BY <1>4, CrashStep
  <1>5. ASSUME NEW r \in Rows, Suite(r) PROVE IInv'
    BY <1>5, SuiteStep
  <1>6. ASSUME NEW r \in Rows, NEW kind \in Edits, Edit(r, kind) PROVE IInv'
    BY <1>6, EditStep
  <1>7. ASSUME NEW b \in Rows \X Texts, StudentPush(b) PROVE IInv'
    BY <1>7, StudentPushStep
  <1>8. ASSUME UNCHANGED vars PROVE IInv'
    <2>1. UNCHANGED <<world, bounds>> /\ UNCHANGED thread
      BY <1>8 DEF vars, world, bounds
    <2> QED
      BY <2>1, SameWorld, OutsideKept DEF IInv
  <1> QED
    BY <1>1, <1>2, <1>3, <1>4, <1>5, <1>6, <1>7, <1>8 DEF Next

LEMMA AlwaysIInv == Spec => []IInv
  BY InitInv, NextInv, PTL DEF Spec

\* Types, and the assertions of reconcile_once on the mapping it works with.
THEOREM TypeCorrect == Spec => []TypeOK
  <1>1. IInv => TypeOK
    BY DEF IInv
  <1> QED
    BY <1>1, AlwaysIInv, PTL

\* Passes of any number of threads, each with a commit of its own in hand, get one branch
\* and one starter commit per task into the mapping, GitHub and the grader.
THEOREM StarterUnique == Spec => []OneStarter
  <1>1. IInv => OneStarter
    BY DEF IInv, Stores
  <1> QED
    BY <1>1, AlwaysIInv, PTL

\* No pass, however old its snapshot, shows a learner a branch without a hidden suite.
THEOREM BranchWithheld == Spec => []WithheldUntilReady
  <1>1. IInv => WithheldUntilReady
    BY DEF IInv, Stores
  <1> QED
    BY <1>1, AlwaysIInv, PTL

\* What the bridge has written on a card is true, and no two tasks have the same id.
THEOREM CardTrue == Spec => []CardTellsTheTruth
  <1>1. IInv => CardTellsTheTruth
    BY DEF IInv, Stores
  <1> QED
    BY <1>1, AlwaysIInv, PTL
================================================================================
