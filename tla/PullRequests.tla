---------------------------- MODULE PullRequests ----------------------------
(***************************************************************************)
(* The pull-request lifecycle of one task branch: what _handle_claimed     *)
(* does with a pull_request delivery.  The events of GitHub decide the     *)
(* status of the Yonote card and the pr_* columns of task_mappings, which  *)
(* are written one after the other under the handler's lifecycle lock.     *)
(*                                                                         *)
(* Events reach the handler in any order, more than once and in several    *)
(* threads; timestamps have a resolution of one second.  The queue is      *)
(* abstracted to what it promises (module Deliveries): a delivery may be   *)
(* handled at any time by any thread, even when done, and it is done only  *)
(* after a handler has returned for it.  GitHub and Yonote are external.   *)
(***************************************************************************)
EXTENDS Naturals

CONSTANTS
    Events,        \* pull_request deliveries
    Handlers,       \* HTTP threads and the retrier
    NoEvent,
    MaxNumber,     \* bound: pull requests of the branch
    MaxSecond,     \* bound: seconds that pass on GitHub
    MaxTorn        \* bound: failures between the write of the card and that of the record

ASSUME PullRequestsAssumption ==
    /\ NoEvent \notin Events
    /\ MaxNumber \in Nat \ {0}
    /\ MaxSecond \in Nat
    /\ MaxTorn \in Nat

VARIABLES
    second,   \* GitHub: the current second
    pulls,    \* GitHub: state and updated_at of each pull request
    sent,     \* GitHub: the payload of each delivery
    done,     \* deliveries whose row is completed
    record,   \* pr_number, pr_state, pr_updated_at of the task's mapping
    card,     \* Yonote: pull request and status last written to the card
    handler,   \* what each thread is doing
    torn      \* how often the card was written and the record was not

github == <<second, pulls, sent>>
prVars == <<github, done, record, card, handler, torn>>

Numbers == 1..MaxNumber
Seconds == 0..MaxSecond
PrStates == {"none", "in_progress", "review", "done"}

Payload == [number : 0..MaxNumber, state : PrStates, time : Seconds]

Nothing == [number |-> 0, state |-> "none", time |-> 0]

\* "updating" and "recording" are inside the lifecycle lock; state and time are what
\* the thread is about to write.
Handler == [pc : {"idle", "handling", "updating", "recording", "handled"},
           event : Events \cup {NoEvent}, state : PrStates, time : Seconds]

IdleHandler == [pc |-> "idle", event |-> NoEvent, state |-> "none", time |-> 0]

PrTypeOK ==
    /\ second \in Seconds
    /\ pulls \in [Numbers -> [state : {"none", "draft", "open", "closed", "merged"},
                              time : Seconds]]
    /\ sent \in [Events -> Payload]
    /\ done \subseteq Events
    /\ record \in Payload
    /\ card \in [number : 0..MaxNumber, state : PrStates]
    /\ handler \in [Handlers -> Handler]
    /\ torn \in 0..MaxTorn

MoveTo(h, pc) == handler' = [handler EXCEPT ![h] = [@ EXCEPT !.pc = pc]]

PrInit ==
    /\ second = 0
    /\ pulls = [n \in Numbers |-> [state |-> "none", time |-> 0]]
    /\ sent = [e \in Events |-> Nothing]
    /\ done = {}
    /\ record = Nothing
    /\ card = [number |-> 0, state |-> "none"]
    /\ handler = [h \in Handlers |-> IdleHandler]
    /\ torn = 0

-----------------------------------------------------------------------------
(* GitHub.                                                                 *)

\* What the handled actions, and resolve(), make of the state of a pull request.
PrState(state) ==
    CASE state = "open"   -> "review"
      [] state = "merged" -> "done"
      [] OTHER            -> "in_progress"

Open(n) == pulls[n].state \in {"draft", "open"}

\* One open pull request per branch, and a merged one stays merged.
CanBecome(n, state) ==
    CASE pulls[n].state = "none"   ->
            /\ state \in {"draft", "open"}
            /\ \A m \in Numbers : IF m < n THEN pulls[m].state \in {"closed", "merged"}
                                  ELSE pulls[m].state = "none"
      [] pulls[n].state = "draft"  -> state \in {"open", "closed"}
      [] pulls[n].state = "open"   -> state \in {"draft", "closed", "merged"}
      [] pulls[n].state = "closed" -> state \in {"draft", "open"} /\ ~\E m \in Numbers : Open(m)
      [] OTHER                     -> FALSE

\* A user opens, closes, reopens, merges, drafts; a delivery tells of it.
Change(e, n, state) ==
    /\ sent[e] = Nothing
    /\ CanBecome(n, state)
    /\ pulls' = [pulls EXCEPT ![n] = [state |-> state, time |-> second]]
    /\ sent' = [sent EXCEPT ![e] = [number |-> n, state |-> PrState(state), time |-> second]]
    /\ UNCHANGED <<second, done, record, card, handler, torn>>

\* A comment or a label: updated_at moves, and no event that the handler looks at.
Touch(n) ==
    /\ Open(n)
    /\ pulls[n].time # second
    /\ pulls' = [pulls EXCEPT ![n].time = second]
    /\ UNCHANGED <<second, sent, done, record, card, handler, torn>>

NextSecond ==
    /\ second < MaxSecond
    /\ second' = second + 1
    /\ UNCHANGED <<pulls, sent, done, record, card, handler, torn>>

GitHub ==
    \/ \E e \in Events, n \in Numbers, s \in {"draft", "open", "closed", "merged"} :
            Change(e, n, s)
    \/ \E n \in Numbers : Touch(n)
    \/ NextSecond

-----------------------------------------------------------------------------
(* The handler.                                                            *)

\* A thread has claimed the delivery.
Take(h, e) ==
    /\ handler[h].pc = "idle"
    /\ sent[e] # Nothing
    /\ handler' = [handler EXCEPT ![h] = [IdleHandler EXCEPT !.pc = "handling", !.event = e]]
    /\ UNCHANGED <<github, done, record, card, torn>>

\* Mutant: events are applied as they come.
ShouldApply_Arrival(number, state, time, equal) == number >= record.number

\* _should_apply.
ShouldApply(number, state, time, equal) ==
    \/ record.number = 0
    \/ number > record.number
    \/ /\ number = record.number
       /\ record.state = "done" => state = "done"
       /\ \/ time > record.time
          \/ equal /\ time = record.time /\ state # record.state

\* Mutant: GitHub is never asked, and the second of two such events is dropped.
Ambiguous_Never(e) == FALSE

\* The event contradicts the record and is as old: only GitHub can tell.
Ambiguous(e) ==
    /\ record.number = e.number
    /\ record.state # e.state
    /\ record.time = e.time

\* Mutant: no lifecycle lock.
LockFree_Always == TRUE

LockFree == \A h \in Handlers : handler[h].pc \notin {"updating", "recording"}

\* From taking the lock to the first write.
Decide(h) ==
    LET e == sent[handler[h].event]
        asked == Ambiguous(e)
        state == IF asked THEN PrState(pulls[e.number].state) ELSE e.state
        time == IF asked THEN pulls[e.number].time ELSE e.time
    IN  /\ handler[h].pc = "handling"
        /\ LockFree
        /\ IF ShouldApply(e.number, state, time, asked)
           THEN handler' = [handler EXCEPT ![h] =
                    [@ EXCEPT !.pc = "updating", !.state = state, !.time = time]]
           ELSE MoveTo(h, "handled")
        /\ UNCHANGED <<github, done, record, card, torn>>

\* The lookup or the database fails: the delivery is given back.
DecideFails(h) ==
    /\ handler[h].pc = "handling"
    /\ handler' = [handler EXCEPT ![h] = IdleHandler]
    /\ UNCHANGED <<github, done, record, card, torn>>

NewCard(h) == [number |-> sent[handler[h].event].number, state |-> handler[h].state]

UpdateCard(h) ==
    /\ handler[h].pc = "updating"
    /\ card' = NewCard(h)
    /\ MoveTo(h, "recording")
    /\ UNCHANGED <<github, done, record, torn>>

\* Yonote refuses the transaction.
UpdateFails(h) ==
    /\ handler[h].pc = "updating"
    /\ handler' = [handler EXCEPT ![h] = IdleHandler]
    /\ UNCHANGED <<github, done, record, card, torn>>

\* Yonote carries it out and the answer is lost.
UpdateUnanswered(h) ==
    /\ handler[h].pc = "updating"
    /\ torn < MaxTorn
    /\ torn' = torn + 1
    /\ card' = NewCard(h)
    /\ handler' = [handler EXCEPT ![h] = IdleHandler]
    /\ UNCHANGED <<github, done, record>>

Record(h) ==
    /\ handler[h].pc = "recording"
    /\ record' = [number |-> sent[handler[h].event].number,
                  state |-> handler[h].state, time |-> handler[h].time]
    /\ MoveTo(h, "handled")
    /\ UNCHANGED <<github, done, card, torn>>

\* The database fails under record_pr_event.
RecordFails(h) ==
    /\ handler[h].pc = "recording"
    /\ torn < MaxTorn
    /\ torn' = torn + 1
    /\ handler' = [handler EXCEPT ![h] = IdleHandler]
    /\ UNCHANGED <<github, done, record, card>>

\* complete_delivery, or its lease is lost and another thread has the delivery.
Finish(h) ==
    /\ handler[h].pc = "handled"
    /\ done' \in {done, done \cup {handler[h].event}}
    /\ handler' = [handler EXCEPT ![h] = IdleHandler]
    /\ UNCHANGED <<github, record, card, torn>>

\* The bridge is one process: all its threads die together, one of them perhaps
\* between its two writes.
BridgeDies ==
    /\ \E h \in Handlers : handler[h].pc # "idle"
    /\ torn' = IF \E h \in Handlers : handler[h].pc = "recording" THEN torn + 1 ELSE torn
    /\ torn' <= MaxTorn
    /\ handler' = [h \in Handlers |-> IdleHandler]
    /\ UNCHANGED <<github, done, record, card>>

Handle(h) ==
    \/ \E e \in Events : Take(h, e)
    \/ Decide(h)
    \/ DecideFails(h)
    \/ UpdateCard(h)
    \/ UpdateFails(h)
    \/ UpdateUnanswered(h)
    \/ Record(h)
    \/ RecordFails(h)
    \/ Finish(h)

PrNext == GitHub \/ (\E h \in Handlers : Handle(h)) \/ BridgeDies

PrSpec == PrInit /\ [][PrNext]_prVars

-----------------------------------------------------------------------------
(* Safety.                                                                 *)

\* Every event so far is done with and no thread is at work.
Settled ==
    /\ \A e \in Events : sent[e] = Nothing \/ e \in done
    /\ \A h \in Handlers : handler[h].pc = "idle"

\* Whatever the order in which the events came, and however many happened in one
\* second: once all are done with, the record (_should_apply, record_pr_event) has the
\* newest pull request in the state GitHub has it in.
RecordConverges ==
    Settled =>
        /\ \A n \in Numbers : pulls[n].state # "none" => n <= record.number
        /\ record.number # 0 => record.state = PrState(pulls[record.number].state)

\* And so does the card, which update_task writes before the record is written: what a
\* student and a mentor see in Yonote is where the pull request is.
CardConverges ==
    Settled =>
        /\ card.number = record.number
        /\ record.number # 0 => card.state = PrState(pulls[record.number].state)

\* The card is right as long as no handler was cut off between its two writes, with
\* refused updates, failed lookups and redeliveries allowed.
CardConvergesUntorn == torn = 0 => CardConverges

\* The record only moves forward: to a newer pull request, or to a later time of the
\* same one, and never out of "done".
RecordAdvances ==
    \/ record'.number > record.number
    \/ /\ record'.number = record.number
       /\ record'.time >= record.time
       /\ record.state = "done" => record'.state = "done"
RecordOnlyAdvances == [][RecordAdvances]_prVars
=============================================================================
