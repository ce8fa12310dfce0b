----------------------------- MODULE Deliveries -----------------------------
(***************************************************************************)
(* The webhook_deliveries queue of the bridge: GitHub's deliveries are     *)
(* persisted when they arrive, processed by the HTTP thread that took them *)
(* and, should that fail, by the retrier thread.                           *)
(*                                                                         *)
(* What processing a delivery does is left open here: the handler returns, *)
(* which applies the delivery, or it raises.  Module PullRequests says     *)
(* what it does for a pull request, module Pipeline for a push.            *)
(***************************************************************************)
EXTENDS Leases, Integers

CONSTANTS
    Ids,           \* X-GitHub-Delivery ids
    Handlers,      \* threads of the ThreadingHTTPServer
    Retrier,       \* the github-webhook-retrier thread
    NoId,
    RetryTicks,    \* delay_seconds = 30 of the retrier, in ticks
    Retention      \* completed_delivery_retention

ASSUME DeliveriesAssumption ==
    /\ Retrier \notin Handlers
    /\ NoId \notin Ids
    /\ RetryTicks \in Nat \ {0}
    /\ Retention \in Nat

VARIABLES
    rows,       \* table webhook_deliveries
    queue,      \* <<d, e>>: both unfinished, d before e by next_attempt_at, received_at
    finished,   \* its completed rows by completed_at
    applied,    \* deliveries a handler has returned for
    thread      \* what each thread is doing

vars == <<rows, queue, finished, applied, thread>>

Threads == Handlers \cup {Retrier}

NeverReleased == -1     \* the default 0 of next_attempt_at: before every instant

\* "absent" was never received; a "pruned" row is deleted, and as good as absent.
Row == [state : {"absent", "pending", "processing", "completed", "pruned"},
        token : MaybeToken, lease : 0..LeaseTicks, delay : NeverReleased..RetryTicks]

\* "handling" is inside _handle_claimed, "handled" before complete_delivery,
\* "failing" before release_delivery.
Thread == [pc : {"idle", "handling", "handled", "failing"},
           id : Ids \cup {NoId}, token : MaybeToken]

TypeOK ==
    /\ rows \in [Ids -> Row]
    /\ queue \in SUBSET (Ids \X Ids)
    /\ finished \in Seq(Ids)
    /\ applied \subseteq Ids
    /\ thread \in [Threads -> Thread]

Gone(state) == [state |-> state, token |-> NoToken, lease |-> 0, delay |-> NeverReleased]

Idle == [pc |-> "idle", id |-> NoId, token |-> NoToken]

Goto(th, pc) == thread' = [thread EXCEPT ![th] = [@ EXCEPT !.pc = pc]]

Init ==
    /\ rows = [d \in Ids |-> Gone("absent")]
    /\ queue = {}
    /\ finished = <<>>
    /\ applied = {}
    /\ thread = [th \in Threads |-> Idle]

-----------------------------------------------------------------------------
(* Claims.                                                                 *)

Fresh(t) ==
    /\ \A d \in Ids : rows[d].token # t
    /\ \A th \in Threads : thread[th].token # t

Without(d) == {pair \in queue : d \notin {pair[1], pair[2]}}

\* queue with d put where next_attempt_at = delay belongs.
Placed(d, delay) ==
    LET others == {e \in Ids \ {d} : rows[e].state \in {"pending", "processing"}}
    IN  Without(d) \cup {<<e, d>> : e \in {e \in others : rows[e].delay <= delay}}
                   \cup {<<d, e>> : e \in {e \in others : rows[e].delay > delay}}

Take(th, d, t) ==
    /\ thread[th].pc = "idle"
    /\ Fresh(t)
    /\ rows' = [rows EXCEPT ![d] = [@ EXCEPT !.state = "processing", !.token = t,
                                             !.lease = LeaseTicks]]
    /\ thread' = [thread EXCEPT ![th] = [pc |-> "handling", id |-> d, token |-> t]]
    /\ UNCHANGED <<finished, applied>>

\* handle and claim_delivery: GitHub delivers, or delivers again.  A completed
\* delivery is acknowledged and a leased one refused (503), both without a change.
Receive(h, d, t) ==
    /\ \/ rows[d].state \in {"absent", "pruned"} /\ queue' = Placed(d, NeverReleased)
       \/ rows[d].state = "pending" /\ UNCHANGED queue
       \/ Expired(rows[d], "processing") /\ UNCHANGED queue
    /\ Take(h, d, t)

\* Mutant: a delivery whose thread died is left to GitHub.
Retriable_PendingOnly == {d \in Ids : rows[d].delay <= 0 /\ rows[d].state = "pending"}

Retriable ==
    {d \in Ids : /\ rows[d].delay <= 0
                 /\ rows[d].state = "pending" \/ Expired(rows[d], "processing")}

\* retry_pending_once and claim_next_delivery.
RetryClaim(d, t) ==
    /\ d \in Retriable /\ \A e \in Retriable : <<e, d>> \notin queue
    /\ Take(Retrier, d, t)
    /\ UNCHANGED queue

-----------------------------------------------------------------------------
(* Processing.                                                             *)

\* _handle_claimed returns.
Handle(th) ==
    /\ thread[th].pc = "handling"
    /\ applied' = applied \cup {thread[th].id}
    /\ Goto(th, "handled")
    /\ UNCHANGED <<rows, queue, finished>>

\* Mutant: a delivery whose handler raised is completed all the same.
Raise_Swallowed(th) ==
    /\ thread[th].pc = "handling"
    /\ Goto(th, "handled")
    /\ UNCHANGED <<rows, queue, finished, applied>>

\* _handle_claimed raises: Yonote, the lookup or the database fails, or the suite of
\* a pushed task is not ready.
Raise(th) ==
    /\ thread[th].pc = "handling"
    /\ Goto(th, "failing")
    /\ UNCHANGED <<rows, queue, finished, applied>>

Mine(th) == Owned(rows[thread[th].id], "processing", thread[th].token)

\* complete_delivery, which also deletes all but the latest completed rows.
Complete(th) ==
    LET d == thread[th].id
        latest == Append(finished, d)
        pruned == IF Len(latest) > Retention THEN {latest[1]} ELSE {}
    IN  /\ thread[th].pc = "handled"
        /\ Mine(th)
        /\ rows' = [e \in Ids |-> IF e \in pruned THEN Gone("pruned")
                                  ELSE IF e = d THEN Gone("completed") ELSE rows[e]]
        /\ queue' = Without(d)
        /\ finished' = IF pruned = {} THEN latest ELSE Tail(latest)
        /\ thread' = [thread EXCEPT ![th] = Idle]
        /\ UNCHANGED applied

\* The retrier gives back for thirty seconds, an HTTP thread for none.
ReleaseDelay(th) == IF th = Retrier THEN RetryTicks ELSE 0

\* release_delivery with the lease still owned.
Release(th) ==
    /\ thread[th].pc = "failing"
    /\ Mine(th)
    /\ rows' = [rows EXCEPT ![thread[th].id] =
                    [Gone("pending") EXCEPT !.delay = ReleaseDelay(th)]]
    /\ queue' = Placed(thread[th].id, ReleaseDelay(th))
    /\ thread' = [thread EXCEPT ![th] = Idle]
    /\ UNCHANGED <<finished, applied>>

\* The lease is lost, or the database refuses: the thread ends without a write.
Abandon(th) ==
    /\ thread[th].pc \in {"handled", "failing"}
    /\ thread' = [thread EXCEPT ![th] = Idle]
    /\ UNCHANGED <<rows, queue, finished, applied>>

\* The bridge is one process: all its threads die together.
Crash ==
    /\ \E th \in Threads : thread[th].pc # "idle"
    /\ thread' = [th \in Threads |-> Idle]
    /\ UNCHANGED <<rows, queue, finished, applied>>

Tick ==
    /\ rows' = [d \in Ids |-> [rows[d] EXCEPT !.lease = Down(@),
                                              !.delay = IF @ > 0 THEN Down(@) ELSE @]]
    /\ UNCHANGED <<queue, finished, applied, thread>>

Process(th) ==
    \/ Handle(th)
    \/ Raise(th)
    \/ Complete(th)
    \/ Release(th)
    \/ Abandon(th)

Arrive == \E h \in Handlers, d \in Ids, t \in Tokens : Receive(h, d, t)

Retry == \E d \in Ids, t \in Tokens : RetryClaim(d, t)

Work ==
    \/ Arrive
    \/ Retry
    \/ \E th \in Threads : Process(th)
    \/ Crash

Next == Work \/ Tick

Spec == Init /\ [][Next]_vars

-----------------------------------------------------------------------------
(* Safety.                                                                 *)

Done(d) == rows[d].state \in {"completed", "pruned"}

\* Persisted, not lost: a delivery is done with only after a handler has returned for
\* it, whoever took it, lost it and took it again in between.
DoneIsApplied == \A d \in Ids : Done(d) => d \in applied

\* A completed delivery is pruned at most: no thread that lost its lease reopens it.
CompletedKept ==
    \A d \in Ids :
        rows[d].state = "completed" => rows'[d] = rows[d] \/ rows'[d].state = "pruned"
CompletedIsFinal == [][CompletedKept]_vars

\* While the lease of a delivery runs, only the thread that holds it ends it.
LeaseHonoured ==
    \A d \in Ids :
        rows[d].lease > 0 /\ rows'[d].token # rows[d].token =>
            \E th \in Threads : thread[th].token = rows[d].token /\ thread'[th] = Idle
LeaseProtects == [][LeaseHonoured]_vars

-----------------------------------------------------------------------------
(* Liveness.                                                               *)

\* A tick is the thirty seconds of a release; the retrier looks every poll_interval,
\* and at once after a success.
PromptTick ==
    /\ thread[Retrier].pc = "idle" => Retriable = {}
    /\ Tick

PromptNext == Work \/ PromptTick

HandleIt(th, d) == thread[th].id = d /\ Handle(th)

CompleteIt(th, d) == thread[th].id = d /\ Complete(th)

\* Threads run on and the clock advances; crashes come to an end, and so do the
\* deliveries, which GitHub sends once and again only when asked to by hand; and the
\* handler of a delivery in Healthy, and complete_delivery, do not fail every time.
DeliveryFairness(Healthy) ==
    /\ WF_vars(PromptTick)
    /\ WF_vars(Retry)
    /\ \A th \in Threads : WF_vars(Process(th))
    /\ \A th \in Threads, d \in Healthy : SF_vars(HandleIt(th, d)) /\ SF_vars(CompleteIt(th, d))
    /\ <>[][~Arrive /\ ~Crash]_vars
=============================================================================
