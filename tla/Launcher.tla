------------------------------ MODULE Launcher ------------------------------
(* The VM launcher and its clients (grader/vm_launcher.py, qemu_launcher_server.py): the   *)
(* grading worker and the acceptance gate of the authoring worker ask for one case at a    *)
(* time, over a connection for each, and the server handles one connection after the       *)
(* other. A client that has waited for too long closes its connection, but the request is  *)
(* in the server's queue and will be run all the same, for nobody, before the next. The    *)
(* language-model broker (llm_broker.py) is a server of the same making, with one client.  *)
EXTENDS Naturals, Sequences, FiniteSets

CONSTANTS
    Clients,   \* the processes that use the server
    Nobody,    \* the sender of a request whose client has gone
    Probe,     \* the health check of compose.yaml: it connects, and sends nothing
    Patience,  \* timeout_seconds of the client, in ticks
    Quick,     \* how long handling a request takes when all is well
    Slow,      \* how long it may take otherwise, within the server's limits
    Rests,     \* how long a client may pause after a failure
    Cases,     \* requests of a round: the cases of a suite, twice those for the gate
    Backlog,   \* connections that wait to be accepted
    MaxProbes  \* bound: health checks among them

ASSUME LauncherAssumption ==
    /\ Nobody # Probe /\ {Nobody, Probe} \cap Clients = {}
    /\ {Patience, Cases, Backlog} \subseteq Nat \ {0} /\ MaxProbes \in Nat
    /\ Quick \cup Slow \cup Rests \subseteq Nat \ {0}

VARIABLES
    client,   \* of each client: what it does, its timer, the cases its round still has
    server,   \* what it does, for which connection, and for how much longer
    queue,    \* the connections that wait
    trouble   \* history: since the server was last out of work, it has been slow, or a
              \* request was abandoned

vars == <<client, server, queue, trouble>>

Connections == Clients \cup {Nobody, Probe}
Idle == [pc |-> "idle", for |-> Nobody, timer |-> 0]
Resting(n) == [pc |-> "resting", timer |-> n, cases |-> Cases]

Init ==
    /\ client = [c \in Clients |-> Resting(0)]
    /\ server = Idle /\ queue = <<>> /\ trouble = FALSE

Note(disturbance) ==
    trouble' = ((trouble \/ disturbance) /\ ~(queue' = <<>> /\ server'.pc # "handling"))

-----------------------------------------------------------------------------
(* A client. *)

\* Whatever goes wrong with a request ends the round: SuiteInfrastructureError.
Fails(c) == \E n \in Rests : client' = [client EXCEPT ![c] = Resting(n)]

Full == Len(queue) = Backlog

\* connect and _send_frame.
Ask(c) ==
    /\ client[c].pc = "resting" /\ client[c].timer = 0
    /\ IF server.pc = "down" \/ Full
       THEN Fails(c) /\ UNCHANGED queue
       ELSE /\ client' = [client EXCEPT ![c].pc = "waiting", ![c].timer = Patience]
            /\ queue' = Append(queue, c)
    /\ UNCHANGED server /\ Note(FALSE)

\* The connection is closed; the server does not know.
Abandon(c) ==
    /\ client[c].pc = "waiting" /\ Fails(c)
    /\ queue' = [i \in DOMAIN queue |-> IF queue[i] = c THEN Nobody ELSE queue[i]]
    /\ server' = IF server.for = c THEN [server EXCEPT !.for = Nobody] ELSE server
    /\ Note(TRUE)

\* recv times out.
GiveUp(c) == client[c].timer = 0 /\ Abandon(c)

\* The process ends, and is started again.
Dies(c) == client[c].timer > 0 /\ Abandon(c)

\* There is another suite to evaluate.
NextRound(c) ==
    /\ client[c].pc = "done"
    /\ client' = [client EXCEPT ![c] = Resting(0)]
    /\ UNCHANGED <<server, queue, trouble>>

-----------------------------------------------------------------------------
(* The server. *)

\* Mutant: the newest connection first.
Accept_newest ==
    /\ server.pc = "idle" /\ queue # <<>> /\ queue' = SubSeq(queue, 1, Len(queue) - 1)
    /\ IF queue[Len(queue)] = Probe
       THEN UNCHANGED server /\ Note(FALSE)
       ELSE \E n \in Quick \cup Slow :
                /\ server' = [pc |-> "handling", for |-> queue[Len(queue)], timer |-> n]
                /\ Note(n \notin Quick)
    /\ UNCHANGED client

\* The handler reads the request, which is complete even if its client has gone, and hands it
\* to the backend. A connection without a request ends at once.
Accept ==
    /\ server.pc = "idle" /\ queue # <<>> /\ queue' = Tail(queue)
    /\ IF Head(queue) = Probe
       THEN UNCHANGED server /\ Note(FALSE)
       ELSE \E n \in Quick \cup Slow :
                /\ server' = [pc |-> "handling", for |-> Head(queue), timer |-> n]
                /\ Note(n \notin Quick)
    /\ UNCHANGED client

\* Mutant: a request whose answer could not be sent is handled again.
Swallow_again == queue' = Append(queue, Nobody)

\* The answer to a closed connection raises OSError, which is swallowed.
Swallow == UNCHANGED queue

\* The answer is sent. After the last case the round is done.
Finish ==
    /\ server.pc = "handling" /\ server.timer = 0 /\ server' = Idle
    /\ IF server.for = Nobody
       THEN Swallow /\ UNCHANGED client
       ELSE /\ client' = [client EXCEPT ![server.for] =
                    [pc |-> IF @.cases = 1 THEN "done" ELSE "resting",
                     timer |-> 0, cases |-> @.cases - 1]]
            /\ UNCHANGED queue
    /\ Note(FALSE)

\* The backend raises, at any time: the answer has the status "error".
BackendFails ==
    /\ server.pc = "handling" /\ server' = Idle
    /\ IF server.for = Nobody THEN UNCHANGED client ELSE Fails(server.for)
    /\ UNCHANGED queue /\ Note(FALSE)

\* The server stops, or is killed: every connection is closed.
Crash ==
    /\ server.pc # "down" /\ server' = [Idle EXCEPT !.pc = "down"] /\ queue' = <<>>
    /\ \E n \in Rests : client' =
            [c \in Clients |-> IF client[c].pc = "waiting" THEN Resting(n) ELSE client[c]]
    /\ Note(FALSE)

\* It is started again, and replaces the socket that the other has left.
Restart ==
    /\ server.pc = "down" /\ server' = Idle
    /\ UNCHANGED <<client, queue, trouble>>

\* A health check is over as soon as it is connected, but its connection stays in the queue until
\* it is accepted; the next comes half a minute later, and may find the first still there.
HealthCheck ==
    /\ server.pc # "down" /\ ~Full
    /\ Cardinality({i \in DOMAIN queue : queue[i] = Probe}) < MaxProbes
    /\ queue' = Append(queue, Probe)

-----------------------------------------------------------------------------
\* Time passes while nothing is due. (Bound: at most one health check in a tick.)
Tick ==
    /\ \A c \in Clients : client[c].pc # "done" => client[c].timer > 0
    /\ server.pc = "handling" => server.timer > 0
    /\ server.pc = "idle" => queue = <<>>
    /\ client' = [c \in Clients |-> [client[c] EXCEPT !.timer = IF @ = 0 THEN 0 ELSE @ - 1]]
    /\ server' = [server EXCEPT !.timer = IF @ = 0 THEN 0 ELSE @ - 1]
    /\ HealthCheck \/ UNCHANGED queue
    /\ UNCHANGED trouble

ClientStep(c) == Ask(c) \/ GiveUp(c)
ServerStep == Accept \/ Finish \/ Restart

Next == \/ \E c \in Clients : ClientStep(c) \/ Dies(c) \/ NextRound(c)
        \/ ServerStep \/ BackendFails \/ Crash \/ Tick

Spec == Init /\ [][Next]_vars

\* The processes go on, and so does time.
Fairness == WF_vars(ServerStep) /\ WF_vars(Tick) /\ \A c \in Clients : WF_vars(ClientStep(c))

-----------------------------------------------------------------------------
TypeOK ==
    /\ client \in [Clients -> [pc : {"resting", "waiting", "done"},
                               timer : 0 .. Patience, cases : 0 .. Cases]]
    /\ server.pc \in {"down", "idle", "handling"} /\ server.for \in Connections
    /\ server.timer \in Nat
    /\ queue \in Seq(Connections) /\ Len(queue) <= Backlog
    /\ trouble \in BOOLEAN

\* The client's limit (vm_launcher.py:64) has room for the case of another client before its own:
\* a client times out only if, since the server was last without work, a VM took longer than it
\* should, or a request was abandoned before. Requests of others alone do not make one.
NoNeedlessTimeout == [][(\E c \in Clients : GiveUp(c)) => trouble]_vars

\* From now on every VM is quick, and no process dies or fails.
Calm == /\ server'.timer > server.timer => server'.timer \in Quick
        /\ ~BackendFails /\ ~Crash /\ \A c \in Clients : ~Dies(c)

\* A backlog of abandoned requests does not keep itself alive: once all is well, the clients that
\* wait behind it, time out and come again outlive it, and each gets all of a round's cases answered.
ClientsAreServed ==
    <>[][Calm]_vars => \A c \in Clients : client[c].pc = "resting" ~> client[c].pc = "done"
=============================================================================
