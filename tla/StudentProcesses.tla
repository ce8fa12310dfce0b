-------------------------- MODULE StudentProcesses --------------------------
(* The processes of one test case inside the guest: the trusted runner of               *)
(* grader/guest_case_runner.py, the child it starts for the student's program, and       *)
(* whatever that program forks. Before the runner reads what they wrote (and, for a      *)
(* "python_call", before the child reads what the student's function wrote) every        *)
(* process of the student must be gone: the reader kills the process group, then scans   *)
(* /proc for its children and kills them until a scan finds none. A scan looks at one    *)
(* process after the other, while they fork, leave the group, exit and are adopted.      *)
(*                                                                                       *)
(* Process ids are not reused. SIGKILL takes effect later: a process that was sent one   *)
(* is "doomed", runs no code of its own any more, and dies in a step of its own. That    *)
(* the student's processes, which have the user of runner and child, signal these is     *)
(* left to CaseExecution: runner and child are not stopped or killed by them here.       *)
EXTENDS Naturals, Adapters

CONSTANTS
    Runner,       \* the trusted runner
    Child,        \* the process it starts
    Descendants,  \* the processes that the student's program may fork
    MaxRounds     \* bound: the scans that fit into the half second of _terminate_descendants

ASSUME StudentProcessesAssumption ==
    /\ MaxRounds \in Nat \ {0}
    /\ Runner # Child /\ {Runner, Child} \cap Descendants = {}

VARIABLES
    threads,  \* does the student's function leave threads running in the child?
    proc,     \* of each process of the student: its state, parent and process group
    reaper    \* of runner and child: where they are, and what their scan has found so far

vars == <<adapter, threads, proc, reaper>>

Students == {Child} \cup Descendants
Reapers == {Runner, Child}
Existing == {"alive", "doomed", "zombie"}

\* The runner starts in communicate() ("waiting"), the child of a python_call in the
\* student's function ("calling"); the child of a cli case is the student's program.
At(pc) == [pc |-> pc, unread |-> {}, found |-> {}, rounds |-> 0]
NextScan(n) == [pc |-> "scanning", unread |-> {p \in Students : proc'[p].state # "gone"},
                found |-> {}, rounds |-> n]

Init ==
    /\ adapter \in Adapters
    /\ threads \in BOOLEAN /\ (threads => adapter = "python_call")
    /\ proc = [p \in Students |-> [state |-> IF p = Child THEN "alive" ELSE "unborn",
                                   parent |-> Runner, group |-> Child]]
    /\ reaper = [r \in Reapers |-> At(IF r = Runner THEN "waiting"
                                      ELSE IF adapter = "cli" THEN "none" ELSE "calling")]

-----------------------------------------------------------------------------
(* The student's processes. *)

\* Student code runs in p: in the child of a python_call while the function is on the
\* stack, or afterwards in the threads it has left.
Runs(p) ==
    /\ proc[p].state = "alive"
    /\ p = Child => (adapter = "cli" \/ reaper[Child].pc = "calling" \/ threads)

\* Mutant: the child does not make itself a subreaper.
Heir_runner_only(p) == Runner

\* The nearest living ancestor that is a subreaper: the child of a python_call is one, the
\* program of a cli case is not. As long as the child lives it is an ancestor of all.
Heir(p) ==
    IF adapter = "python_call" /\ p # Child /\ proc[Child].state \in {"alive", "doomed"}
    THEN Child ELSE Runner

\* p becomes a zombie, its children, dead or alive, go to its heir.
Buried(p) ==
    [q \in Students |->
        IF q = p THEN [proc[q] EXCEPT !.state = "zombie"]
        ELSE IF proc[q].parent = p /\ proc[q].state \in Existing
             THEN [proc[q] EXCEPT !.parent = Heir(p)]
             ELSE proc[q]]

Fork(p, q) ==
    /\ Runs(p) /\ proc[q].state = "unborn"
    /\ proc' = [proc EXCEPT ![q] = [state |-> "alive", parent |-> p, group |-> proc[p].group]]
    /\ UNCHANGED <<adapter, threads, reaper>>

\* setsid(), or setpgid(0, 0).
LeaveGroup(p) ==
    /\ Runs(p) /\ proc[p].group # p
    /\ proc' = [proc EXCEPT ![p].group = p]
    /\ UNCHANGED <<adapter, threads, reaper>>

WaitFor(p, q) ==
    /\ Runs(p) /\ proc[q].state = "zombie" /\ proc[q].parent = p
    /\ proc' = [proc EXCEPT ![q].state = "gone"]
    /\ UNCHANGED <<adapter, threads, reaper>>

\* It exits by itself, or the signal takes effect.
Die(p) ==
    /\ Runs(p) \/ proc[p].state = "doomed"
    /\ proc' = Buried(p)
    /\ UNCHANGED <<adapter, threads, reaper>>

Student == \E p, q \in Students : Fork(p, q) \/ LeaveGroup(p) \/ WaitFor(p, q) \/ Die(p)

-----------------------------------------------------------------------------
(* The child of a python_call: _captured_python_call. *)

\* The function has returned or raised; what it returned is not JSON: the exception skips
\* _terminate_descendants.
CallReturns ==
    /\ reaper[Child].pc = "calling" /\ proc[Child].state = "alive"
    /\ UNCHANGED <<adapter, threads, proc>>
    /\ \E next \in {NextScan(1), At("ended")} : reaper' = [reaper EXCEPT ![Child] = next]

\* The frame is written, and main returns.
ChildExits ==
    /\ reaper[Child].pc \in {"ended", "failed"} /\ proc[Child].state = "alive"
    /\ proc' = Buried(Child)
    /\ UNCHANGED <<adapter, threads, reaper>>

-----------------------------------------------------------------------------
(* The runner: _bounded_process. *)

RunnerAt(pc) == reaper[Runner].pc = pc
RunnerGoto(to) == reaper' = [reaper EXCEPT ![Runner] = to] /\ UNCHANGED <<adapter, threads>>
Reaped(dead) == [p \in Students |-> IF p \in dead THEN [proc[p] EXCEPT !.state = "gone"] ELSE proc[p]]

\* communicate() returns when the child has exited.
Communicate ==
    /\ RunnerAt("waiting") /\ proc[Child].state = "zombie"
    /\ proc' = Reaped({Child}) /\ RunnerGoto(At("grouping"))

\* TimeoutExpired.
TimeLimit ==
    /\ RunnerAt("waiting")
    /\ UNCHANGED proc /\ RunnerGoto(At("grouping"))

\* killpg, which misses whoever has left the group; after a timeout, wait() for the child.
KillGroup ==
    /\ RunnerAt("grouping")
    /\ proc' = [p \in Students |-> IF proc[p].group = Child /\ proc[p].state = "alive"
                                   THEN [proc[p] EXCEPT !.state = "doomed"] ELSE proc[p]]
    /\ RunnerGoto(IF proc[Child].state = "gone" THEN NextScan(1) ELSE At("overdue"))

WaitForChild ==
    /\ RunnerAt("overdue") /\ proc[Child].state = "zombie"
    /\ proc' = Reaped({Child}) /\ RunnerGoto(NextScan(1))

\* The supervisor's own limit: it kills the runner, and no one reads anything.
SupervisorKills ==
    /\ reaper[Runner].pc \notin {"ended", "failed", "killed"}
    /\ UNCHANGED proc /\ RunnerGoto(At("killed"))

-----------------------------------------------------------------------------
(* _terminate_descendants, in the runner and in the child. *)

Scans(r, pc) == reaper[r].pc = pc /\ (r = Child => proc[Child].state = "alive")

\* _direct_children opens /proc/<p>/status. A zombie has one, a process forked behind the
\* reader's back is not seen.
LookAt(r, p) ==
    /\ Scans(r, "scanning") /\ p \in reaper[r].unread
    /\ reaper' = [reaper EXCEPT
            ![r].unread = @ \ {p},
            ![r].found = IF proc[p].state \in Existing /\ proc[p].parent = r THEN @ \cup {p} ELSE @]
    /\ UNCHANGED <<adapter, threads, proc>>

ScanEnds(r) ==
    /\ Scans(r, "scanning") /\ reaper[r].unread = {}
    /\ reaper' = [reaper EXCEPT ![r].pc = IF reaper[r].found = {} THEN "reading" ELSE "killing"]
    /\ UNCHANGED <<adapter, threads, proc>>

Kill(r, p) ==
    /\ Scans(r, "killing") /\ p \in reaper[r].found
    /\ proc' = [proc EXCEPT ![p].state = IF @ = "alive" THEN "doomed" ELSE @]
    /\ reaper' = [reaper EXCEPT ![r].found = @ \ {p}]
    /\ UNCHANGED <<adapter, threads>>

\* Mutant: one scan is taken to be enough.
Reap_once(r) ==
    /\ Scans(r, "killing") /\ reaper[r].found = {}
    /\ proc' = Reaped({p \in Students : proc[p].state = "zombie" /\ proc[p].parent = r})
    /\ reaper' = [reaper EXCEPT ![r] = At("reading")]
    /\ UNCHANGED <<adapter, threads>>

\* Mutant: no deadline.
Reap_for_ever(r) ==
    /\ Scans(r, "killing") /\ reaper[r].found = {}
    /\ proc' = Reaped({p \in Students : proc[p].state = "zombie" /\ proc[p].parent = r})
    /\ reaper' = [reaper EXCEPT ![r] = NextScan(1)]
    /\ UNCHANGED <<adapter, threads>>

\* _reap_children, then the deadline.
Reap(r) ==
    /\ Scans(r, "killing") /\ reaper[r].found = {}
    /\ proc' = Reaped({p \in Students : proc[p].state = "zombie" /\ proc[p].parent = r})
    /\ \E next \in {At("failed")} \cup
                   {NextScan(n) : n \in {reaper[r].rounds + 1} \cap 1 .. MaxRounds} :
            reaper' = [reaper EXCEPT ![r] = next]
    /\ UNCHANGED <<adapter, threads>>

\* Both files are read, and the observation is made of them.
Read(r) ==
    /\ Scans(r, "reading")
    /\ reaper' = [reaper EXCEPT ![r] = At("ended")]
    /\ UNCHANGED <<adapter, threads, proc>>

Terminate(r) == ScanEnds(r) \/ Reap(r) \/ Read(r) \/ \E p \in Students : LookAt(r, p) \/ Kill(r, p)

RunnerSteps == Communicate \/ TimeLimit \/ KillGroup \/ WaitForChild \/ Terminate(Runner)
ChildSteps == CallReturns \/ ChildExits \/ Terminate(Child)

Over == /\ reaper[Runner].pc \in {"ended", "failed", "killed"}
        /\ \A p \in Students : proc[p].state \notin {"alive", "doomed"}

Next == Student \/ ChildSteps \/ RunnerSteps \/ SupervisorKills \/ (Over /\ UNCHANGED vars)

Spec == Init /\ [][Next]_vars

\* The runner goes on, and SIGKILL ends its child. Of other processes nothing is assumed:
\* one that hangs in the kernel is what the deadline is for.
RunnerFairness == WF_vars(RunnerSteps) /\ WF_vars(proc[Child].state = "doomed" /\ Die(Child))

-----------------------------------------------------------------------------
TypeOK ==
    /\ adapter \in Adapters /\ threads \in BOOLEAN
    /\ proc \in [Students -> [state : {"unborn", "gone"} \cup Existing,
                              parent : Students \cup {Runner}, group : Students]]
    /\ reaper \in [Reapers -> [pc : {"none", "waiting", "calling", "grouping", "overdue", "scanning",
                                     "killing", "reading", "ended", "failed", "killed"},
                               unread : SUBSET Students, found : SUBSET Students,
                               rounds : 0 .. MaxRounds]]

\* When the runner reads the program's output, and from then on, while the supervisor reads
\* the files it left (guest_supervisor.py:105), nothing of the student is alive that could
\* still change them, wherever it fled from group and parent: the case has one outcome.
OutputIsFinal ==
    reaper[Runner].pc \in {"reading", "ended"} =>
        \A p \in Students : proc[p].state \in {"unborn", "gone"}

\* When the child reads what the student's function wrote, no process that the function has
\* started is alive, unless threads that it left in the child itself go on starting some.
CallOutputIsFinal ==
    Scans(Child, "reading") /\ ~threads =>
        \A p \in Descendants : proc[p].state \in {"unborn", "gone"}

\* Whatever the student's processes do, and even if some cannot be killed, the runner comes to an
\* end within its own limits, those of the supervisor left aside: process.communicate, wait and the
\* loop of _terminate_descendants do not hang. (A runner that a student's process stops has the
\* supervisor's limit only: SignalRunner of CaseExecution.)
RunnerEnds == <>(reaper[Runner].pc \in {"ended", "failed", "killed"})
=============================================================================
