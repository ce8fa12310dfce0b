--------------------------- MODULE CaseExecution ----------------------------
(* One case of a hidden suite, from the student's commit to its result: the export of    *)
(* the commit (grader/source.py), the client and the server of the VM launcher            *)
(* (vm_launcher.py, qemu_backend.py), supervisor and runner in the guest                  *)
(* (guest_supervisor.py, guest_case_runner.py), and the comparison on the trusted side    *)
(* (vm_executor.py).                                                                      *)
(*                                                                                        *)
(* Each of them can fail, has a limit of its own inside the limits of those around it,    *)
(* and turns what went wrong into one of two things: an observation, which the case is    *)
(* judged by, or an infrastructure failure, after which the attempt is tried again and    *)
(* nothing is said about the student. Whose fault becomes which is what this module is    *)
(* about. Time is in half seconds.                                                        *)
(*                                                                                        *)
(* A program may end or stop its runner; what else it could do to the memory and the open *)
(* files of runner and child, whose user it has, is left out.                             *)
EXTENDS Naturals, Adapters

CONSTANTS
    Programs,  \* the student programs of the instance, a subset of Kinds
    Delays,    \* how long a step of the host or the guest may take
    RunTimes   \* how long a program that ends may take

Kinds == {
    "right", "wrong",   \* does what the case expects, or ends in another way
    "raises",           \* an exception the case does not expect
    "raises_odd",       \* the same, of a class whose name is not [A-Za-z][A-Za-z0-9_.]*
    "quits",            \* ends its process without returning, or is killed for what it does
    "loops",            \* does not end
    "garbles",          \* too much output, output that is not text, a result that is not JSON
    "litters",          \* files that the case observes are too large or not text
    "clings",           \* leaves processes that may not end within half a second
    "signals",          \* ends or stops its runner, which is a process of the same user
    "overlaps",         \* the commit has a file where the case puts one
    "nul",              \* the commit has a NUL in a file, or too much for one frame
    "odd_file"}         \* the commit has a file that is not UTF-8 text of limited size under
                        \* a plain name

ASSUME CaseExecutionAssumption ==
    /\ Programs \subseteq Kinds
    /\ Delays \subseteq Nat /\ RunTimes \subseteq Nat

VARIABLES
    program,
    pc,        \* the step that the case is in
    left,      \* what is left of each limit
    started,   \* the child has written MENTI_STUDENT_STARTED
    seen,      \* the observation so far, "error", or "none"
    outcome,   \* "pending", "passed", "failed", or "infrastructure"
    fault,     \* history: the step in which the host or the guest failed
    expired,   \* history: the limits that ran out
    overhead   \* history: time that trusted steps took inside the supervisor's limit

chosen == <<adapter, program>>
history == <<fault, expired, overhead>>
caseVars == <<chosen, pc, left, started, seen, outcome, history>>

\* Mutant: the student's limit is not derived from the supervisor's.
Limit_student_longer == [client |-> 60, image |-> 30, vm |-> 40, runner |-> 12, student |-> 14]

\* UnixVmLauncherClient, mke2fs, QemuCaseBackend, GuestSupervisor, MENTI_STUDENT_TIMEOUT_SECONDS.
Limit == [client |-> 60, image |-> 30, vm |-> 40, runner |-> 12, student |-> 10]

\* The limits that are running in a step.
Running(step) ==
    CASE step = "image" -> {"client", "image"}
      [] step \in {"boot", "shutdown"} -> {"client", "vm"}
      [] step \in {"start", "halted", "reap"} -> {"client", "vm", "runner"}
      [] step \in {"spawn", "program"} -> {"client", "vm", "runner", "student"}
      [] OTHER -> {}

CaseInit ==
    /\ adapter \in Adapters /\ program \in Programs
    /\ pc = "export" /\ left = Limit /\ started = FALSE
    /\ seen = "none" /\ outcome = "pending"
    /\ fault = "none" /\ expired = {} /\ overhead = 0

-----------------------------------------------------------------------------
(* Control. *)

Goto(step) == pc' = step
Answer(observation) == seen' = observation
Ends(result) == outcome' = result /\ Goto("done")
Untimed == UNCHANGED <<left, expired, overhead>>
Faultless == UNCHANGED fault

\* A step takes d, and no limit runs out before that (at the limit, either may come first).
Takes(d) ==
    /\ \A t \in Running(pc) : d <= left[t]
    /\ left' = [t \in DOMAIN left |-> IF t \in Running(pc) THEN left[t] - d ELSE left[t]]
    /\ overhead' = IF pc \in {"start", "reap"} THEN overhead + d ELSE overhead
    /\ UNCHANGED expired

\* It would take d, but limit t runs out first.
Exceeds(d, t) ==
    /\ t \in Running(pc) /\ left[t] <= d
    /\ \A u \in Running(pc) : left[t] <= left[u]
    /\ left' = [u \in DOMAIN left |-> IF u \in Running(pc) THEN left[u] - left[t] ELSE left[u]]
    /\ overhead' = IF pc \in {"start", "reap"} THEN overhead + left[t] ELSE overhead
    /\ expired' = expired \cup {t}

-----------------------------------------------------------------------------
(* Outside the VM. *)

\* _execution_files raises for what it does not copy; NUL is text to it.
Exportable == program # "odd_file"

\* GitProjectExporter.export writes the tree of the commit, or raises.
Export ==
    /\ pc = "export"
    /\ IF Exportable
       THEN Goto("client") /\ UNCHANGED outcome
       ELSE Ends("infrastructure")
    /\ Untimed /\ Faultless /\ UNCHANGED <<chosen, started, seen>>

\* _read_source and the size of the frame.
Sendable == program # "nul"

\* The client reads the source; what it cannot send is the student's failure.
Send ==
    /\ pc = "client"
    /\ IF Sendable
       THEN Goto("image") /\ UNCHANGED seen
       ELSE Answer("failure") /\ Goto("judge")
    /\ Untimed /\ Faultless /\ UNCHANGED <<chosen, started, outcome>>

BuildImage ==
    /\ pc = "image" /\ Goto("boot")
    /\ \E d \in Delays : Takes(d)
    /\ Faultless /\ UNCHANGED <<chosen, started, seen, outcome>>

\* _copy_source, then _write_fixture, which replaces nothing.
LaidOut == program # "overlaps"

\* The guest boots, and the supervisor lays out the workspace.
Boot ==
    /\ pc = "boot"
    /\ \E d \in Delays : Takes(d)
    /\ IF LaidOut
       THEN Goto("start") /\ UNCHANGED seen
       ELSE Answer("error") /\ Goto("shutdown")
    /\ Faultless /\ UNCHANGED <<chosen, started, outcome>>

\* The result is on the console; it counts if the guest then also ends in time.
Shutdown ==
    /\ pc = "shutdown" /\ Goto("judge")
    /\ \E d \in Delays : Takes(d)
    /\ Faultless /\ UNCHANGED <<chosen, started, seen, outcome>>

\* _validate_response: an answer with an observation, whose exception has a plain name.
Trusted == seen \notin {"error", "odd_exception"}

\* Mutant: "student process failed" is compared like any other observation.
Meets_unchecked == seen \in {"matches", "failure"}

\* _compare.
Meets == seen = "matches"

\* _evaluate_case: what is no trusted observation raises SuiteInfrastructureError.
Judge ==
    /\ pc = "judge"
    /\ Ends(IF ~Trusted THEN "infrastructure" ELSE IF Meets THEN "passed" ELSE "failed")
    /\ Untimed /\ Faultless /\ UNCHANGED <<chosen, started, seen>>

-----------------------------------------------------------------------------
(* Inside the VM. *)

StartRunner ==
    /\ pc = "start" /\ Goto("spawn")
    /\ \E d \in Delays : Takes(d)
    /\ Faultless /\ UNCHANGED <<chosen, started, seen, outcome>>

\* The interpreter of the child comes up; for a python_call it says so.
Spawn ==
    /\ pc = "spawn" /\ Goto("program")
    /\ \E d \in Delays : Takes(d)
    /\ started' = (adapter = "python_call")
    /\ Faultless /\ UNCHANGED <<chosen, seen, outcome>>

\* Mutant: output that cannot be decoded raises in the runner.
Observations_raise ==
    CASE program \in {"right", "litters", "clings"} -> {"matches"}
      [] program \in {"wrong", "raises", "raises_odd"} -> {"differs"}
      [] program = "garbles" -> {"error"}
      [] OTHER -> {"failure"}

\* What the runner makes of a program that has ended, if it was left alone until then:
\* _isolated_python_call, _cli and _bounded_observation. In a python_call the child fails if it cannot end what the
\* function has started.
Observations ==
    CASE program \in {"right", "litters"} -> {"matches"}
      [] program \in {"wrong", "raises"} -> {"differs"}
      [] program = "raises_odd" -> IF adapter = "cli" THEN {"differs"} ELSE {"odd_exception"}
      [] program = "quits" -> IF adapter = "cli" THEN {"differs", "failure"} ELSE {"failure"}
      [] program = "clings" -> IF adapter = "cli" THEN {"matches"} ELSE {"matches", "failure"}
      [] OTHER -> {"failure"}

RunProgram ==
    /\ pc = "program" /\ program \notin {"loops", "signals"} /\ Goto("reap")
    /\ \E d \in RunTimes : Takes(d)
    /\ \E observation \in Observations : Answer(observation)
    /\ Faultless /\ UNCHANGED <<chosen, started, outcome>>

\* The student's process has the user of the runner, whom _sandbox_child makes that user. Of a
\* runner that is killed the supervisor sees that it "exited unsuccessfully"; one that is stopped
\* no longer minds the student's limit, and the supervisor's is left.
SignalRunner ==
    /\ pc = "program" /\ program = "signals"
    /\ \E d \in RunTimes : Takes(d)
    /\ \/ Goto("shutdown") /\ Answer("error")
       \/ Goto("halted") /\ UNCHANGED seen
    /\ Faultless /\ UNCHANGED <<chosen, started, outcome>>

\* The supervisor adds the files that the case observes; they can be too much, or no text.
WithFiles(observation) ==
    IF program = "litters" /\ observation = "matches" THEN "failure" ELSE observation

\* The runner ends what the program has left, or gives up after half a second.
CleanUp ==
    /\ pc = "reap" /\ Goto("shutdown")
    /\ \E d \in 0 .. (IF program = "clings" THEN 1 ELSE 0) :
            /\ Takes(d)
            /\ \/ Answer(WithFiles(seen))
               \/ d = 1 /\ Answer("error")
    /\ Faultless /\ UNCHANGED <<chosen, started, outcome>>

-----------------------------------------------------------------------------
(* Limits and failures. *)

\* Mutant: no marker is asked for.
StudentExpires_unannounced(d) ==
    /\ Exceeds(d, "student") /\ Goto("reap") /\ Answer("failure")
    /\ Faultless /\ UNCHANGED <<chosen, started, outcome>>

\* communicate() times out: a python_call that had not started is no observation, a cli case
\* shows only that its program was killed.
StudentExpires(d) ==
    /\ Exceeds(d, "student") /\ Goto("reap")
    /\ Answer(IF adapter = "cli" \/ started THEN "failure" ELSE "error")
    /\ Faultless /\ UNCHANGED <<chosen, started, outcome>>

\* The supervisor kills the runner.
RunnerExpires(d) ==
    /\ Exceeds(d, "runner") /\ Goto("shutdown") /\ Answer("error")
    /\ Faultless /\ UNCHANGED <<chosen, started, outcome>>

\* The launcher gives up on mke2fs or on qemu, whatever is on the console by then.
LauncherExpires(d) ==
    /\ Exceeds(d, "image") \/ Exceeds(d, "vm")
    /\ Goto("judge") /\ Answer("error")
    /\ Faultless /\ UNCHANGED <<chosen, started, outcome>>

ClientExpires(d) ==
    /\ Exceeds(d, "client") /\ Ends("infrastructure")
    /\ Faultless /\ UNCHANGED <<chosen, started, seen>>

\* How long the present step may take if nothing stops it; a loop outlasts all limits, and so
\* does a runner that is stopped.
Never == 1 + Limit.client
Durations ==
    CASE pc = "program" -> IF program = "loops" THEN {Never} ELSE RunTimes
      [] pc = "halted" -> {Never}
      [] pc = "reap" -> 0 .. (IF program = "clings" THEN 1 ELSE 0)
      [] OTHER -> Delays

Expire == \E d \in Durations :
    StudentExpires(d) \/ RunnerExpires(d) \/ LauncherExpires(d) \/ ClientExpires(d)

\* The host or the guest fails: git or the socket; mke2fs, qemu, or the line on the console;
\* the runner; the child before the program, or under it (the guest is out of memory, or the
\* child fails between its announcement and the call). A cli case is taken to expect something
\* that an interpreter that fails does not do.
HostFails ==
    /\ fault = "none" /\ pc \notin {"judge", "done"} /\ fault' = pc
    /\ CASE pc \in {"export", "client"} -> Ends("infrastructure") /\ UNCHANGED seen
         [] pc \in {"image", "boot", "shutdown"} ->
                Answer("error") /\ Goto("judge") /\ UNCHANGED outcome
         [] pc \in {"start", "halted", "reap"} ->
                Answer("error") /\ Goto("shutdown") /\ UNCHANGED outcome
         [] pc = "spawn" ->
                /\ IF adapter = "cli" THEN Answer("failure") \/ Answer("differs") ELSE Answer("error")
                /\ Goto("reap") /\ UNCHANGED outcome
         [] pc = "program" -> Answer("failure") /\ Goto("reap") /\ UNCHANGED outcome
    /\ Untimed /\ UNCHANGED <<chosen, started>>

\* release_grading: the attempt is evaluated again, from the start.
Retry ==
    /\ pc = "done" /\ outcome = "infrastructure"
    /\ pc' = "export" /\ left' = Limit /\ started' = FALSE
    /\ seen' = "none" /\ outcome' = "pending"
    /\ fault' = "none" /\ expired' = {} /\ overhead' = 0
    /\ UNCHANGED chosen

Steps == \/ Export \/ Send \/ BuildImage \/ Boot \/ StartRunner \/ Spawn \/ RunProgram
         \/ SignalRunner \/ CleanUp \/ Shutdown \/ Judge \/ Expire \/ Retry

Judged == outcome \in {"passed", "failed"}

CaseNext == Steps \/ HostFails \/ (Judged /\ UNCHANGED caseVars)

CaseSpec == CaseInit /\ [][CaseNext]_caseVars

\* The worker goes on, and tries again.
WorkerFairness == WF_caseVars(Steps)

-----------------------------------------------------------------------------
CaseTypeOK ==
    /\ adapter \in Adapters /\ program \in Programs
    /\ pc \in {"export", "client", "image", "boot", "start", "spawn", "program", "halted",
               "reap", "shutdown", "judge", "done"}
    /\ left \in [DOMAIN Limit -> 0 .. Limit.client] /\ \A t \in DOMAIN Limit : left[t] <= Limit[t]
    /\ started \in BOOLEAN
    /\ seen \in {"none", "matches", "differs", "odd_exception", "failure", "error"}
    /\ outcome \in {"pending", "passed", "failed", "infrastructure"}
    /\ fault \in {"none", "export", "client", "image", "boot", "shutdown", "start", "spawn",
                  "program", "halted", "reap"}
    /\ expired \subseteq DOMAIN Limit
    /\ overhead \in 0 .. Limit.runner

\* The programs that this adapter cannot judge: the code makes an infrastructure failure of them.
Unjudgeable == {"odd_file", "overlaps", "clings", "signals"} \cup
               (IF adapter = "python_call" THEN {"raises_odd"} ELSE {})

\* A case passes only if the program does what the case expects, from one end to the other of a
\* chain in which nothing failed and no limit ran out: no failure of any part is mistaken for a pass.
PassIsEarned ==
    outcome = "passed" =>
        program \in {"right", "clings"} /\ fault = "none" /\ expired = {}

\* What the host or the guest does wrong is not the student's failure, unless it happens under the
\* student's program, where the two cannot be told apart: a failed case saw no failure and no limit
\* outside it, and a python_call that was stopped for time had announced itself. The student's time
\* begins with the interpreter that is to run the program, so that a slow start of it leaves the
\* program less, in a python_call too, once the child has announced itself. (A cli case makes no
\* announcement: there a failure of that start counts against the student, and so does one that
\* takes all the time.)
HostIsNotBlamed ==
    outcome = "failed" =>
        /\ fault \in {"none", "program"} \cup (IF adapter = "cli" THEN {"spawn"} ELSE {})
        /\ expired \subseteq {"student"}
        /\ expired # {} /\ adapter = "python_call" => started

\* What the student's program does wrong is a verdict and not an infrastructure failure, which would
\* be tried again and again: a case without a verdict means that the host or the guest failed or was
\* slow, or that the program is one of those in Unjudgeable, which can be without a verdict on a host
\* that does everything right.
StudentIsJudged ==
    outcome = "infrastructure" =>
        \/ fault # "none" \/ program \in Unjudgeable
        \/ expired \ {"student"} # {}
        \/ expired # {} /\ adapter = "python_call" /\ ~started

\* The limits are nested: whatever the student's program does within its five seconds, short of stopping
\* its runner, the supervisor's limit (a second more) runs out only if steps of the guest itself took
\* that second.
StudentTimeIsEnough == "runner" \in expired => overhead >= 2 \/ program = "signals"

\* From now on nothing fails, and no step is slower than it must be.
Calm ==
    /\ fault' \in {fault, "none"}
    /\ pc \in {"image", "boot", "start", "spawn", "shutdown"} =>
            \A d \in Delays : left.client - left'.client <= d

\* Once the host is calm, a program that can be judged is judged, whatever happened before.
JudgeableIsJudged == <>[][Calm]_caseVars => <>(Judged \/ program \in Unjudgeable)

\* Every exception that a student's function raises is observed, and so judged
\* (grader/guest_case_runner.py:168).
ExceptionIsJudged == <>[][Calm]_caseVars => (program \in {"raises", "raises_odd"} => <>Judged)

\* Every push is checked, and gets its pass or fail (README.md:56).
PushIsJudged == <>[][Calm]_caseVars => <>Judged
=============================================================================
