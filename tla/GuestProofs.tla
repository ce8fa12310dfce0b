----------------------------- MODULE GuestProofs -----------------------------
(***************************************************************************)
(* Proofs about what happens in the guest.  First module StudentProcesses, *)
(* for any number of descendants, which may be infinite, and any number of *)
(* scans; then module CaseExecution, for any delays of host and guest and  *)
(* any run times.  The two share the adapter of the case.                  *)
(***************************************************************************)
EXTENDS StudentProcesses, CaseExecution, TLAPS

-----------------------------------------------------------------------------
(* The inductive invariant.                                                *)

Exists(p) == proc[p].state \in Existing
Lives(p) == proc[p].state \in {"alive", "doomed"}
ChildOf(p, r) == Exists(p) /\ proc[p].parent = r

\* The student's program is the child of the runner, and reaps only for a python_call.
ChildShape ==
    /\ proc[Child].parent = Runner /\ proc[Child].state # "unborn"
    /\ adapter = "cli" => reaper[Child].pc = "none"

\* Whoever exists has a parent that lives, or is a child of the runner.
ParentsLive ==
    \A p \in Students : Exists(p) =>
        \/ proc[p].parent = Runner
        \/ proc[p].parent \in Students /\ Lives(proc[p].parent)

\* Nobody descends from himself: the ancestors of whoever exists end with the runner.
Rooted ==
    \A S \in SUBSET Students :
        (\A p \in S : Exists(p)) /\ S # {} => \E p \in S : proc[p].parent \notin S

\* While the child of a python_call lives nobody is adopted by the runner.
Adopted ==
    adapter = "python_call" /\ Lives(Child) =>
        \A p \in Descendants : Exists(p) => proc[p].parent # Runner

\* The runner scans when its child is gone.
ChildGone ==
    reaper[Runner].pc \in {"scanning", "killing", "reading", "ended"} =>
        proc[Child].state = "gone"

\* Those that a reaper is after, and whether what it has seen is still true: threads of the
\* student's in the child may start processes behind its back.
Prey(r) == IF r = Runner THEN Students ELSE Descendants
Reliable(r) == r = Child => proc[Child].state = "alive" /\ ~threads
Cleared(r) == \A p \in Prey(r) : proc[p].state \in {"unborn", "gone"}

\* A scan that has found nothing so far has one of its children still before it, or there
\* is nothing to be found.
ScanSees ==
    \A r \in Reapers : Reliable(r) /\ reaper[r].pc = "scanning" /\ reaper[r].found = {} =>
        Cleared(r) \/ \E p \in reaper[r].unread \cap Prey(r) : ChildOf(p, r)

\* What a scan without a find stands for, for the runner also when it has read.
Trusting(r) == {"reading"} \cup IF r = Runner THEN {"ended"} ELSE {}
ScanMeans ==
    \A r \in Reapers : Reliable(r) /\ reaper[r].pc \in Trusting(r) => Cleared(r)

Family == ChildShape /\ ParentsLive /\ Rooted /\ Adopted

IInv == TypeOK /\ Family /\ ChildGone /\ ScanSees /\ ScanMeans

LEMMA InitInv == Init => IInv
  <1> SUFFICES ASSUME Init PROVE IInv
    OBVIOUS
  <1> USE StudentProcessesAssumption DEF Init, Students, Reapers, At, Existing
  <1>1. TypeOK
    BY DEF TypeOK
  <1>2. ChildShape /\ ParentsLive /\ Adopted
    BY DEF ChildShape, ParentsLive, Adopted, Exists
  <1>3. Rooted
    <2> SUFFICES ASSUME NEW S \in SUBSET Students, \A p \in S : Exists(p), S # {}
                 PROVE  \E p \in S : proc[p].parent \notin S
      BY DEF Rooted
    <2>1. \A p \in S : proc[p].parent = Runner /\ Runner \notin S
      OBVIOUS
    <2> QED
      BY <2>1
  <1>4. ChildGone /\ ScanSees /\ ScanMeans
    BY DEF ChildGone, ScanSees, ScanMeans, Trusting
  <1> QED
    BY <1>1, <1>2, <1>3, <1>4 DEF IInv, Family

-----------------------------------------------------------------------------
(* Who descends from whom: what a fork, a signal, a death and a wait make  *)
(* of it.                                                                  *)

ProcType == proc \in [Students -> [state : {"unborn", "gone"} \cup Existing,
                                   parent : Students \cup {Runner}, group : Students]]

LEMMA ForkFamily ==
    ASSUME IInv, NEW p \in Students, NEW q \in Students, Fork(p, q)
    PROVE  ProcType' /\ Family'
  <1> USE StudentProcessesAssumption DEF Students, Existing, Exists, Lives
  <1>1. /\ proc' = [proc EXCEPT ![q] = [state |-> "alive", parent |-> p, group |-> proc[p].group]]
        /\ proc[p].state = "alive" /\ proc[q].state = "unborn" /\ p # q /\ q # Child
        /\ UNCHANGED <<adapter, reaper>>
    BY DEF Fork, Runs, IInv, Family, ChildShape
  <1>2. ProcType
    BY DEF IInv, TypeOK, ProcType
  <1>3. /\ \A x \in Students \ {q} : proc'[x] = proc[x]
        /\ proc'[q].state = "alive" /\ proc'[q].parent = p
    BY <1>1, <1>2 DEF ProcType
  <1>4. ProcType'
    BY <1>1, <1>2 DEF ProcType
  <1>5. ChildShape' /\ ParentsLive' /\ Adopted'
    BY <1>1, <1>3 DEF IInv, Family, ChildShape, ParentsLive, Adopted
  <1>6. Rooted'
    <2> SUFFICES ASSUME NEW S \in SUBSET Students, \A x \in S : Exists(x)', S # {}
                 PROVE  \E x \in S : proc'[x].parent \notin S
      BY DEF Rooted
    <2> DEFINE T == S \ {q}
    <2>1. CASE T = {}
      BY <1>1, <1>3, <2>1
    <2>2. CASE T # {}
      <3>1. \A x \in T : Exists(x)
        BY <1>3
      <3>2. PICK x \in T : proc[x].parent \notin T
        BY <2>2, <3>1 DEF IInv, Family, Rooted
      <3>3. proc[x].parent # q
        BY <1>1, <3>1 DEF IInv, Family, ParentsLive
      <3> QED
        BY <1>3, <3>2, <3>3
    <2> QED
      BY <2>1, <2>2
  <1> QED
    BY <1>4, <1>5, <1>6 DEF Family

\* A group is left, or processes are killed.
Signalled ==
    \A p \in Students :
        /\ proc'[p].parent = proc[p].parent
        /\ \/ proc'[p].state = proc[p].state
           \/ proc[p].state = "alive" /\ proc'[p].state = "doomed"

\* Zombies are waited for.
Waited ==
    \A p \in Students :
        /\ proc'[p].parent = proc[p].parent
        /\ \/ proc'[p].state = proc[p].state
           \/ proc[p].state = "zombie" /\ proc'[p].state = "gone"

LEMMA SameParents ==
    ASSUME IInv, Signalled \/ Waited, UNCHANGED adapter,
           reaper'[Child].pc = "none" <=> reaper[Child].pc = "none"
    PROVE  Family'
  <1> USE StudentProcessesAssumption DEF Students, Existing, Exists, Lives, Signalled, Waited
  <1>1. ChildShape' /\ ParentsLive'
    BY DEF IInv, Family, ChildShape, ParentsLive
  <1>2. Adopted'
    BY DEF IInv, Family, Adopted
  <1>3. \A p \in Students : Exists(p)' => Exists(p)
    OBVIOUS
  <1>4. Rooted'
    <2> SUFFICES ASSUME NEW S \in SUBSET Students, \A x \in S : Exists(x)', S # {}
                 PROVE  \E x \in S : proc'[x].parent \notin S
      BY DEF Rooted
    <2>1. PICK x \in S : proc[x].parent \notin S
      BY <1>3 DEF IInv, Family, Rooted
    <2> QED
      BY <2>1
  <1> QED
    BY <1>1, <1>2, <1>4 DEF Family

LEMMA BuriedFamily ==
    ASSUME IInv, NEW p \in Students, Lives(p), proc' = Buried(p), UNCHANGED <<adapter, reaper>>
    PROVE  ProcType' /\ Family'
  <1> USE StudentProcessesAssumption DEF Students, Existing, Exists, Lives
  <1>1. ProcType /\ proc[Child].parent = Runner
    BY DEF IInv, TypeOK, ProcType, Family, ChildShape
  <1>2. Heir(p) \in {Runner, Child} \ {p} /\ (Heir(p) = Child => Lives(Child))
    BY DEF Heir
  <1>3. \A x \in Students :
            /\ proc'[x].state = IF x = p THEN "zombie" ELSE proc[x].state
            /\ proc'[x].parent = IF x # p /\ proc[x].parent = p /\ Exists(x) THEN Heir(p)
                                 ELSE proc[x].parent
    BY <1>1 DEF Buried, ProcType
  <1>4. ProcType'
    BY <1>1, <1>2 DEF Buried, ProcType
  <1>5. proc'[Child].parent = Runner
    BY <1>1, <1>3
  <1>6. ChildShape'
    BY <1>3, <1>5 DEF IInv, Family, ChildShape
  <1>7. ParentsLive'
    <2> SUFFICES ASSUME NEW x \in Students, Exists(x)', proc'[x].parent # Runner
                 PROVE  /\ proc'[x].parent \in Students
                        /\ proc'[proc'[x].parent].state \in {"alive", "doomed"}
      BY DEF ParentsLive
    <2>1. Exists(x)
      BY <1>3
    <2>2. CASE x # p /\ proc[x].parent = p
      BY <1>2, <1>3, <2>1, <2>2
    <2>3. CASE x = p \/ proc[x].parent # p
      <3>1. proc'[x].parent = proc[x].parent /\ proc[x].parent \in Students /\ Lives(proc[x].parent)
        BY <1>3, <2>1, <2>3 DEF IInv, Family, ParentsLive
      <3>2. proc[p].parent # p
        <4>1. \E y \in {p} : proc[y].parent \notin {p}
          BY DEF IInv, Family, Rooted
        <4> QED
          BY <4>1
      <3> QED
        BY <1>3, <2>3, <3>1, <3>2
    <2> QED
      BY <2>2, <2>3
  <1>8. Rooted'
    <2> SUFFICES ASSUME NEW S \in SUBSET Students, \A x \in S : Exists(x)', S # {}
                 PROVE  \E x \in S : proc'[x].parent \notin S
      BY DEF Rooted
    <2>1. \A x \in S : Exists(x)
      BY <1>3
    <2>2. CASE \E x \in S : x # p /\ proc[x].parent = p
      <3>1. PICK x \in S : x # p /\ proc[x].parent = p
        BY <2>2
      <3>2. proc'[x].parent = Heir(p)
        BY <1>3, <2>1, <3>1
      <3> QED
        BY <1>2, <1>5, <3>2
    <2>3. CASE \A x \in S : x = p \/ proc[x].parent # p
      <3>1. PICK x \in S : proc[x].parent \notin S
        BY <2>1 DEF IInv, Family, Rooted
      <3> QED
        BY <1>3, <2>3, <3>1
    <2> QED
      BY <2>2, <2>3
  <1>9. Adopted'
    <2> SUFFICES ASSUME adapter = "python_call", Lives(Child)', NEW x \in Descendants, Exists(x)'
                 PROVE  proc'[x].parent # Runner
      BY DEF Adopted
    <2>1. p # Child /\ Lives(Child) /\ Exists(x)
      BY <1>3
    <2>2. Heir(p) = Child
      BY <2>1 DEF Heir
    <2>3. proc[x].parent # Runner
      BY <2>1 DEF IInv, Family, Adopted
    <2> QED
      BY <1>3, <2>2, <2>3
  <1> QED
    BY <1>4, <1>6, <1>7, <1>8, <1>9 DEF Family
-----------------------------------------------------------------------------
(* Scans.                                                                  *)

\* Where a reaper relies on what it has seen.
Relying(r) == reaper[r].pc = "scanning" \/ reaper[r].pc \in Trusting(r)

\* A scan that begins after a step sees: if anybody is there, a child of the reaper is.
LEMMA ScanBegins ==
    ASSUME ProcType', Family', NEW r \in Reapers, Reliable(r)',
           r = Runner => proc'[Child].state = "gone",
           r = Child => adapter' = "python_call"
    PROVE  Cleared(r)' \/ \E p \in Prey(r) : proc'[p].state # "gone" /\ ChildOf(p, r)'
  <1> USE StudentProcessesAssumption DEF Reapers, Existing, Exists, Lives, Students, Prey
  <1> SUFFICES ASSUME ~Cleared(r)'
               PROVE  \E p \in Prey(r) : proc'[p].state # "gone" /\ ChildOf(p, r)'
    OBVIOUS
  <1> DEFINE S == {p \in Prey(r) : Exists(p)'}
  <1>1. \A p \in Students : Exists(p)' <=> proc'[p].state \notin {"unborn", "gone"}
    BY DEF ProcType
  <1>2. S \in SUBSET Students /\ S # {} /\ \A p \in S : Exists(p)'
    BY <1>1 DEF Cleared
  <1>3. PICK p \in S : proc'[p].parent \notin S
    BY <1>2 DEF Family, Rooted
  <1>4. \/ proc'[p].parent = Runner
        \/ /\ proc'[p].parent \in Students
           /\ proc'[proc'[p].parent].state \in Existing
    BY <1>2, <1>3 DEF Family, ParentsLive
  <1>5. CASE r = Runner
    BY <1>3, <1>4, <1>5 DEF ChildOf
  <1>6. CASE r = Child
    <2>1. proc'[p].parent # Runner
      BY <1>3, <1>6 DEF Family, Adopted, Reliable
    <2>2. proc'[p].parent = Child
      BY <1>3, <1>4, <1>6, <2>1
    <2> QED
      BY <1>3, <1>6, <2>2 DEF ChildOf
  <1> QED
    BY <1>5, <1>6

\* No student code runs any more when a reaper relies on having seen nobody.
LEMMA Quiet ==
    ASSUME IInv, NEW r \in Reapers, Reliable(r), Relying(r), Cleared(r),
           NEW p \in Students
    PROVE  ~Runs(p) /\ proc[p].state # "doomed"
  <1> USE StudentProcessesAssumption DEF Reapers, Students, Prey, Cleared
  <1>1. CASE r = Runner
    BY <1>1 DEF Runs
  <1>2. CASE r = Child
    BY <1>2 DEF Runs, Reliable, Relying, Trusting, IInv, Family, ChildShape
  <1> QED
    BY <1>1, <1>2 DEF Reapers

\* What a reaper relies on is left as it is.
Undisturbed(r) ==
    Reliable(r)' => /\ Reliable(r)
                    /\ Cleared(r) => Cleared(r)'
                    /\ \A p \in Prey(r) : ChildOf(p, r) => ChildOf(p, r)'

\* The two parts of the invariant that are about one reaper, and that it keeps as it stays
\* where it is.
Sees(r) ==
    Reliable(r) /\ reaper[r].pc = "scanning" /\ reaper[r].found = {} =>
        Cleared(r) \/ \E p \in reaper[r].unread \cap Prey(r) : ChildOf(p, r)
Means(r) == Reliable(r) /\ reaper[r].pc \in Trusting(r) => Cleared(r)

LEMMA Stays ==
    ASSUME IInv, NEW r \in Reapers, reaper'[r] = reaper[r], Relying(r) => Undisturbed(r)
    PROVE  Sees(r)' /\ Means(r)'
  BY DEF IInv, ScanSees, ScanMeans, Sees, Means, Undisturbed, Relying, Trusting, Prey

\* The student's processes disturb nobody who relies on something: whom a reaper has seen
\* to be its child stays so until it reaps him.
LEMMA StudentsDisturbNobody ==
    ASSUME IInv, NEW r \in Reapers, Relying(r), UNCHANGED <<adapter, threads, reaper>>,
           \/ Student
           \/ ChildExits
    PROVE  Undisturbed(r)
  <1> USE StudentProcessesAssumption DEF Reapers, Students, Existing, Exists, Lives, Prey
  <1>1. ProcType
    BY DEF IInv, TypeOK, ProcType
  <1>2. ASSUME NEW p \in Students, NEW q \in Students, Fork(p, q)
        PROVE  Undisturbed(r)
    <2>1. \A x \in Students \ {q} : proc'[x] = proc[x]
      BY <1>1, <1>2 DEF Fork, ProcType
    <2>2. q # Child /\ proc[q].state = "unborn" /\ Runs(p)
      BY <1>2 DEF Fork, IInv, Family, ChildShape
    <2>3. Reliable(r)' => Reliable(r)
      BY <2>1, <2>2 DEF Reliable
    <2>4. Reliable(r) => ~Cleared(r)
      BY <2>2, Quiet
    <2> QED
      BY <2>1, <2>2, <2>3, <2>4 DEF Undisturbed, ChildOf
  <1>3. ASSUME NEW p \in Students, LeaveGroup(p)
        PROVE  Undisturbed(r)
    <2>1. \A x \in Students : proc'[x].state = proc[x].state /\ proc'[x].parent = proc[x].parent
      BY <1>1, <1>3 DEF LeaveGroup, ProcType
    <2> QED
      BY <2>1 DEF Undisturbed, Reliable, Cleared, ChildOf
  <1>4. ASSUME NEW p \in Students, NEW q \in Students, WaitFor(p, q)
        PROVE  Undisturbed(r)
    <2>1. /\ \A x \in Students \ {q} : proc'[x] = proc[x]
          /\ proc'[q].state = "gone" /\ proc[q].state = "zombie" /\ proc[q].parent = p /\ Runs(p)
      BY <1>1, <1>4 DEF WaitFor, ProcType
    <2>2. Reliable(r)' => Reliable(r)
      BY <2>1 DEF Reliable
    <2>3. Reliable(r) => r # p
      BY <2>1 DEF Reliable, Relying, Trusting, Runs, IInv, Family, ChildShape
    <2>4. Cleared(r) => Cleared(r)'
      BY <2>1 DEF Cleared
    <2> QED
      BY <2>1, <2>2, <2>3, <2>4 DEF Undisturbed, ChildOf
  <1>5. ASSUME NEW p \in Students, Lives(p), proc' = Buried(p),
  Runs(p) \/ proc[p].state = "doomed" \/ p = Child
        PROVE  Undisturbed(r)
    <2>1. \A x \in Students :
            /\ proc'[x].state = IF x = p THEN "zombie" ELSE proc[x].state
            /\ x # p /\ proc[x].parent # p => proc'[x].parent = proc[x].parent
            /\ x = p => proc'[x].parent = proc[x].parent
      BY <1>1, <1>5 DEF Buried, ProcType
    <2>2. Reliable(r)' => Reliable(r) /\ r # p
      BY <2>1 DEF Reliable
    <2>3. Reliable(r) /\ Cleared(r) => p = Child /\ r = Child
      BY <1>5, Quiet DEF Cleared
    <2>4. r # p => \A x \in Prey(r) : ChildOf(x, r) => ChildOf(x, r)'
      BY <2>1 DEF ChildOf
    <2> QED
      BY <2>2, <2>3, <2>4 DEF Undisturbed
  <1>6. CASE Student
    <2>1. PICK p, q \in Students : Fork(p, q) \/ LeaveGroup(p) \/ WaitFor(p, q) \/ Die(p)
      BY <1>6 DEF Student
    <2>2. CASE Die(p)
      BY <1>5, <2>2 DEF Die, Runs
    <2> QED
      BY <1>2, <1>3, <1>4, <2>1, <2>2
  <1>7. CASE ChildExits
    BY <1>5, <1>7 DEF ChildExits
  <1> QED
    BY <1>6, <1>7

\* Neither does a signal.
LEMMA SignalsDisturbNobody ==
    ASSUME IInv, NEW r \in Reapers, Relying(r), Signalled, UNCHANGED threads
    PROVE  Undisturbed(r)
  <1> USE StudentProcessesAssumption DEF Reapers, Students, Existing, Exists, Prey, Signalled
  <1>1. Reliable(r)' => Reliable(r)
    BY DEF Reliable
  <1>2. \A x \in Prey(r) : ChildOf(x, r) => ChildOf(x, r)'
    BY DEF ChildOf
  <1>3. Cleared(r) => Cleared(r)'
    BY DEF Cleared
  <1> QED
    BY <1>1, <1>2, <1>3 DEF Undisturbed
-----------------------------------------------------------------------------
(* The steps.                                                              *)

LEMMA BothReapers ==
    ASSUME \A r \in Reapers : Sees(r)' /\ Means(r)'
    PROVE  ScanSees' /\ ScanMeans'
  BY DEF ScanSees, ScanMeans, Sees, Means

\* A step of the student's processes, or the exit of the child.
LEMMA StudentInv ==
    ASSUME IInv, Student \/ ChildExits
    PROVE  IInv'
  <1> USE StudentProcessesAssumption DEF Students, Existing
  <1>1. UNCHANGED <<adapter, threads, reaper>>
    BY DEF Student, Fork, LeaveGroup, WaitFor, Die, ChildExits
  <1>2. ProcType
    BY DEF IInv, TypeOK, ProcType
  <1>3. ProcType' /\ Family'
    <2>1. ASSUME NEW p \in Students, LeaveGroup(p) PROVE ProcType' /\ Family'
      <3>1. ProcType' /\ Signalled
        BY <1>2, <2>1 DEF LeaveGroup, ProcType, Signalled
      <3> QED
        BY <1>1, <3>1, SameParents
    <2>2. ASSUME NEW p \in Students, NEW q \in Students, WaitFor(p, q) PROVE ProcType' /\ Family'
      <3>1. ProcType' /\ Waited
        BY <1>2, <2>2 DEF WaitFor, ProcType, Waited
      <3> QED
        BY <1>1, <3>1, SameParents
    <2>3. ASSUME NEW p \in Students, Die(p) PROVE ProcType' /\ Family'
      BY <1>1, <2>3, BuriedFamily DEF Die, Runs, Lives
    <2>4. CASE ChildExits
      BY <1>1, <2>4, BuriedFamily DEF ChildExits, Lives
    <2> QED
      BY <2>1, <2>2, <2>3, <2>4, ForkFamily DEF Student
  <1>4. TypeOK'
    BY <1>1, <1>3 DEF IInv, TypeOK, ProcType
  <1>5. ChildGone'
    <2> SUFFICES ASSUME proc[Child].state = "gone" PROVE proc'[Child].state = "gone"
      BY <1>1 DEF IInv, ChildGone
    <2> QED
      BY <1>2 DEF ProcType, Student, Fork, LeaveGroup, WaitFor, Die, Runs, Buried, ChildExits
  <1>6. ASSUME NEW r \in Reapers PROVE Sees(r)' /\ Means(r)'
    BY <1>1, Stays, StudentsDisturbNobody
  <1> QED
    BY <1>3, <1>4, <1>5, <1>6, BothReapers DEF IInv

ReaperState == [pc : {"none", "waiting", "calling", "grouping", "overdue", "scanning",
                      "killing", "reading", "ended", "failed", "killed"},
                unread : SUBSET Students, found : SUBSET Students, rounds : 0 .. MaxRounds]

\* A step of a reaper: it goes on to v, and signals or waits for processes.
LEMMA ReaperInv ==
    ASSUME IInv, NEW r \in Reapers, NEW v \in ReaperState, reaper' = [reaper EXCEPT ![r] = v],
           UNCHANGED <<adapter, threads>>, ProcType', Signalled \/ Waited,
           r = Runner => /\ v.pc \in {"scanning", "killing", "reading", "ended"} =>
                                proc'[Child].state = "gone"
                         /\ Signalled \/ proc'[Child].state = "gone",
           r = Child => proc[Child].state = "alive" /\ v.pc # "none" /\ reaper[r].pc # "none",
           Family' => Sees(r)' /\ Means(r)'
    PROVE  IInv'
  <1> USE StudentProcessesAssumption DEF Reapers
  <1>1. /\ reaper \in [Reapers -> ReaperState] /\ reaper' \in [Reapers -> ReaperState]
        /\ reaper'[r] = v /\ \A q \in Reapers \ {r} : reaper'[q] = reaper[q]
    BY DEF IInv, TypeOK, ReaperState
  <1>2. TypeOK'
    BY <1>1 DEF IInv, TypeOK, ProcType, ReaperState
  <1>3. Family'
    BY <1>1, SameParents
  <1>4. ChildGone'
    <2>1. proc[Child].state = "gone" => proc'[Child].state = "gone"
      BY DEF Signalled, Waited, Students
    <2> QED
      BY <1>1, <2>1 DEF IInv, ChildGone
  <1>5. ASSUME NEW q \in Reapers \ {r} PROVE Sees(q)' /\ Means(q)'
    <2>1. CASE Signalled
      BY <1>1, <2>1, Stays, SignalsDisturbNobody
    <2>2. CASE q = Child /\ proc'[Child].state = "gone"
      BY <2>2 DEF Sees, Means, Reliable
    <2>3. CASE q = Runner /\ proc[Child].state = "alive"
      <3>1. ~Relying(q)
        BY <2>3 DEF IInv, ChildGone, Relying, Trusting
      <3> QED
        BY <1>1, <3>1, Stays
    <2> QED
      BY <2>1, <2>2, <2>3
  <1> QED
    BY <1>2, <1>3, <1>4, <1>5, BothReapers DEF IInv

\* The same for a reaper that relies on nothing afterwards.
LEMMA IdleInv ==
    ASSUME IInv, NEW r \in Reapers,
           NEW place \in {"grouping", "overdue", "failed", "killed", "ended"},
           reaper' = [reaper EXCEPT ![r] = At(place)], place = "ended" => r = Child,
           UNCHANGED <<adapter, threads>>, ProcType', Signalled \/ Waited,
           r = Runner => Signalled \/ proc'[Child].state = "gone",
           r = Child => proc[Child].state = "alive" /\ reaper[r].pc # "none"
    PROVE  IInv'
  <1> USE StudentProcessesAssumption DEF Reapers
  <1>1. At(place) \in ReaperState /\ At(place).pc = place
    BY DEF At, ReaperState
  <1>2. reaper'[r] = At(place)
    BY DEF IInv, TypeOK
  <1>3. Sees(r)' /\ Means(r)'
    BY <1>1, <1>2 DEF Sees, Means, Trusting
  <1> QED
    BY <1>1, <1>3, ReaperInv

\* And for one that begins a scan.
LEMMA NextScanInv ==
    ASSUME IInv, NEW r \in Reapers, NEW n \in 1 .. MaxRounds,
    reaper' = [reaper EXCEPT ![r] = NextScan(n)],
           UNCHANGED <<adapter, threads>>, ProcType', Signalled \/ Waited,
           r = Runner => proc'[Child].state = "gone",
           r = Child => proc[Child].state = "alive" /\ reaper[r].pc # "none"
    PROVE  IInv'
  <1> USE StudentProcessesAssumption DEF Reapers
  <1> DEFINE v == NextScan(n)
  <1>1. v \in ReaperState
    BY DEF NextScan, ReaperState
  <1>2. v.pc = "scanning" /\ v.unread = {p \in Students : proc'[p].state # "gone"}
    BY DEF NextScan
  <1>3. reaper'[r] = v
    BY DEF IInv, TypeOK
  <1>4. r = Child => adapter' = "python_call"
    BY DEF IInv, TypeOK, Family, ChildShape, Adapters
  <1> HIDE DEF v
  <1>5. ASSUME Family' PROVE Sees(r)' /\ Means(r)'
    <2>1. Prey(r) \subseteq Students
      BY DEF Prey, Students
    <2>2. Sees(r)'
      BY <1>2, <1>3, <1>4, <1>5, <2>1, ScanBegins DEF Sees
    <2>3. Means(r)'
      BY <1>2, <1>3 DEF Means, Trusting
    <2> QED
      BY <2>2, <2>3
  <1> QED
    BY <1>1, <1>2, <1>3, <1>5, ReaperInv DEF v
-----------------------------------------------------------------------------

LEMMA LookAtInv ==
    ASSUME IInv, NEW r \in Reapers, NEW p \in Students, LookAt(r, p)
    PROVE  IInv'
  <1> USE StudentProcessesAssumption DEF Reapers
  <1> DEFINE found == IF proc[p].state \in Existing /\ proc[p].parent = r
                      THEN reaper[r].found \cup {p} ELSE reaper[r].found
             v == [reaper[r] EXCEPT !.unread = @ \ {p}, !.found = found]
  <1>1. reaper \in [Reapers -> ReaperState]
    BY DEF IInv, TypeOK, ReaperState
  <1>2. /\ v \in ReaperState /\ v.pc = "scanning"
        /\ v.unread = reaper[r].unread \ {p} /\ v.found = found
    BY <1>1 DEF ReaperState, LookAt, Scans
  <1>3. reaper' = [reaper EXCEPT ![r] = v] /\ reaper'[r] = v
    BY <1>1 DEF LookAt
  <1>4. UNCHANGED <<adapter, threads, proc>> /\ reaper[r].pc = "scanning"
        /\ (r = Child => proc[Child].state = "alive")
    BY DEF LookAt, Scans
  <1>5. ProcType' /\ Signalled
    BY <1>4 DEF IInv, TypeOK, ProcType, Signalled
  <1>6. Sees(r)' /\ Means(r)'
    <2>1. Means(r)'
      BY <1>2, <1>3 DEF Means, Trusting
    <2>2. ASSUME Reliable(r), found = {}
          PROVE  Cleared(r) \/ \E q \in (reaper[r].unread \ {p}) \cap Prey(r) : ChildOf(q, r)
      <3>1. reaper[r].found = {} /\ ~ChildOf(p, r)
        BY <2>2 DEF ChildOf, Exists
      <3> QED
        BY <1>4, <2>2, <3>1 DEF IInv, ScanSees
    <2>3. Sees(r)'
      BY <1>2, <1>3, <1>4, <2>2 DEF Sees, Reliable, Cleared, ChildOf, Exists, Prey
    <2> QED
      BY <2>1, <2>3
  <1>7. r = Runner => proc'[Child].state = "gone"
    BY <1>4 DEF IInv, ChildGone
  <1> HIDE DEF v
  <1> QED
    BY <1>2, <1>3, <1>4, <1>5, <1>6, <1>7, ReaperInv

LEMMA ScanEndsInv ==
    ASSUME IInv, NEW r \in Reapers, ScanEnds(r)
    PROVE  IInv'
  <1> USE StudentProcessesAssumption DEF Reapers
  <1> DEFINE v == [reaper[r] EXCEPT !.pc = IF reaper[r].found = {} THEN "reading" ELSE "killing"]
  <1>1. reaper \in [Reapers -> ReaperState]
    BY DEF IInv, TypeOK, ReaperState
  <1>2. v \in ReaperState /\ v.pc = IF reaper[r].found = {} THEN "reading" ELSE "killing"
    BY <1>1 DEF ReaperState
  <1>3. reaper' = [reaper EXCEPT ![r] = v] /\ reaper'[r] = v
    BY <1>1 DEF ScanEnds
  <1>4. /\ UNCHANGED <<adapter, threads, proc>>
        /\ reaper[r].pc = "scanning" /\ reaper[r].unread = {}
        /\ r = Child => proc[Child].state = "alive"
    BY DEF ScanEnds, Scans
  <1>5. ProcType' /\ Signalled
    BY <1>4 DEF IInv, TypeOK, ProcType, Signalled
  <1>6. Sees(r)' /\ Means(r)'
    <2>1. reaper'[r].pc \in {"reading", "killing"}
      BY <1>2, <1>3
    <2>2. Reliable(r) /\ reaper[r].found = {} => Cleared(r)
      BY <1>4 DEF IInv, ScanSees
    <2>3. Means(r)'
      BY <1>2, <1>3, <1>4, <2>2 DEF Means, Trusting, Reliable, Cleared, Prey
    <2> QED
      BY <2>1, <2>3 DEF Sees
  <1>7. r = Runner => proc'[Child].state = "gone"
    BY <1>4 DEF IInv, ChildGone
  <1> HIDE DEF v
  <1>8. v.pc # "none"
    BY <1>2
  <1> QED
    BY <1>2, <1>3, <1>4, <1>5, <1>6, <1>7, <1>8, ReaperInv

LEMMA KillInv ==
    ASSUME IInv, NEW r \in Reapers, NEW p \in Students, Kill(r, p)
    PROVE  IInv'
  <1> USE StudentProcessesAssumption DEF Reapers
  <1> DEFINE v == [reaper[r] EXCEPT !.found = @ \ {p}]
  <1>1. reaper \in [Reapers -> ReaperState] /\ ProcType
    BY DEF IInv, TypeOK, ReaperState, ProcType
  <1>2. reaper[r].pc = "killing" /\ UNCHANGED <<adapter, threads>>
        /\ (r = Child => proc[Child].state = "alive")
    BY DEF Kill, Scans
  <1>3. v \in ReaperState /\ v.pc = "killing"
    BY <1>1, <1>2 DEF ReaperState
  <1>4. reaper' = [reaper EXCEPT ![r] = v] /\ reaper'[r] = v
    BY <1>1 DEF Kill
  <1>5. ProcType' /\ Signalled
    BY <1>1 DEF Kill, ProcType, Existing, Signalled
  <1>6. Sees(r)' /\ Means(r)'
    BY <1>3, <1>4 DEF Sees, Means, Trusting
  <1>7. r = Runner => proc'[Child].state = "gone"
    BY <1>2, <1>5 DEF IInv, ChildGone, Signalled, Students
  <1> HIDE DEF v
  <1> QED
    BY <1>2, <1>3, <1>4, <1>5, <1>6, <1>7, ReaperInv

\* What Reaped makes of zombies.
LEMMA ReapedWaits ==
    ASSUME ProcType, NEW dead \in SUBSET Students, proc' = Reaped(dead),
           \A p \in dead : proc[p].state = "zombie"
    PROVE  ProcType' /\ Waited /\ \A p \in dead : proc'[p].state = "gone"
  BY DEF ProcType, Reaped, Waited, Existing

LEMMA ReapInv ==
    ASSUME IInv, NEW r \in Reapers, Reap(r)
    PROVE  IInv'
  <1> USE StudentProcessesAssumption DEF Reapers
  <1>1. reaper[r].pc = "killing" /\ UNCHANGED <<adapter, threads>>
        /\ (r = Child => proc[Child].state = "alive")
    BY DEF Reap, Scans
  <1>2. ProcType' /\ Waited
    BY ReapedWaits DEF Reap, IInv, TypeOK, ProcType
  <1>3. r = Runner => proc'[Child].state = "gone"
    BY <1>1, <1>2 DEF IInv, ChildGone, Waited, Students
  <1>4. CASE reaper' = [reaper EXCEPT ![r] = At("failed")]
    BY <1>1, <1>2, <1>3, <1>4, IdleInv
  <1>5. ASSUME NEW n \in 1 .. MaxRounds, reaper' = [reaper EXCEPT ![r] = NextScan(n)]
        PROVE  IInv'
    BY <1>1, <1>2, <1>3, <1>5, NextScanInv
  <1> QED
    BY <1>4, <1>5 DEF Reap

LEMMA ReadInv ==
    ASSUME IInv, NEW r \in Reapers, Read(r)
    PROVE  IInv'
  <1> USE StudentProcessesAssumption DEF Reapers
  <1> DEFINE v == At("ended")
  <1>1. v \in ReaperState /\ v.pc = "ended"
    BY DEF At, ReaperState
  <1>2. /\ reaper[r].pc = "reading" /\ UNCHANGED <<adapter, threads, proc>>
        /\ r = Child => proc[Child].state = "alive"
        /\ reaper' = [reaper EXCEPT ![r] = v]
    BY DEF Read, Scans
  <1>3. reaper'[r] = v
    BY <1>2 DEF IInv, TypeOK
  <1>4. ProcType' /\ Signalled
    BY <1>2 DEF IInv, TypeOK, ProcType, Signalled
  <1>5. r = Runner => proc'[Child].state = "gone"
    BY <1>2 DEF IInv, ChildGone
  <1>6. Reliable(r) => Cleared(r)
    BY <1>2 DEF IInv, ScanMeans, Trusting
  <1>7. Sees(r)' /\ Means(r)'
    BY <1>1, <1>2, <1>3, <1>6 DEF Sees, Means, Trusting, Reliable, Cleared, Prey
  <1> HIDE DEF v
  <1> QED
    BY <1>1, <1>2, <1>4, <1>5, <1>7, ReaperInv

LEMMA RunnerInv ==
    ASSUME IInv, Communicate \/ TimeLimit \/ KillGroup \/ WaitForChild \/ SupervisorKills
    PROVE  IInv'
  <1> USE StudentProcessesAssumption DEF Reapers, RunnerAt, RunnerGoto
  <1>1. ProcType /\ Child \in Students
    BY DEF IInv, TypeOK, ProcType, Students
  <1>2. ASSUME UNCHANGED proc PROVE ProcType' /\ Signalled
    BY <1>1, <1>2 DEF ProcType, Signalled
  <1>3. ASSUME proc' = Reaped({Child}), proc[Child].state = "zombie"
        PROVE  ProcType' /\ Waited /\ proc'[Child].state = "gone"
    BY <1>1, <1>3, ReapedWaits
  <1>4. 1 \in 1 .. MaxRounds
    OBVIOUS
  <1>5. CASE Communicate
    BY <1>3, <1>5, IdleInv DEF Communicate
  <1>6. CASE TimeLimit \/ SupervisorKills
    BY <1>2, <1>6, IdleInv DEF TimeLimit, SupervisorKills
  <1>7. CASE KillGroup
    <2>1. ProcType' /\ Signalled
      BY <1>1, <1>7 DEF KillGroup, ProcType, Existing, Signalled
    <2>2. CASE proc[Child].state = "gone"
      <3>1. proc'[Child].state = "gone"
        BY <1>1, <2>1, <2>2 DEF Signalled
      <3> QED
        BY <1>4, <1>7, <2>1, <2>2, <3>1, NextScanInv DEF KillGroup
    <2>3. CASE proc[Child].state # "gone"
      BY <1>7, <2>1, <2>3, IdleInv DEF KillGroup
    <2> QED
      BY <2>2, <2>3
  <1>8. CASE WaitForChild
    BY <1>3, <1>4, <1>8, NextScanInv DEF WaitForChild
  <1> QED
    BY <1>5, <1>6, <1>7, <1>8

LEMMA CallReturnsInv ==
    ASSUME IInv, CallReturns
    PROVE  IInv'
  <1> USE StudentProcessesAssumption DEF Reapers
  <1>1. /\ UNCHANGED <<adapter, threads, proc>>
        /\ proc[Child].state = "alive" /\ reaper[Child].pc = "calling"
    BY DEF CallReturns
  <1>2. ProcType' /\ Signalled
    BY <1>1 DEF IInv, TypeOK, ProcType, Signalled
  <1>3. 1 \in 1 .. MaxRounds
    OBVIOUS
  <1>4. CASE reaper' = [reaper EXCEPT ![Child] = NextScan(1)]
    BY <1>1, <1>2, <1>3, <1>4, NextScanInv
  <1>5. CASE reaper' = [reaper EXCEPT ![Child] = At("ended")]
    BY <1>1, <1>2, <1>5, IdleInv
  <1> QED
    BY <1>4, <1>5 DEF CallReturns

-----------------------------------------------------------------------------
(* The theorems.                                                           *)

LEMMA StutterInv ==
    ASSUME IInv, UNCHANGED vars
    PROVE  IInv'
  BY DEF vars, IInv, TypeOK, Family, ChildShape, ParentsLive, Rooted, Adopted, ChildGone, ScanSees,
         ScanMeans, Exists, Lives, Reliable, Cleared, ChildOf

LEMMA NextInv == IInv /\ [Next]_vars => IInv'
  <1> SUFFICES ASSUME IInv, [Next]_vars PROVE IInv'
    OBVIOUS
  <1>1. ASSUME NEW r \in Reapers, Terminate(r) PROVE IInv'
    BY <1>1, LookAtInv, ScanEndsInv, KillInv, ReapInv, ReadInv DEF Terminate
  <1>2. CASE Student
    BY <1>2, StudentInv
  <1>3. CASE ChildSteps
    BY <1>1, <1>3, StudentInv, CallReturnsInv DEF ChildSteps, Reapers
  <1>4. CASE RunnerSteps
    BY <1>1, <1>4, RunnerInv DEF RunnerSteps, Reapers
  <1>5. CASE SupervisorKills
    BY <1>5, RunnerInv
  <1>6. CASE UNCHANGED vars
    BY <1>6, StutterInv
  <1> QED
    BY <1>2, <1>3, <1>4, <1>5, <1>6 DEF Next

LEMMA Invariance == Spec => []IInv
  BY InitInv, NextInv, PTL DEF Spec

\* Types.
THEOREM TypeCorrect == Spec => []TypeOK
  <1>1. IInv => TypeOK
    BY DEF IInv
  <1> QED
    BY <1>1, Invariance, PTL

\* When the runner of guest_case_runner.py reads what the program wrote, every process of the
\* student is gone, however many there were, wherever they fled and however often it scanned.
THEOREM OutputFinal == Spec => []OutputIsFinal
  <1>1. IInv => OutputIsFinal
    BY StudentProcessesAssumption DEF IInv, ScanMeans, Trusting, Reliable, Cleared, Prey,
       Reapers, OutputIsFinal
  <1> QED
    BY <1>1, Invariance, PTL

\* When the child of a python_call reads what the student's function wrote, every process that
\* the function has started is gone, unless threads remain that start others.
THEOREM CallOutputFinal == Spec => []CallOutputIsFinal
  <1>1. IInv => CallOutputIsFinal
    BY StudentProcessesAssumption
       DEF IInv, ScanMeans, Trusting, Reliable, Cleared, Prey, Reapers, CallOutputIsFinal, Scans
  <1> QED
    BY <1>1, Invariance, PTL
-----------------------------------------------------------------------------
(* Module CaseExecution: who is blamed for what, and how the limits are    *)
(* nested.  The case whose adapter it is starts the processes above.       *)

-----------------------------------------------------------------------------
(* The inductive invariant: control.                                       *)

Before == {"export", "client", "image", "boot", "start", "spawn", "program", "halted"}
After == {"reap", "shutdown", "judge"}

\* What a step's place in the chain says of the rest.
Progress ==
    /\ adapter \in {"python_call", "cli"} /\ program \in Kinds
    /\ pc \in Before \cup After \cup {"done"}
    /\ pc \in Before => /\ fault = "none" /\ expired = {} /\ seen = "none"
                        /\ outcome = "pending"
    /\ pc = "halted" => program = "signals"
    /\ pc \in After => outcome = "pending"
    /\ pc \in After => seen \in {"matches", "differs", "odd_exception", "failure", "error"}

\* There is a reason for each observation, before it becomes an outcome.
Earned == program \in {"right", "clings"} /\ fault = "none" /\ expired = {}

Blameless ==
    /\ fault \in {"none", "program"} \cup (IF adapter = "cli" THEN {"spawn"} ELSE {})
    /\ expired \subseteq {"student"}
    /\ expired # {} /\ adapter = "python_call" => started

Excused ==
    \/ fault # "none" \/ program \in Unjudgeable
    \/ expired \ {"student"} # {}
    \/ expired # {} /\ adapter = "python_call" /\ ~started

Reasons ==
    pc \in After =>
        /\ seen = "matches" => Earned \/ (pc = "reap" /\ program = "litters" /\ Blameless)
        /\ seen = "matches" => fault = "none" /\ expired = {}
        /\ seen \in {"differs", "failure"} => Blameless
        /\ seen \in {"error", "odd_exception"} => Excused

CaseInv == Progress /\ Reasons /\ PassIsEarned /\ HostIsNotBlamed /\ StudentIsJudged

LEMMA InitCaseInv == ASSUME CaseInit PROVE CaseInv
  BY CaseExecutionAssumption
  DEF CaseInit, CaseInv, Progress, Before, After, Reasons, PassIsEarned, HostIsNotBlamed,
      StudentIsJudged, Adapters

\* What holds of a case that has just ended as its observation says.
LEMMA EndsInv ==
    ASSUME CaseInv, pc' = "done", UNCHANGED chosen,
           outcome' = "passed" => Earned', outcome' = "failed" => Blameless',
           outcome' = "infrastructure" => Excused'
    PROVE  CaseInv'
  BY DEF CaseInv, Progress, Before, After, Reasons, PassIsEarned, HostIsNotBlamed,
     StudentIsJudged,
         Earned, Blameless, Excused, chosen, Unjudgeable

\* What holds of a case that has just been observed.
LEMMA SeenInv ==
    ASSUME CaseInv, pc \in Before \cup After, pc' \in After, UNCHANGED <<chosen, outcome>>,
           seen' \in {"matches", "differs", "odd_exception", "failure", "error"},
           seen' = "matches" => /\ Earned' \/ (pc' = "reap" /\ program = "litters")
                                /\ fault' = "none" /\ expired' = {},
           seen' \in {"differs", "failure"} => Blameless',
           seen' \in {"error", "odd_exception"} => Excused'
    PROVE  CaseInv'
  <1>1. outcome' = "pending"
    BY DEF CaseInv, Progress
  <1>2. Progress'
    BY <1>1 DEF CaseInv, Progress, Before, After, chosen
  <1>3. Reasons'
    BY DEF Reasons, Blameless, chosen
  <1> QED
    BY <1>1, <1>2, <1>3 DEF CaseInv, PassIsEarned, HostIsNotBlamed, StudentIsJudged

\* What holds of a case that goes on without an observation.
LEMMA OnwardInv ==
    ASSUME CaseInv, pc \in Before, pc' \in Before, pc' = "halted" => program = "signals",
           UNCHANGED <<chosen, seen, outcome, fault, expired>>
    PROVE  CaseInv'
  BY DEF CaseInv, Progress, Before, After, Reasons, PassIsEarned, HostIsNotBlamed,
     StudentIsJudged,
         chosen

-----------------------------------------------------------------------------
(* Steps.                                                                  *)

LEMMA OutsideInv ==
    ASSUME CaseInv, Export \/ Send \/ BuildImage \/ Boot \/ Shutdown \/ Judge
    PROVE  CaseInv'
  <1>1. CASE Export
    <2>1. program = "odd_file" => Excused'
      BY <1>1 DEF Export, Excused, Unjudgeable, chosen
    <2>2. CASE Exportable
      BY <1>1, <2>2, OnwardInv DEF Export, Goto, Untimed, Faultless, Before
    <2>3. CASE ~Exportable
      BY <1>1, <2>1, <2>3, EndsInv DEF Export, Exportable, Ends, Goto
    <2> QED
      BY <2>2, <2>3
  <1>2. CASE Send
    <2>1. Blameless' /\ pc \in Before
      BY <1>2 DEF Send, Untimed, Faultless, CaseInv, Progress, Before, Blameless, chosen
    <2>2. CASE Sendable
      BY <1>2, <2>2, OnwardInv DEF Send, Goto, Untimed, Faultless, Before
    <2>3. CASE ~Sendable
      BY <1>2, <2>1, <2>3, SeenInv DEF Send, Answer, Goto, After
    <2> QED
      BY <2>2, <2>3
  <1>3. CASE BuildImage
    BY <1>3, OnwardInv DEF BuildImage, Goto, Takes, Faultless, Before
  <1>4. CASE Boot
    <2>1. program = "overlaps" => Excused'
      BY <1>4 DEF Boot, Excused, Unjudgeable, chosen
    <2>2. CASE LaidOut
      BY <1>4, <2>2, OnwardInv DEF Boot, Goto, Takes, Faultless, Before
    <2>3. CASE ~LaidOut
      BY <1>4, <2>1, <2>3, SeenInv DEF Boot, LaidOut, Answer, Goto, Before, After
    <2> QED
      BY <2>2, <2>3
  <1>5. CASE Shutdown
    BY <1>5, SeenInv
    DEF Shutdown, Goto, Takes, Faultless, CaseInv, Progress, Reasons, After, Earned,
       Blameless,
        Excused, Unjudgeable, chosen
  <1>6. CASE Judge
    <2>1. pc \in After /\ UNCHANGED <<chosen, seen, fault, expired, started>>
      BY <1>6 DEF Judge, Untimed, Faultless, After
    <2>2. /\ seen \in {"error", "odd_exception"} => Excused
          /\ seen = "matches" => Earned
          /\ seen \in {"differs", "failure"} => Blameless
          /\ seen \in {"matches", "differs", "odd_exception", "failure", "error"}
      BY <1>6, <2>1 DEF Judge, CaseInv, Progress, Reasons
    <2>3. (Earned => Earned') /\ (Blameless => Blameless') /\ (Excused => Excused')
      BY <2>1 DEF Earned, Blameless, Excused, Unjudgeable, chosen
    <2>4. pc' = "done" /\ outcome' = IF ~Trusted THEN "infrastructure"
                                     ELSE IF Meets THEN "passed" ELSE "failed"
      BY <1>6 DEF Judge, Ends, Goto
    <2> QED
      BY <2>1, <2>2, <2>3, <2>4, EndsInv DEF Trusted, Meets
  <1> QED
    BY <1>1, <1>2, <1>3, <1>4, <1>5, <1>6

LEMMA InsideInv ==
    ASSUME CaseInv, StartRunner \/ Spawn \/ RunProgram \/ SignalRunner \/ CleanUp
    PROVE  CaseInv'
  <1>1. CASE StartRunner \/ Spawn
    BY <1>1, OnwardInv DEF StartRunner, Spawn, Goto, Takes, Faultless, Before
  <1>2. CASE RunProgram
    <2>1. /\ pc = "program" /\ pc' = "reap" /\ seen' \in Observations
          /\ UNCHANGED <<chosen, started, outcome, fault, expired>>
      BY <1>2 DEF RunProgram, Goto, Takes, Answer, Faultless
    <2>2. fault = "none" /\ expired = {}
      BY <2>1 DEF CaseInv, Progress, Before
    <2>3. /\ seen' \in {"matches", "differs", "failure", "odd_exception"}
          /\ seen' = "matches" => program \in {"right", "clings", "litters"}
          /\ seen' = "odd_exception" => program = "raises_odd" /\ adapter # "cli"
      <3>1. program \in Kinds /\ adapter \in {"python_call", "cli"}
        BY DEF CaseInv, Progress
      <3>2. CASE program \in {"right", "litters"}
        BY <2>1, <3>2 DEF Observations
      <3>3. CASE program \in {"wrong", "raises"}
        BY <2>1, <3>3 DEF Observations
      <3>4. CASE program = "raises_odd"
        BY <2>1, <3>1, <3>4 DEF Observations
      <3>5. CASE program = "quits"
        BY <2>1, <3>1, <3>5 DEF Observations
      <3>6. CASE program = "clings"
        BY <2>1, <3>1, <3>6 DEF Observations
      <3>7. CASE program \in {"loops", "garbles", "overlaps", "nul", "odd_file", "signals"}
        BY <2>1, <3>7 DEF Observations
      <3> QED
        BY <3>1, <3>2, <3>3, <3>4, <3>5, <3>6, <3>7 DEF Kinds
    <2>4. Blameless'
      BY <2>1, <2>2 DEF Blameless
    <2>5. seen' = "odd_exception" => Excused'
      BY <2>1, <2>3 DEF Excused, Unjudgeable, CaseInv, Progress, chosen
    <2>6. seen' = "matches" => Earned' \/ program = "litters"
      BY <2>1, <2>2, <2>3 DEF Earned, chosen
    <2> QED
      BY <2>1, <2>2, <2>3, <2>4, <2>5, <2>6, SeenInv DEF Before, After
  <1>3. CASE CleanUp
    <2>1. PICK d \in 0 .. (IF program = "clings" THEN 1 ELSE 0) :
              Takes(d) /\ (Answer(WithFiles(seen)) \/ (d = 1 /\ Answer("error")))
      BY <1>3 DEF CleanUp
    <2>2. /\ pc = "reap" /\ pc' = "shutdown"
          /\ UNCHANGED <<chosen, started, outcome, fault, expired>>
      BY <1>3, <2>1 DEF CleanUp, Goto, Takes, Faultless
    <2>3. (Earned => Earned') /\ (Blameless => Blameless') /\ (Excused => Excused')
      BY <2>2 DEF Earned, Blameless, Excused, Unjudgeable, chosen
    <2>4. pc \in After /\ pc' \in After
      BY <2>2 DEF After
    <2>5. CASE Answer(WithFiles(seen))
      <3>1. /\ seen \in {"matches", "differs", "odd_exception", "failure", "error"}
            /\ seen = "matches" => Earned \/ (program = "litters" /\ Blameless)
            /\ seen = "matches" => fault = "none" /\ expired = {}
            /\ seen \in {"differs", "failure"} => Blameless
            /\ seen \in {"error", "odd_exception"} => Excused
        BY <2>4 DEF CaseInv, Progress, Reasons
      <3>2. seen' = IF program = "litters" /\ seen = "matches" THEN "failure" ELSE seen
        BY <2>5 DEF Answer, WithFiles
      <3>3. Earned => program # "litters"
        BY DEF Earned
      <3> QED
        BY <2>2, <2>3, <2>4, <3>1, <3>2, <3>3, SeenInv
    <2>6. CASE d = 1 /\ Answer("error")
      <3>1. program = "clings" /\ seen' = "error"
        BY <2>6 DEF Answer
      <3>2. Excused'
        BY <2>2, <3>1 DEF Excused, Unjudgeable, chosen
      <3> QED
        BY <2>2, <2>4, <3>1, <3>2, SeenInv
    <2> QED
      BY <2>1, <2>5, <2>6
  <1>4. CASE SignalRunner
    <2>1. /\ pc = "program" /\ program = "signals"
          /\ UNCHANGED <<chosen, started, outcome, fault, expired>>
          /\ \/ pc' = "shutdown" /\ seen' = "error"
             \/ pc' = "halted" /\ UNCHANGED seen
      BY <1>4 DEF SignalRunner, Goto, Takes, Answer, Faultless
    <2>2. Excused'
      BY <2>1 DEF Excused, Unjudgeable, chosen
    <2>3. CASE pc' = "shutdown" /\ seen' = "error"
      BY <2>1, <2>2, <2>3, SeenInv DEF Before, After
    <2>4. CASE pc' = "halted" /\ UNCHANGED seen
      BY <2>1, <2>4, OnwardInv DEF Before
    <2> QED
      BY <2>1, <2>3, <2>4
  <1> QED
    BY <1>1, <1>2, <1>3, <1>4

\* A limit that runs out is one of those that run in the step.
LEMMA ExpireInv ==
    ASSUME CaseInv, NEW d \in Durations,
           StudentExpires(d) \/ RunnerExpires(d) \/ LauncherExpires(d) \/ ClientExpires(d)
    PROVE  CaseInv'
  <1>1. CASE StudentExpires(d)
    <2>1. /\ "student" \in Running(pc) /\ expired' = expired \cup {"student"} /\ pc' = "reap"
          /\ seen' = IF adapter = "cli" \/ started THEN "failure" ELSE "error"
          /\ UNCHANGED <<chosen, started, outcome, fault>>
      BY <1>1 DEF StudentExpires, Exceeds, Goto, Answer, Faultless
    <2>2. pc \in {"spawn", "program"}
      BY <2>1 DEF Running, CaseInv, Progress, Before, After
    <2>3. fault' = "none" /\ expired' = {"student"}
      BY <2>1, <2>2 DEF CaseInv, Progress, Before
    <2>4. adapter \in {"python_call", "cli"} /\ UNCHANGED <<adapter, program>>
      BY <2>1 DEF CaseInv, Progress, chosen
    <2>5. seen' = "failure" => Blameless'
      BY <2>1, <2>3, <2>4 DEF Blameless
    <2>6. seen' = "error" => Excused'
      BY <2>1, <2>3, <2>4 DEF Excused
    <2> QED
      BY <2>1, <2>2, <2>5, <2>6, SeenInv DEF Before, After
  <1>2. CASE RunnerExpires(d) \/ LauncherExpires(d)
    <2>1. \E t \in {"runner", "image", "vm"} : t \in Running(pc) /\ expired' = expired \cup {t}
      BY <1>2 DEF RunnerExpires, LauncherExpires, Exceeds
    <2>2. pc' \in After /\ seen' = "error" /\ UNCHANGED <<chosen, outcome>>
      BY <1>2 DEF RunnerExpires, LauncherExpires, Goto, Answer, After
    <2>3. pc \in Before \cup After
      BY <2>1 DEF Running, CaseInv, Progress, Before, After
    <2>4. Excused'
      BY <2>1 DEF Excused
    <2> QED
      BY <2>2, <2>3, <2>4, SeenInv
  <1>3. CASE ClientExpires(d)
    <2>1. /\ expired' = expired \cup {"client"} /\ pc' = "done" /\ outcome' = "infrastructure"
          /\ UNCHANGED chosen
      BY <1>3 DEF ClientExpires, Exceeds, Ends, Goto
    <2>2. Excused'
      BY <2>1 DEF Excused
    <2> QED
      BY <2>1, <2>2, EndsInv
  <1> QED
    BY <1>1, <1>2, <1>3

LEMMA HostFailsInv ==
    ASSUME CaseInv, HostFails
    PROVE  CaseInv'
  <1>1. /\ fault = "none" /\ fault' = pc /\ pc \in (Before \cup After) \ {"judge"}
        /\ UNCHANGED <<chosen, started, expired>>
    BY DEF HostFails, Untimed, CaseInv, Progress, After
  <1>2. pc # "none"
    BY <1>1 DEF Before, After
  <1>3. Excused'
    BY <1>1, <1>2 DEF Excused
  <1>4. CASE pc \in {"export", "client"}
    BY <1>1, <1>3, <1>4, EndsInv DEF HostFails, Ends, Goto
  <1>5. CASE pc \in {"image", "boot", "shutdown"}
    BY <1>1, <1>3, <1>5, SeenInv DEF HostFails, Answer, Goto, After
  <1>6. CASE pc \in {"start", "halted", "reap"}
    BY <1>1, <1>3, <1>6, SeenInv DEF HostFails, Answer, Goto, After
  <1>7. CASE pc = "spawn"
    <2>1. /\ pc' = "reap" /\ UNCHANGED outcome
          /\ IF adapter = "cli" THEN seen' \in {"failure", "differs"} ELSE seen' = "error"
      BY <1>7 DEF HostFails, Answer, Goto
    <2>2. adapter = "cli" => Blameless'
      BY <1>1, <1>7 DEF Blameless, CaseInv, Progress, Before, chosen
    <2> QED
      BY <1>1, <1>3, <2>1, <2>2, SeenInv DEF After
  <1>8. CASE pc = "program"
    <2>1. pc' = "reap" /\ seen' = "failure" /\ UNCHANGED outcome
      BY <1>8 DEF HostFails, Answer, Goto
    <2>2. Blameless'
      BY <1>1, <1>8 DEF Blameless, CaseInv, Progress, Before, chosen
    <2> QED
      BY <1>1, <2>1, <2>2, SeenInv DEF After
  <1> QED
    BY <1>1, <1>4, <1>5, <1>6, <1>7, <1>8 DEF Before, After

LEMMA NextCaseInv == ASSUME CaseInv, [CaseNext]_caseVars PROVE CaseInv'
  <1>1. CASE Expire
    BY <1>1, ExpireInv DEF Expire
  <1>2. CASE Retry
    BY <1>2 DEF Retry, CaseInv, Progress, Before, After, Reasons, PassIsEarned,
       HostIsNotBlamed,
                StudentIsJudged, chosen
  <1>3. CASE UNCHANGED caseVars
    <2>1. UNCHANGED <<adapter, program, pc, started, seen, outcome, fault, expired>>
      BY <1>3 DEF caseVars, chosen, history
    <2> QED
      BY <2>1 DEF CaseInv, Progress, Reasons, PassIsEarned, HostIsNotBlamed, StudentIsJudged,
                  Earned, Blameless, Excused, Unjudgeable
  <1> QED
    BY <1>1, <1>2, <1>3, OutsideInv, InsideInv, HostFailsInv DEF CaseNext, Steps

LEMMA CaseInvariance == CaseSpec => []CaseInv
  BY InitCaseInv, NextCaseInv, PTL DEF CaseSpec

-----------------------------------------------------------------------------
(* The limits.                                                             *)

\* Of the supervisor's limit, the student's limit and two half seconds more for its own steps are
\* left, less what these have taken, and less what a stopped runner has taken.
Nested ==
    /\ left["runner"] + overhead <= left["student"] + 2
    /\ program # "signals" => left["runner"] + overhead = left["student"] + 2

\* A limit that ran out has nothing left.
Balance ==
    /\ \A t \in DOMAIN Limit : left[t] \in Nat
    /\ DOMAIN left = DOMAIN Limit
    /\ overhead \in Nat
    /\ Nested
    /\ "runner" \in expired => left["runner"] = 0 /\ pc \in {"shutdown", "judge", "done"}

LEMMA LimitNames == DOMAIN Limit = {"client", "image", "vm", "runner", "student"}
  BY DEF Limit

\* Both limits run while the program runs, only the supervisor's before and after it.
LEMMA RunningTogether ==
    /\ pc \in {"spawn", "program"} => "runner" \in Running(pc) /\ "student" \in Running(pc)
    /\ pc \in {"start", "halted", "reap"} =>
            "runner" \in Running(pc) /\ "student" \notin Running(pc)
    /\ pc \in {"export", "client", "image", "boot", "shutdown", "judge", "done"} =>
            "runner" \notin Running(pc) /\ "student" \notin Running(pc)
    /\ Running(pc) \subseteq DOMAIN Limit
  BY LimitNames DEF Running

\* Time passes.
LEMMA SpentInv ==
    ASSUME Balance, Progress, NEW d \in Nat, \A t \in Running(pc) : d <= left[t],
           left' = [t \in DOMAIN left |-> IF t \in Running(pc) THEN left[t] - d ELSE left[t]],
           overhead' = IF pc \in {"start", "reap"} THEN overhead + d ELSE overhead,
           UNCHANGED program
    PROVE  /\ \A t \in DOMAIN Limit : left'[t] \in Nat
           /\ DOMAIN left' = DOMAIN Limit
           /\ overhead' \in Nat
           /\ Nested'
  <1>1. \A t \in DOMAIN Limit :
            left'[t] = (IF t \in Running(pc) THEN left[t] - d ELSE left[t]) /\ left'[t] \in Nat
    BY DEF Balance
  <1>2. "runner" \in DOMAIN Limit /\ "student" \in DOMAIN Limit
    BY LimitNames
  <1>3. /\ left["runner"] \in Nat /\ left["student"] \in Nat /\ overhead \in Nat
    BY <1>2 DEF Balance
  <1>4. CASE pc \in {"spawn", "program"}
    BY <1>1, <1>2, <1>3, <1>4, RunningTogether DEF Balance, Nested
  <1>5. CASE pc \in {"start", "reap"}
    BY <1>1, <1>2, <1>3, <1>5, RunningTogether DEF Balance, Nested
  <1>6. CASE pc \in {"export", "client", "image", "boot", "shutdown", "judge", "done"}
    BY <1>1, <1>2, <1>3, <1>6, RunningTogether DEF Balance, Nested
  <1>7. CASE pc = "halted"
    <2>1. program = "signals" /\ program' = "signals"
      BY <1>7 DEF Progress
    <2> QED
      BY <1>1, <1>2, <1>3, <1>7, <2>1, RunningTogether DEF Balance, Nested
  <1> QED
    BY <1>4, <1>5, <1>6, <1>7 DEF Progress, Before, After

LEMMA TakesBalance ==
    ASSUME Balance, Progress, NEW d \in Nat, Takes(d), UNCHANGED program,
           pc \notin {"judge", "done"},
           pc' \in {"shutdown", "judge"} \/ pc # "shutdown"
    PROVE  Balance'
  <1>1. /\ \A t \in DOMAIN Limit : left'[t] \in Nat
        /\ DOMAIN left' = DOMAIN Limit
        /\ overhead' \in Nat
        /\ Nested'
    BY SpentInv DEF Takes
  <1>2. ASSUME "runner" \in expired'
        PROVE  left'["runner"] = 0 /\ pc' \in {"shutdown", "judge", "done"}
    <2>1. pc = "shutdown" /\ left["runner"] = 0
      BY <1>2 DEF Takes, Balance
    <2>2. "runner" \in DOMAIN left /\ "runner" \notin Running(pc)
      BY <2>1, LimitNames, RunningTogether DEF Balance
    <2> QED
      BY <2>1, <2>2 DEF Takes
  <1> QED
    BY <1>1, <1>2 DEF Balance

LEMMA ExceedsBalance ==
    ASSUME Balance, Progress, NEW d, NEW t, Exceeds(d, t), UNCHANGED program,
           t = "runner" => pc' = "shutdown", pc = "shutdown" => pc' \in {"judge", "done"}
    PROVE  Balance'
  <1>1. t \in DOMAIN Limit /\ pc \notin {"judge", "done"}
    BY RunningTogether DEF Exceeds, Running
  <1>2. PICK n \in Nat : n = left[t]
    BY <1>1 DEF Balance
  <1>3. /\ \A u \in DOMAIN Limit : left'[u] \in Nat
        /\ DOMAIN left' = DOMAIN Limit
        /\ overhead' \in Nat
        /\ Nested'
    BY <1>2, SpentInv DEF Exceeds
  <1>4. CASE t = "runner"
    BY <1>1, <1>2, <1>3, <1>4 DEF Exceeds, Balance
  <1>5. ASSUME t # "runner", "runner" \in expired'
        PROVE  left'["runner"] = 0 /\ pc' \in {"shutdown", "judge", "done"}
    <2>1. pc = "shutdown" /\ left["runner"] = 0
      BY <1>1, <1>5 DEF Exceeds, Balance
    <2>2. "runner" \in DOMAIN left /\ "runner" \notin Running(pc)
      BY <2>1, LimitNames, RunningTogether DEF Balance
    <2> QED
      BY <2>1, <2>2 DEF Exceeds
  <1> QED
    BY <1>3, <1>4, <1>5 DEF Balance

LEMMA FreshBalance ==
    ASSUME left = Limit, overhead = 0, expired = {}
    PROVE  Balance
  BY DEF Balance, Nested, Limit

LEMMA NextBalance ==
    ASSUME CaseInv, Balance, [CaseNext]_caseVars
    PROVE  Balance'
  <1> USE DEF CaseInv
  <1>1. CASE Export \/ Send \/ Judge \/ HostFails
    <2>1. /\ UNCHANGED <<program, left, expired, overhead>>
          /\ pc \in {"shutdown", "judge", "done"} => pc' \in {"shutdown", "judge", "done"}
      BY <1>1 DEF Export, Send, Judge, HostFails, Untimed, Ends, Goto, chosen
    <2> QED
      BY <2>1 DEF Balance, Nested
  <1>2. CASE BuildImage \/ Boot \/ StartRunner \/ Spawn \/ RunProgram \/ SignalRunner
             \/ CleanUp \/ Shutdown
    <2>1. PICK d \in Nat : Takes(d) /\ UNCHANGED program
      BY <1>2, CaseExecutionAssumption
      DEF BuildImage, Boot, StartRunner, Spawn, RunProgram, SignalRunner, CleanUp, Shutdown,
          chosen
    <2>2. (pc' \in {"shutdown", "judge"} \/ pc # "shutdown") /\ pc \notin {"judge", "done"}
      BY <1>2 DEF BuildImage, Boot, StartRunner, Spawn, RunProgram, SignalRunner, CleanUp,
         Shutdown, Goto
    <2> QED
      BY <2>1, <2>2, TakesBalance
  <1>3. CASE Expire
    <2>1. PICK d \in Durations :
              StudentExpires(d) \/ RunnerExpires(d) \/ LauncherExpires(d)
              \/ ClientExpires(d)
      BY <1>3 DEF Expire
    <2>5. UNCHANGED program
      BY <2>1 DEF StudentExpires, RunnerExpires, LauncherExpires, ClientExpires, chosen
    <2>2. CASE StudentExpires(d)
      <3>1. Exceeds(d, "student") /\ pc # "shutdown"
        BY <2>2, RunningTogether DEF StudentExpires, Exceeds
      <3> QED
        BY <2>5, <3>1, ExceedsBalance
    <2>3. CASE RunnerExpires(d)
      <3>1. Exceeds(d, "runner") /\ pc # "shutdown" /\ pc' = "shutdown"
        BY <2>3, RunningTogether DEF RunnerExpires, Exceeds, Goto
      <3> QED
        BY <2>5, <3>1, ExceedsBalance
    <2>4. CASE LauncherExpires(d) \/ ClientExpires(d)
      <3>1. PICK t \in {"image", "vm", "client"} : Exceeds(d, t) /\ pc' \in {"judge", "done"}
        BY <2>4 DEF LauncherExpires, ClientExpires, Ends, Goto
      <3> QED
        BY <2>5, <3>1, ExceedsBalance
    <2> QED
      BY <2>1, <2>2, <2>3, <2>4
  <1>4. CASE Retry
    BY <1>4 DEF Retry, Balance, Nested, Limit
  <1>5. CASE UNCHANGED caseVars
    BY <1>5 DEF caseVars, chosen, history, Balance, Nested
  <1> QED
    BY <1>1, <1>2, <1>3, <1>4, <1>5 DEF CaseNext, Steps

-----------------------------------------------------------------------------
(* Types.                                                                  *)

\* Where a step leads, and what it says, by itself.
Labels ==
    /\ pc \in Before \cup After \cup {"done"}
    /\ started \in BOOLEAN
    /\ seen \in {"none", "matches", "differs", "odd_exception", "failure", "error"}
    /\ outcome \in {"pending", "passed", "failed", "infrastructure"}
    /\ fault \in Before \cup {"none", "reap", "shutdown"}

\* Limits only run down.
Spending ==
    /\ left' \in [DOMAIN Limit -> Nat]
    /\ \A t \in DOMAIN Limit : left'[t] <= left[t]
    /\ expired' \subseteq expired \cup DOMAIN Limit

LEMMA LeftType == CaseTypeOK => left \in [DOMAIN Limit -> Nat]
  BY DEF CaseTypeOK, Limit

LEMMA TakesSpends ==
    ASSUME CaseTypeOK, NEW d \in Nat, Takes(d)
    PROVE  Spending
  BY LeftType DEF Takes, Spending

LEMMA ExceedsSpends ==
    ASSUME CaseTypeOK, NEW d, NEW t, Exceeds(d, t)
    PROVE  Spending
  <1>1. t \in DOMAIN Limit
    BY LimitNames DEF Exceeds, Running
  <1>2. PICK n \in Nat : n = left[t]
    BY <1>1, LeftType
  <1> QED
    BY <1>1, <1>2, LeftType DEF Exceeds, Spending

LEMMA NextSpends ==
    ASSUME CaseTypeOK, [CaseNext]_caseVars
    PROVE  Spending \/ (left' = Limit /\ expired' = {})
  <1>1. CASE Export \/ Send \/ Judge \/ HostFails \/ UNCHANGED caseVars
    <2>1. UNCHANGED <<left, expired>>
      BY <1>1 DEF Export, Send, Judge, HostFails, Untimed, caseVars, history
    <2> QED
      BY <2>1, LeftType DEF Spending
  <1>2. CASE BuildImage \/ Boot \/ StartRunner \/ Spawn \/ RunProgram \/ SignalRunner
             \/ CleanUp \/ Shutdown
    <2>1. PICK d \in Nat : Takes(d)
      BY <1>2, CaseExecutionAssumption
      DEF BuildImage, Boot, StartRunner, Spawn, RunProgram, SignalRunner, CleanUp, Shutdown
    <2> QED
      BY <2>1, TakesSpends
  <1>3. CASE Expire
    <2>1. PICK d, t : Exceeds(d, t)
      BY <1>3 DEF Expire, StudentExpires, RunnerExpires, LauncherExpires, ClientExpires
    <2> QED
      BY <2>1, ExceedsSpends
  <1>4. CASE Retry
    BY <1>4 DEF Retry
  <1> QED
    BY <1>1, <1>2, <1>3, <1>4 DEF CaseNext, Steps

LEMMA NextLabels ==
    ASSUME CaseTypeOK, CaseInv, [CaseNext]_caseVars
    PROVE  Labels'
  <1>1. Labels
    BY DEF CaseTypeOK, CaseInv, Progress, Labels, Before, After
  <1>2. pc' \in Before \cup After \cup {"done"}
    BY NextCaseInv DEF CaseInv, Progress
  <1>3. CASE Export \/ Send \/ BuildImage \/ Boot \/ Shutdown \/ Judge \/ StartRunner \/ Spawn
    BY <1>1, <1>2, <1>3
    DEF Labels, Export, Send, BuildImage, Boot, Shutdown, Judge, StartRunner, Spawn, Ends, Answer,
        Faultless
  <1>4. CASE RunProgram \/ SignalRunner \/ CleanUp
    BY <1>1, <1>2, <1>4
    DEF Labels, RunProgram, SignalRunner, Observations, CleanUp, WithFiles, Answer, Faultless
  <1>5. CASE Expire
    BY <1>1, <1>2, <1>5
    DEF Labels, Expire, StudentExpires, RunnerExpires, LauncherExpires, ClientExpires, Ends, Answer,
        Faultless
  <1>6. CASE HostFails
    BY <1>1, <1>2, <1>6 DEF Labels, HostFails, Ends, Answer, Before, After
  <1>7. CASE Retry \/ UNCHANGED caseVars
    BY <1>1, <1>2, <1>7 DEF Labels, Retry, caseVars, history
  <1> QED
    BY <1>3, <1>4, <1>5, <1>6, <1>7 DEF CaseNext, Steps

\* What is spent of the supervisor's limit bounds the overhead.
LEMMA NextCaseType ==
    ASSUME CaseTypeOK, CaseInv, Balance, [CaseNext]_caseVars
    PROVE  CaseTypeOK'
  <1>1. adapter' = adapter /\ program' = program
    BY DEF CaseNext, Steps, Export, Send, BuildImage, Boot, Shutdown, Judge, StartRunner, Spawn,
           RunProgram, SignalRunner, CleanUp, Expire, StudentExpires, RunnerExpires, LauncherExpires,
           ClientExpires, HostFails, Retry, chosen, caseVars
  <1>2. /\ left' \in [DOMAIN Limit -> Nat] /\ \A t \in DOMAIN Limit : left'[t] <= Limit[t]
        /\ expired' \subseteq DOMAIN Limit
    <2>1. /\ Limit \in [DOMAIN Limit -> Nat] /\ \A t \in DOMAIN Limit : Limit[t] \in Nat
      BY DEF Limit
    <2>2. CASE Spending
      BY <2>1, <2>2, LeftType DEF Spending, CaseTypeOK
    <2>3. CASE left' = Limit /\ expired' = {}
      BY <2>1, <2>3
    <2> QED
      BY <2>2, <2>3, NextSpends
  <1>3. \A t \in DOMAIN Limit : Limit[t] <= Limit.client
    BY DEF Limit
  <1>4. overhead' \in 0 .. Limit.runner
    <2>1. /\ "runner" \in DOMAIN Limit /\ "student" \in DOMAIN Limit
          /\ Limit["student"] = 10 /\ Limit.runner = 12
      BY DEF Limit
    <2>2. /\ left'["student"] <= 10 /\ left'["student"] \in Nat /\ left'["runner"] \in Nat
          /\ overhead' \in Nat /\ left'["runner"] + overhead' <= left'["student"] + 2
      BY <1>2, <2>1, NextBalance DEF Balance, Nested
    <2> QED
      BY <2>1, <2>2
  <1>5. left' \in [DOMAIN Limit -> 0 .. Limit.client]
    <2>1. \A t \in DOMAIN Limit : left'[t] \in 0 .. Limit.client
      BY <1>2, <1>3 DEF Limit
    <2> QED
      BY <1>2, <2>1
  <1> QED
    BY <1>1, <1>2, <1>4, <1>5, NextLabels DEF CaseTypeOK, Labels, Before, After

-----------------------------------------------------------------------------
(* What follows.                                                           *)

\* No limit is overdrawn, and the supervisor's own steps take no more than its limit.
THEOREM CaseTypeCorrect == CaseSpec => []CaseTypeOK
  <1>1. ASSUME CaseInit
        PROVE  CaseTypeOK /\ Balance
    <2>1. Balance
      BY <1>1, FreshBalance DEF CaseInit
    <2>2. /\ left \in [DOMAIN Limit -> 0 .. Limit.client]
          /\ \A t \in DOMAIN Limit : left[t] <= Limit[t]
      BY <1>1 DEF CaseInit, Limit
    <2>3. overhead \in 0 .. Limit.runner
      BY <1>1 DEF CaseInit, Limit
    <2> QED
      BY <1>1, <2>1, <2>2, <2>3 DEF CaseInit, CaseTypeOK
  <1> QED
    BY <1>1, CaseInvariance, NextBalance, NextCaseType, PTL DEF CaseSpec

\* A case passes only for a program that does what the case expects, and through a chain in
\* which nothing failed and no limit ran out.
THEOREM PassEarned ==
    CaseSpec => []PassIsEarned
  BY CaseInvariance, PTL DEF CaseInv

\* What the host or the guest does wrong is not the student's failure, with the exceptions that
\* HostIsNotBlamed names.
THEOREM HostNotBlamed ==
    CaseSpec => []HostIsNotBlamed
  BY CaseInvariance, PTL DEF CaseInv

\* A case is without a verdict only if the host or the guest failed or was slow, or the program is
\* one that Unjudgeable names: its commit cannot be copied or laid out, or it leaves processes behind,
\* ends or stops its runner, or (in a python_call) raises an exception of an odd name.
THEOREM StudentJudged ==
    CaseSpec => []StudentIsJudged
  BY CaseInvariance, PTL DEF CaseInv

\* The supervisor's limit runs out only if steps of the guest itself took a second, however long
\* the program runs, or the program stopped its runner.
THEOREM StudentTimeEnough ==
    CaseSpec => []StudentTimeIsEnough
  <1>1. CaseInit => Balance
    BY FreshBalance DEF CaseInit
  <1>2. Balance => StudentTimeIsEnough
    BY LimitNames DEF Balance, Nested, StudentTimeIsEnough
  <1> QED
    BY <1>1, <1>2, CaseInvariance, NextBalance, PTL DEF CaseSpec
=============================================================================
