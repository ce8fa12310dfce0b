----------------------------- MODULE MCAuthoring -----------------------------
(* Instance of Authoring for TLC. *)
EXTENDS Authoring

LiveSpec == Spec /\ AuthoringFairness

\* Retries are bounded: whatever author, critic and gate do, every job that is queued
\* or leased becomes ready, fails for good, or waits for the mentor, unless busy workers
\* take each other's leases over and over, which counts for no attempt.
EveryJobSettles ==
    [](\A w \in Workers : Busy(w) => Mine(w)) => \A t \in Tasks :
        jobs[t].state \in {"queued", "authoring"} ~>
            jobs[t].state \in {"ready", "failed", "needs_clarification"}
=============================================================================
