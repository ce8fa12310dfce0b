---------------------------- MODULE MCDeliveries ----------------------------
(* Instance of Deliveries for TLC. *)
EXTENDS Deliveries

CONSTANT Healthy     \* deliveries whose handler does not fail every time

LiveSpec == Init /\ [][PromptNext]_vars /\ DeliveryFairness(Healthy)

\* A delivery that was persisted is completed without GitHub's help, although another
\* one, such as a push for a task without a suite, fails every time.
HealthyCompleted == \A d \in Healthy : rows[d].state # "absent" ~> Done(d)
=============================================================================
