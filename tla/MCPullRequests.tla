--------------------------- MODULE MCPullRequests ---------------------------
(* Instances of PullRequests for TLC. *)
EXTENDS PullRequests, TLC

Symmetry == Permutations(Events) \cup Permutations(Handlers)
=============================================================================
