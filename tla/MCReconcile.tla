---------------------------- MODULE MCReconcile ----------------------------
(* Instances of Reconcile for TLC: a board of two cards. *)
EXTENDS Reconcile, TLC

CONSTANTS t1, t2,
    bare,      \* such as PY-1: the git client refuses a branch of this name
    suffixed   \* such as PY-001-2: the git client takes it, the grader does not

Numbers == (bare :> 1) @@ (suffixed :> 0)

New == [who |-> {"learner"}, active |-> TRUE, project |-> TRUE, text |-> t1,
        id |-> None, url |-> FALSE]

Scenario(cs, e, f) == [cards |-> cs, edits |-> e, faults |-> f]

\* One card in hand, edited once. Without edits: a mentor's card next to a learner's;
\* one that cannot be served before one that can; an id written by hand that is also the
\* next one to allocate; the same id on both cards; ids that are refused after a branch was
\* named for them, after it was pushed, and not at all.
Mixed == {
    Scenario(<<New, [New EXCEPT !.active = FALSE]>>, 1, 1),
    Scenario(<<New, [New EXCEPT !.who = {"mentor"}]>>, 0, 1),
    Scenario(<<[New EXCEPT !.project = FALSE], New>>, 0, 1),
    Scenario(<<New, [New EXCEPT !.id = 1]>>, 0, 0),
    Scenario(<<[New EXCEPT !.id = 1], [New EXCEPT !.id = 1, !.active = FALSE]>>, 0, 0),
    Scenario(<<New, [New EXCEPT !.id = bare]>>, 0, 0),
    Scenario(<<[New EXCEPT !.id = suffixed], New>>, 0, 0),
    Scenario(<<[New EXCEPT !.id = suffixed, !.who = {"mentor"}], New>>, 0, 0)}

\* A learner's card before a mentor's, and one edit.
OneEdit == {Scenario(<<New, [New EXCEPT !.who = {"mentor"}]>>, 1, 0)}

\* An id of another form on the first of two cards.
OneWord == {Scenario(<<[New EXCEPT !.id = bare], New>>, 0, 0)}

LiveSpec == Spec /\ ReconcileFairness
=============================================================================
