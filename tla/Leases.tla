------------------------------- MODULE Leases -------------------------------
(***************************************************************************)
(* What the durable SQLite queues of the bridge and of the grader have in  *)
(* common: a row is taken with a random fencing token and a lease, given   *)
(* back with a delay, and every later write names the token.               *)
(*                                                                         *)
(* Time is relative.  The code stores lease_expires_at and next_attempt_at *)
(* as wall-clock instants and compares them with now; a row here holds the *)
(* number of ticks that are left, so "<= now" is "= 0" and one Tick of the *)
(* modules that use this one ages every row by one.                        *)
(*                                                                         *)
(* A token is secrets.token_hex(32) or token_urlsafe(24): never drawn      *)
(* twice.  It is a member of a finite set of model values that nothing in  *)
(* the system still remembers.                                             *)
(***************************************************************************)
EXTENDS Naturals, Sequences

CONSTANTS
    Tokens,       \* fencing tokens
    NoToken,      \* the SQL NULL of a lease_token column
    LeaseTicks    \* lease_seconds, in ticks

ASSUME LeasesAssumption ==
    /\ NoToken \notin Tokens
    /\ LeaseTicks \in Nat \ {0}

MaybeToken == Tokens \cup {NoToken}

\* Mutant: an instant compared with "=" is missed by whoever looks a tick late.
Down_PastZero(n) == n - 1

\* One tick of a timer that stops at zero.
Down(n) == IF n = 0 THEN 0 ELSE n - 1

\* A tick, for a row with both timers.
Aged(row) == [row EXCEPT !.lease = Down(@), !.delay = Down(@)]

\* state = 'queued' AND next_attempt_at <= now.
Due(row) == row.state = "queued" /\ row.delay = 0

\* state = <leased> AND lease_expires_at <= now.
Expired(row, leased) == row.state = leased /\ row.lease = 0

\* WHERE state = <leased> AND lease_token = <token>: the fence of every write
\* made on behalf of a claim.
Owned(row, leased, token) == row.state = leased /\ row.token = token

\* a was created before b; order lists the rows of a table by created_at.
Before(order, a, b) == \E i, j \in DOMAIN order : i < j /\ order[i] = a /\ order[j] = b

\* ORDER BY created_at LIMIT 1 over the rows that satisfy the WHERE clause.
Oldest(order, rows, a) == a \in rows /\ \A b \in rows : ~Before(order, b, a)
=============================================================================
