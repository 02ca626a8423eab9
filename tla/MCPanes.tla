------------------------------ MODULE MCPanes -------------------------------
(* An instance of Panes for TLC. *)
EXTENDS Panes, TLC

CONSTANTS a, b, k1, k2

Given(key, subject) == [key |-> key, subject |-> subject]

\* What a selection deals.
MCDeals == {<<Given(k1, a)>>, <<Given(None, a), Given(k1, a)>>}

\* How it goes on: a Card of a new Subject, one more before it, one less.
MCUpdates == {<<Given(k1, b)>>, <<Given(k2, a), Given(k1, a)>>, <<Given(k2, b)>>}
=============================================================================
