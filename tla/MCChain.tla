------------------------------ MODULE MCChain ------------------------------
(* The sleeps a Retry-After header asks for in the runs of Chain.          *)
EXTENDS Chain

\* Below zero (a number that wrapped around), zero, one that uses the budget up in
\* the middle of the attempts, and one beyond the budget.
SomeHints == {-1, 0, 2, 9}
=============================================================================
