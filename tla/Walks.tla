-------------------------------- MODULE Walks --------------------------------
(***************************************************************************)
(* Loops that follow a function from one value to the next.                *)
(***************************************************************************)
EXTENDS Integers

\* Where a loop gets to that starts at x and goes on with next.
Walk(next, x) == LET w[n \in Nat] == IF n = 0 THEN x ELSE next[w[n - 1]] IN w

=============================================================================
