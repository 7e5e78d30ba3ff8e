------------------------------- MODULE Listing -------------------------------
(***************************************************************************)
(* What ORDER BY, Array.prototype.sort and Array.prototype.filter return,  *)
(* defined without operators as arguments, so that the provers can reason  *)
(* about the lists the other modules build.                                *)
(***************************************************************************)
EXTENDS Naturals, Sequences, FiniteSets

\* How many elements of S come before x; an order R is a set of pairs
\* <<earlier, later>>.
Rank(S, R, x) == Cardinality({y \in S : <<y, x>> \in R})

\* The elements of the finite set S, each once, in the strict total order R.
Listed(S, R) ==
    [n \in 1 .. Cardinality(S) |-> CHOOSE x \in S : Rank(S, R, x) = n - 1]

Rising(S) == {p \in S \X S : p[1] < p[2]}

\* The entries of s at the positions in P, in the order they have in s.
Kept(s, P) ==
    LET at == Listed(P, Rising(P)) IN [n \in 1 .. Cardinality(P) |-> s[at[n]]]
=============================================================================
