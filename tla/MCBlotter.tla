----------------------------- MODULE MCBlotter -----------------------------
\* Instances of Blotter for TLC.
EXTENDS Blotter, TLC

TwoColumns == <<"price", "status">>

\* With a single value per column only the status can change.
OneColumn == <<"status">>

\* No definition tells one value of a column from another.
ValueSymmetry == Permutations(Values)
=============================================================================
