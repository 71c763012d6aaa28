--------------------------- MODULE MCMatchSession ---------------------------
\* MatchSession with two overlapping handlers and three cards.
EXTENDS MatchSession, TLC

\* Handlers differ in their names only.
Symmetry == Permutations(Updates)

=============================================================================
