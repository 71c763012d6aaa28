-------------------------- MODULE MCMatchRepository --------------------------
EXTENDS MatchRepository, TLC

Symmetry == Permutations(Requests)

=============================================================================
