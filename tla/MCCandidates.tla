----------------------------- MODULE MCCandidates -----------------------------
\* Candidates with profiles on both sides of every limit.
EXTENDS Candidates

=============================================================================
