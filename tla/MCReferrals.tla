----------------------------- MODULE MCReferrals -----------------------------
\* Referrals with three users and four calls.
EXTENDS Referrals, TLC

\* Requests and users differ in their names only.
Symmetry == Permutations(Requests) \cup Permutations(Users)

=============================================================================
