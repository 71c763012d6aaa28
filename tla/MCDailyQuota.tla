---------------------------- MODULE MCDailyQuota ----------------------------
\* DailyQuota on small sets of requests, totals and days.
EXTENDS DailyQuota, TLC

\* Requests differ in their names only.
Symmetry == Permutations(Requests)

=============================================================================
