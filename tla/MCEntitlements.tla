--------------------------- MODULE MCEntitlements ---------------------------
\* Entitlements on small sets of payments, deliveries and DM requests.
EXTENDS Entitlements, TLC

\* Payments, deliveries and requests differ in their names only.
Symmetry ==
    Permutations(Payments) \cup Permutations(Deliveries) \cup Permutations(Spends)

=============================================================================
