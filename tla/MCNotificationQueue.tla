------------------------- MODULE MCNotificationQueue -------------------------
\* NotificationQueue on small sets of notifications and message copies.
EXTENDS NotificationQueue, TLC

\* Message copies differ in their names only.
Symmetry == Permutations(Msgs)

=============================================================================
