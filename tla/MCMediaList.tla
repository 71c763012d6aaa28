----------------------------- MODULE MCMediaList -----------------------------
\* MediaList on small sets of uploads and taps.
EXTENDS MediaList, TLC

\* Uploads that may fail, those that may not, and taps differ in their names only.
Symmetry ==
    Permutations(Fragile) \cup Permutations(Items \ Fragile) \cup Permutations(Deletes)

=============================================================================
