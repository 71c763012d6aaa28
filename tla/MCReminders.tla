----------------------------- MODULE MCReminders -----------------------------
\* Reminders with the stages of the two jobs.
EXTENDS Reminders

Reengagement == <<
    [first |->  7, last |->  13, cool |->  5],
    [first |-> 14, last |->  29, cool |->  7],
    [first |-> 30, last |-> 365, cool |-> 14]>>

IncompleteProfile == <<
    [first |->  3, last |->   6, cool |->  2],
    [first |->  7, last |->  13, cool |->  4],
    [first |-> 14, last |-> 365, cool |->  7]>>

CodeStages == [reengage |-> Reengagement, incomplete |-> IncompleteProfile]

=============================================================================
