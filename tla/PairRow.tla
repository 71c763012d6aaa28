-------------------------------- MODULE PairRow --------------------------------
(***************************************************************************)
(* The matches row of one pair of users and the blocks between the two:    *)
(* the state that MatchContract, MatchRepository and Candidates share.     *)
(***************************************************************************)
EXTENDS Integers

VARIABLES
    exists,    \* the row has been inserted
    status,    \* matches.status
    action,    \* action[1] = user1_action, action[2] = user2_action
    matchedAt, \* matches.matched_at is not NULL
    blocks     \* s \in blocks: user s has a blocks row against the other user

pairRow == <<exists, status, action, matchedAt, blocks>>

Sides    == {1, 2}
Other(s) == 3 - s

Decisions == {"none", "like", "dislike", "skip"}
Statuses  == {"pending", "matched", "rejected"}

BothLike == \A s \in Sides : action[s] = "like"

=============================================================================
