---------------------------- MODULE MatchContract ----------------------------
(***************************************************************************)
(* What the match repository promises for one pair of users when every     *)
(* request takes effect at once: a row with one decision per user, a       *)
(* status derived from the decisions, and blocks that veto decisions.      *)
(* MatchRepository is the statement-by-statement version; served one       *)
(* request at a time it implements this specification.                     *)
(***************************************************************************)
EXTENDS PairRow

vars == pairRow

Init ==
    /\ exists = FALSE
    /\ status = "pending"
    /\ action = [s \in Sides |-> "none"]
    /\ matchedAt = FALSE
    /\ blocks = {}

Create ==
    /\ blocks = {} /\ ~exists
    /\ exists' = TRUE
    /\ UNCHANGED <<status, action, matchedAt, blocks>>

\* Decisions need the row and the absence of blocks; a side sets its own only.
MayDecide == exists /\ blocks = {}
Decide(s, d) ==
    /\ MayDecide
    /\ action' = [action EXCEPT ![s] = d]
    /\ UNCHANGED <<exists, blocks>>

Like(s) ==
    /\ Decide(s, "like")
    /\ \/ /\ action[Other(s)] = "like"
          /\ status' = "matched" /\ matchedAt' = TRUE
       \/ /\ action[Other(s)] # "like"
          /\ UNCHANGED <<status, matchedAt>>

Dislike(s) ==
    /\ Decide(s, "dislike")
    /\ status' = "rejected"
    /\ UNCHANGED matchedAt

Skip(s) ==
    /\ Decide(s, "skip")
    /\ UNCHANGED <<status, matchedAt>>

\* Undoing one half of a mutual like takes the match back, undoing a dislike
\* the rejection, undoing anything else nothing but the decision.
Undo(s) ==
    /\ action[s] # "none"
    /\ Decide(s, "none")
    /\ status' = IF BothLike \/ action[s] = "dislike" THEN "pending" ELSE status
    /\ matchedAt' = (matchedAt /\ ~BothLike)

\* The two maintenance statements: a like left unanswered lapses, a match that
\* grew old is offered again from scratch.
ExpireLike(s) ==
    /\ exists /\ action[s] = "like" /\ action[Other(s)] = "none"
    /\ action' = [action EXCEPT ![s] = "none"]
    /\ status' = "pending"
    /\ UNCHANGED <<exists, matchedAt, blocks>>

RecycleMatch ==
    /\ exists /\ status = "matched" /\ matchedAt
    /\ action' = [s \in Sides |-> "none"]
    /\ status' = "pending" /\ matchedAt' = FALSE
    /\ UNCHANGED <<exists, blocks>>

Block(s) ==
    /\ blocks' = blocks \cup {s}
    /\ UNCHANGED <<exists, status, action, matchedAt>>

Unblock(s) ==
    /\ blocks' = blocks \ {s}
    /\ UNCHANGED <<exists, status, action, matchedAt>>

Next ==
    \/ Create
    \/ \E s \in Sides :
        \/ Like(s) \/ Dislike(s) \/ Skip(s) \/ Undo(s)
        \/ ExpireLike(s)
        \/ Block(s) \/ Unblock(s)
    \/ RecycleMatch

Spec == Init /\ [][Next]_vars

=============================================================================
