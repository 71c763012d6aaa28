--------------------------- MODULE MatchRepository ---------------------------
(***************************************************************************)
(* MatchRepository and BlockRepository of the API, for the matches row of  *)
(* one pair of users (rows of different pairs share no column).  Every     *)
(* awaited D1 statement is one step, so concurrent requests interleave     *)
(* between a SELECT and the UPDATE decided from it.  The cleanup job's two *)
(* statements on matches are steps of the environment; the age tests in    *)
(* their WHERE clauses are left open (time may have passed).               *)
(***************************************************************************)
EXTENDS PairRow

CONSTANT Requests  \* the invocations that serve requests about this pair

VARIABLES
    pc,      \* pc[r]: the statement request r runs next
    todo,    \* todo[r]: the operation of r; once the row was read, the UPDATE it chose
    by,      \* by[r]: the caller's side, 0 for a user of another pair
    consent, \* history: the sides that have issued a like
    shut     \* history: shut[r]: some block stood at every moment since r began

row  == <<exists, status, action, matchedAt>>
vars == <<exists, status, action, matchedAt, blocks, pc, todo, by, consent, shut>>

Callers == {0} \cup Sides

\* isUser1 ? "user1_action" : "user2_action"
Column(u) == IF u = 1 THEN 1 ELSE 2

Ops     == {"create", "like", "dislike", "skip", "undo"}
Updates == {"like", "likeBack", "dislike", "skip",
            "undoNothing", "undoMatch", "undoDislike", "undoOther"}
Steps   == {"idle", "read", "check", "select", "insert", "write", "match"}

\* The UPDATE undo chooses from the row it reads, and the one any operation of
\* side s chooses; the bug variant looks at the caller's own like.
ChosenUndo(s) ==
    IF action[s] = "none" THEN "undoNothing"
    ELSE IF BothLike THEN "undoMatch"
    ELSE IF action[s] = "dislike" THEN "undoDislike"
    ELSE "undoOther"
ChosenByOwnLike(o, s) ==
    IF o = "undo" THEN ChosenUndo(s)
    ELSE IF o = "like" /\ action[s] = "like" THEN "likeBack"
    ELSE o
Chosen(o, s) ==
    IF o = "undo" THEN ChosenUndo(s)
    ELSE IF o = "like" /\ action[Other(s)] = "like" THEN "likeBack"
    ELSE o

-----------------------------------------------------------------------------
Init ==
    /\ exists = FALSE
    /\ status = "pending"
    /\ action = [s \in Sides |-> "none"]
    /\ matchedAt = FALSE
    /\ blocks = {}
    /\ pc = [r \in Requests |-> "idle"]
    /\ todo = [r \in Requests |-> "none"]
    /\ by = [r \in Requests |-> 0]
    /\ consent = {}
    /\ shut = [r \in Requests |-> FALSE]

At(r, step) == pc[r] = step

GoTo(r, step) ==
    /\ pc' = [pc EXCEPT ![r] = step]
    /\ UNCHANGED <<todo, by, shut>>

\* The handler returned or threw; its locals are gone.
Done(r) ==
    /\ pc' = [pc EXCEPT ![r] = "idle"]
    /\ todo' = [todo EXCEPT ![r] = "none"]
    /\ by' = [by EXCEPT ![r] = 0]
    /\ shut' = [shut EXCEPT ![r] = FALSE]

\* A request arrives. create sorts the pair and goes to the block check;
\* the others start with SELECT ... WHERE id = ?.
Begin(r, o, u) ==
    /\ At(r, "idle")
    /\ o = "create" => u \in Sides
    /\ pc' = [pc EXCEPT ![r] = IF o = "create" THEN "check" ELSE "read"]
    /\ todo' = [todo EXCEPT ![r] = o]
    /\ by' = [by EXCEPT ![r] = u]
    /\ shut' = [shut EXCEPT ![r] = blocks # {}]
    /\ UNCHANGED <<row, blocks, consent>>

\* Bug variant of ReadRow: nobody checks that the caller belongs to the pair.
ReadRowOfAnyone(r) ==
    /\ At(r, "read")
    /\ \/ /\ exists
          /\ pc' = [pc EXCEPT ![r] = "check"]
          /\ todo' = [todo EXCEPT ![r] = Chosen(todo[r], Column(by[r]))]
          /\ UNCHANGED <<by, shut>>
       \/ ~exists /\ Done(r)
    /\ UNCHANGED <<row, blocks, consent>>

\* NotFoundError without a row, ValidationError for a user outside the pair.
ReadRow(r) ==
    /\ At(r, "read")
    /\ \/ /\ exists /\ by[r] \in Sides
          /\ pc' = [pc EXCEPT ![r] = "check"]
          /\ todo' = [todo EXCEPT ![r] = Chosen(todo[r], by[r])]
          /\ UNCHANGED <<by, shut>>
       \/ /\ ~exists \/ by[r] \notin Sides
          /\ Done(r)
    /\ UNCHANGED <<row, blocks, consent>>

\* Bug variant of CheckBlock: only the caller's own block is looked up.
CheckOwnBlock(r) ==
    /\ At(r, "check")
    /\ \/ /\ by[r] \notin blocks /\ todo[r] = "create"
          /\ GoTo(r, "select")
       \/ /\ by[r] \notin blocks /\ todo[r] \in Updates \ {"undoNothing"}
          /\ GoTo(r, "write")
       \/ /\ by[r] \in blocks \/ todo[r] = "undoNothing"
          /\ Done(r)
    /\ UNCHANGED <<row, blocks, consent>>

\* isBlocked looks both ways; an undo with nothing to undo returns after it.
CheckBlock(r) ==
    /\ At(r, "check")
    /\ \/ /\ blocks = {} /\ todo[r] = "create"
          /\ GoTo(r, "select")
       \/ /\ blocks = {} /\ todo[r] \in Updates \ {"undoNothing"}
          /\ GoTo(r, "write")
       \/ /\ blocks # {} \/ todo[r] = "undoNothing"
          /\ Done(r)
    /\ UNCHANGED <<row, blocks, consent>>

CreateSelect(r) ==
    /\ At(r, "select")
    /\ \/ exists /\ Done(r)
       \/ ~exists /\ GoTo(r, "insert")
    /\ UNCHANGED <<row, blocks, consent>>

\* UNIQUE(user1_id, user2_id) turns the second of two racing INSERTs away.
CreateInsert(r) ==
    /\ At(r, "insert")
    /\ \/ /\ ~exists
          /\ exists' = TRUE
          /\ status' = "pending"
          /\ action' = [s \in Sides |-> "none"]
          /\ matchedAt' = FALSE
       \/ /\ exists
          /\ UNCHANGED row
    /\ Done(r)
    /\ UNCHANGED <<blocks, consent>>

\* UPDATE matches SET <own column> = d, status = st, matched_at = m WHERE id = ?
SetRow(r, d, st, m) ==
    /\ action' = [action EXCEPT ![Column(by[r])] = d]
    /\ status' = st
    /\ matchedAt' = m
    /\ UNCHANGED <<exists, blocks>>

\* The first UPDATE of like; the status is touched by the second one only,
\* and only when the row read before held the other user's like.
WriteLike(r) ==
    /\ At(r, "write") /\ todo[r] \in {"like", "likeBack"}
    /\ SetRow(r, "like", status, matchedAt)
    /\ consent' = consent \cup ({by[r]} \cap Sides)
    /\ \/ todo[r] = "like" /\ Done(r)
       \/ todo[r] = "likeBack" /\ GoTo(r, "match")

WriteMatched(r) ==
    /\ At(r, "match")
    /\ status' = "matched"
    /\ matchedAt' = TRUE
    /\ Done(r)
    /\ UNCHANGED <<exists, action, blocks, consent>>

WriteDislike(r) ==
    /\ At(r, "write") /\ todo[r] = "dislike"
    /\ SetRow(r, "dislike", "rejected", matchedAt)
    /\ Done(r)
    /\ UNCHANGED consent

WriteSkip(r) ==
    /\ At(r, "write") /\ todo[r] = "skip"
    /\ SetRow(r, "skip", status, matchedAt)
    /\ Done(r)
    /\ UNCHANGED consent

\* Bug variants of WriteUndo: matched_at cleared by every undo; the rejection
\* kept; two values of the SET clause swapped.
UndoAlwaysUnstamps(r) ==
    /\ At(r, "write")
    /\ \/ todo[r] \in {"undoMatch", "undoDislike"} /\ SetRow(r, "none", "pending", FALSE)
       \/ todo[r] = "undoOther" /\ SetRow(r, "none", status, FALSE)
    /\ Done(r)
    /\ UNCHANGED consent
UndoKeepsStatus(r) ==
    /\ At(r, "write")
    /\ \/ todo[r] = "undoMatch" /\ SetRow(r, "none", "pending", FALSE)
       \/ todo[r] \in {"undoDislike", "undoOther"} /\ SetRow(r, "none", status, matchedAt)
    /\ Done(r)
    /\ UNCHANGED consent
UndoSwapsColumns(r) ==
    /\ At(r, "write")
    /\ \/ todo[r] \in {"undoMatch", "undoDislike"} /\ SetRow(r, "pending", "none", FALSE)
       \/ todo[r] = "undoOther" /\ SetRow(r, "none", status, matchedAt)
    /\ Done(r)
    /\ UNCHANGED consent

WriteUndo(r) ==
    /\ At(r, "write")
    /\ \/ todo[r] = "undoMatch"   /\ SetRow(r, "none", "pending", FALSE)
       \/ todo[r] = "undoDislike" /\ SetRow(r, "none", "pending", matchedAt)
       \/ todo[r] = "undoOther"   /\ SetRow(r, "none", status, matchedAt)
    /\ Done(r)
    /\ UNCHANGED consent

\* A statement fails (DatabaseError) or the isolate is evicted: the statements
\* already run stay, the rest never happens.
Abort(r) ==
    /\ ~At(r, "idle")
    /\ Done(r)
    /\ UNCHANGED <<row, blocks, consent>>

-----------------------------------------------------------------------------
\* BlockRepository.block and unblock: one statement each, no match row touched.
Block(s) ==
    /\ blocks' = blocks \cup {s}
    /\ UNCHANGED <<row, pc, todo, by, consent, shut>>

Unblock(s) ==
    /\ blocks' = blocks \ {s}
    /\ shut' = [r \in Requests |-> shut[r] /\ blocks \ {s} # {}]
    /\ UNCHANGED <<row, pc, todo, by, consent>>

\* Cleanup, step 1: the status is overwritten whatever it was.
ExpireLike(s) ==
    /\ exists /\ action[s] = "like" /\ action[Other(s)] = "none"
    /\ action' = [action EXCEPT ![s] = "none"]
    /\ status' = "pending"
    /\ UNCHANGED <<exists, matchedAt, blocks, pc, todo, by, consent, shut>>

\* Cleanup, step 2: matched_at < cutoff is never true of NULL.
RecycleMatch ==
    /\ exists /\ status = "matched" /\ matchedAt
    /\ action' = [s \in Sides |-> "none"]
    /\ status' = "pending"
    /\ matchedAt' = FALSE
    /\ UNCHANGED <<exists, blocks, pc, todo, by, consent, shut>>

-----------------------------------------------------------------------------
Arrive(r) == \E o \in Ops, u \in Callers : Begin(r, o, u)

Serve(r) ==
    \/ ReadRow(r) \/ CheckBlock(r)
    \/ CreateSelect(r) \/ CreateInsert(r)
    \/ WriteLike(r) \/ WriteMatched(r)
    \/ WriteDislike(r) \/ WriteSkip(r) \/ WriteUndo(r)

Environment ==
    \/ \E s \in Sides : Block(s) \/ Unblock(s) \/ ExpireLike(s)
    \/ RecycleMatch

Next ==
    \/ \E r \in Requests : Arrive(r) \/ Serve(r) \/ Abort(r)
    \/ Environment

Spec == Init /\ [][Next]_vars

\* Overlapping requests in a healthy system: nothing fails, nobody blocks.
RaceSpec == Init /\ [][\E r \in Requests : Arrive(r) \/ Serve(r)]_vars

\* The same statements when nothing overlaps and no request is cut short.
Quiet == \A r \in Requests : At(r, "idle")

SerialNext ==
    \/ \E r \in Requests : Serve(r) \/ (Quiet /\ Arrive(r))
    \/ Quiet /\ Environment

SerialSpec == Init /\ [][SerialNext]_vars

-----------------------------------------------------------------------------
TypeOK ==
    /\ exists \in BOOLEAN
    /\ status \in Statuses
    /\ action \in [Sides -> Decisions]
    /\ matchedAt \in BOOLEAN
    /\ blocks \subseteq Sides
    /\ pc \in [Requests -> Steps]
    /\ todo \in [Requests -> Ops \cup Updates \cup {"none"}]
    /\ by \in [Requests -> Callers]
    /\ consent \subseteq Sides
    /\ shut \in [Requests -> BOOLEAN]

\* Whatever interleaves, a like on the row was issued by the user it is
\* attributed to and nobody is matched who has not liked: like reads the other
\* decision long before it writes status = 'matched' (match.ts, like).
MatchNeedsBothLikes ==
    /\ \A s \in Sides : action[s] = "like" => s \in consent
    /\ status = "matched" => consent = Sides

\* A matched row carries matched_at, so the cleanup job's recycling
\* (matched_at < cutoff, never true of NULL) can reach every match: undo clears
\* matched_at only together with the status.
MatchedIsStamped == status = "matched" => exists /\ matchedAt

\* The pre-check is not atomic with the write, but a block that stands for the
\* whole life of a request keeps it from writing: no request past its check has
\* been blocked from its first statement on.
BlockStopsRequest ==
    \A r \in Requests : shut[r] => pc[r] \in {"idle", "read", "check"}

\* Two standing likes make a match once no request is under way
\* (match-race.test.ts: "should be 'matched'").
MutualLikeIsMatched == Quiet /\ BothLike => status = "matched"

\* Served one at a time, the statements of a request add up to one step of the
\* contract; in the middle of a like back the row counts as matched already.
Contract == INSTANCE MatchContract WITH
    status <- IF \E r \in Requests : At(r, "match") THEN "matched" ELSE status,
    matchedAt <- matchedAt \/ \E r \in Requests : At(r, "match")

ImplementsContract == Contract!Spec

=============================================================================
