------------------------ MODULE MatchRepository_proofs ------------------------
(***************************************************************************)
(* Proofs about the matches row of one pair.  First MatchRepository for    *)
(* every set of requests: what holds for every interleaving of their       *)
(* statements, and that requests served one at a time implement            *)
(* MatchContract.  Then Candidates, over the same row: what the two users  *)
(* are shown of each other, for all limits and cooldowns.                  *)
(***************************************************************************)
EXTENDS MatchRepository, Candidates, TLAPS

-----------------------------------------------------------------------------
(* The invariant of the interleaved specification. *)

\* What a request that has passed its read knows for good: it is a member of
\* the pair, the row exists, and a like back was decided from a real like.
RequestFacts ==
    \A r \in Requests :
        /\ pc[r] \in {"check", "select", "insert", "write", "match"} => by[r] \in Sides
        /\ pc[r] = "read" => todo[r] \in Ops \ {"create"}
        /\ pc[r] = "check" => todo[r] \in Updates \cup {"create"}
        /\ pc[r] = "check" /\ todo[r] # "create" => exists
        /\ pc[r] = "write" => todo[r] \in Updates /\ exists
        /\ pc[r] \in {"check", "write"} /\ todo[r] = "likeBack"
               => Other(by[r]) \in consent
        /\ pc[r] = "match" => exists /\ consent = Sides

\* The history shut speaks of blocks that are still there.
ShutFacts == \A r \in Requests : shut[r] => blocks # {}

IInv ==
    /\ TypeOK
    /\ MatchNeedsBothLikes
    /\ MatchedIsStamped
    /\ BlockStopsRequest
    /\ RequestFacts
    /\ ShutFacts

\* The pair has exactly two sides.
LEMMA OtherSide ==
    ASSUME NEW s \in Sides
    PROVE  Other(s) \in Sides /\ Other(s) # s /\ Other(Other(s)) = s
           /\ Sides = {s, Other(s)}
BY DEF Sides, Other

\* A caller of the pair writes their own side's column.
LEMMA ColumnOfSide ==
    ASSUME NEW u \in Callers
    PROVE  Column(u) \in Sides /\ (u \in Sides => Column(u) = u)
BY DEF Column, Callers, Sides

\* The choice made from the row is an operation or an UPDATE; a like back is
\* chosen only on the other user's like.
LEMMA ChosenFacts ==
    ASSUME NEW o \in Ops \ {"create"}, NEW s \in Sides, action \in [Sides -> Decisions]
    PROVE  /\ Chosen(o, s) \in Updates
           /\ Chosen(o, s) = "likeBack" => action[Other(s)] = "like"
BY DEF Chosen, ChosenUndo, Updates, Ops

\* The invariant holds before the first request.
LEMMA InitIInv == Init => IInv
BY DEF Init, IInv, TypeOK, MatchNeedsBothLikes, MatchedIsStamped, BlockStopsRequest,
       RequestFacts, ShutFacts, Statuses, Decisions, Steps, Callers, Sides

\* A request that returns or moves on without writing keeps the invariant.
LEMMA DoneIInv ==
    ASSUME IInv, NEW r \in Requests, Done(r),
           UNCHANGED <<row, blocks, consent>>
    PROVE  IInv'
BY DEF IInv, Done, row, TypeOK, MatchNeedsBothLikes, MatchedIsStamped,
       BlockStopsRequest, RequestFacts, ShutFacts, Steps, Callers

\* A request that arrives has written nothing yet.
LEMMA ArriveIInv ==
    ASSUME IInv, NEW r \in Requests, Arrive(r)
    PROVE  IInv'
<1>1. PICK o \in Ops, u \in Callers : Begin(r, o, u)
  BY DEF Arrive
<1>2. TypeOK'
  BY <1>1 DEF IInv, TypeOK, Begin, row, Steps
<1>3. RequestFacts'
  BY <1>1 DEF IInv, TypeOK, RequestFacts, Begin, row
<1>4. (MatchNeedsBothLikes /\ MatchedIsStamped /\ BlockStopsRequest /\ ShutFacts)'
  BY <1>1 DEF IInv, TypeOK, MatchNeedsBothLikes, MatchedIsStamped, BlockStopsRequest,
              ShutFacts, Begin, row
<1>5. QED
  BY <1>2, <1>3, <1>4 DEF IInv

\* The decision taken from the row names an UPDATE the caller may run.
LEMMA ReadRowIInv ==
    ASSUME IInv, NEW r \in Requests, ReadRow(r)
    PROVE  IInv'
<1>1. CASE ~(exists /\ by[r] \in Sides)
  BY <1>1, DoneIInv DEF ReadRow
<1>2. CASE exists /\ by[r] \in Sides
  <2>1. todo[r] \in Ops \ {"create"} /\ by[r] \in Sides /\ action \in [Sides -> Decisions]
    BY <1>2 DEF IInv, TypeOK, RequestFacts, ReadRow, At
  <2>2. /\ pc' = [pc EXCEPT ![r] = "check"]
        /\ todo' = [todo EXCEPT ![r] = Chosen(todo[r], by[r])]
        /\ UNCHANGED <<row, blocks, consent, by, shut>>
        /\ pc[r] = "read"
    BY <1>2 DEF ReadRow, At
  <2>3. /\ Chosen(todo[r], by[r]) \in Updates
        /\ Chosen(todo[r], by[r]) = "likeBack" => action[Other(by[r])] = "like"
    BY <2>1, ChosenFacts
  <2>4. Chosen(todo[r], by[r]) = "likeBack" => Other(by[r]) \in consent
    BY <2>1, <2>3, OtherSide DEF IInv, MatchNeedsBothLikes
  <2>5. TypeOK'
    BY <2>2, <2>3 DEF IInv, TypeOK, row, Steps, Ops
  <2>6. RequestFacts'
    BY <1>2, <2>2, <2>3, <2>4 DEF IInv, TypeOK, RequestFacts, row
  <2>7. (MatchNeedsBothLikes /\ MatchedIsStamped /\ BlockStopsRequest /\ ShutFacts)'
    BY <2>2 DEF IInv, TypeOK, MatchNeedsBothLikes, MatchedIsStamped,
                BlockStopsRequest, ShutFacts, row
  <2>8. QED
    BY <2>5, <2>6, <2>7 DEF IInv
<1>3. QED
  BY <1>1, <1>2

\* The only step that leaves the check does so without a block in force, and
\* without one the history of r says so.
LEMMA CheckBlockIInv ==
    ASSUME IInv, NEW r \in Requests, CheckBlock(r)
    PROVE  IInv'
<1>1. CASE blocks # {} \/ todo[r] = "undoNothing"
  BY <1>1, DoneIInv DEF CheckBlock, Updates
<1>2. CASE blocks = {} /\ todo[r] # "undoNothing"
  <2>1. PICK step \in {"select", "write"} :
            /\ GoTo(r, step)
            /\ step = "write" => todo[r] \in Updates
            /\ step = "select" => todo[r] = "create"
    BY <1>2 DEF CheckBlock
  <2>2. pc[r] = "check" /\ UNCHANGED <<row, blocks, consent>>
    BY DEF CheckBlock, At
  <2>3. TypeOK'
    BY <2>1, <2>2 DEF IInv, TypeOK, GoTo, row, Steps
  <2>4. RequestFacts'
    BY <2>1, <2>2 DEF IInv, TypeOK, RequestFacts, GoTo, row, Updates
  <2>5. (MatchNeedsBothLikes /\ MatchedIsStamped /\ BlockStopsRequest /\ ShutFacts)'
    BY <1>2, <2>1, <2>2 DEF IInv, TypeOK, MatchNeedsBothLikes, MatchedIsStamped,
                            BlockStopsRequest, ShutFacts, GoTo, row
  <2>6. QED
    BY <2>3, <2>4, <2>5 DEF IInv
<1>3. QED
  BY <1>1, <1>2

\* create inserts an undecided row or none.
LEMMA CreateIInv ==
    ASSUME IInv, NEW r \in Requests, CreateSelect(r) \/ CreateInsert(r)
    PROVE  IInv'
<1>1. CASE CreateSelect(r) /\ ~exists
  BY <1>1 DEF CreateSelect, GoTo, At, IInv, row, TypeOK, MatchNeedsBothLikes,
       MatchedIsStamped, BlockStopsRequest, RequestFacts, ShutFacts, Steps
<1>2. CASE exists
  BY <1>2, DoneIInv DEF CreateSelect, CreateInsert
<1>3. CASE CreateInsert(r) /\ ~exists
  <2>1. /\ exists' = TRUE /\ status' = "pending" /\ matchedAt' = FALSE
        /\ action' = [s \in Sides |-> "none"]
        /\ Done(r) /\ UNCHANGED <<blocks, consent>>
    BY <1>3 DEF CreateInsert
  <2>2. TypeOK'
    BY <2>1 DEF IInv, TypeOK, Done, Steps, Callers, Statuses, Decisions
  <2>3. RequestFacts'
    BY <2>1 DEF IInv, TypeOK, RequestFacts, Done
  <2>4. (MatchNeedsBothLikes /\ MatchedIsStamped /\ BlockStopsRequest /\ ShutFacts)'
    BY <2>1 DEF IInv, TypeOK, MatchNeedsBothLikes, MatchedIsStamped,
                BlockStopsRequest, ShutFacts, Done
  <2>5. QED
    BY <2>2, <2>3, <2>4 DEF IInv
<1>4. QED
  BY <1>1, <1>2, <1>3

\* What is common to the UPDATEs of a request: nothing about the other requests
\* changes, the caller's decision is replaced, likes are never invented.
LEMMA WriteIInv ==
    ASSUME IInv, NEW r \in Requests, NEW d \in Decisions, NEW st \in Statuses,
           NEW m \in BOOLEAN, NEW next \in {"idle", "match"},
           pc[r] = "write",
           SetRow(r, d, st, m),
           consent \subseteq consent', consent' \subseteq Sides,
           d = "like" => by[r] \in consent',
           st = "matched" => consent' = Sides /\ m,
           next = "match" => consent' = Sides /\ GoTo(r, "match"),
           next = "idle" => Done(r)
    PROVE  IInv'
<1>1. by[r] \in Sides /\ Column(by[r]) = by[r] /\ exists /\ ~shut[r]
  BY ColumnOfSide DEF IInv, TypeOK, RequestFacts, BlockStopsRequest
<1>2. TypeOK'
  BY <1>1 DEF IInv, TypeOK, SetRow, GoTo, Done, Steps, Callers
<1>3. RequestFacts'
  BY <1>1 DEF IInv, TypeOK, RequestFacts, SetRow, GoTo, Done
<1>4. MatchNeedsBothLikes'
  BY <1>1 DEF IInv, TypeOK, MatchNeedsBothLikes, SetRow
<1>5. (MatchedIsStamped /\ BlockStopsRequest /\ ShutFacts)'
  BY <1>1 DEF IInv, TypeOK, MatchedIsStamped, BlockStopsRequest, ShutFacts, SetRow,
              GoTo, Done
<1>6. QED
  BY <1>2, <1>3, <1>4, <1>5 DEF IInv

\* The first UPDATE of like adds a like its caller has issued.
LEMMA WriteLikeIInv ==
    ASSUME IInv, NEW r \in Requests, WriteLike(r)
    PROVE  IInv'
<1>1. /\ pc[r] = "write" /\ exists /\ by[r] \in Sides /\ todo[r] \in {"like", "likeBack"}
      /\ status \in Statuses /\ matchedAt \in BOOLEAN /\ consent \subseteq Sides
  BY DEF WriteLike, At, IInv, TypeOK, RequestFacts
<1>2. /\ SetRow(r, "like", status, matchedAt)
      /\ consent' = consent \cup {by[r]}
  BY <1>1 DEF WriteLike
<1>3. status = "matched" => consent' = Sides /\ matchedAt
  BY <1>1, <1>2 DEF IInv, MatchNeedsBothLikes, MatchedIsStamped
<1>4. todo[r] = "likeBack" => consent' = Sides
  BY <1>1, <1>2, OtherSide DEF IInv, RequestFacts
<1>5. CASE todo[r] = "like"
  <2>1. Done(r)
    BY <1>5 DEF WriteLike
  <2>2. QED
    BY <1>1, <1>2, <1>3, <2>1, WriteIInv DEF Decisions
<1>6. CASE todo[r] = "likeBack"
  <2>1. GoTo(r, "match")
    BY <1>6 DEF WriteLike
  <2>2. QED
    BY <1>1, <1>2, <1>3, <1>4, <1>6, <2>1, WriteIInv DEF Decisions
<1>7. QED
  BY <1>1, <1>5, <1>6

\* The second UPDATE of like runs only after both sides have liked.
LEMMA WriteMatchedIInv ==
    ASSUME IInv, NEW r \in Requests, WriteMatched(r)
    PROVE  IInv'
<1>1. pc[r] = "match" /\ exists /\ consent = Sides
  BY DEF WriteMatched, At, IInv, RequestFacts
<1>2. TypeOK'
  BY DEF WriteMatched, IInv, TypeOK, Done, Statuses, Steps, Callers
<1>3. RequestFacts'
  BY <1>1 DEF WriteMatched, IInv, TypeOK, RequestFacts, Done
<1>4. (MatchNeedsBothLikes /\ MatchedIsStamped /\ BlockStopsRequest /\ ShutFacts)'
  BY <1>1 DEF WriteMatched, IInv, TypeOK, MatchNeedsBothLikes, MatchedIsStamped,
              BlockStopsRequest, ShutFacts, Done
<1>5. QED
  BY <1>2, <1>3, <1>4 DEF IInv

\* dislike, skip and undo add no like and no match.
LEMMA OtherWritesIInv ==
    ASSUME IInv, NEW r \in Requests,
           WriteDislike(r) \/ WriteSkip(r) \/ WriteUndo(r)
    PROVE  IInv'
<1>1. PICK d \in {"dislike", "skip", "none"}, st \in Statuses, m \in BOOLEAN :
          /\ SetRow(r, d, st, m)
          /\ st = "matched" => status = "matched" /\ m = matchedAt
  BY DEF WriteDislike, WriteSkip, WriteUndo, IInv, TypeOK, Statuses
<1>2. pc[r] = "write" /\ Done(r) /\ consent' = consent /\ consent \subseteq Sides
  BY DEF WriteDislike, WriteSkip, WriteUndo, At, IInv, TypeOK
<1>3. st = "matched" => consent' = Sides /\ m
  BY <1>1, <1>2 DEF IInv, MatchNeedsBothLikes, MatchedIsStamped
<1>4. QED
  BY <1>1, <1>2, <1>3, WriteIInv DEF Decisions

\* Blocking and unblocking keep the record of standing blocks.
LEMMA BlockIInv ==
    ASSUME IInv, NEW s \in Sides, Block(s) \/ Unblock(s)
    PROVE  IInv'
<1>1. /\ UNCHANGED <<row, pc, todo, by, consent>>
      /\ blocks' \subseteq Sides /\ shut' \in [Requests -> BOOLEAN]
      /\ \A r \in Requests : shut'[r] => shut[r] /\ blocks' # {}
  BY DEF Block, Unblock, IInv, TypeOK, ShutFacts
<1>2. TypeOK'
  BY <1>1 DEF IInv, TypeOK, row
<1>3. RequestFacts'
  BY <1>1 DEF IInv, RequestFacts, row
<1>4. (MatchNeedsBothLikes /\ MatchedIsStamped /\ BlockStopsRequest /\ ShutFacts)'
  BY <1>1 DEF IInv, MatchNeedsBothLikes, MatchedIsStamped, BlockStopsRequest, ShutFacts, row
<1>5. QED
  BY <1>2, <1>3, <1>4 DEF IInv

\* The two maintenance statements only take likes and matches away.
LEMMA CleanupIInv ==
    ASSUME IInv, RecycleMatch \/ \E s \in Sides : ExpireLike(s)
    PROVE  IInv'
<1> DEFINE Effect ==
        /\ status' = "pending" /\ matchedAt' \in BOOLEAN /\ action' \in [Sides -> Decisions]
        /\ \A s \in Sides : action'[s] = "like" => action[s] = "like"
        /\ UNCHANGED <<exists, blocks, pc, todo, by, consent, shut>>
<1>1. Effect
  <2>1. CASE RecycleMatch
    BY <2>1 DEF RecycleMatch, Decisions, IInv, TypeOK
  <2>2. ASSUME NEW s \in Sides, ExpireLike(s) PROVE Effect
    BY <2>2 DEF ExpireLike, Decisions, IInv, TypeOK
  <2>3. QED
    BY <2>1, <2>2
<1>2. TypeOK'
  BY <1>1 DEF IInv, TypeOK, Statuses
<1>3. (RequestFacts /\ BlockStopsRequest /\ ShutFacts)'
  BY <1>1 DEF IInv, RequestFacts, BlockStopsRequest, ShutFacts
<1>4. (MatchNeedsBothLikes /\ MatchedIsStamped)'
  BY <1>1 DEF IInv, MatchNeedsBothLikes, MatchedIsStamped
<1>5. QED
  BY <1>2, <1>3, <1>4 DEF IInv

\* Every step keeps the inductive invariant.
LEMMA NextIInv == IInv /\ [Next]_vars => IInv'
<1> SUFFICES ASSUME IInv, [Next]_vars PROVE IInv'
  OBVIOUS
<1>1. ASSUME NEW r \in Requests, Arrive(r) PROVE IInv'
  BY <1>1, ArriveIInv
<1>2. ASSUME NEW r \in Requests, Serve(r) PROVE IInv'
  BY <1>2, ReadRowIInv, CheckBlockIInv, CreateIInv, WriteLikeIInv, WriteMatchedIInv,
     OtherWritesIInv DEF Serve
<1>3. ASSUME NEW r \in Requests, Abort(r) PROVE IInv'
  BY <1>3, DoneIInv DEF Abort
<1>4. CASE Environment
  BY <1>4, BlockIInv, CleanupIInv DEF Environment
<1>5. CASE UNCHANGED vars
  BY <1>5 DEF vars, IInv, TypeOK, MatchNeedsBothLikes, MatchedIsStamped,
              BlockStopsRequest, RequestFacts, ShutFacts
<1>6. QED
  BY <1>1, <1>2, <1>3, <1>4, <1>5 DEF Next

\* The inductive invariant holds of every reachable state.
LEMMA SpecIInv == Spec => []IInv
BY InitIInv, NextIInv, PTL DEF Spec

\* Type correctness of the interleaved statements of match.ts and block.ts.
THEOREM TypeCorrect == Spec => []TypeOK
<1>1. IInv => TypeOK
  BY DEF IInv
<1>2. QED
  BY <1>1, SpecIInv, PTL

\* However many requests overlap, fail half-way or race with the cleanup job
\* and with blocks, nobody is matched who has not liked (match.ts, like).
THEOREM MatchNeedsConsent == Spec => []MatchNeedsBothLikes
<1>1. IInv => MatchNeedsBothLikes
  BY DEF IInv
<1>2. QED
  BY <1>1, SpecIInv, PTL

\* Every match can be recycled: its matched_at is there (match.ts, undo;
\* cleanup.ts, step 2).
THEOREM MatchesCarryTimestamp == Spec => []MatchedIsStamped
<1>1. IInv => MatchedIsStamped
  BY DEF IInv
<1>2. QED
  BY <1>1, SpecIInv, PTL

\* The pre-check of a block, though not atomic with the write, stops every
\* request that begins and ends under a block (block.ts, isBlocked).
THEOREM BlocksAreRespected == Spec => []BlockStopsRequest
<1>1. IInv => BlockStopsRequest
  BY DEF IInv
<1>2. QED
  BY <1>1, SpecIInv, PTL

-----------------------------------------------------------------------------
(* Requests served one at a time: SerialSpec implements MatchContract, and   *)
(* two standing likes are a match.                                           *)

\* At most one request is under way, and until it writes the row still is what
\* it read: the UPDATE it chose is the right one for the decisions there.
Current(r) ==
    /\ todo[r] = "like" => action[Other(by[r])] # "like"
    /\ todo[r] = "likeBack" => action[Other(by[r])] = "like"
    /\ todo[r] = "undoMatch" => BothLike
    /\ todo[r] = "undoDislike" => action[by[r]] = "dislike" /\ ~BothLike
    /\ todo[r] = "undoOther" => /\ action[by[r]] \notin {"none", "dislike"}
                               /\ ~BothLike
    /\ todo[r] \in {"like", "likeBack", "dislike", "skip", "create",
                   "undoNothing", "undoMatch", "undoDislike", "undoOther"}

SerialInv ==
    /\ IInv
    /\ \A r, q \in Requests : pc[r] # "idle" /\ pc[q] # "idle" => r = q
    /\ \A r \in Requests :
        /\ pc[r] \in {"check", "write"} => Current(r)
        /\ pc[r] \in {"select", "insert", "write"} => blocks = {}
        /\ pc[r] = "insert" => ~exists
        /\ pc[r] = "match" => BothLike
    /\ ~exists => /\ status = "pending" /\ ~matchedAt
                  /\ action = [s \in Sides |-> "none"]
    /\ BothLike => status = "matched" \/ \E r \in Requests : pc[r] = "match"

\* A serial step is a step of the interleaved system.
LEMMA SerialIsNext == SerialNext => Next
BY DEF SerialNext, Next

\* The serial invariant holds before the first request.
LEMMA InitSerial == Init => SerialInv
<1>1. Init => ~BothLike
  BY DEF Init, BothLike, Sides
<1>2. QED
  BY <1>1, InitIInv DEF Init, SerialInv

\* A request that arrives alone is the only one under way.
LEMMA ArriveSerial ==
    ASSUME SerialInv, NEW r \in Requests, Quiet, Arrive(r)
    PROVE  SerialInv'
<1>1. IInv'
  BY ArriveIInv DEF SerialInv
<1>2. PICK o \in Ops, u \in Callers : Begin(r, o, u)
  BY DEF Arrive
<1>3. \A q \in Requests : q # r => pc'[q] = "idle"
  BY <1>2 DEF Begin, Quiet, At, IInv, TypeOK, SerialInv
<1>4. pc'[r] \in {"read", "check"} /\ (pc'[r] = "check" => todo'[r] = "create")
  BY <1>2 DEF Begin, IInv, TypeOK, SerialInv
<1>5. UNCHANGED <<exists, status, action, matchedAt, blocks>>
  BY <1>2 DEF Begin, row
<1>6. ~\E q \in Requests : pc[q] = "match"
  BY DEF Quiet, At
<1>7. QED
  BY <1>1, <1>3, <1>4, <1>5, <1>6 DEF SerialInv, Current, BothLike

\* The request being served is the only one, before and after its step.
LEMMA ServedAlone ==
    ASSUME SerialInv, NEW r \in Requests, pc[r] # "idle", NEW x \in Steps,
           pc' = [pc EXCEPT ![r] = x]
    PROVE  /\ \A q \in Requests : q # r => pc[q] = "idle" /\ pc'[q] = "idle"
           /\ pc'[r] = x
           /\ (\E q \in Requests : At(q, "match")) <=> pc[r] = "match"
           /\ (\E q \in Requests : At(q, "match"))' <=> x = "match"
           /\ \A q1, q2 \in Requests : pc'[q1] # "idle" /\ pc'[q2] # "idle" => q1 = q2
BY DEF SerialInv, IInv, TypeOK, At

\* A step that writes nothing stutters in the contract.
LEMMA NoWriteStutters ==
    ASSUME SerialInv, NEW r \in Requests, pc[r] \notin {"idle", "match"},
           NEW x \in Steps \ {"match"}, pc' = [pc EXCEPT ![r] = x],
           UNCHANGED <<row, blocks, consent>>
    PROVE  UNCHANGED Contract!vars
BY ServedAlone DEF Contract!vars, Contract!pairRow, row

\* The UPDATE chosen from the row fits the row as it is.
LEMMA ChosenIsCurrent ==
    ASSUME NEW o \in Ops \ {"create"}, NEW s \in Sides, action \in [Sides -> Decisions],
           NEW c, c = Chosen(o, s)
    PROVE  /\ c = "like" => action[Other(s)] # "like"
           /\ c = "likeBack" => action[Other(s)] = "like"
           /\ c = "undoMatch" => BothLike
           /\ c = "undoDislike" => action[s] = "dislike" /\ ~BothLike
           /\ c = "undoOther" => action[s] \notin {"none", "dislike"} /\ ~BothLike
           /\ c \in Updates
BY DEF Chosen, ChosenUndo, Updates, Ops

\* Reading the row chooses an UPDATE that fits it.
LEMMA ReadRowSerial ==
    ASSUME SerialInv, NEW r \in Requests, ReadRow(r)
    PROVE  SerialInv' /\ UNCHANGED Contract!vars
<1>1. IInv'
  BY ReadRowIInv DEF SerialInv
<1>2. PICK x \in {"idle", "check"} : pc' = [pc EXCEPT ![r] = x]
  BY DEF ReadRow, Done
<1>3. pc[r] = "read" /\ UNCHANGED <<row, blocks, consent>>
  BY DEF ReadRow, At
<1>4. /\ \A q \in Requests : q # r => pc[q] = "idle" /\ pc'[q] = "idle"
      /\ pc'[r] = x
      /\ \A q1, q2 \in Requests : pc'[q1] # "idle" /\ pc'[q2] # "idle" => q1 = q2
      /\ ~\E q \in Requests : pc[q] = "match"
  BY <1>2, <1>3, ServedAlone DEF Steps, At
<1>5. x = "check" => Current(r)'
  <2> SUFFICES ASSUME x = "check" PROVE Current(r)'
    OBVIOUS
  <2>1. by[r] \in Sides /\ todo' = [todo EXCEPT ![r] = Chosen(todo[r], by[r])] /\ by' = by
    BY <1>2, <1>3, <1>4 DEF ReadRow, Done, SerialInv, IInv, TypeOK
  <2>2. /\ todo[r] \in Ops \ {"create"} /\ action \in [Sides -> Decisions]
        /\ todo'[r] = Chosen(todo[r], by[r])
    BY <1>3, <2>1 DEF SerialInv, IInv, TypeOK, RequestFacts
  <2>3. QED
    BY <1>3, <2>1, <2>2, ChosenIsCurrent DEF Current, row, BothLike, Updates
<1>6. UNCHANGED Contract!vars
  BY <1>2, <1>3, NoWriteStutters DEF Steps
<1>7. QED
  BY <1>1, <1>3, <1>4, <1>5, <1>6 DEF SerialInv, row, BothLike

\* Past the check of the blocks nobody blocks.
LEMMA CheckBlockSerial ==
    ASSUME SerialInv, NEW r \in Requests, CheckBlock(r)
    PROVE  SerialInv' /\ UNCHANGED Contract!vars
<1>1. IInv'
  BY CheckBlockIInv DEF SerialInv
<1>2. PICK x \in {"idle", "select", "write"} :
          /\ pc' = [pc EXCEPT ![r] = x]
          /\ x # "idle" => blocks = {} /\ UNCHANGED <<todo, by>>
  BY DEF CheckBlock, Done, GoTo
<1>3. pc[r] = "check" /\ UNCHANGED <<row, blocks, consent>>
  BY DEF CheckBlock, At
<1>4. /\ \A q \in Requests : q # r => pc[q] = "idle" /\ pc'[q] = "idle"
      /\ pc'[r] = x
      /\ \A q1, q2 \in Requests : pc'[q1] # "idle" /\ pc'[q2] # "idle" => q1 = q2
      /\ ~\E q \in Requests : pc[q] = "match"
  BY <1>2, <1>3, ServedAlone DEF Steps, At
<1>5. x # "idle" => Current(r)'
  BY <1>2, <1>3 DEF SerialInv, Current, row, BothLike
<1>6. UNCHANGED Contract!vars
  BY <1>2, <1>3, NoWriteStutters DEF Steps
<1>7. QED
  BY <1>1, <1>2, <1>3, <1>4, <1>5, <1>6 DEF SerialInv, row, BothLike

\* create leaves an undecided row.
LEMMA CreateSerial ==
    ASSUME SerialInv, NEW r \in Requests, CreateSelect(r) \/ CreateInsert(r)
    PROVE  SerialInv' /\ [Contract!Next]_(Contract!vars)
<1>1. IInv'
  BY CreateIInv DEF SerialInv
<1>2. CASE CreateSelect(r)
  <2>1. PICK x \in {"idle", "insert"} :
            /\ pc' = [pc EXCEPT ![r] = x]
            /\ x = "insert" => ~exists
    BY <1>2 DEF CreateSelect, Done, GoTo
  <2>2. pc[r] = "select" /\ blocks = {} /\ UNCHANGED <<row, blocks, consent>>
    BY <1>2 DEF CreateSelect, At, SerialInv
  <2>3. /\ \A q \in Requests : q # r => pc[q] = "idle" /\ pc'[q] = "idle"
        /\ pc'[r] = x
        /\ \A q1, q2 \in Requests : pc'[q1] # "idle" /\ pc'[q2] # "idle" => q1 = q2
        /\ ~\E q \in Requests : pc[q] = "match"
    BY <2>1, <2>2, ServedAlone DEF Steps, At
  <2>4. UNCHANGED Contract!vars
    BY <2>1, <2>2, NoWriteStutters DEF Steps
  <2>5. QED
    BY <1>1, <2>1, <2>2, <2>3, <2>4 DEF SerialInv, row, BothLike
<1>3. CASE CreateInsert(r)
  <2>1. /\ pc[r] = "insert" /\ pc' = [pc EXCEPT ![r] = "idle"]
        /\ ~exists /\ blocks = {} /\ UNCHANGED <<blocks, consent>>
        /\ exists' = TRUE /\ status' = "pending" /\ matchedAt' = FALSE
        /\ action' = [s \in Sides |-> "none"]
    BY <1>3 DEF CreateInsert, Done, At, SerialInv
  <2>2. /\ \A q \in Requests : pc'[q] = "idle"
        /\ ~\E q \in Requests : At(q, "match")
        /\ ~(\E q \in Requests : At(q, "match"))'
    BY <2>1, ServedAlone DEF Steps
  <2>3. UNCHANGED <<status, action, matchedAt>> /\ ~BothLike'
    BY <2>1 DEF SerialInv, BothLike, IInv, TypeOK, Sides
  <2>4. Contract!Create
    BY <2>1, <2>2, <2>3 DEF Contract!Create
  <2>5. SerialInv'
    BY <1>1, <2>1, <2>2, <2>3 DEF SerialInv
  <2>6. QED
    BY <2>4, <2>5 DEF Contract!Next
<1>4. QED
  BY <1>2, <1>3

\* An UPDATE of the request being served decides for its caller's side, as the
\* contract's Decide does.
LEMMA WriteDecides ==
    ASSUME SerialInv, NEW r \in Requests, pc[r] = "write",
           NEW d \in Decisions, NEW st, NEW m, SetRow(r, d, st, m)
    PROVE  /\ by[r] \in Sides /\ exists /\ blocks = {} /\ Current(r)
           /\ action \in [Sides -> Decisions]
           /\ action' = [action EXCEPT ![by[r]] = d]
           /\ status' = st /\ matchedAt' = m /\ UNCHANGED <<exists, blocks>>
           /\ exists' /\ Contract!Decide(by[r], d)
<1>1. by[r] \in Sides /\ exists /\ action \in [Sides -> Decisions]
  BY DEF SerialInv, IInv, TypeOK, RequestFacts
<1>2. blocks = {} /\ Current(r)
  BY DEF SerialInv
<1>3. /\ action' = [action EXCEPT ![by[r]] = d]
      /\ status' = st /\ matchedAt' = m /\ UNCHANGED <<exists, blocks>>
  BY <1>1, ColumnOfSide DEF SetRow, Callers
<1>4. Contract!Decide(by[r], d)
  BY <1>1, <1>2, <1>3 DEF Contract!Decide, Contract!MayDecide
<1>5. QED
  BY <1>1, <1>2, <1>3, <1>4

\* It is the last one, or the first half of a like back.
LEMMA WritesAlone ==
    ASSUME SerialInv, NEW r \in Requests, pc[r] = "write"
    PROVE  /\ ~\E q \in Requests : At(q, "match")
           /\ pc' = [pc EXCEPT ![r] = "idle"] =>
                /\ ~(\E q \in Requests : At(q, "match"))'
                /\ \A q \in Requests : pc'[q] = "idle"
           /\ pc' = [pc EXCEPT ![r] = "match"] =>
                /\ (\E q \in Requests : At(q, "match"))'
                /\ \A q \in Requests : q # r => pc'[q] = "idle"
                /\ pc'[r] = "match"
BY DEF SerialInv, IInv, TypeOK, At, Steps

\* Writes other than the first half of a like back leave nobody at work.
LEMMA QuietAfterWrite ==
    ASSUME SerialInv, IInv', NEW r \in Requests, pc[r] = "write",
           NEW d \in Decisions, NEW st, NEW m, SetRow(r, d, st, m),
           pc' = [pc EXCEPT ![r] = "idle"], ~BothLike'
    PROVE  SerialInv'
<1>1. \A q \in Requests : pc'[q] = "idle"
  BY WritesAlone
<1>2. exists'
  BY WriteDecides
<1>3. QED
  BY <1>1, <1>2 DEF SerialInv

\* The first UPDATE of like leaves a like back to be completed, or none.
LEMMA WriteLikeSerial ==
    ASSUME SerialInv, NEW r \in Requests, WriteLike(r)
    PROVE  SerialInv' /\ \E s \in Sides : Contract!Like(s)
<1>1. IInv'
  BY WriteLikeIInv DEF SerialInv
<1>2. pc[r] = "write" /\ SetRow(r, "like", status, matchedAt)
  BY DEF WriteLike, At
<1>3. CASE todo[r] = "like"
  <2>1. pc' = [pc EXCEPT ![r] = "idle"]
    BY <1>3 DEF WriteLike, Done
  <2>2. /\ by[r] \in Sides /\ Current(r) /\ action \in [Sides -> Decisions]
        /\ action' = [action EXCEPT ![by[r]] = "like"]
        /\ UNCHANGED <<status, matchedAt>>
        /\ Contract!Decide(by[r], "like")
        /\ ~\E q \in Requests : At(q, "match")
        /\ ~(\E q \in Requests : At(q, "match"))'
    BY <1>2, <2>1, WriteDecides, WritesAlone DEF Decisions
  <2>3. action[Other(by[r])] # "like" /\ Other(by[r]) \in Sides /\ Other(by[r]) # by[r]
    BY <1>3, <2>2, OtherSide DEF Current
  <2>4. Contract!Like(by[r])
    BY <2>2, <2>3 DEF Contract!Like, Contract!Other, Other
  <2>5. ~BothLike'
    BY <2>2, <2>3 DEF BothLike
  <2>6. QED
    BY <1>1, <1>2, <2>1, <2>2, <2>4, <2>5, QuietAfterWrite DEF Decisions
<1>4. CASE todo[r] = "likeBack"
  <2>1. pc' = [pc EXCEPT ![r] = "match"]
    BY <1>4 DEF WriteLike, GoTo
  <2>2. /\ by[r] \in Sides /\ Current(r) /\ action \in [Sides -> Decisions]
        /\ action' = [action EXCEPT ![by[r]] = "like"]
        /\ exists /\ UNCHANGED <<exists, status, matchedAt>>
        /\ Contract!Decide(by[r], "like")
        /\ ~\E q \in Requests : At(q, "match")
        /\ (\E q \in Requests : At(q, "match"))'
        /\ \A q \in Requests : q # r => pc'[q] = "idle"
        /\ pc'[r] = "match"
    BY <1>2, <2>1, WriteDecides, WritesAlone DEF Decisions
  <2>3. action[Other(by[r])] = "like" /\ Sides = {by[r], Other(by[r])}
        /\ Other(by[r]) # by[r]
    BY <1>4, <2>2, OtherSide DEF Current
  <2>4. Contract!Like(by[r])
    BY <2>2, <2>3 DEF Contract!Like, Contract!Other, Other
  <2>5. BothLike'
    BY <2>2, <2>3 DEF BothLike
  <2>6. SerialInv'
    BY <1>1, <2>2, <2>5 DEF SerialInv
  <2>7. QED
    BY <2>2, <2>4, <2>6
<1>5. QED
  BY <1>3, <1>4 DEF WriteLike

\* The second UPDATE of like completes the match.
LEMMA WriteMatchedSerial ==
    ASSUME SerialInv, NEW r \in Requests, WriteMatched(r)
    PROVE  SerialInv' /\ UNCHANGED Contract!vars
<1>1. IInv'
  BY WriteMatchedIInv DEF SerialInv
<1>2. /\ pc[r] = "match" /\ pc' = [pc EXCEPT ![r] = "idle"]
      /\ exists /\ status' = "matched" /\ matchedAt' = TRUE
      /\ UNCHANGED <<exists, action, blocks>>
  BY DEF WriteMatched, At, Done, SerialInv, IInv, RequestFacts
<1>3. /\ \A q \in Requests : pc'[q] = "idle"
      /\ \E q \in Requests : At(q, "match")
      /\ ~(\E q \in Requests : At(q, "match"))'
  BY <1>2, ServedAlone DEF Steps
<1>4. SerialInv'
  BY <1>1, <1>2, <1>3 DEF SerialInv
<1>5. UNCHANGED Contract!vars
  BY <1>2, <1>3 DEF Contract!vars, Contract!pairRow
<1>6. QED
  BY <1>4, <1>5

\* A dislike leaves no mutual like.
LEMMA WriteDislikeSerial ==
    ASSUME SerialInv, NEW r \in Requests, WriteDislike(r)
    PROVE  SerialInv' /\ \E s \in Sides : Contract!Dislike(s)
<1>1. IInv'
  BY OtherWritesIInv DEF SerialInv
<1>2. /\ pc[r] = "write" /\ SetRow(r, "dislike", "rejected", matchedAt)
      /\ pc' = [pc EXCEPT ![r] = "idle"]
  BY DEF WriteDislike, At, Done
<1>3. /\ by[r] \in Sides /\ action \in [Sides -> Decisions]
      /\ action' = [action EXCEPT ![by[r]] = "dislike"]
      /\ status' = "rejected" /\ matchedAt' = matchedAt
      /\ Contract!Decide(by[r], "dislike")
  BY <1>2, WriteDecides DEF Decisions
<1>4. /\ ~\E q \in Requests : At(q, "match")
      /\ ~(\E q \in Requests : At(q, "match"))'
  BY <1>2, WritesAlone
<1>5. ~BothLike'
  BY <1>3 DEF BothLike
<1>6. Contract!Dislike(by[r])
  BY <1>3, <1>4 DEF Contract!Dislike
<1>7. QED
  BY <1>1, <1>2, <1>3, <1>5, <1>6, QuietAfterWrite DEF Decisions

\* A skip leaves no mutual like.
LEMMA WriteSkipSerial ==
    ASSUME SerialInv, NEW r \in Requests, WriteSkip(r)
    PROVE  SerialInv' /\ \E s \in Sides : Contract!Skip(s)
<1>1. IInv'
  BY OtherWritesIInv DEF SerialInv
<1>2. /\ pc[r] = "write" /\ SetRow(r, "skip", status, matchedAt)
      /\ pc' = [pc EXCEPT ![r] = "idle"]
  BY DEF WriteSkip, At, Done
<1>3. /\ by[r] \in Sides /\ action \in [Sides -> Decisions]
      /\ action' = [action EXCEPT ![by[r]] = "skip"]
      /\ status' = status /\ matchedAt' = matchedAt
      /\ Contract!Decide(by[r], "skip")
  BY <1>2, WriteDecides DEF Decisions
<1>4. /\ ~\E q \in Requests : At(q, "match")
      /\ ~(\E q \in Requests : At(q, "match"))'
  BY <1>2, WritesAlone
<1>5. ~BothLike'
  BY <1>3 DEF BothLike
<1>6. Contract!Skip(by[r])
  BY <1>3, <1>4 DEF Contract!Skip
<1>7. QED
  BY <1>1, <1>2, <1>3, <1>5, <1>6, QuietAfterWrite DEF Decisions

\* A standing mutual like is a match while a write is pending, so clearing
\* matched_at with it and nothing else is what the contract does.
LEMMA WriteUndoSerial ==
    ASSUME SerialInv, NEW r \in Requests, WriteUndo(r)
    PROVE  SerialInv' /\ \E s \in Sides : Contract!Undo(s)
<1>1. IInv'
  BY OtherWritesIInv DEF SerialInv
<1> DEFINE st == IF todo[r] \in {"undoMatch", "undoDislike"} THEN "pending" ELSE status
           m  == IF todo[r] = "undoMatch" THEN FALSE ELSE matchedAt
<1>2. /\ pc[r] = "write" /\ SetRow(r, "none", st, m)
      /\ pc' = [pc EXCEPT ![r] = "idle"]
      /\ todo[r] \in {"undoMatch", "undoDislike", "undoOther"}
  BY DEF WriteUndo, At, Done
<1>3. /\ by[r] \in Sides /\ action \in [Sides -> Decisions] /\ Current(r)
      /\ action' = [action EXCEPT ![by[r]] = "none"]
      /\ status' = st /\ matchedAt' = m
      /\ Contract!Decide(by[r], "none")
      /\ ~\E q \in Requests : At(q, "match")
      /\ ~(\E q \in Requests : At(q, "match"))'
  <2> HIDE DEF st, m
  <2> QED
    BY <1>2, WriteDecides, WritesAlone DEF Decisions
<1>4. ~BothLike'
  BY <1>3 DEF BothLike
<1>5. Contract!BothLike <=> BothLike
  BY DEF Contract!BothLike, BothLike, Contract!Sides, Sides
<1>6. matchedAt \in BOOLEAN
  BY DEF SerialInv, IInv, TypeOK
<1>7. action[by[r]] # "none"
  BY <1>2, <1>3 DEF Current, BothLike
<1>8. st = (IF BothLike \/ action[by[r]] = "dislike" THEN "pending" ELSE status)
  BY <1>2, <1>3 DEF Current, BothLike
<1>9. m = (matchedAt /\ ~BothLike)
  BY <1>2, <1>3, <1>6 DEF Current
<1>10. Contract!Undo(by[r])
  BY <1>3, <1>5, <1>7, <1>8, <1>9 DEF Contract!Undo
<1>11. QED
  <2> HIDE DEF st, m
  <2> QED
    BY <1>1, <1>2, <1>3, <1>4, <1>10, QuietAfterWrite DEF Decisions

\* With nobody under way the environment's statements are the contract's own.
LEMMA EnvironmentSerial ==
    ASSUME SerialInv, Quiet, Environment
    PROVE  SerialInv' /\ Contract!Next
<1>1. IInv'
  BY BlockIInv, CleanupIInv DEF Environment, SerialInv
<1>2. pc' = pc
  BY DEF Environment, Block, Unblock, ExpireLike, RecycleMatch
<1>3. /\ \A q \in Requests : pc'[q] = "idle"
      /\ ~\E q \in Requests : At(q, "match")
      /\ ~(\E q \in Requests : At(q, "match"))'
  BY <1>2 DEF Quiet, At
<1>4. ASSUME NEW s \in Sides, Block(s) \/ Unblock(s)
      PROVE  SerialInv' /\ Contract!Next
  <2>1. UNCHANGED <<exists, status, action, matchedAt>>
    BY <1>4 DEF Block, Unblock, row
  <2>2. Contract!Block(s) \/ Contract!Unblock(s)
    BY <1>3, <1>4, <2>1 DEF Block, Unblock, Contract!Block, Contract!Unblock
  <2>3. BothLike' <=> BothLike
    BY <2>1 DEF BothLike
  <2>4. SerialInv'
    BY <1>1, <1>3, <2>1, <2>3 DEF SerialInv, At
  <2>5. QED
    BY <2>2, <2>4 DEF Contract!Next, Contract!Sides, Sides
<1>5. ASSUME NEW s \in Sides, ExpireLike(s)
      PROVE  SerialInv' /\ Contract!Next
  <2>1. /\ exists /\ action[s] = "like" /\ action[Other(s)] = "none"
        /\ action' = [action EXCEPT ![s] = "none"]
        /\ status' = "pending" /\ UNCHANGED <<exists, matchedAt, blocks>>
        /\ action \in [Sides -> Decisions]
    BY <1>5 DEF ExpireLike, SerialInv, IInv, TypeOK
  <2>2. Contract!ExpireLike(s)
    BY <1>3, <2>1 DEF Contract!ExpireLike, Contract!Other, Other
  <2>3. ~BothLike'
    BY <2>1 DEF BothLike
  <2>4. SerialInv'
    BY <1>1, <1>3, <2>1, <2>3 DEF SerialInv
  <2>5. QED
    BY <2>2, <2>4 DEF Contract!Next, Contract!Sides, Sides
<1>6. CASE RecycleMatch
  <2>1. /\ exists /\ status = "matched" /\ matchedAt
        /\ action' = [s \in Sides |-> "none"]
        /\ status' = "pending" /\ matchedAt' = FALSE /\ UNCHANGED <<exists, blocks>>
    BY <1>6 DEF RecycleMatch
  <2>2. Contract!RecycleMatch
    BY <1>3, <2>1 DEF Contract!RecycleMatch, Contract!Sides, Sides
  <2>3. ~BothLike'
    BY <2>1 DEF BothLike, Sides
  <2>4. SerialInv'
    BY <1>1, <1>3, <2>1, <2>3 DEF SerialInv
  <2>5. QED
    BY <2>2, <2>4 DEF Contract!Next
<1>7. QED
  BY <1>4, <1>5, <1>6 DEF Environment

\* Every serial step keeps the serial invariant.
LEMMA SerialStep ==
    ASSUME SerialInv, [SerialNext]_vars
    PROVE  SerialInv' /\ [Contract!Next]_(Contract!vars)
<1>1. ASSUME NEW r \in Requests, Serve(r)
      PROVE  SerialInv' /\ [Contract!Next]_(Contract!vars)
  <2>1. CASE ReadRow(r) \/ CheckBlock(r) \/ WriteMatched(r)
    BY <2>1, ReadRowSerial, CheckBlockSerial, WriteMatchedSerial
  <2>2. CASE CreateSelect(r) \/ CreateInsert(r)
    BY <2>2, CreateSerial
  <2>3. CASE WriteLike(r) \/ WriteDislike(r) \/ WriteSkip(r) \/ WriteUndo(r)
    BY <2>3, WriteLikeSerial, WriteDislikeSerial, WriteSkipSerial, WriteUndoSerial
       DEF Contract!Next, Contract!Sides, Sides
  <2>4. QED
    BY <1>1, <2>1, <2>2, <2>3 DEF Serve
<1>2. ASSUME NEW r \in Requests, Quiet, Arrive(r)
      PROVE  SerialInv' /\ UNCHANGED Contract!vars
  <2>1. SerialInv'
    BY <1>2, ArriveSerial
  <2>2. PICK o \in Ops, u \in Callers : Begin(r, o, u)
    BY <1>2 DEF Arrive
  <2>3. /\ UNCHANGED <<exists, status, action, matchedAt, blocks>>
        /\ ~\E q \in Requests : At(q, "match")
        /\ ~(\E q \in Requests : At(q, "match"))'
    BY <1>2, <2>2 DEF Begin, row, Quiet, At, SerialInv, IInv, TypeOK
  <2>4. QED
    BY <2>1, <2>3 DEF Contract!vars, Contract!pairRow
<1>3. CASE Quiet /\ Environment
  BY <1>3, EnvironmentSerial
<1>4. CASE UNCHANGED vars
  <2>1. IInv'
    BY <1>4, NextIInv DEF SerialInv
  <2>2. QED
    BY <1>4, <2>1 DEF vars, Contract!vars, Contract!pairRow, SerialInv, Current, BothLike, At
<1>5. QED
  BY <1>1, <1>2, <1>3, <1>4 DEF SerialNext

\* The repository's statements, served one request at a time, make the API's
\* requests and the cleanup job's statements atomic (match.ts, block.ts,
\* cleanup.ts).
THEOREM SerialImplementsContract == SerialSpec => ImplementsContract
<1>1. Init => Contract!Init
  <2> SUFFICES ASSUME Init PROVE Contract!Init
    OBVIOUS
  <2>1. ~\E r \in Requests : At(r, "match")
    BY DEF Init, At
  <2>2. QED
    BY <2>1 DEF Init, Contract!Init, Contract!Sides, Sides
<1>2. QED
  BY <1>1, InitSerial, SerialStep, PTL DEF SerialSpec, ImplementsContract, Contract!Spec

\* Two standing likes are a match whenever no request is under way, if none
\* overlapped (match.ts, like: the decision to match is taken from the row read
\* before the write).
THEOREM SerialMutualLikeMatches == SerialSpec => []MutualLikeIsMatched
<1>1. SerialInv => MutualLikeIsMatched
  BY DEF SerialInv, MutualLikeIsMatched, Quiet, At
<1>2. QED
  BY <1>1, InitSerial, SerialStep, PTL DEF SerialSpec

-----------------------------------------------------------------------------
(* Candidates: the same row, with time and the filters of the two users.     *)

\* The row's clock is never older than the decision of either side, and a
\* dislike that no longer rejects the pair was overtaken by the other side.
OfferInv ==
    /\ OfferTypeOK
    /\ \A s \in Sides : age <= own[s]
    /\ \A s \in Sides :
        action[s] = "dislike" => status = "rejected" \/ Other(s) \in tookBack
    /\ ~exists => action = [s \in Sides |-> "none"] /\ status = "pending"
    /\ status = "matched" => exists /\ matchedAt

\* Limits that are widened and clamped let through whom they let through before.
LEMMA WidenedAge ==
    ASSUME NEW l \in AgeLimits \cup 12..80, NEW a \in Ages
    PROVE  /\ a >= l => a >= (IF l = 0 THEN 0 ELSE Greater(12, l - 3))
           /\ l # 0 /\ a <= l => Lesser(80, l + 3) # 0 /\ a <= Lesser(80, l + 3)
<1>1. a \in 12..80 /\ l \in 0..80
  BY ConstantsAssumption
<1> QED
  BY <1>1 DEF Greater, Lesser

LEMMA WidenedReach ==
    ASSUME NEW r \in 0..500, NEW d \in Nat
    PROVE  /\ r = 0 <=> Lesser(500, 2 * r) = 0
           /\ d <= r => d <= Lesser(500, 2 * r)
BY DEF Lesser

\* What a profile asks for, with the gaps filled in.
LEMMA PrefsFacts ==
    ASSUME NEW p \in Profiles
    PROVE  /\ Prefs(p).account = p.account
           /\ Prefs(p).min \in AgeLimits \cup 12..80
           /\ Prefs(p).max \in AgeLimits \cup 12..80
           /\ Prefs(p).reach \in 0..500
           /\ Prefs(p) = [account |-> p.account, age |-> p.age, gender |-> p.gender,
                            min |-> Prefs(p).min, max |-> Prefs(p).max,
                            wants |-> Prefs(p).wants, reach |-> Prefs(p).reach]
<1>1. p.age \in 12..80 /\ p.min \in AgeLimits /\ p.max \in AgeLimits /\ p.reach \in 0..500
  <2>1. p.age \in 12..80
    <3>1. Ages \subseteq 12..80
      BY ConstantsAssumption
    <3> QED
      BY <3>1 DEF Profiles
  <2>2. p.reach \in 0..500
    <3>1. Reaches \subseteq 0..500
      BY ConstantsAssumption
    <3> QED
      BY <3>1 DEF Profiles
  <2> QED
    BY <2>1, <2>2 DEF Profiles
<1>2. CASE p.wants # {}
  BY <1>1, <1>2 DEF Prefs, Profiles
<1>3. CASE p.wants = {}
  <2>1. Given(p.min, Greater(12, p.age - 7)) \in AgeLimits \cup 12..80
    BY <1>1 DEF Given, Greater
  <2>2. Given(p.max, Lesser(80, p.age + 7)) \in AgeLimits \cup 12..80
    BY <1>1 DEF Given, Lesser
  <2>3. Given(p.reach, 25) \in 0..500
    BY <1>1 DEF Given
  <2> QED
    BY <1>3, <2>1, <2>2, <2>3 DEF Prefs, Profiles
<1> QED
  BY <1>2, <1>3

\* Whom the strict filters let through, the relaxed ones do.
LEMMA StrictIsRelaxed ==
    ASSUME NEW p \in Profiles, NEW q \in Profiles, NEW d \in Distances,
           Strict(p, q, d)
    PROVE  Relaxed(p, q, d)
<1> DEFINE w == Prefs(p)
           v == Widened(w)
<1>1. /\ w.min \in AgeLimits \cup 12..80 /\ w.max \in AgeLimits \cup 12..80
      /\ w.reach \in 0..500
      /\ w = [account |-> p.account, age |-> p.age, gender |-> p.gender,
              min |-> w.min, max |-> w.max, wants |-> w.wants, reach |-> w.reach]
  BY PrefsFacts
<1>2. Visible(p, q) /\ q.gender \in w.wants /\ InAge(w, q) /\ InReach(w, d)
  BY DEF Strict, Asked
<1> HIDE DEF w
<1>3. /\ v.wants = w.wants
      /\ v.min = IF w.min = 0 THEN 0 ELSE Greater(12, w.min - 3)
      /\ v.max = IF w.max = 0 THEN 0 ELSE Lesser(80, w.max + 3)
      /\ v.reach = Lesser(500, 2 * w.reach)
  BY <1>1 DEF Widened
<1> HIDE DEF v
<1>4. q.age \in Ages
  BY DEF Profiles
<1>5. InAge(v, q)
  <2>1. v.min = 0 \/ q.age >= v.min
    <3>1. CASE w.min = 0
      BY <1>3, <3>1
    <3>2. CASE w.min # 0
      BY <1>1, <1>2, <1>3, <1>4, <3>2, WidenedAge DEF InAge
    <3> QED
      BY <3>1, <3>2
  <2>2. v.max = 0 \/ q.age <= v.max
    <3>1. CASE w.max = 0
      BY <1>3, <3>1
    <3>2. CASE w.max # 0
      BY <1>1, <1>2, <1>3, <1>4, <3>2, WidenedAge DEF InAge
    <3> QED
      BY <3>1, <3>2
  <2> QED
    BY <2>1, <2>2 DEF InAge
<1>6. InReach(v, d)
  <2>1. d \in Nat
    BY ConstantsAssumption
  <2> QED
    BY <1>1, <1>2, <1>3, <2>1, WidenedReach DEF InReach
<1> QED
  BY <1>2, <1>3, <1>5, <1>6 DEF Relaxed, Asked, w, v

\* Both filters of both sides, for any two profiles at any distance.
LEMMA FiltersWithin ==
    ASSUME NEW p \in Profiles, NEW q \in Profiles, NEW d \in Distances,
           NEW s \in Sides, Filters(p, q, d).strict[s]
    PROVE  Filters(p, q, d).relaxed[s]
<1>1. CASE s = 1
  BY <1>1, StrictIsRelaxed DEF Filters
<1>2. CASE s # 1
  BY <1>2, StrictIsRelaxed DEF Filters
<1> QED
  BY <1>1, <1>2

\* The clock of a row and the users' own clocks only differ in their start.
LEMMA OlderFacts ==
    ASSUME NEW t \in 0..LikeStale, NEW u \in 0..LikeStale, t <= u
    PROVE  Older(t) \in 0..LikeStale /\ Older(t) <= Older(u)
<1>1. LikeStale \in Nat \ {0}
  BY ConstantsAssumption
<1> QED
  BY <1>1 DEF Older, Lesser

\* Nothing is on either clock when a row is new.
LEMMA OfferInvInit ==
    ASSUME OfferInit
    PROVE  OfferInv
<1>1. LikeStale \in Nat \ {0}
  BY ConstantsAssumption
<1>2. /\ exists = FALSE /\ status = "pending" /\ matchedAt = FALSE /\ blocks = {}
      /\ action = [s \in Sides |-> "none"]
  BY DEF OfferInit, Pair!Init, Sides, Pair!Sides
<1>3. \E p, q \in Profiles, d \in Distances : fits = Filters(p, q, d)
  BY DEF OfferInit
<1>4. age \in 0..LikeStale /\ own \in [Sides -> 0..LikeStale] /\ tookBack = {} /\ resting = FALSE
  BY <1>1 DEF OfferInit
<1>5. status \in Statuses /\ action \in [Sides -> Decisions]
  BY <1>2 DEF Statuses, Decisions
<1>6. OfferTypeOK
  BY <1>2, <1>3, <1>4, <1>5 DEF OfferTypeOK
<1> QED
  BY <1>1, <1>2, <1>6 DEF OfferInv, OfferInit

\* A decision starts both clocks of its side anew.
LEMMA DecideOfferInv ==
    ASSUME OfferInv, NEW s \in Sides, Decide(s)
    PROVE  OfferInv'
<1>1. LikeStale \in Nat \ {0}
  BY ConstantsAssumption
<1>2. /\ s \in {1, 2} /\ Sides = {1, 2} /\ Other(s) \in {1, 2} /\ Other(s) # s
      /\ Pair!Other(s) = Other(s) /\ Other(Other(s)) = s
  BY DEF Sides, Pair!Sides, Other, Pair!Other
<1>3. /\ age' = 0 /\ own' = [own EXCEPT ![s] = 0] /\ UNCHANGED <<fits, resting>>
      /\ exists /\ exists' = exists /\ blocks' = blocks
  BY DEF Decide, Touch, Pair!Like, Pair!Dislike, Pair!Skip, Pair!Undo,
         Pair!Decide, Pair!MayDecide
<1>4. PICK d \in Decisions : action' = [action EXCEPT ![s] = d]
  BY DEF Decide, Pair!Like, Pair!Dislike, Pair!Skip, Pair!Undo, Pair!Decide,
         Decisions
<1>5. /\ status' \in Statuses /\ matchedAt' \in BOOLEAN
      /\ tookBack' \subseteq Sides
  <2>1. status' \in Statuses
    BY DEF OfferInv, OfferTypeOK, Decide, Pair!Like, Pair!Dislike, Pair!Skip, Pair!Undo,
           Statuses
  <2>2. matchedAt' \in BOOLEAN
    BY DEF OfferInv, OfferTypeOK, Decide, Pair!Like, Pair!Dislike, Pair!Skip, Pair!Undo
  <2>3. tookBack' \subseteq Sides
    BY <1>2 DEF OfferInv, OfferTypeOK, Decide
  <2> QED
    BY <2>1, <2>2, <2>3
<1>6. OfferTypeOK'
  BY <1>1, <1>2, <1>3, <1>4, <1>5 DEF OfferInv, OfferTypeOK
<1>7. \A t \in Sides : age' <= own'[t]
  BY <1>1, <1>2, <1>3 DEF OfferInv, OfferTypeOK
<1>8. \A t \in Sides :
        action'[t] = "dislike" => status' = "rejected" \/ Other(t) \in tookBack'
  <2>1. CASE Pair!Like(s) /\ tookBack' = tookBack \ {Other(s)}
    BY <1>2, <2>1 DEF OfferInv, OfferTypeOK, Pair!Like, Pair!Decide
  <2>2. CASE Pair!Dislike(s) /\ tookBack' = tookBack \ {Other(s)}
    BY <2>2 DEF Pair!Dislike
  <2>3. CASE Pair!Skip(s) /\ tookBack' = tookBack \ {Other(s)}
    BY <1>2, <2>3 DEF OfferInv, OfferTypeOK, Pair!Skip, Pair!Decide
  <2>4. CASE Pair!Undo(s) /\ tookBack' = tookBack \cup {s}
    BY <1>2, <2>4 DEF OfferInv, OfferTypeOK, Pair!Undo, Pair!Decide
  <2> QED
    BY <2>1, <2>2, <2>3, <2>4 DEF Decide
<1>9. status' = "matched" => matchedAt'
  BY <1>2 DEF OfferInv, OfferTypeOK, Decide, Pair!Like, Pair!Dislike, Pair!Skip, Pair!Undo,
         Pair!Decide, Pair!BothLike, Sides, Pair!Sides
<1> QED
  BY <1>3, <1>6, <1>7, <1>8, <1>9 DEF OfferInv

\* The other steps: the row is made young again without a decision, or both
\* clocks go on, or nothing about the row changes.
LEMMA FreshOfferInv ==
    ASSUME OfferInv,
           Create \/ Recycle \/ \E s \in Sides : Lapse(s)
    PROVE  OfferInv'
<1>1. LikeStale \in Nat \ {0}
  BY ConstantsAssumption
<1>2. age' = 0 /\ UNCHANGED <<fits, own, tookBack, resting, blocks>>
  BY DEF Create, Recycle, Lapse, Pair!Create, Pair!RecycleMatch, Pair!ExpireLike
<1>3. \A t \in Sides : age' <= own'[t]
  BY <1>1, <1>2 DEF OfferInv, OfferTypeOK
<1>4. CASE Create
  <2>1. exists' = TRUE /\ UNCHANGED <<status, action, matchedAt>> /\ ~exists
    BY <1>4 DEF Create, Pair!Create
  <2>2. exists' \in BOOLEAN
    BY <2>1
  <2>3. OfferTypeOK'
    <3>1. UNCHANGED <<status, action, matchedAt>>
      BY <2>1
    <3>2. age' \in 0..LikeStale
      BY <1>1, <1>2
    <3> QED
      BY <1>2, <2>2, <3>1, <3>2, Zenon DEF OfferInv, OfferTypeOK
  <2> QED
    BY <1>2, <1>3, <2>1, <2>3 DEF OfferInv
<1>5. CASE Recycle
  <2>1. /\ exists /\ exists' = exists /\ status' = "pending" /\ matchedAt' = FALSE
        /\ action' = [s \in Sides |-> "none"]
    BY <1>5 DEF Recycle, Pair!RecycleMatch, Sides, Pair!Sides
  <2>2. /\ action' \in [Sides -> Decisions] /\ status' \in Statuses
        /\ matchedAt' \in BOOLEAN /\ exists' \in BOOLEAN
    BY <2>1 DEF Statuses, Decisions, OfferInv, OfferTypeOK
  <2>3. OfferTypeOK'
    BY <1>1, <1>2, <2>2 DEF OfferInv, OfferTypeOK
  <2> QED
    BY <1>2, <1>3, <2>1, <2>3 DEF OfferInv
<1>6. ASSUME NEW s \in Sides, Lapse(s)
      PROVE  OfferInv'
  <2>1. /\ exists /\ exists' = exists /\ status' = "pending" /\ matchedAt' = matchedAt
        /\ action' = [action EXCEPT ![s] = "none"]
        /\ action[s] = "like" /\ action[Other(s)] = "none"
    BY <1>6 DEF Lapse, Pair!ExpireLike, Other, Pair!Other
  <2>2. OfferTypeOK'
    BY <1>1, <1>2, <2>1 DEF OfferInv, OfferTypeOK, Statuses, Decisions
  <2>3. \A t \in Sides : action'[t] # "dislike"
    BY <2>1 DEF OfferInv, OfferTypeOK, Sides, Pair!Sides, Other, Pair!Other
  <2> QED
    BY <1>2, <1>3, <2>1, <2>2, <2>3 DEF OfferInv
<1> QED
  BY <1>4, <1>5, <1>6

LEMMA TimeOfferInv ==
    ASSUME OfferInv,
           Tick \/ Rest \/ (\E s \in Sides : SetBlock(s)) \/ UNCHANGED offerVars
    PROVE  OfferInv'
<1>1. LikeStale \in Nat \ {0}
  BY ConstantsAssumption
<1>2. UNCHANGED <<exists, status, action, matchedAt, fits, tookBack>>
  BY DEF Tick, Rest, SetBlock, Pair!Block, Pair!Unblock, offerVars, pairRow
<1>3. resting' \in BOOLEAN /\ blocks' \subseteq Sides
  BY DEF Tick, Rest, SetBlock, Pair!Block, Pair!Unblock, offerVars, pairRow, OfferInv, OfferTypeOK
<1>4. /\ age' \in 0..LikeStale /\ own' \in [Sides -> 0..LikeStale]
      /\ \A t \in Sides : age' <= own'[t]
  <2>1. CASE Tick
    <3>1. age' = Older(age) /\ own' = [t \in Sides |-> Older(own[t])]
      BY <2>1 DEF Tick
    <3>2. ASSUME NEW t \in Sides
          PROVE  Older(age) \in 0..LikeStale /\ Older(own[t]) \in 0..LikeStale
                 /\ Older(age) <= Older(own[t])
      <4>1. age \in 0..LikeStale /\ own[t] \in 0..LikeStale /\ age <= own[t]
        BY DEF OfferInv, OfferTypeOK
      <4>2. own[t] <= own[t]
        BY <4>1
      <4> QED
        BY <4>1, <4>2, OlderFacts
    <3>3. 1 \in Sides
      BY DEF Sides, Pair!Sides
    <3> QED
      BY <3>1, <3>2, <3>3
  <2>2. CASE UNCHANGED <<age, own>>
    BY <2>2 DEF OfferInv, OfferTypeOK
  <2> QED
    BY <2>1, <2>2 DEF Rest, SetBlock, offerVars
<1>5. OfferTypeOK'
  BY <1>2, <1>3, <1>4 DEF OfferInv, OfferTypeOK
<1> QED
  BY <1>2, <1>4, <1>5 DEF OfferInv

LEMMA OfferInvStep ==
    ASSUME OfferInv, [OfferNext]_(offerVars)
    PROVE  OfferInv'
BY DecideOfferInv, FreshOfferInv, TimeOfferInv DEF OfferNext

\* The variables keep the values the API can give them.
THEOREM OffersTyped == OfferSpec => []OfferTypeOK
<1>1. OfferInv => OfferTypeOK
  BY DEF OfferInv
<1>2. OfferInit => OfferInv
  BY OfferInvInit
<1>3. OfferInv /\ [OfferNext]_(offerVars) => OfferInv'
  BY OfferInvStep
<1> QED
  BY <1>1, <1>2, <1>3, PTL DEF OfferSpec

\* Relaxing the filters hides nobody the strict ones let through, for all
\* limits a validated preference may have (match.ts, getRelaxedCandidates).
THEOREM FallbackWidens == OfferSpec => []StrictWithinRelaxed
<1>1. OfferTypeOK => StrictWithinRelaxed
  BY FiltersWithin DEF OfferTypeOK, StrictWithinRelaxed
<1> QED
  BY <1>1, OffersTyped, PTL

\* Whom a user has turned down stays away for the whole cooldown, whatever the
\* other side does to the row's timestamp in the meantime, but for the
\* exceptions CooldownsHold names (match.ts, the cooldown clauses).
THEOREM CooldownsKept == OfferSpec => []CooldownsHold
<1>1. OfferInv => CooldownsHold
  <2> SUFFICES ASSUME OfferInv, NEW s \in Sides, exists, Offered(s)
               PROVE  /\ action[s] = "skip" => own[s] >= SkipCool \/ action[Other(s)] = "like"
                      /\ action[s] = "dislike" => own[s] >= DislikeCool \/ Other(s) \in tookBack
                      /\ action[s] = "like" /\ action[Other(s)] = "none"
                            => own[s] >= LikeStale \/ status = "rejected"
    BY DEF CooldownsHold
  <2>1. Offerable(s) /\ ~Cooling(s)
    BY DEF Offered, Passes
  <2>2. age \in Nat /\ own[s] \in Nat /\ age <= own[s]
    <3>1. LikeStale \in Nat
      BY ConstantsAssumption
    <3> QED
      BY <3>1 DEF OfferInv, OfferTypeOK
  <2>3. SkipCool \in Nat /\ DislikeCool \in Nat /\ LikeStale \in Nat
    BY ConstantsAssumption
  <2>4. action[s] = "skip" => own[s] >= SkipCool \/ action[Other(s)] = "like"
    BY <2>1, <2>2, <2>3 DEF Cooling
  <2>5. action[s] = "dislike" => own[s] >= DislikeCool \/ Other(s) \in tookBack
    BY <2>1, <2>2, <2>3 DEF Cooling, OfferInv
  <2>6. ASSUME action[s] = "like", action[Other(s)] = "none", status # "rejected"
        PROVE  own[s] >= LikeStale
    <3>1. Other(s) \in Sides
      BY DEF Sides, Pair!Sides, Other, Pair!Other
    <3>2. ~BothLike
      BY <2>6, <3>1 DEF BothLike, Sides
    <3>3. status = "pending"
      BY <2>1, <2>6, <3>2 DEF Offerable
    <3> QED
      BY <2>1, <2>2, <2>3, <2>6, <3>2, <3>3 DEF Offerable
  <2> QED
    BY <2>4, <2>5, <2>6
<1>2. OfferInit => OfferInv
  BY OfferInvInit
<1>3. OfferInv /\ [OfferNext]_(offerVars) => OfferInv'
  BY OfferInvStep
<1> QED
  BY <1>1, <1>2, <1>3, PTL DEF OfferSpec

\* Who likes a user is offered to that user at once, but for a dislike or a
\* skip out of a match (match.ts, the exclusions of the candidate query).
THEOREM LikesReach == OfferSpec => []LikeReachesOther
<1>1. OfferTypeOK => LikeReachesOther
  BY DEF OfferTypeOK, LikeReachesOther, Offered, Passes, Offerable, Cooling, Statuses
<1> QED
  BY <1>1, OffersTyped, PTL

\* The safety half of NobodyLost: when nobody blocks and the other profile
\* fits, what keeps it from being offered is time alone or a match that the
\* cleanup job may recycle, in every state the decisions can reach.
OnlyTimeIsMissing ==
    \A s \in Sides :
        blocks = {} /\ fits.relaxed[s]
        => Offered(s) \/ age < LikeStale \/ (exists /\ status = "matched" /\ matchedAt)

\* No combination of decisions hides two users from each other for good
\* (match.ts, the candidate query; cleanup.ts).
THEOREM NobodyIsStuck == OfferSpec => []OnlyTimeIsMissing
<1>1. OfferInv => OnlyTimeIsMissing
  <2> SUFFICES ASSUME OfferInv, NEW s \in Sides, blocks = {}, fits.relaxed[s],
                      ~(age < LikeStale), ~(exists /\ status = "matched" /\ matchedAt)
               PROVE  Offered(s)
    BY DEF OnlyTimeIsMissing
  <2>1. /\ SkipCool \in Nat /\ DislikeCool \in Nat /\ LikeStale \in Nat
        /\ SkipCool < DislikeCool /\ DislikeCool < LikeStale
    BY ConstantsAssumption
  <2>2. age \in Nat
    BY <2>1 DEF OfferInv, OfferTypeOK
  <2>3. ~Cooling(s)
    BY <2>1, <2>2 DEF Cooling
  <2>4. status \in {"pending", "rejected"}
    BY DEF OfferInv, OfferTypeOK, Statuses
  <2>5. Offerable(s)
    BY <2>4 DEF Offerable
  <2> QED
    BY <2>3, <2>5 DEF Offered, Passes
<1>2. OfferInit => OfferInv
  BY OfferInvInit
<1>3. OfferInv /\ [OfferNext]_(offerVars) => OfferInv'
  BY OfferInvStep
<1> QED
  BY <1>1, <1>2, <1>3, PTL DEF OfferSpec

\* The decisions whose cooldowns are kept here are those of the contract that
\* the repository implements when requests are served one at a time.
THEOREM DecisionsFollowContract == OfferSpec => Pair!Spec
<1>1. OfferInit => Pair!Init
  BY DEF OfferInit
<1>2. ASSUME [OfferNext]_(offerVars)
      PROVE  [Pair!Next]_(Pair!vars)
  <2>1. CASE Create
    BY <2>1 DEF Create, Pair!Next
  <2>2. CASE Recycle
    BY <2>2 DEF Recycle, Pair!Next
  <2>3. CASE Tick \/ Rest \/ UNCHANGED offerVars
    BY <2>3 DEF Tick, Rest, offerVars, pairRow, Pair!vars, Pair!pairRow
  <2>4. ASSUME NEW s \in Sides, Decide(s) \/ Lapse(s) \/ SetBlock(s)
        PROVE  Pair!Next
    BY <2>4 DEF Decide, Lapse, SetBlock, Pair!Next, Sides, Pair!Sides
  <2> QED
    BY <1>2, <2>1, <2>2, <2>3, <2>4 DEF OfferNext
<1> QED
  BY <1>1, <1>2, PTL DEF OfferSpec, Pair!Spec

=============================================================================
