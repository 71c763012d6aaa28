------------------------------ MODULE DailyQuota ------------------------------
(***************************************************************************)
(* The daily counters of one users row: likes, dislikes, swipes and media  *)
(* uploads, each a number and the day it counts for, reset by whoever      *)
(* looks at it first on a new day.  UserRepository reads the row, takes    *)
(* the date, decides, and writes absolute values back: three steps, with   *)
(* other requests, midnight and changes of the allowance in between.       *)
(***************************************************************************)
EXTENDS Naturals

CONSTANTS
    Requests, \* invocations; each serves one call
    Counters, \* the counters looked at
    Totals,   \* the totals that tiers and bonuses give (10, 15, 35, 9999, ...)
    MaxDay    \* bound on the clock

AllCounters == {"like", "dislike", "swipe", "media"}

ASSUME ConstantsAssumption ==
    /\ Counters \subseteq AllCounters
    /\ Totals \subseteq Nat
    /\ MaxDay \in Nat \ {0}

VARIABLES
    day,     \* today (local midnight)
    total,   \* total[k]: what tier and bonus columns add up to
    used,    \* used[k]: daily_<k>s_used
    stamp,   \* stamp[k]: daily_<k>s_reset_at, 0 for NULL
    pc,      \* pc[r]: the step request r takes next
    scope,   \* scope[r]: the counters r reads and writes
    counts,  \* counts[r]: r records a use (a status call does not)
    myUsed, myStamp, myTotal, \* what r read, then what it will write
    spent,   \* history: spent[k][d]: uses granted with the date d
    best     \* history: best[k][d]: the highest total in force on day d

row    == <<used, stamp>>
locals == <<scope, counts, myUsed, myStamp, myTotal>>
vars   == <<day, total, row, pc, locals, spent, best>>

Days  == 1..MaxDay
Steps == {"new", "decide", "write", "done"}

\* getInteractionStatus looks after two counters in one statement.
StatusScopes == {s \in {{"like", "dislike"}, {"swipe"}, {"media"}} : s \subseteq Counters}

Zeros == [k \in Counters |-> 0]

Init ==
    /\ day = 1
    /\ total \in [Counters -> Totals]
    /\ used = Zeros
    /\ stamp = Zeros
    /\ pc = [r \in Requests |-> "new"]
    /\ scope = [r \in Requests |-> {}]
    /\ counts = [r \in Requests |-> FALSE]
    /\ myUsed = [r \in Requests |-> Zeros]
    /\ myStamp = [r \in Requests |-> Zeros]
    /\ myTotal = [r \in Requests |-> Zeros]
    /\ spent = [k \in Counters |-> [d \in Days |-> 0]]
    /\ best = [k \in Counters |-> [d \in Days |-> IF d = 1 THEN total[k] ELSE 0]]

\* What a request that cares for the counters in s picks from a function on them.
Pick(s, f) == [k \in Counters |-> IF k \in s THEN f[k] ELSE 0]

\* The call returned or failed; its locals are gone.
Done(r) ==
    /\ pc' = [pc EXCEPT ![r] = "done"]
    /\ scope' = [scope EXCEPT ![r] = {}]
    /\ counts' = [counts EXCEPT ![r] = FALSE]
    /\ myUsed' = [myUsed EXCEPT ![r] = Zeros]
    /\ myStamp' = [myStamp EXCEPT ![r] = Zeros]
    /\ myTotal' = [myTotal EXCEPT ![r] = Zeros]

-----------------------------------------------------------------------------
\* SELECT <tier, counter, date, bonus> FROM users WHERE id = ?
Select(r, s, c) ==
    /\ pc[r] = "new"
    /\ pc' = [pc EXCEPT ![r] = "decide"]
    /\ scope' = [scope EXCEPT ![r] = s]
    /\ counts' = [counts EXCEPT ![r] = c]
    /\ myUsed' = [myUsed EXCEPT ![r] = Pick(s, used)]
    /\ myStamp' = [myStamp EXCEPT ![r] = Pick(s, stamp)]
    /\ myTotal' = [myTotal EXCEPT ![r] = Pick(s, total)]
    /\ UNCHANGED <<day, total, row, spent, best>>

Record(r) == \E k \in Counters : Select(r, {k}, TRUE)
Status(r) == \E s \in StatusScopes : Select(r, s, FALSE)

\* !resetAt || resetAt < today: the counter starts again.
Expired(r, k) == myStamp[r][k] < day
FreshUsed(r)  == [k \in Counters |-> IF Expired(r, k) THEN 0 ELSE myUsed[r][k]]
FreshStamp(r) == Pick(scope[r], [k \in Counters |-> IF Expired(r, k) THEN day ELSE myStamp[r][k]])

\* One more use where a use is recorded.
Bump(r, u) == [k \in Counters |-> IF counts[r] /\ k \in scope[r] THEN u[k] + 1 ELSE u[k]]

HasRoom(r) == \A k \in scope[r] : FreshUsed(r)[k] < myTotal[r][k]

\* A use is granted while it fits the total read; without room nothing is
\* written, not even the reset.  A status call writes if a date has passed.
MustWrite(r) == IF counts[r] THEN HasRoom(r) ELSE \E k \in scope[r] : Expired(r, k)

Prepare(r, u, s, writes) ==
    /\ pc[r] = "decide"
    /\ \/ /\ writes
          /\ pc' = [pc EXCEPT ![r] = "write"]
          /\ myUsed' = [myUsed EXCEPT ![r] = Bump(r, u)]
          /\ myStamp' = [myStamp EXCEPT ![r] = s]
          /\ UNCHANGED <<scope, counts, myTotal>>
       \/ /\ ~writes
          /\ Done(r)
    /\ UNCHANGED <<day, total, row, spent, best>>

\* Bug variants of Decide: the total itself granted once more; the old count
\* kept with the new date; the date of the next reset stored.
DecideOffByOne(r) ==
    Prepare(r, FreshUsed(r), FreshStamp(r),
            MustWrite(r) \/ \A k \in scope[r] : FreshUsed(r)[k] = myTotal[r][k])
DecideWithoutReset(r) == Prepare(r, myUsed[r], FreshStamp(r), MustWrite(r))
DecideNextReset(r) ==
    Prepare(r, FreshUsed(r), [k \in Counters |-> FreshStamp(r)[k] + 1], MustWrite(r))

Decide(r) == Prepare(r, FreshUsed(r), FreshStamp(r), MustWrite(r))

\* UPDATE users SET <counter> = ?, <date> = ? WHERE id = ?; the bug variant
\* leaves the date to the status call.
WriteCounterOnly(r) ==
    /\ pc[r] = "write"
    /\ used' = [k \in Counters |-> IF k \in scope[r] THEN myUsed[r][k] ELSE used[k]]
    /\ stamp' = [k \in Counters |-> IF k \in scope[r] /\ ~counts[r] THEN myStamp[r][k] ELSE stamp[k]]
    /\ spent' = [k \in Counters |-> [d \in Days |->
            IF counts[r] /\ k \in scope[r] /\ d = myStamp[r][k] THEN spent[k][d] + 1 ELSE spent[k][d]]]
    /\ Done(r)
    /\ UNCHANGED <<day, total, best>>
Write(r) ==
    /\ pc[r] = "write"
    /\ used' = [k \in Counters |-> IF k \in scope[r] THEN myUsed[r][k] ELSE used[k]]
    /\ stamp' = [k \in Counters |-> IF k \in scope[r] THEN myStamp[r][k] ELSE stamp[k]]
    /\ spent' = [k \in Counters |-> [d \in Days |->
            IF counts[r] /\ k \in scope[r] /\ d = myStamp[r][k] THEN spent[k][d] + 1 ELSE spent[k][d]]]
    /\ Done(r)
    /\ UNCHANGED <<day, total, best>>

\* A statement fails or the isolate is evicted before the write.
Abort(r) ==
    /\ pc[r] \in {"decide", "write"}
    /\ Done(r)
    /\ UNCHANGED <<day, total, row, spent, best>>

-----------------------------------------------------------------------------
\* Payments, the expiry job and referrals change what the columns add up to.
Change(k, t) ==
    /\ total' = [total EXCEPT ![k] = t]
    /\ best' = [best EXCEPT ![k][day] = IF t > @ THEN t ELSE @]
    /\ UNCHANGED <<day, row, pc, locals, spent>>

Midnight ==
    /\ day < MaxDay
    /\ day' = day + 1
    /\ best' = [k \in Counters |-> [best[k] EXCEPT ![day + 1] = total[k]]]
    /\ UNCHANGED <<total, row, pc, locals, spent>>

-----------------------------------------------------------------------------
Arrive(r) == Record(r) \/ Status(r)
Serve(r)  == Decide(r) \/ Write(r)

Next ==
    \/ \E r \in Requests : Arrive(r) \/ Serve(r) \/ Abort(r)
    \/ \E k \in Counters, t \in Totals : Change(k, t)
    \/ Midnight

Spec == Init /\ [][Next]_vars

\* The same steps when no two writers of the row overlap; the clock does not wait.
Quiet == \A r \in Requests : pc[r] \in {"new", "done"}

SerialNext ==
    \/ \E r \in Requests : Serve(r) \/ Abort(r) \/ (Quiet /\ Arrive(r))
    \/ Quiet /\ \E k \in Counters, t \in Totals : Change(k, t)
    \/ Midnight

SerialSpec == Init /\ [][SerialNext]_vars

-----------------------------------------------------------------------------
TypeOK ==
    /\ day \in Days
    /\ total \in [Counters -> Totals]
    /\ used \in [Counters -> Nat]
    /\ stamp \in [Counters -> 0..day]
    /\ pc \in [Requests -> Steps]
    /\ scope \in [Requests -> SUBSET Counters]
    /\ counts \in [Requests -> BOOLEAN]
    /\ myUsed \in [Requests -> [Counters -> Nat]]
    /\ myStamp \in [Requests -> [Counters -> 0..day]]
    /\ myTotal \in [Requests -> [Counters -> Nat]]
    /\ spent \in [Counters -> [Days -> Nat]]
    /\ best \in [Counters -> [Days -> Nat]]

\* Stale writes can forget uses but never invent one: whatever interleaves, a
\* counter is at most the number of uses granted on the day it is stamped with,
\* so nobody is refused what is left (record* and get*Status write absolutes).
NeverOvercounts ==
    \A k \in Counters :
        used[k] <= IF stamp[k] = 0 THEN 0 ELSE spent[k][stamp[k]]

\* On no day are more uses granted than the best total of that day allows
\* ("prevents quota overuse when two recordLike() calls race").
QuotaHolds == \A k \in Counters, d \in Days : spent[k][d] <= best[k][d]

\* One request at a time, the counter and its date are a daily allowance: a
\* counter with yesterday's date reads as zero.
Quota == INSTANCE QuotaContract WITH
    count <- [k \in Counters |-> IF stamp[k] < day THEN 0 ELSE used[k]]

ImplementsQuota == Quota!Spec

=============================================================================
