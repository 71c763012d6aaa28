-------------------------- MODULE DailyQuota_proofs --------------------------
(***************************************************************************)
(* Proofs about DailyQuota for any number of requests, counters, totals    *)
(* and days: the counters never overcount, and served one at a time they   *)
(* keep the quota and implement QuotaContract.                             *)
(***************************************************************************)
EXTENDS DailyQuota, TLAPS

\* n uses of counter k with the date d are backed by uses granted on that day.
Backed(n, k, d) == n <= IF d = 0 THEN 0 ELSE spent[k][d]

\* What a request carries between its SELECT and its UPDATE is backed, but for
\* the one use it is about to grant itself.
Carried ==
    \A r \in Requests, k \in Counters :
        k \in scope[r] =>
            /\ pc[r] = "decide" => Backed(myUsed[r][k], k, myStamp[r][k])
            /\ pc[r] = "write" =>
                /\ myStamp[r][k] \in Days
                /\ ~counts[r] => Backed(myUsed[r][k], k, myStamp[r][k])
                /\ counts[r] => Backed(myUsed[r][k] - 1, k, myStamp[r][k])

IInv == TypeOK /\ NeverOvercounts /\ Carried

-----------------------------------------------------------------------------
\* Every new row starts with nothing counted and nothing under way.
LEMMA InitIInv == Init => IInv
<1> SUFFICES ASSUME Init PROVE IInv
  OBVIOUS
<1> USE ConstantsAssumption DEF Init, Zeros, Days
<1>1. TypeOK
  <2>1. total \in [Counters -> Totals] /\ \A k \in Counters : total[k] \in Nat
    OBVIOUS
  <2>2. best \in [Counters -> [Days -> Nat]]
    BY <2>1
  <2>3. Zeros \in [Counters -> Nat] /\ Zeros \in [Counters -> 0..1]
    OBVIOUS
  <2>4. /\ day \in Days /\ used \in [Counters -> Nat] /\ stamp \in [Counters -> 0..day]
        /\ spent \in [Counters -> [Days -> Nat]]
    BY <2>3
  <2>5. /\ pc \in [Requests -> Steps]
        /\ scope \in [Requests -> SUBSET Counters]
        /\ counts \in [Requests -> BOOLEAN]
    BY DEF Steps
  <2>6. /\ myUsed \in [Requests -> [Counters -> Nat]]
        /\ myStamp \in [Requests -> [Counters -> 0..day]]
        /\ myTotal \in [Requests -> [Counters -> Nat]]
    BY <2>3
  <2> QED
    BY <2>1, <2>2, <2>4, <2>5, <2>6 DEF TypeOK
<1>2. NeverOvercounts
  BY DEF NeverOvercounts
<1>3. Carried
  BY DEF Carried
<1> QED
  BY <1>1, <1>2, <1>3 DEF IInv

\* The elements of the functions, one by one.
LEMMA Elements ==
    ASSUME TypeOK
    PROVE  /\ day \in Nat /\ day >= 1 /\ day <= MaxDay /\ MaxDay \in Nat
           /\ \A k \in Counters :
                /\ total[k] \in Totals /\ total[k] \in Nat /\ used[k] \in Nat
                /\ stamp[k] \in Nat /\ stamp[k] <= day
           /\ \A k \in Counters, d \in Days : spent[k][d] \in Nat /\ best[k][d] \in Nat
           /\ \A r \in Requests, k \in Counters :
                /\ myUsed[r][k] \in Nat /\ myTotal[r][k] \in Nat
                /\ myStamp[r][k] \in Nat /\ myStamp[r][k] <= day
<1> USE ConstantsAssumption DEF TypeOK, Days
<1>1. day \in Nat /\ day >= 1 /\ day <= MaxDay /\ MaxDay \in Nat
  OBVIOUS
<1>2. ASSUME NEW k \in Counters
      PROVE  /\ total[k] \in Totals /\ total[k] \in Nat /\ used[k] \in Nat
             /\ stamp[k] \in Nat /\ stamp[k] <= day
  <2>1. stamp[k] \in 0..day
    OBVIOUS
  <2>2. total[k] \in Totals /\ used[k] \in Nat
    OBVIOUS
  <2>3. total[k] \in Nat
    BY <2>2
  <2>4. stamp[k] \in Nat /\ stamp[k] <= day
    BY <1>1, <2>1
  <2> QED
    BY <2>2, <2>3, <2>4
<1>3. ASSUME NEW k \in Counters, NEW d \in Days
      PROVE  spent[k][d] \in Nat /\ best[k][d] \in Nat
  <2>1. spent[k] \in [Days -> Nat] /\ best[k] \in [Days -> Nat]
    OBVIOUS
  <2> QED
    BY <2>1
<1>4. ASSUME NEW r \in Requests, NEW k \in Counters
      PROVE  /\ myUsed[r][k] \in Nat /\ myTotal[r][k] \in Nat
             /\ myStamp[r][k] \in Nat /\ myStamp[r][k] <= day
  <2>1. /\ myUsed[r] \in [Counters -> Nat] /\ myTotal[r] \in [Counters -> Nat]
        /\ myStamp[r] \in [Counters -> 0..day]
    OBVIOUS
  <2>2. myStamp[r][k] \in 0..day /\ myUsed[r][k] \in Nat /\ myTotal[r][k] \in Nat
    BY <2>1
  <2> QED
    BY <1>1, <2>2
<1> QED
  BY <1>1, <1>2, <1>3, <1>4

\* A request that ends leaves well-typed locals, an empty scope, and the other
\* requests alone.
LEMMA DoneLocals ==
    ASSUME TypeOK, NEW r \in Requests, Done(r)
    PROVE  /\ pc' \in [Requests -> Steps]
           /\ scope' \in [Requests -> SUBSET Counters]
           /\ counts' \in [Requests -> BOOLEAN]
           /\ myUsed' \in [Requests -> [Counters -> Nat]]
           /\ myStamp' \in [Requests -> [Counters -> 0..day]]
           /\ myTotal' \in [Requests -> [Counters -> Nat]]
           /\ scope'[r] = {}
           /\ \A q \in Requests \ {r} :
                /\ pc'[q] = pc[q] /\ scope'[q] = scope[q] /\ counts'[q] = counts[q]
                /\ myUsed'[q] = myUsed[q] /\ myStamp'[q] = myStamp[q]
<1>1. Zeros \in [Counters -> Nat] /\ Zeros \in [Counters -> 0..day]
  BY ConstantsAssumption DEF Zeros, TypeOK, Days
<1>2. /\ pc' \in [Requests -> Steps]
      /\ scope' \in [Requests -> SUBSET Counters]
      /\ counts' \in [Requests -> BOOLEAN]
  BY DEF Done, TypeOK, Steps
<1>3. /\ myUsed' \in [Requests -> [Counters -> Nat]]
      /\ myStamp' \in [Requests -> [Counters -> 0..day]]
      /\ myTotal' \in [Requests -> [Counters -> Nat]]
  BY <1>1 DEF Done, TypeOK
<1>4. scope'[r] = {}
  BY DEF Done, TypeOK
<1>5. \A q \in Requests \ {r} :
        /\ pc'[q] = pc[q] /\ scope'[q] = scope[q] /\ counts'[q] = counts[q]
        /\ myUsed'[q] = myUsed[q] /\ myStamp'[q] = myStamp[q]
  BY DEF Done, TypeOK
<1> QED
  BY <1>2, <1>3, <1>4, <1>5

\* The SELECT carries off what the row holds.
LEMMA SelectIInv ==
    ASSUME IInv, NEW r \in Requests, NEW s \in SUBSET Counters, NEW c \in BOOLEAN,
           Select(r, s, c)
    PROVE  IInv'
<1> USE ConstantsAssumption DEF IInv, Select, row, Days
<1>1. /\ Pick(s, used) \in [Counters -> Nat]
      /\ Pick(s, stamp) \in [Counters -> 0..day]
      /\ Pick(s, total) \in [Counters -> Nat]
  BY Elements DEF Pick
<1>2. TypeOK'
  BY <1>1 DEF TypeOK, Steps
<1>3. NeverOvercounts'
  BY DEF NeverOvercounts
<1>4. Carried'
  BY DEF Carried, Backed, TypeOK, NeverOvercounts, Pick
<1> QED
  BY <1>2, <1>3, <1>4

\* Deciding keeps what is carried backed: a reset starts from zero, and a use
\* is counted one beyond what was read.
LEMMA DecideIInv ==
    ASSUME IInv, NEW r \in Requests, Decide(r)
    PROVE  IInv'
<1> USE ConstantsAssumption DEF IInv, Decide, Prepare, row, Days
<1>1. /\ FreshUsed(r) \in [Counters -> Nat]
      /\ FreshStamp(r) \in [Counters -> 0..day]
      /\ Bump(r, FreshUsed(r)) \in [Counters -> Nat]
  BY DEF FreshUsed, FreshStamp, Bump, Pick, Expired, TypeOK
<1>2. CASE Done(r)
  <2>1. UNCHANGED <<day, total, used, stamp, spent, best>>
    OBVIOUS
  <2>2. TypeOK'
    BY <1>2, <2>1, DoneLocals DEF TypeOK
  <2>3. NeverOvercounts'
    BY <2>1 DEF NeverOvercounts
  <2>4. Carried'
    <3> SUFFICES ASSUME NEW q \in Requests, NEW k \in Counters, k \in scope'[q]
                 PROVE  /\ q # r /\ pc'[q] = pc[q] /\ scope'[q] = scope[q]
                        /\ counts'[q] = counts[q]
                        /\ myUsed'[q] = myUsed[q] /\ myStamp'[q] = myStamp[q]
      BY <2>1 DEF Carried, Backed
    <3> QED
      BY <1>2, DoneLocals
  <2> QED
    BY <2>2, <2>3, <2>4
<1>3. CASE ~Done(r)
  <2>1. /\ pc' = [pc EXCEPT ![r] = "write"]
        /\ myUsed' = [myUsed EXCEPT ![r] = Bump(r, FreshUsed(r))]
        /\ myStamp' = [myStamp EXCEPT ![r] = FreshStamp(r)]
        /\ UNCHANGED <<scope, counts, myTotal, day, total, used, stamp, spent, best>>
        /\ pc[r] = "decide"
    BY <1>3
  <2>2. TypeOK'
    BY <1>1, <2>1 DEF TypeOK, Steps
  <2>3. NeverOvercounts'
    BY <2>1 DEF NeverOvercounts
  <2>4. ASSUME NEW q \in Requests, NEW k \in Counters, k \in scope'[q], pc'[q] = "write"
        PROVE  /\ myStamp'[q][k] \in Days
               /\ ~counts'[q] => Backed(myUsed[q][k], k, myStamp[q][k])'
               /\ counts'[q] => Backed(myUsed[q][k] - 1, k, myStamp[q][k])'
    <3>1. CASE q = r
      <4>1. /\ FreshStamp(r)[k] \in Days
            /\ Backed(FreshUsed(r)[k], k, FreshStamp(r)[k])
        BY <2>1, <2>4, <3>1 DEF FreshUsed, FreshStamp, Pick, Expired, Backed, Carried, TypeOK
      <4>2. Bump(r, FreshUsed(r))[k] = IF counts[r] THEN FreshUsed(r)[k] + 1 ELSE FreshUsed(r)[k]
        BY <2>1, <2>4, <3>1 DEF Bump
      <4>3. FreshUsed(r)[k] \in Nat
        BY <1>1
      <4>4. myUsed'[q] = Bump(r, FreshUsed(r)) /\ myStamp'[q] = FreshStamp(r)
        BY <2>1, <3>1 DEF TypeOK
      <4> QED
        BY <2>1, <3>1, <4>1, <4>2, <4>3, <4>4 DEF Backed
    <3>2. CASE q # r
      BY <2>1, <2>4, <3>2 DEF Carried, Backed, TypeOK
    <3> QED
      BY <3>1, <3>2
  <2>5. ASSUME NEW q \in Requests, NEW k \in Counters, k \in scope'[q], pc'[q] = "decide"
        PROVE  Backed(myUsed[q][k], k, myStamp[q][k])'
    BY <2>1, <2>5 DEF Carried, Backed, TypeOK
  <2>6. Carried'
    BY <2>4, <2>5 DEF Carried
  <2> QED
    BY <2>2, <2>3, <2>6
<1> QED
  BY <1>2, <1>3

\* Writing a recorded use grants it at the same moment, and no use is withdrawn.
LEMMA WriteIInv ==
    ASSUME IInv, NEW r \in Requests, Write(r)
    PROVE  IInv'
<1> USE ConstantsAssumption DEF IInv, Write, Days
<1>1. ASSUME NEW k \in Counters, NEW d \in Days
      PROVE  /\ spent'[k][d] \in Nat /\ spent'[k][d] >= spent[k][d]
             /\ spent'[k][d] =
                    IF counts[r] /\ k \in scope[r] /\ d = myStamp[r][k]
                    THEN spent[k][d] + 1 ELSE spent[k][d]
  <2>1. spent[k][d] \in Nat
    BY Elements
  <2>2. spent'[k][d] =
            IF counts[r] /\ k \in scope[r] /\ d = myStamp[r][k]
            THEN spent[k][d] + 1 ELSE spent[k][d]
    OBVIOUS
  <2> QED
    BY <2>1, <2>2
<1>2. TypeOK'
  <2>1. used' \in [Counters -> Nat] /\ stamp' \in [Counters -> 0..day']
    BY Elements
  <2>2. spent' \in [Counters -> [Days -> Nat]]
    BY Elements
  <2> QED
    BY <2>1, <2>2, DoneLocals DEF TypeOK
<1>3. NeverOvercounts'
  <2> SUFFICES ASSUME NEW k \in Counters
               PROVE  used'[k] <= IF stamp'[k] = 0 THEN 0 ELSE spent'[k][stamp'[k]]
    BY DEF NeverOvercounts
  <2>1. CASE k \in scope[r] /\ counts[r]
    <3>0. /\ myStamp[r][k] \in Days
          /\ Backed(myUsed[r][k] - 1, k, myStamp[r][k])
      BY <2>1 DEF Carried
    <3>1. /\ myStamp[r][k] \in Days /\ myUsed[r][k] \in Nat
          /\ myUsed[r][k] - 1 <= spent[k][myStamp[r][k]]
      BY <3>0, Elements DEF Backed
    <3>2. spent'[k][myStamp[r][k]] = spent[k][myStamp[r][k]] + 1
      BY <1>1, <2>1, <3>1
    <3>3. spent[k][myStamp[r][k]] \in Nat
      BY <3>1, Elements
    <3>4. used'[k] = myUsed[r][k] /\ stamp'[k] = myStamp[r][k]
      BY <2>1
    <3> QED
      BY <3>1, <3>2, <3>3, <3>4
  <2>2. CASE k \in scope[r] /\ ~counts[r]
    <3>1. /\ myStamp[r][k] \in Days /\ myUsed[r][k] \in Nat
          /\ myUsed[r][k] <= spent[k][myStamp[r][k]]
      BY <2>2, Elements DEF Carried, Backed
    <3>2. used'[k] = myUsed[r][k] /\ stamp'[k] = myStamp[r][k]
      BY <2>2
    <3> QED
      BY <1>1, <3>1, <3>2, Elements
  <2>3. CASE k \notin scope[r]
    <3>1. used'[k] = used[k] /\ stamp'[k] = stamp[k] /\ stamp[k] \in 0..day /\ used[k] \in Nat
      BY <2>3 DEF TypeOK
    <3>2. used[k] <= IF stamp[k] = 0 THEN 0 ELSE spent[k][stamp[k]]
      BY DEF NeverOvercounts
    <3>3. stamp[k] # 0 => stamp[k] \in Days /\ spent[k][stamp[k]] \in Nat
      BY <3>1 DEF TypeOK
    <3> QED
      BY <1>1, <3>1, <3>2, <3>3
  <2> QED
    BY <2>1, <2>2, <2>3
<1>4. Carried'
  <2> SUFFICES ASSUME NEW q \in Requests, NEW k \in Counters, k \in scope'[q]
               PROVE  /\ pc'[q] = "decide" => Backed(myUsed[q][k], k, myStamp[q][k])'
                      /\ pc'[q] = "write" =>
                          /\ myStamp'[q][k] \in Days
                          /\ ~counts'[q] => Backed(myUsed[q][k], k, myStamp[q][k])'
                          /\ counts'[q] => Backed(myUsed[q][k] - 1, k, myStamp[q][k])'
    BY DEF Carried
  <2>1. q # r
    BY DoneLocals
  <2>2. /\ pc'[q] = pc[q] /\ counts'[q] = counts[q] /\ scope'[q] = scope[q]
        /\ myUsed'[q] = myUsed[q] /\ myStamp'[q] = myStamp[q]
    BY <2>1, DoneLocals
  <2>3. myStamp[q][k] \in 0..day /\ day \in Days /\ myUsed[q][k] \in Nat
    BY DEF TypeOK
  <2>4. ASSUME myStamp[q][k] # 0
        PROVE  /\ myStamp[q][k] \in Days
               /\ spent[k][myStamp[q][k]] \in Nat /\ spent'[k][myStamp[q][k]] \in Nat
               /\ spent'[k][myStamp[q][k]] >= spent[k][myStamp[q][k]]
    <3>1. myStamp[q][k] \in Days
      BY <2>4, Elements
    <3>2. spent[k][myStamp[q][k]] \in Nat
      BY <3>1, Elements
    <3> QED
      BY <1>1, <3>1, <3>2
  <2>5. /\ pc[q] = "decide" => Backed(myUsed[q][k], k, myStamp[q][k])
        /\ pc[q] = "write" =>
            /\ myStamp[q][k] \in Days
            /\ ~counts[q] => Backed(myUsed[q][k], k, myStamp[q][k])
            /\ counts[q] => Backed(myUsed[q][k] - 1, k, myStamp[q][k])
    BY <2>2 DEF Carried
  <2> QED
    BY <2>2, <2>3, <2>4, <2>5 DEF Backed
<1> QED
  BY <1>2, <1>3, <1>4

\* Giving up, a new total and midnight leave counters and grants alone.
LEMMA OtherIInv ==
    ASSUME IInv,
           \/ \E r \in Requests : Abort(r)
           \/ \E k \in Counters, t \in Totals : Change(k, t)
           \/ Midnight
           \/ UNCHANGED vars
    PROVE  IInv'
<1> USE ConstantsAssumption DEF IInv, row, locals, Days
<1>1. ASSUME NEW r \in Requests, Abort(r) PROVE IInv'
  <2>1. Done(r) /\ UNCHANGED <<day, total, used, stamp, spent, best>>
    BY <1>1 DEF Abort
  <2>2. TypeOK'
    BY <2>1, DoneLocals DEF TypeOK
  <2>3. NeverOvercounts'
    BY <2>1 DEF NeverOvercounts
  <2>4. Carried'
    <3> SUFFICES ASSUME NEW q \in Requests, NEW k \in Counters, k \in scope'[q]
                 PROVE  /\ q # r /\ pc'[q] = pc[q] /\ scope'[q] = scope[q]
                        /\ counts'[q] = counts[q]
                        /\ myUsed'[q] = myUsed[q] /\ myStamp'[q] = myStamp[q]
      BY <2>1 DEF Carried, Backed
    <3> QED
      BY <2>1, DoneLocals
  <2> QED
    BY <2>2, <2>3, <2>4
<1>2. ASSUME NEW k \in Counters, NEW t \in Totals, Change(k, t) PROVE IInv'
  <2>1. TypeOK'
    BY <1>2 DEF Change, TypeOK
  <2> QED
    BY <1>2, <2>1 DEF Change, NeverOvercounts, Carried, Backed
<1>3. CASE Midnight
  <2>1. day' \in Days /\ 0..day \subseteq 0..day'
    BY <1>3 DEF Midnight, TypeOK
  <2>2. best' \in [Counters -> [Days -> Nat]]
    BY <1>3 DEF Midnight, TypeOK
  <2>3. TypeOK'
    BY <1>3, <2>1, <2>2 DEF Midnight, TypeOK
  <2> QED
    BY <1>3, <2>3 DEF Midnight, NeverOvercounts, Carried, Backed
<1>4. CASE UNCHANGED vars
  BY <1>4 DEF vars, TypeOK, NeverOvercounts, Carried, Backed
<1> QED
  BY <1>1, <1>2, <1>3, <1>4

\* Every step, overlapping or not, keeps the inductive invariant.
LEMMA NextIInv == IInv /\ [Next]_vars => IInv'
<1> SUFFICES ASSUME IInv, [Next]_vars PROVE IInv'
  OBVIOUS
<1>1. ASSUME NEW r \in Requests, Arrive(r) PROVE IInv'
  <2>1. CASE Record(r)
    BY <2>1, SelectIInv DEF Record
  <2>2. CASE Status(r)
    BY <2>2, SelectIInv DEF Status, StatusScopes
  <2> QED
    BY <1>1, <2>1, <2>2 DEF Arrive
<1>2. ASSUME NEW r \in Requests, Serve(r) PROVE IInv'
  BY <1>2, DecideIInv, WriteIInv DEF Serve
<1> QED
  BY <1>1, <1>2, OtherIInv DEF Next

\* The inductive invariant holds of every reachable state.
LEMMA InvariantIInv == Spec => []IInv
  BY InitIInv, NextIInv, PTL DEF Spec

-----------------------------------------------------------------------------
\* Every variable keeps its type; no date lies in the future.
THEOREM TypeCorrect == Spec => []TypeOK
  BY InvariantIInv, PTL DEF IInv

\* No counter ever exceeds the uses granted on its day.
THEOREM CountersAreBacked == Spec => []NeverOvercounts
  BY InvariantIInv, PTL DEF IInv

-----------------------------------------------------------------------------
(* One request at a time. *)

\* The counter is exactly what was granted on its day, and nothing was granted
\* on a later one.
Exact ==
    \A k \in Counters :
        /\ stamp[k] = 0 => used[k] = 0
        /\ stamp[k] # 0 => used[k] = spent[k][stamp[k]]
        /\ \A d \in Days : d > stamp[k] => spent[k][d] = 0

InForce == \A k \in Counters : total[k] <= best[k][day]

Busy(r) == pc[r] \in {"decide", "write"}

Alone == \A r, q \in Requests : Busy(r) /\ Busy(q) => r = q

RecordsOne == \A r \in Requests : counts[r] => \E k \in Counters : scope[r] = {k}

\* What the request under way read is still what the row holds, and what it is
\* going to write is exact and within the quota.
Current(r, k) ==
    /\ myTotal[r][k] = total[k]
    /\ pc[r] = "decide" => myUsed[r][k] = used[k] /\ myStamp[r][k] = stamp[k]
    /\ pc[r] = "write" =>
        /\ myStamp[r][k] \in Days
        /\ myStamp[r][k] >= stamp[k]
        /\ ~counts[r] => myUsed[r][k] = spent[k][myStamp[r][k]]
        /\ counts[r] =>
            /\ myUsed[r][k] = spent[k][myStamp[r][k]] + 1
            /\ myUsed[r][k] <= total[k]
            /\ myUsed[r][k] <= best[k][myStamp[r][k]]

Held == \A r \in Requests, k \in Counters : Busy(r) /\ k \in scope[r] => Current(r, k)

SerialInv == QuotaHolds /\ Exact /\ InForce /\ Alone /\ RecordsOne /\ Held

\* A new row is exact: nothing counted, nothing granted.
LEMMA InitSerial == Init => SerialInv
<1> SUFFICES ASSUME Init PROVE SerialInv
  OBVIOUS
<1> USE ConstantsAssumption DEF Init, Zeros, Days
<1>1. \A k \in Counters : total[k] \in Nat
  OBVIOUS
<1>2. QuotaHolds
  BY <1>1 DEF QuotaHolds
<1>3. Exact /\ InForce
  BY <1>1 DEF Exact, InForce
<1>4. Alone /\ RecordsOne /\ Held
  BY DEF Alone, RecordsOne, Held, Busy
<1> QED
  BY <1>2, <1>3, <1>4 DEF SerialInv

\* Nobody is busy when a request arrives, so it holds the row as it is.
LEMMA SelectSerial ==
    ASSUME IInv, SerialInv, Quiet,
           NEW r \in Requests, NEW s \in SUBSET Counters, NEW c \in BOOLEAN,
           c => \E k \in Counters : s = {k},
           Select(r, s, c)
    PROVE  SerialInv'
<1> USE DEF IInv, SerialInv, Select, row
<1>1. /\ pc' = [pc EXCEPT ![r] = "decide"]
      /\ scope' = [scope EXCEPT ![r] = s]
      /\ counts' = [counts EXCEPT ![r] = c]
      /\ pc \in [Requests -> Steps] /\ scope \in [Requests -> SUBSET Counters]
      /\ counts \in [Requests -> BOOLEAN]
  BY DEF TypeOK
<1>2. QuotaHolds' /\ Exact' /\ InForce'
  BY DEF QuotaHolds, Exact, InForce
<1>3. \A q \in Requests : Busy(q)' => q = r
  BY <1>1 DEF Quiet, Busy
<1>4. Alone'
  BY <1>3 DEF Alone
<1>5. RecordsOne'
  BY <1>1 DEF RecordsOne
<1>6. Held'
  <2> SUFFICES ASSUME NEW k \in Counters, k \in s
               PROVE  Current(r, k)'
    BY <1>1, <1>3 DEF Held
  <2>1. pc'[r] = "decide"
    BY <1>1
  <2>2. /\ myTotal'[r][k] = total[k] /\ myUsed'[r][k] = used[k]
        /\ myStamp'[r][k] = stamp[k]
    BY DEF TypeOK, Pick
  <2> QED
    BY <2>1, <2>2 DEF Current
<1> QED
  BY <1>2, <1>4, <1>5, <1>6

\* A request that ends without touching the row.
LEMMA DoneSerial ==
    ASSUME IInv, SerialInv, NEW r \in Requests, Done(r),
           UNCHANGED <<day, total, row, spent, best>>
    PROVE  SerialInv'
<1> USE DEF IInv, SerialInv, row
<1>1. QuotaHolds' /\ Exact' /\ InForce'
  BY DEF QuotaHolds, Exact, InForce
<1>2. pc'[r] = "done" /\ counts'[r] = FALSE
  BY DEF Done, TypeOK
<1>3. \A q \in Requests \ {r} :
        /\ pc'[q] = pc[q] /\ scope'[q] = scope[q] /\ counts'[q] = counts[q]
        /\ myUsed'[q] = myUsed[q] /\ myStamp'[q] = myStamp[q] /\ myTotal'[q] = myTotal[q]
  BY DEF Done, TypeOK
<1>4. Alone'
  BY <1>2, <1>3 DEF Alone, Busy
<1>5. RecordsOne'
  BY <1>2, <1>3 DEF RecordsOne
<1>6. Held'
  <2> SUFFICES ASSUME NEW q \in Requests, NEW k \in Counters, Busy(q)', k \in scope'[q]
               PROVE  Current(q, k)'
    BY DEF Held
  <2>1. q # r
    BY <1>2 DEF Busy
  <2>2. Current(q, k)
    BY <1>3, <2>1 DEF Held, Busy
  <2> QED
    BY <1>3, <2>1, <2>2 DEF Current
<1> QED
  BY <1>1, <1>4, <1>5, <1>6

\* A date that is not in the past is today's, so what is about to be written
\* for today continues from what was granted today.
LEMMA DecideSerial ==
    ASSUME IInv, SerialInv, NEW r \in Requests, Decide(r)
    PROVE  SerialInv'
<1> USE DEF IInv, SerialInv, Decide, Prepare
<1>1. CASE Done(r)
  BY <1>1, DoneSerial
<1>2. CASE ~Done(r)
  <2>1. /\ pc' = [pc EXCEPT ![r] = "write"]
        /\ myUsed' = [myUsed EXCEPT ![r] = Bump(r, FreshUsed(r))]
        /\ myStamp' = [myStamp EXCEPT ![r] = FreshStamp(r)]
        /\ UNCHANGED <<scope, counts, myTotal, day, total, used, stamp, spent, best>>
        /\ pc[r] = "decide" /\ MustWrite(r)
    BY <1>2 DEF row
  <2>2. QuotaHolds' /\ Exact' /\ InForce' /\ RecordsOne'
    BY <2>1 DEF QuotaHolds, Exact, InForce, RecordsOne
  <2>3. \A q \in Requests : Busy(q)' => Busy(q)
    BY <2>1 DEF Busy, TypeOK
  <2>4. Alone'
    BY <2>3 DEF Alone
  <2>5. Busy(r) /\ \A q \in Requests : Busy(q)' => q = r
    BY <2>1, <2>3 DEF Alone, Busy
  <2>6. ASSUME NEW k \in Counters, k \in scope[r]
        PROVE  Current(r, k)'
    <3>1. Current(r, k) /\ myUsed[r][k] = used[k] /\ myStamp[r][k] = stamp[k]
      BY <2>1, <2>5, <2>6 DEF Held, Current
    <3>2. /\ stamp[k] \in Nat /\ stamp[k] <= day /\ used[k] \in Nat /\ day \in Nat
          /\ day \in Days /\ total[k] \in Nat
          /\ spent[k][day] \in Nat /\ best[k][day] \in Nat
      BY <2>6, Elements DEF TypeOK
    <3>3. FreshStamp(r)[k] = day
      BY <2>6, <3>1, <3>2 DEF FreshStamp, Pick, Expired
    <3>4. FreshUsed(r)[k] = spent[k][day]
      <4>1. CASE stamp[k] < day
        BY <3>1, <3>2, <4>1 DEF FreshUsed, Expired, Exact
      <4>2. CASE stamp[k] = day
        <5>1. FreshUsed(r)[k] = used[k]
          BY <3>1, <3>2, <4>2 DEF FreshUsed, Expired
        <5>2. stamp[k] # 0
          BY <4>2, Elements
        <5> QED
          BY <4>2, <5>1, <5>2 DEF Exact
      <4> QED
        BY <3>2, <4>1, <4>2
    <3>5. counts[r] => FreshUsed(r)[k] < total[k]
      BY <2>1, <2>6, <3>1 DEF MustWrite, HasRoom, Current
    <3>6. total[k] <= best[k][day]
      BY DEF InForce
    <3>7. /\ pc'[r] = "write" /\ myStamp'[r][k] = day
          /\ myUsed'[r][k] = IF counts[r] THEN FreshUsed(r)[k] + 1 ELSE FreshUsed(r)[k]
      BY <2>1, <2>6, <3>3 DEF TypeOK, Bump
    <3> QED
      BY <2>1, <3>1, <3>2, <3>4, <3>5, <3>6, <3>7 DEF Current
  <2>7. Held'
    BY <2>1, <2>5, <2>6 DEF Held
  <2> QED
    BY <2>2, <2>4, <2>7
<1> QED
  BY <1>1, <1>2

\* What the UPDATE of the request under way does to one counter.
LEMMA WriteEffect ==
    ASSUME IInv, SerialInv, NEW r \in Requests, Write(r), NEW k \in Counters
    PROVE  /\ k \in scope[r] =>
                /\ Current(r, k)
                /\ myStamp[r][k] \in Days /\ myUsed[r][k] \in Nat
                /\ used'[k] = myUsed[r][k] /\ stamp'[k] = myStamp[r][k]
                /\ spent'[k][myStamp[r][k]] = myUsed[r][k]
           /\ k \notin scope[r] => used'[k] = used[k] /\ stamp'[k] = stamp[k]
           /\ \A d \in Days : ~(k \in scope[r] /\ d = myStamp[r][k]) => spent'[k][d] = spent[k][d]
<1> USE DEF IInv, SerialInv, Write
<1>1. Busy(r) /\ pc[r] = "write"
  BY DEF Busy
<1>2. \A d \in Days :
        spent'[k][d] = IF counts[r] /\ k \in scope[r] /\ d = myStamp[r][k]
                       THEN spent[k][d] + 1 ELSE spent[k][d]
  OBVIOUS
<1>3. ASSUME k \in scope[r]
      PROVE  /\ Current(r, k)
             /\ myStamp[r][k] \in Days /\ myUsed[r][k] \in Nat
             /\ used'[k] = myUsed[r][k] /\ stamp'[k] = myStamp[r][k]
             /\ spent'[k][myStamp[r][k]] = myUsed[r][k]
  <2>1. Current(r, k)
    BY <1>1, <1>3 DEF Held
  <2>2. myStamp[r][k] \in Days /\ myUsed[r][k] \in Nat
    BY <1>1, <2>1, Elements DEF Current
  <2>3. used'[k] = myUsed[r][k] /\ stamp'[k] = myStamp[r][k]
    BY <1>3
  <2>4. CASE counts[r]
    BY <1>1, <1>2, <1>3, <2>1, <2>2, <2>3, <2>4 DEF Current
  <2>5. CASE ~counts[r]
    BY <1>1, <1>2, <1>3, <2>1, <2>2, <2>3, <2>5 DEF Current
  <2> QED
    BY <2>4, <2>5 DEF TypeOK
<1>4. k \notin scope[r] => used'[k] = used[k] /\ stamp'[k] = stamp[k]
  OBVIOUS
<1> QED
  BY <1>2, <1>3, <1>4

\* The UPDATE stores what was granted and grants no more than was in force.
LEMMA WriteSerial ==
    ASSUME IInv, SerialInv, NEW r \in Requests, Write(r)
    PROVE  SerialInv'
<1> USE DEF IInv, SerialInv
<1>1. UNCHANGED <<day, total, best>> /\ Done(r) /\ pc[r] = "write"
  BY DEF Write
<1>2. Busy(r) /\ \A q \in Requests : Busy(q) => q = r
  BY <1>1 DEF Busy, Alone
<1>3. pc'[r] = "done" /\ counts'[r] = FALSE
  BY <1>1 DEF Done, TypeOK
<1>4. \A q \in Requests : ~Busy(q)'
  <2> SUFFICES ASSUME NEW q \in Requests PROVE ~Busy(q)'
    OBVIOUS
  <2>1. CASE q = r
    BY <1>3, <2>1 DEF Busy
  <2>2. CASE q # r
    BY <1>1, <1>2, <2>2, DoneLocals DEF Busy
  <2> QED
    BY <2>1, <2>2
<1>5. Alone' /\ Held'
  BY <1>4 DEF Alone, Held
<1>6. RecordsOne'
  <2> SUFFICES ASSUME NEW q \in Requests, counts'[q]
               PROVE  \E k \in Counters : scope'[q] = {k}
    BY DEF RecordsOne
  <2>1. counts'[q] = counts[q] /\ scope'[q] = scope[q]
    BY <1>1, <1>3, DoneLocals
  <2> QED
    BY <2>1 DEF RecordsOne
<1>7. InForce'
  BY <1>1 DEF InForce
<1>8. Exact'
  <2> SUFFICES ASSUME NEW k \in Counters
               PROVE  /\ stamp'[k] = 0 => used'[k] = 0
                      /\ stamp'[k] # 0 => used'[k] = spent'[k][stamp'[k]]
                      /\ \A d \in Days : d > stamp'[k] => spent'[k][d] = 0
    BY DEF Exact
  <2>1. CASE k \in scope[r]
    <3>1. myStamp[r][k] >= stamp[k] /\ stamp[k] \in Nat
      BY <1>1, <2>1, WriteEffect, Elements DEF Current
    <3> QED
      BY <2>1, <3>1, WriteEffect DEF Exact, Days
  <2>2. CASE k \notin scope[r]
    <3>1. stamp[k] # 0 => stamp[k] \in Days
      BY Elements DEF Days
    <3> QED
      BY <2>2, <3>1, WriteEffect DEF Exact
  <2> QED
    BY <2>1, <2>2
<1>9. QuotaHolds'
  <2> SUFFICES ASSUME NEW k \in Counters, NEW d \in Days
               PROVE  spent'[k][d] <= best[k][d]
    BY <1>1 DEF QuotaHolds
  <2>1. spent[k][d] <= best[k][d]
    BY DEF QuotaHolds
  <2>2. CASE k \in scope[r] /\ d = myStamp[r][k]
    <3>1. /\ Current(r, k) /\ spent'[k][d] = myUsed[r][k]
      BY <2>2, WriteEffect
    <3>2. counts[r] => myUsed[r][k] <= best[k][d]
      BY <1>1, <2>2, <3>1 DEF Current
    <3>3. ~counts[r] => myUsed[r][k] = spent[k][d]
      BY <1>1, <2>2, <3>1 DEF Current
    <3> QED
      BY <2>1, <3>1, <3>2, <3>3
  <2>3. CASE ~(k \in scope[r] /\ d = myStamp[r][k])
    BY <2>1, <2>3, WriteEffect
  <2> QED
    BY <2>2, <2>3
<1> QED
  BY <1>5, <1>6, <1>7, <1>8, <1>9

\* New totals come only when nobody has read the old ones; midnight opens a day
\* on which nothing has been granted.
LEMMA EnvironmentSerial ==
    ASSUME IInv, SerialInv,
           \/ Quiet /\ \E k \in Counters, t \in Totals : Change(k, t)
           \/ Midnight
           \/ UNCHANGED vars
    PROVE  SerialInv'
<1> USE DEF IInv, SerialInv, row, locals
<1>1. UNCHANGED <<row, pc, locals, spent>>
  BY DEF Change, Midnight, vars
<1>2. Exact' /\ Alone' /\ RecordsOne'
  BY <1>1 DEF Exact, Alone, RecordsOne, Busy
<1>3. ASSUME Quiet, NEW c \in Counters, NEW t \in Totals, Change(c, t)
      PROVE  SerialInv'
  <2>1. \A r \in Requests : ~Busy(r)'
    BY <1>1, <1>3 DEF Quiet, Busy
  <2>2. \A k \in Counters, d \in Days :
            best'[k][d] = IF k = c /\ d = day /\ t > best[k][d] THEN t ELSE best[k][d]
    <3>1. day \in Days /\ best \in [Counters -> [Days -> Nat]] /\ t \in Nat
      BY ConstantsAssumption DEF TypeOK
    <3>2. best' = [best EXCEPT ![c] = [best[c] EXCEPT ![day] = IF t > best[c][day] THEN t ELSE best[c][day]]]
      BY <1>3, <3>1 DEF Change
    <3> QED
      BY <1>3, <3>1, <3>2
  <2>3. t \in Nat /\ total' = [total EXCEPT ![c] = t] /\ day' = day /\ total \in [Counters -> Totals]
    BY <1>3, ConstantsAssumption DEF Change, TypeOK
  <2>4. \A k \in Counters, d \in Days : best'[k][d] >= best[k][d]
    BY <2>2, <2>3, Elements
  <2>5. QuotaHolds'
    <3> SUFFICES ASSUME NEW k \in Counters, NEW d \in Days
                 PROVE  spent[k][d] <= best'[k][d]
      BY <1>1 DEF QuotaHolds
    <3>1. /\ spent[k][d] <= best[k][d] /\ spent[k][d] \in Nat /\ best[k][d] \in Nat
      BY Elements DEF QuotaHolds
    <3> QED
      BY <2>2, <2>3, <3>1
  <2>6. InForce'
    <3> SUFFICES ASSUME NEW k \in Counters
                 PROVE  total'[k] <= best'[k][day]
      BY <2>3 DEF InForce
    <3>1. total[k] <= best[k][day] /\ day \in Days /\ best[k][day] \in Nat /\ total[k] \in Nat
      BY Elements DEF InForce, TypeOK
    <3> QED
      BY <2>2, <2>3, <3>1
  <2>7. Held'
    BY <2>1 DEF Held
  <2> QED
    BY <1>2, <2>5, <2>6, <2>7
<1>4. CASE Midnight
  <2>1. day \in Nat /\ day' = day + 1 /\ day' \in Days /\ total' = total
    BY <1>4, Elements DEF Midnight, Days
  <2>2. \A k \in Counters, d \in Days :
            best'[k][d] = IF d = day' THEN total[k] ELSE best[k][d]
    BY <1>4, <2>1 DEF Midnight, TypeOK
  <2>3. \A k \in Counters : stamp[k] < day' /\ spent[k][day'] = 0 /\ total[k] \in Nat
    BY <2>1, Elements DEF Exact
  <2>4. QuotaHolds'
    BY <1>1, <2>1, <2>2, <2>3 DEF QuotaHolds
  <2>5. InForce'
    <3> SUFFICES ASSUME NEW k \in Counters
                 PROVE  total'[k] <= best'[k][day']
      BY DEF InForce
    <3> QED
      BY <2>1, <2>2, <2>3
  <2>6. Held'
    <3> SUFFICES ASSUME NEW r \in Requests, NEW k \in Counters, Busy(r), k \in scope[r]
                 PROVE  Current(r, k)'
      BY <1>1 DEF Held, Busy
    <3>1. Current(r, k)
      BY DEF Held
    <3>2. pc[r] = "write" => myStamp[r][k] # day'
      BY <2>1, Elements
    <3> QED
      BY <1>1, <2>1, <2>2, <3>1, <3>2 DEF Current
  <2> QED
    BY <1>2, <2>4, <2>5, <2>6
<1>5. CASE UNCHANGED vars
  <2>1. QuotaHolds' /\ InForce'
    BY <1>5 DEF vars, QuotaHolds, InForce
  <2>2. Held'
    BY <1>5 DEF vars, Held, Busy, Current
  <2> QED
    BY <1>2, <2>1, <2>2
<1> QED
  BY <1>3, <1>4, <1>5

\* Every serial step keeps both invariants.
LEMMA SerialStep == IInv /\ SerialInv /\ [SerialNext]_vars => IInv' /\ SerialInv'
<1> SUFFICES ASSUME IInv, SerialInv, [SerialNext]_vars PROVE IInv' /\ SerialInv'
  OBVIOUS
<1>1. IInv'
  BY NextIInv DEF SerialNext, Next
<1>2. ASSUME NEW r \in Requests, Quiet, Arrive(r) PROVE SerialInv'
  <2>1. CASE Record(r)
    BY <1>2, <2>1, SelectSerial DEF Record
  <2>2. CASE Status(r)
    BY <1>2, <2>2, SelectSerial DEF Status, StatusScopes
  <2> QED
    BY <1>2, <2>1, <2>2 DEF Arrive
<1>3. ASSUME NEW r \in Requests, Serve(r) PROVE SerialInv'
  BY <1>3, DecideSerial, WriteSerial DEF Serve
<1>4. ASSUME NEW r \in Requests, Abort(r) PROVE SerialInv'
  BY <1>4, DoneSerial DEF Abort
<1> QED
  BY <1>1, <1>2, <1>3, <1>4, EnvironmentSerial DEF SerialNext

\* Both invariants hold of every state the serial system reaches.
LEMMA SerialInvariant == SerialSpec => [](IInv /\ SerialInv)
<1>1. Init => IInv /\ SerialInv
  BY InitIInv, InitSerial
<1> QED
  BY <1>1, SerialStep, PTL DEF SerialSpec

\* Served one at a time, no day sees more uses than its best total.
THEOREM SerialQuotaHolds == SerialSpec => []QuotaHolds
  BY SerialInvariant, PTL DEF SerialInv

-----------------------------------------------------------------------------
(* The daily allowance is implemented. *)

Count == [k \in Counters |-> IF stamp[k] < day THEN 0 ELSE used[k]]

\* A step of a request is a use of its counter or nothing at all.
LEMMA WriteImplements ==
    ASSUME IInv, SerialInv, NEW r \in Requests, Write(r)
    PROVE  [Quota!Next]_(Quota!vars)
<1> USE DEF IInv, SerialInv
<1>1. /\ UNCHANGED <<day, total>> /\ pc[r] = "write"
      /\ day \in Nat /\ day \in Days
  BY Elements DEF Write, TypeOK
<1>2. \A k \in Counters :
        /\ stamp[k] \in Nat /\ stamp[k] <= day /\ used[k] \in Nat
        /\ myStamp[r][k] \in Nat /\ myStamp[r][k] <= day
        /\ Count[k] = spent[k][day]
  BY <1>1, Elements DEF Count, Exact
<1>3. ASSUME NEW k \in Counters, k \notin scope[r] \/ myStamp[r][k] < day \/ ~counts[r]
      PROVE  Count'[k] = Count[k]
  <2>1. CASE k \notin scope[r]
    BY <1>1, <2>1, WriteEffect DEF Count
  <2>2. CASE k \in scope[r] /\ myStamp[r][k] < day
    <3>1. stamp[k] < day
      BY <1>1, <1>2, <2>2, WriteEffect DEF Current
    <3> QED
      BY <1>1, <1>2, <2>2, <3>1, WriteEffect DEF Count
  <2>3. CASE k \in scope[r] /\ myStamp[r][k] = day /\ ~counts[r]
    BY <1>1, <1>2, <2>3, WriteEffect DEF Count, Current
  <2>4. myStamp[r][k] < day \/ myStamp[r][k] = day
    BY <1>1, <1>2
  <2> QED
    BY <1>3, <2>1, <2>2, <2>3, <2>4
<1>4. CASE counts[r] /\ \E k \in scope[r] : myStamp[r][k] = day
  <2>1. PICK k \in Counters : scope[r] = {k} /\ myStamp[r][k] = day
    BY <1>4 DEF RecordsOne
  <2>2. Current(r, k) /\ used'[k] = myUsed[r][k] /\ stamp'[k] = day
    BY <2>1, WriteEffect
  <2>3. myUsed[r][k] = Count[k] + 1 /\ myUsed[r][k] <= total[k]
    BY <1>1, <1>2, <1>4, <2>1, <2>2 DEF Current
  <2>4. Count'[k] = Count[k] + 1 /\ Count[k] < total[k]
    <3>1. Count'[k] = myUsed[r][k]
      BY <1>1, <2>2 DEF Count
    <3>2. Count[k] \in Nat /\ total[k] \in Nat
      BY <1>1, <1>2, Elements
    <3> QED
      BY <2>3, <3>1, <3>2
  <2>5. \A j \in Counters : j # k => Count'[j] = Count[j]
    BY <1>3, <2>1
  <2>6. Count' = [Count EXCEPT ![k] = @ + 1]
    BY <2>4, <2>5 DEF Count
  <2>7. Quota!Use(k)
    BY <1>1, <2>4, <2>6 DEF Quota!Use, Count
  <2> QED
    BY <2>7 DEF Quota!Next
<1>5. CASE ~(counts[r] /\ \E k \in scope[r] : myStamp[r][k] = day)
  <2>1. \A k \in Counters : Count'[k] = Count[k]
    <3> SUFFICES ASSUME NEW k \in Counters PROVE Count'[k] = Count[k]
      OBVIOUS
    <3>0. myStamp[r][k] < day \/ myStamp[r][k] = day
      BY <1>1, <1>2
    <3>1. k \notin scope[r] \/ myStamp[r][k] < day \/ ~counts[r]
      BY <1>5, <3>0
    <3> QED
      BY <1>3, <3>1
  <2>2. Count' = Count
    BY <2>1 DEF Count
  <2> QED
    BY <1>1, <2>2 DEF Quota!vars, Count
<1> QED
  BY <1>4, <1>5

\* Every step of the serial system is a step of the contract or a stutter.
LEMMA StepImplements ==
    IInv /\ SerialInv /\ [SerialNext]_vars => [Quota!Next]_(Quota!vars)
<1> SUFFICES ASSUME IInv, SerialInv, [SerialNext]_vars
             PROVE  [Quota!Next]_(Quota!vars)
  OBVIOUS
<1>1. CASE UNCHANGED <<day, total, used, stamp>>
  BY <1>1 DEF Quota!vars
<1>2. ASSUME NEW r \in Requests, Write(r) PROVE [Quota!Next]_(Quota!vars)
  BY <1>2, WriteImplements
<1>3. ASSUME NEW k \in Counters, NEW t \in Totals, Change(k, t)
      PROVE  [Quota!Next]_(Quota!vars)
  BY <1>3 DEF Change, row, Quota!Next, Quota!Change
<1>4. CASE Midnight
  <2>1. \A k \in Counters : stamp'[k] < day'
    BY <1>4, Elements DEF Midnight, row, IInv
  <2>2. [k \in Counters |-> IF stamp'[k] < day' THEN 0 ELSE used'[k]] = [k \in Counters |-> 0]
    BY <2>1
  <2> QED
    BY <1>4, <2>2 DEF Midnight, Quota!Next, Quota!Midnight
<1>5. ASSUME NEW r \in Requests, Arrive(r) \/ Decide(r) \/ Abort(r)
      PROVE  UNCHANGED <<day, total, used, stamp>>
  BY <1>5 DEF Arrive, Record, Status, Select, Decide, Prepare, Abort, row
<1> QED
  BY <1>1, <1>2, <1>3, <1>4, <1>5 DEF SerialNext, Serve, vars, row

\* One request at a time, the rows implement a daily allowance.
THEOREM SerialImplementsQuota == SerialSpec => ImplementsQuota
<1>1. Init => Quota!Init
  BY DEF Init, Zeros, Quota!Init
<1> QED
  BY <1>1, SerialInvariant, StepImplements, PTL DEF SerialSpec, ImplementsQuota, Quota!Spec

=============================================================================
