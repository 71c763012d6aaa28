-------------------------- MODULE MatchSession_proofs --------------------------
(***************************************************************************)
(* Proofs about MatchSession for any number of overlapping updates and any *)
(* length of the queue: the locks exclude and are not leaked, and screen,  *)
(* queue and reply keyboard agree.                                         *)
(***************************************************************************)
EXTENDS MatchSession, TLAPS

\* The steps of each kind of handler.
Middle  == {"lock", "locking", "check", "decide", "read"}
Closing == {"show", "send", "drop"}
Path(k) ==
    CASE k = "none"    -> {"idle"}
      [] k = "find"    -> {"lock", "locking", "reset", "forget", "fetch", "write", "release"} \cup Closing
      [] k = "act"     -> Middle \cup {"remember", "prompt", "write", "release"} \cup Closing
      [] k = "reply"   -> {"pick"} \cup Middle \cup {"remember", "prompt", "write", "release"} \cup Closing
      [] k = "undo"    -> Middle \cup {"write", "forget", "release"} \cup Closing
      [] k = "letter"  -> Middle \cup {"write", "release"} \cup Closing
      [] k = "block"   -> Middle \cup {"reset", "release"} \cup Closing
      [] k = "dismiss" -> {"check", "forget", "read", "write"} \cup Closing

\* Where handlers are, and what they carry there.
Paths == \A u \in Updates : pc[u] \in Path(kind[u])
Carried ==
    \A u \in Updates :
        /\ pc[u] \in {"remember", "prompt", "write"} => kind[u] = "find" \/ mine[u] # NoQueue
        /\ pc[u] = "write" /\ kind[u] = "undo" => mine[u].index > 0
        /\ pc[u] = "send" => HasCard(mine[u])

IInv == TypeOK /\ Paths /\ Carried

\* Who is inside holds the lock, unless it is weak.
Holding == ~weak => \A u \in Updates : \A l \in Locks : Inside(u, l) => lock[l] = "held"

\* Nothing has gone wrong that the code does not guard against.
Calm == ~weak /\ ~spoilt

\* The handlers that overlap contend for one lock.
NoClash ==
    ~spoilt =>
        \A u, v \in Updates : u # v /\ Busy(u) /\ Busy(v) =>
            \/ kind[u] \notin Unlocked /\ kind[v] \notin Unlocked
            \/ kind[u] = "find" /\ kind[v] = "find"

\* The handlers that still have to show the card the queue points at.
Pending(u) ==
    \/ pc[u] \in Closing
    \/ pc[u] = "forget" /\ kind[u] = "undo" /\ mine[u] # NoQueue

OnScreen == Calm /\ HasCard(queue) /\ (\A u \in Updates : ~Pending(u)) => screen = Card(queue)

\* What they are about to show is what the queue holds.
Current ==
    Calm => \A u \in Updates : /\ pc[u] = "send" => mine[u] = queue
                               /\ pc[u] = "drop" => ~HasCard(queue)

ScreenSeen == screen # NoCard => screen \in seen

\* A reply has found a card that was seen, or will be before the lock is free.
Aiming(u) == kind[u] = "reply" /\ pc[u] \in {"lock", "locking", "check", "decide"}
Aim ==
    Calm => \A u \in Updates :
        Aiming(u) =>
            \/ target[u] \in seen
            \/ \E v \in Updates \ {u} : Pending(v) /\ HasCard(queue) /\ Card(queue) = target[u]

-----------------------------------------------------------------------------
LEMMA Numbers == MaxCards \in Nat /\ MaxCards >= 1 /\ IndexBound = MaxCards + 1
BY ConstantsAssumption DEF IndexBound

\* A queue points at one of its cards or behind them, and stays one when moved.
LEMMA QueueFacts ==
    ASSUME NEW q \in Queues
    PROVE  /\ q.index \in 0..IndexBound
           /\ HasCard(q) => Card(q) \in Cards
           /\ q # NoQueue => \A j \in 0..IndexBound : [q EXCEPT !.index = j] \in Queues
<1>1. CASE q = NoQueue
  <2>1. q.index = 0 /\ Len(q.cards) = 0
    BY <1>1 DEF NoQueue
  <2> QED
    BY <1>1, <2>1, Numbers DEF HasCard
<1>2. CASE q # NoQueue
  <2>1. PICK n \in Cards : q = [cards |-> [i \in 1..n |-> i], index |-> q.index] /\ q.index \in 0..IndexBound
    BY <1>2 DEF Queues
  <2>2. q.cards = [i \in 1..n |-> i] /\ n \in Nat /\ n <= MaxCards /\ q.index \in Nat
    BY <2>1, Numbers DEF Cards
  <2>3. Len(q.cards) = n
    BY <2>2
  <2>4. HasCard(q) => Card(q) \in Cards
    BY <2>2, <2>3, Numbers DEF HasCard, Card, Cards
  <2>5. ASSUME NEW j \in 0..IndexBound PROVE [q EXCEPT !.index = j] \in Queues
    <3>1. q = [cards |-> q.cards, index |-> q.index]
      BY <2>1
    <3>2. [q EXCEPT !.index = j] = [cards |-> q.cards, index |-> j]
      BY <3>1
    <3> QED
      BY <2>2, <3>2, <2>5 DEF Queues
  <2> QED
    BY <2>1, <2>4, <2>5
<1> QED
  BY <1>1, <1>2

LEMMA FetchedQueue == \A n \in Cards : [cards |-> [i \in 1..n |-> i], index |-> 0] \in Queues
BY Numbers DEF Queues

LEMMA EmptyQueue == NoQueue \in Queues /\ ~HasCard(NoQueue) /\ NoQueue.index = 0
<1>1. NoQueue \in Queues
  BY DEF Queues
<1>2. NoQueue.index = 0 /\ Len(NoQueue.cards) = 0
  BY DEF NoQueue
<1> QED
  BY <1>1, <1>2 DEF HasCard

\* The ways in: a kind of handler and its first step.
Doors ==
    {<<"find", "lock">>, <<"act", "lock">>, <<"block", "lock">>, <<"reply", "pick">>,
     <<"undo", "lock">>, <<"letter", "lock">>, <<"dismiss", "check">>}

LEMMA ArriveIsStart ==
    ASSUME NEW u \in Updates, Arrive(u)
    PROVE  \E d \in Doors : Start(u, d[1], d[2])
BY DEF Arrive, Find, Tap, Block, Reply, Undo, Letter, Dismiss, Doors

-----------------------------------------------------------------------------
LEMMA InitIInv == Init => IInv
<1> SUFFICES ASSUME Init PROVE IInv
  OBVIOUS
<1> USE DEF Init
<1>1. TypeOK
  BY EmptyQueue DEF TypeOK, Steps, Kinds, Locks
<1>2. Paths /\ Carried
  BY DEF Paths, Carried, Path
<1> QED
  BY <1>1, <1>2 DEF IInv

\* Every step keeps types, paths and what is carried.
LEMMA StepIInv ==
    ASSUME IInv, [Next]_vars
    PROVE  IInv'
<1> USE DEF IInv
<1>1. ASSUME NEW u \in Updates, NEW d \in Doors, Start(u, d[1], d[2]) PROVE IInv'
  <2> USE <1>1 DEF Doors, Start, Goto, kv
  <2>1. TypeOK'
    BY EmptyQueue, QueueFacts, FetchedQueue DEF TypeOK, Steps, Kinds, Locks
  <2>2. Paths'
    BY DEF TypeOK, Paths, Path, Middle, Closing, Kinds, Steps
  <2>3. Carried'
    BY EmptyQueue DEF TypeOK, Carried, Paths, Path, Middle, Closing, Kinds, Steps
  <2> QED
    BY <2>1, <2>2, <2>3
<1>2. ASSUME NEW u \in Updates, PickCurrent(u) PROVE IInv'
  <2> USE <1>2 DEF PickCurrent, Goto, Leave, kv, history
  <2>1. TypeOK'
    BY EmptyQueue, QueueFacts, FetchedQueue DEF TypeOK, Steps, Kinds, Locks
  <2>2. Paths'
    BY DEF TypeOK, Paths, Path, Middle, Closing, Kinds, Steps
  <2>3. Carried'
    BY EmptyQueue DEF TypeOK, Carried, Paths, Path, Middle, Closing, Kinds, Steps
  <2> QED
    BY <2>1, <2>2, <2>3
<1>3. ASSUME NEW u \in Updates, LookAtLock(u) PROVE IInv'
  <2> USE <1>3 DEF LookAtLock, Keep, Goto, Leave, kv, history
  <2>1. TypeOK'
    BY EmptyQueue, QueueFacts, FetchedQueue DEF TypeOK, Steps, Kinds, Locks
  <2>2. Paths'
    BY DEF TypeOK, Paths, Path, Middle, Closing, Kinds, Steps
  <2>3. Carried'
    BY EmptyQueue DEF TypeOK, Carried, Paths, Path, Middle, Closing, Kinds, Steps
  <2> QED
    BY <2>1, <2>2, <2>3
<1>4. ASSUME NEW u \in Updates, PutLock(u) PROVE IInv'
  <2> USE <1>4 DEF PutLock, Keep, Goto
  <2>1. TypeOK'
    BY EmptyQueue, QueueFacts, FetchedQueue DEF TypeOK, Steps, Kinds, Locks
  <2>2. Paths'
    BY DEF TypeOK, Paths, Path, Middle, Closing, Kinds, Steps
  <2>3. Carried'
    BY EmptyQueue DEF TypeOK, Carried, Paths, Path, Middle, Closing, Kinds, Steps
  <2> QED
    BY <2>1, <2>2, <2>3
<1>5. ASSUME NEW u \in Updates, Release(u) PROVE IInv'
  <2> USE <1>5 DEF Release, Leave, Goto, history
  <2>1. TypeOK'
    BY EmptyQueue, QueueFacts, FetchedQueue DEF TypeOK, Steps, Kinds, Locks
  <2>2. Paths'
    BY DEF TypeOK, Paths, Path, Middle, Closing, Kinds, Steps
  <2>3. Carried'
    BY EmptyQueue DEF TypeOK, Carried, Paths, Path, Middle, Closing, Kinds, Steps
  <2> QED
    BY <2>1, <2>2, <2>3
<1>6. ASSUME NEW u \in Updates, Check(u) PROVE IInv'
  <2> USE <1>6 DEF Check, Keep, Finish, Goto, kv, history
  <2>1. TypeOK'
    BY EmptyQueue, QueueFacts, FetchedQueue DEF TypeOK, Steps, Kinds, Locks
  <2>2. Paths'
    BY DEF TypeOK, Paths, Path, Middle, Closing, Kinds, Steps
  <2>3. Carried'
    BY EmptyQueue DEF TypeOK, Carried, Paths, Path, Middle, Closing, Kinds, Steps
  <2> QED
    BY <2>1, <2>2, <2>3
<1>7. ASSUME NEW u \in Updates, CheckLast(u) PROVE IInv'
  <2> USE <1>7 DEF CheckLast, Keep, Finish, Goto, kv, history
  <2>1. TypeOK'
    BY EmptyQueue, QueueFacts, FetchedQueue DEF TypeOK, Steps, Kinds, Locks
  <2>2. Paths'
    BY DEF TypeOK, Paths, Path, Middle, Closing, Kinds, Steps
  <2>3. Carried'
    BY EmptyQueue DEF TypeOK, Carried, Paths, Path, Middle, Closing, Kinds, Steps
  <2> QED
    BY <2>1, <2>2, <2>3
<1>8. ASSUME NEW u \in Updates, Decide(u) PROVE IInv'
  <2> USE <1>8 DEF Decide, Keep, Finish, Goto, kv, history
  <2>1. TypeOK'
    BY EmptyQueue, QueueFacts, FetchedQueue DEF TypeOK, Steps, Kinds, Locks
  <2>2. Paths'
    BY DEF TypeOK, Paths, Path, Middle, Closing, Kinds, Steps
  <2>3. Carried'
    BY EmptyQueue DEF TypeOK, Carried, Paths, Path, Middle, Closing, Kinds, Steps
  <2> QED
    BY <2>1, <2>2, <2>3
<1>9. ASSUME NEW u \in Updates, CheckPrompt(u) PROVE IInv'
  <2> USE <1>9 DEF CheckPrompt, Keep, Leave, Goto, kv, history
  <2>1. TypeOK'
    BY EmptyQueue, QueueFacts, FetchedQueue DEF TypeOK, Steps, Kinds, Locks
  <2>2. Paths'
    BY DEF TypeOK, Paths, Path, Middle, Closing, Kinds, Steps
  <2>3. Carried'
    BY EmptyQueue DEF TypeOK, Carried, Paths, Path, Middle, Closing, Kinds, Steps
  <2> QED
    BY <2>1, <2>2, <2>3
<1>10. ASSUME NEW u \in Updates, ForgetPrompt(u) PROVE IInv'
  <2> USE <1>10 DEF ForgetPrompt, Keep, Goto, history
  <2>1. TypeOK'
    BY EmptyQueue, QueueFacts, FetchedQueue DEF TypeOK, Steps, Kinds, Locks
  <2>2. Paths'
    BY DEF TypeOK, Paths, Path, Middle, Closing, Kinds, Steps
  <2>3. Carried'
    BY EmptyQueue DEF TypeOK, Carried, Paths, Path, Middle, Closing, Kinds, Steps
  <2> QED
    BY <2>1, <2>2, <2>3
<1>11. ASSUME NEW u \in Updates, Read(u) PROVE IInv'
  <2> USE <1>11 DEF Read, AfterRead, Leave, Goto, kv, history
  <2>1. TypeOK'
    BY EmptyQueue, QueueFacts, FetchedQueue DEF TypeOK, Steps, Kinds, Locks
  <2>2. Paths'
    BY DEF TypeOK, Paths, Path, Middle, Closing, Kinds, Steps
  <2>3. Carried'
    BY EmptyQueue DEF TypeOK, Carried, Paths, Path, Middle, Closing, Kinds, Steps
  <2> QED
    BY <2>1, <2>2, <2>3
<1>12. ASSUME NEW u \in Updates, Remember(u) PROVE IInv'
  <2> USE <1>12 DEF Remember, Goto, history
  <2>1. TypeOK'
    BY EmptyQueue, QueueFacts, FetchedQueue DEF TypeOK, Steps, Kinds, Locks
  <2>2. Paths'
    BY DEF TypeOK, Paths, Path, Middle, Closing, Kinds, Steps
  <2>3. Carried'
    BY EmptyQueue DEF TypeOK, Carried, Paths, Path, Middle, Closing, Kinds, Steps
  <2> QED
    BY <2>1, <2>2, <2>3
<1>13. ASSUME NEW u \in Updates, Prompt(u) PROVE IInv'
  <2> USE <1>13 DEF Prompt, Finish, Keep, Goto, history
  <2>1. TypeOK'
    BY EmptyQueue, QueueFacts, FetchedQueue DEF TypeOK, Steps, Kinds, Locks
  <2>2. Paths'
    BY DEF TypeOK, Paths, Path, Middle, Closing, Kinds, Steps
  <2>3. Carried'
    BY EmptyQueue DEF TypeOK, Carried, Paths, Path, Middle, Closing, Kinds, Steps
  <2> QED
    BY <2>1, <2>2, <2>3
<1>14. ASSUME NEW u \in Updates, WriteQueue(u) PROVE IInv'
  <2> USE <1>14 DEF WriteQueue, Moved, Keep, Goto, history
  <2>1. TypeOK'
    <3>1. mine[u] \in Queues /\ mine[u] # NoQueue
      BY DEF TypeOK, Carried
    <3>2. mine[u].index \in 0..IndexBound /\ (kind[u] = "undo" => mine[u].index > 0)
      BY <3>1, QueueFacts DEF Carried
    <3>3. Moved(u) \in Queues
      <4>1. \A j \in 0..IndexBound : [mine[u] EXCEPT !.index = j] \in Queues
        BY <3>1, QueueFacts
      <4>2. CASE kind[u] = "undo"
        <5>1. mine[u].index - 1 \in 0..IndexBound
          BY <3>2, <4>2, Numbers
        <5> QED
          BY <4>1, <4>2, <5>1
      <4>3. CASE kind[u] # "undo"
        <5>1. mine[u].index + 1 \in 0..IndexBound
          <6>1. PICK c, i : mine[u] = [cards |-> c, index |-> i]
            BY <3>1 DEF Queues, NoQueue
          <6>2. Moved(u).index = mine[u].index + 1
            BY <4>3, <6>1
          <6> QED
            BY <3>2, <6>2, Numbers
        <5> QED
          BY <4>1, <4>3, <5>1
      <4> QED
        BY <4>2, <4>3
    <3> QED
      BY <3>3 DEF TypeOK, Steps
  <2>2. Paths'
    BY DEF TypeOK, Paths, Path, Middle, Closing, Kinds, Steps
  <2>3. Carried'
    BY EmptyQueue DEF TypeOK, Carried, Paths, Path, Middle, Closing, Kinds, Steps
  <2> QED
    BY <2>1, <2>2, <2>3
<1>15. ASSUME NEW u \in Updates, ForgetLast(u) PROVE IInv'
  <2> USE <1>15 DEF ForgetLast, Keep, Goto, history
  <2>1. TypeOK'
    BY EmptyQueue, QueueFacts, FetchedQueue DEF TypeOK, Steps, Kinds, Locks
  <2>2. Paths'
    BY DEF TypeOK, Paths, Path, Middle, Closing, Kinds, Steps
  <2>3. Carried'
    BY EmptyQueue DEF TypeOK, Carried, Paths, Path, Middle, Closing, Kinds, Steps
  <2> QED
    BY <2>1, <2>2, <2>3
<1>16. ASSUME NEW u \in Updates, Reset(u) PROVE IInv'
  <2> USE <1>16 DEF Reset, Keep, Goto
  <2>1. TypeOK'
    BY EmptyQueue, QueueFacts, FetchedQueue DEF TypeOK, Steps, Kinds, Locks
  <2>2. Paths'
    BY DEF TypeOK, Paths, Path, Middle, Closing, Kinds, Steps
  <2>3. Carried'
    BY EmptyQueue DEF TypeOK, Carried, Paths, Path, Middle, Closing, Kinds, Steps
  <2> QED
    BY <2>1, <2>2, <2>3
<1>17. ASSUME NEW u \in Updates, NotReady(u) PROVE IInv'
  <2> USE <1>17 DEF NotReady, Finish, Goto, kv, history
  <2>1. TypeOK'
    BY EmptyQueue, QueueFacts, FetchedQueue DEF TypeOK, Steps, Kinds, Locks
  <2>2. Paths'
    BY DEF TypeOK, Paths, Path, Middle, Closing, Kinds, Steps
  <2>3. Carried'
    BY EmptyQueue DEF TypeOK, Carried, Paths, Path, Middle, Closing, Kinds, Steps
  <2> QED
    BY <2>1, <2>2, <2>3
<1>18. ASSUME NEW u \in Updates, Fetch(u) PROVE IInv'
  <2> USE <1>18 DEF Fetch, Finish, Goto, kv, history
  <2>1. TypeOK'
    BY EmptyQueue, QueueFacts, FetchedQueue DEF TypeOK, Steps, Kinds, Locks
  <2>2. Paths'
    BY DEF TypeOK, Paths, Path, Middle, Closing, Kinds, Steps
  <2>3. Carried'
    BY EmptyQueue DEF TypeOK, Carried, Paths, Path, Middle, Closing, Kinds, Steps
  <2> QED
    BY <2>1, <2>2, <2>3
<1>19. ASSUME NEW u \in Updates, StoreQueue(u) PROVE IInv'
  <2> USE <1>19 DEF StoreQueue, Keep, Goto, history
  <2>1. TypeOK'
    BY EmptyQueue, QueueFacts, FetchedQueue DEF TypeOK, Steps, Kinds, Locks
  <2>2. Paths'
    BY DEF TypeOK, Paths, Path, Middle, Closing, Kinds, Steps
  <2>3. Carried'
    BY EmptyQueue DEF TypeOK, Carried, Paths, Path, Middle, Closing, Kinds, Steps
  <2> QED
    BY <2>1, <2>2, <2>3
<1>20. ASSUME NEW u \in Updates, Show(u) PROVE IInv'
  <2> USE <1>20 DEF Show, Goto, kv, history
  <2>1. TypeOK'
    BY EmptyQueue, QueueFacts, FetchedQueue DEF TypeOK, Steps, Kinds, Locks
  <2>2. Paths'
    BY DEF TypeOK, Paths, Path, Middle, Closing, Kinds, Steps
  <2>3. Carried'
    BY EmptyQueue DEF TypeOK, Carried, Paths, Path, Middle, Closing, Kinds, Steps
  <2> QED
    BY <2>1, <2>2, <2>3
<1>21. ASSUME NEW u \in Updates, Send(u) PROVE IInv'
  <2> USE <1>21 DEF Send, Shown, Finish, Leave, Goto, kv
  <2>1. TypeOK'
    <3>1. mine[u] \in Queues /\ HasCard(mine[u])
      BY DEF TypeOK, Carried
    <3>2. Card(mine[u]) \in Cards
      BY <3>1, QueueFacts
    <3> QED
      BY <3>2, EmptyQueue DEF TypeOK, Steps, Kinds
  <2>2. Paths'
    BY DEF TypeOK, Paths, Path, Middle, Closing, Kinds, Steps
  <2>3. Carried'
    BY EmptyQueue DEF TypeOK, Carried, Paths, Path, Middle, Closing, Kinds, Steps
  <2> QED
    BY <2>1, <2>2, <2>3
<1>22. ASSUME NEW u \in Updates, Drop(u) PROVE IInv'
  <2> USE <1>22 DEF Drop, Shown, Finish, Leave, Goto, history
  <2>1. TypeOK'
    BY EmptyQueue, QueueFacts, FetchedQueue DEF TypeOK, Steps, Kinds, Locks
  <2>2. Paths'
    BY DEF TypeOK, Paths, Path, Middle, Closing, Kinds, Steps
  <2>3. Carried'
    BY EmptyQueue DEF TypeOK, Carried, Paths, Path, Middle, Closing, Kinds, Steps
  <2> QED
    BY <2>1, <2>2, <2>3
<1>23. ASSUME NEW u \in Updates, Throw(u) PROVE IInv'
  <2> USE <1>23 DEF Throw, Inside, InsideSteps, Finish, Leave, Goto, kv
  <2>1. TypeOK'
    BY EmptyQueue, QueueFacts, FetchedQueue DEF TypeOK, Steps, Kinds, Locks
  <2>2. Paths'
    BY DEF TypeOK, Paths, Path, Middle, Closing, Kinds, Steps
  <2>3. Carried'
    BY EmptyQueue DEF TypeOK, Carried, Paths, Path, Middle, Closing, Kinds, Steps
  <2> QED
    BY <2>1, <2>2, <2>3
<1>24. ASSUME NEW u \in Updates, Crash(u) PROVE IInv'
  <2> USE <1>24 DEF Crash, Leave, Goto
  <2>1. TypeOK'
    BY EmptyQueue, QueueFacts, FetchedQueue DEF TypeOK, Steps, Kinds, Locks
  <2>2. Paths'
    BY DEF TypeOK, Paths, Path, Middle, Closing, Kinds, Steps
  <2>3. Carried'
    BY EmptyQueue DEF TypeOK, Carried, Paths, Path, Middle, Closing, Kinds, Steps
  <2> QED
    BY <2>1, <2>2, <2>3
<1>25. CASE Expire
  <2> USE <1>25 DEF Expire, locals
  <2>1. TypeOK'
    BY EmptyQueue, QueueFacts, FetchedQueue DEF TypeOK, Steps, Kinds, Locks
  <2>2. Paths'
    BY DEF TypeOK, Paths, Path, Middle, Closing, Kinds, Steps
  <2>3. Carried'
    BY EmptyQueue DEF TypeOK, Carried, Paths, Path, Middle, Closing, Kinds, Steps
  <2> QED
    BY <2>1, <2>2, <2>3
<1>26. CASE UNCHANGED vars
  <2> USE <1>26 DEF vars, kv, locals, history
  <2>1. TypeOK'
    BY EmptyQueue, QueueFacts, FetchedQueue DEF TypeOK, Steps, Kinds, Locks
  <2>2. Paths'
    BY DEF TypeOK, Paths, Path, Middle, Closing, Kinds, Steps
  <2>3. Carried'
    BY EmptyQueue DEF TypeOK, Carried, Paths, Path, Middle, Closing, Kinds, Steps
  <2> QED
    BY <2>1, <2>2, <2>3
<1> QED
  BY ArriveIsStart, <1>1, <1>2, <1>3, <1>4, <1>5, <1>6, <1>7, <1>8, <1>9, <1>10, <1>11, <1>12,
     <1>13, <1>14, <1>15, <1>16, <1>17, <1>18, <1>19, <1>20, <1>21, <1>22, <1>23, <1>24, <1>25,
     <1>26
     DEF Next, Locking, Deciding, Advancing, Presenting

LEMMA IInvHolds == Spec => []IInv
BY InitIInv, StepIInv, PTL DEF Spec

\* Queue, locks and handlers keep their types: no step moves a queue out of its
\* range, and an undo never steps back from the first card.
THEOREM TypeCorrect == Spec => []TypeOK
<1>1. IInv => TypeOK
  BY DEF IInv
<1> QED
  BY IInvHolds, <1>1, PTL

-----------------------------------------------------------------------------
\* Only whoever finds the lock free gets in, and gives it back on the way out.
LEMMA StepLocks ==
    ASSUME IInv, Holding, LockExcludes, LockNotLeaked, [Next]_vars
    PROVE  Holding' /\ LockExcludes' /\ LockNotLeaked'
<1> USE DEF IInv, TypeOK, Paths, Path, Middle, Closing, Kinds, Locks, Holding, LockExcludes, LockNotLeaked
<1>1. ASSUME NEW u \in Updates, NEW d \in Doors, Start(u, d[1], d[2]) PROVE Holding' /\ LockExcludes' /\ LockNotLeaked'
  <2> USE <1>1 DEF Doors, Start, Goto, kv, Inside, InsideSteps, Steps, LockOf
  <2>1. Holding'
    BY DEF Holding
  <2>2. LockExcludes'
    BY DEF LockExcludes
  <2>3. LockNotLeaked'
    <3> SUFFICES ASSUME NEW l \in Locks, lock[l] = "held" PROVE \E v \in Updates : Inside(v, l)'
      BY DEF LockNotLeaked
    <3>1. PICK v \in Updates : Inside(v, l)
      BY DEF LockNotLeaked
    <3>2. v # u
      BY <3>1 DEF Busy
    <3> QED
      BY <3>1, <3>2
  <2> QED
    BY <2>1, <2>2, <2>3
<1>2. ASSUME NEW u \in Updates, PickCurrent(u) PROVE Holding' /\ LockExcludes' /\ LockNotLeaked'
  <2> USE <1>2 DEF PickCurrent, Goto, Leave, kv, history, Inside, InsideSteps, Steps, LockOf
  <2>1. Holding'
    BY DEF Holding
  <2>2. LockExcludes'
    BY DEF LockExcludes
  <2>3. LockNotLeaked'
    BY DEF LockNotLeaked
  <2> QED
    BY <2>1, <2>2, <2>3
<1>3. ASSUME NEW u \in Updates, LookAtLock(u) PROVE Holding' /\ LockExcludes' /\ LockNotLeaked'
  <2> USE <1>3 DEF LookAtLock, Keep, Goto, Leave, kv, history, Inside, InsideSteps, Steps, LockOf
  <2>1. Holding'
    BY DEF Holding
  <2>2. LockExcludes'
    BY DEF LockExcludes
  <2>3. LockNotLeaked'
    BY DEF LockNotLeaked
  <2> QED
    BY <2>1, <2>2, <2>3
<1>4. ASSUME NEW u \in Updates, PutLock(u) PROVE Holding' /\ LockExcludes' /\ LockNotLeaked'
  <2> USE <1>4 DEF PutLock, Keep, Goto, Inside, InsideSteps, Steps, LockOf
  <2>1. Holding'
    BY DEF Holding
  <2>2. LockExcludes'
    <3> SUFFICES ASSUME ~weak', NEW l \in Locks, NEW v \in Updates, NEW w \in Updates,
                        Inside(v, l)', Inside(w, l)', v # w
                 PROVE  FALSE
      BY DEF LockExcludes
    <3>1. ~weak /\ lock[LockOf(kind[u])] = "free"
      OBVIOUS
    <3>2. ASSUME NEW x \in Updates, x # u, Inside(x, l)' PROVE Inside(x, l) /\ lock[l] = "held"
      BY <3>1, <3>2 DEF Holding
    <3>3. v # u => l # LockOf(kind[u])
      BY <3>1, <3>2
    <3>4. w # u => l # LockOf(kind[u])
      BY <3>1, <3>2
    <3>5. v # u /\ w # u
      BY <3>3, <3>4
    <3>6. Inside(v, l) /\ Inside(w, l)
      BY <3>2, <3>5
    <3> QED
      BY <3>1, <3>6 DEF LockExcludes
  <2>3. LockNotLeaked'
    BY DEF LockNotLeaked
  <2> QED
    BY <2>1, <2>2, <2>3
<1>5. ASSUME NEW u \in Updates, Release(u) PROVE Holding' /\ LockExcludes' /\ LockNotLeaked'
  <2> USE <1>5 DEF Release, Leave, Goto, history, Inside, InsideSteps, Steps, LockOf
  <2>1. Holding'
    BY DEF Holding
  <2>2. LockExcludes'
    BY DEF LockExcludes
  <2>3. LockNotLeaked'
    BY DEF LockNotLeaked
  <2> QED
    BY <2>1, <2>2, <2>3
<1>6. ASSUME NEW u \in Updates, Check(u) PROVE Holding' /\ LockExcludes' /\ LockNotLeaked'
  <2> USE <1>6 DEF Check, Keep, Finish, Goto, kv, history, Inside, InsideSteps, Steps, LockOf
  <2>1. Holding'
    BY DEF Holding
  <2>2. LockExcludes'
    BY DEF LockExcludes
  <2>3. LockNotLeaked'
    BY DEF LockNotLeaked
  <2> QED
    BY <2>1, <2>2, <2>3
<1>7. ASSUME NEW u \in Updates, CheckLast(u) PROVE Holding' /\ LockExcludes' /\ LockNotLeaked'
  <2> USE <1>7 DEF CheckLast, Keep, Finish, Goto, kv, history, Inside, InsideSteps, Steps, LockOf
  <2>1. Holding'
    BY DEF Holding
  <2>2. LockExcludes'
    BY DEF LockExcludes
  <2>3. LockNotLeaked'
    BY DEF LockNotLeaked
  <2> QED
    BY <2>1, <2>2, <2>3
<1>8. ASSUME NEW u \in Updates, Decide(u) PROVE Holding' /\ LockExcludes' /\ LockNotLeaked'
  <2> USE <1>8 DEF Decide, Keep, Finish, Goto, kv, history, Inside, InsideSteps, Steps, LockOf
  <2>1. Holding'
    BY DEF Holding
  <2>2. LockExcludes'
    BY DEF LockExcludes
  <2>3. LockNotLeaked'
    BY DEF LockNotLeaked
  <2> QED
    BY <2>1, <2>2, <2>3
<1>9. ASSUME NEW u \in Updates, CheckPrompt(u) PROVE Holding' /\ LockExcludes' /\ LockNotLeaked'
  <2> USE <1>9 DEF CheckPrompt, Keep, Leave, Goto, kv, history, Inside, InsideSteps, Steps, LockOf
  <2>1. Holding'
    BY DEF Holding
  <2>2. LockExcludes'
    BY DEF LockExcludes
  <2>3. LockNotLeaked'
    BY DEF LockNotLeaked
  <2> QED
    BY <2>1, <2>2, <2>3
<1>10. ASSUME NEW u \in Updates, ForgetPrompt(u) PROVE Holding' /\ LockExcludes' /\ LockNotLeaked'
  <2> USE <1>10 DEF ForgetPrompt, Keep, Goto, history, Inside, InsideSteps, Steps, LockOf
  <2>1. Holding'
    BY DEF Holding
  <2>2. LockExcludes'
    BY DEF LockExcludes
  <2>3. LockNotLeaked'
    BY DEF LockNotLeaked
  <2> QED
    BY <2>1, <2>2, <2>3
<1>11. ASSUME NEW u \in Updates, Read(u) PROVE Holding' /\ LockExcludes' /\ LockNotLeaked'
  <2> USE <1>11 DEF Read, AfterRead, Leave, Goto, kv, history, Inside, InsideSteps, Steps, LockOf
  <2>1. Holding'
    BY DEF Holding
  <2>2. LockExcludes'
    BY DEF LockExcludes
  <2>3. LockNotLeaked'
    BY DEF LockNotLeaked
  <2> QED
    BY <2>1, <2>2, <2>3
<1>12. ASSUME NEW u \in Updates, Remember(u) PROVE Holding' /\ LockExcludes' /\ LockNotLeaked'
  <2> USE <1>12 DEF Remember, Goto, history, Inside, InsideSteps, Steps, LockOf
  <2>1. Holding'
    BY DEF Holding
  <2>2. LockExcludes'
    BY DEF LockExcludes
  <2>3. LockNotLeaked'
    BY DEF LockNotLeaked
  <2> QED
    BY <2>1, <2>2, <2>3
<1>13. ASSUME NEW u \in Updates, Prompt(u) PROVE Holding' /\ LockExcludes' /\ LockNotLeaked'
  <2> USE <1>13 DEF Prompt, Finish, Keep, Goto, history, Inside, InsideSteps, Steps, LockOf
  <2>1. Holding'
    BY DEF Holding
  <2>2. LockExcludes'
    BY DEF LockExcludes
  <2>3. LockNotLeaked'
    BY DEF LockNotLeaked
  <2> QED
    BY <2>1, <2>2, <2>3
<1>14. ASSUME NEW u \in Updates, WriteQueue(u) PROVE Holding' /\ LockExcludes' /\ LockNotLeaked'
  <2> USE <1>14 DEF WriteQueue, Moved, Keep, Goto, history, Inside, InsideSteps, Steps, LockOf
  <2>1. Holding'
    BY DEF Holding
  <2>2. LockExcludes'
    BY DEF LockExcludes
  <2>3. LockNotLeaked'
    BY DEF LockNotLeaked
  <2> QED
    BY <2>1, <2>2, <2>3
<1>15. ASSUME NEW u \in Updates, ForgetLast(u) PROVE Holding' /\ LockExcludes' /\ LockNotLeaked'
  <2> USE <1>15 DEF ForgetLast, Keep, Goto, history, Inside, InsideSteps, Steps, LockOf
  <2>1. Holding'
    BY DEF Holding
  <2>2. LockExcludes'
    BY DEF LockExcludes
  <2>3. LockNotLeaked'
    BY DEF LockNotLeaked
  <2> QED
    BY <2>1, <2>2, <2>3
<1>16. ASSUME NEW u \in Updates, Reset(u) PROVE Holding' /\ LockExcludes' /\ LockNotLeaked'
  <2> USE <1>16 DEF Reset, Keep, Goto, Inside, InsideSteps, Steps, LockOf
  <2>1. Holding'
    <3>1. CASE CleanSlate(u)
      <4>1. \A v \in Updates : v # u => pc[v] = "idle" /\ pc'[v] = "idle"
        BY <3>1 DEF CleanSlate, Alone, Busy
      <4>2. kind[u] = "find" /\ kind'[u] = "find" /\ lock'["command"] = "held"
        BY <3>1 DEF CleanSlate
      <4> QED
        BY <4>1, <4>2 DEF Holding
    <3>2. CASE ~CleanSlate(u)
      <4>1. weak' = weak
        BY <3>2
      <4> QED
        BY <4>1 DEF Holding
    <3> QED
      BY <3>1, <3>2
  <2>2. LockExcludes'
    <3>1. CASE CleanSlate(u)
      <4>1. \A v \in Updates : v # u => pc'[v] = "idle"
        BY <3>1 DEF CleanSlate, Alone, Busy
      <4> QED
        BY <4>1 DEF LockExcludes
    <3>2. CASE ~CleanSlate(u)
      <4>1. weak' = weak
        BY <3>2
      <4> QED
        BY <4>1 DEF LockExcludes
    <3> QED
      BY <3>1, <3>2
  <2>3. LockNotLeaked'
    BY DEF LockNotLeaked
  <2> QED
    BY <2>1, <2>2, <2>3
<1>17. ASSUME NEW u \in Updates, NotReady(u) PROVE Holding' /\ LockExcludes' /\ LockNotLeaked'
  <2> USE <1>17 DEF NotReady, Finish, Goto, kv, history, Inside, InsideSteps, Steps, LockOf
  <2>1. Holding'
    BY DEF Holding
  <2>2. LockExcludes'
    BY DEF LockExcludes
  <2>3. LockNotLeaked'
    BY DEF LockNotLeaked
  <2> QED
    BY <2>1, <2>2, <2>3
<1>18. ASSUME NEW u \in Updates, Fetch(u) PROVE Holding' /\ LockExcludes' /\ LockNotLeaked'
  <2> USE <1>18 DEF Fetch, Finish, Goto, kv, history, Inside, InsideSteps, Steps, LockOf
  <2>1. Holding'
    BY DEF Holding
  <2>2. LockExcludes'
    BY DEF LockExcludes
  <2>3. LockNotLeaked'
    BY DEF LockNotLeaked
  <2> QED
    BY <2>1, <2>2, <2>3
<1>19. ASSUME NEW u \in Updates, StoreQueue(u) PROVE Holding' /\ LockExcludes' /\ LockNotLeaked'
  <2> USE <1>19 DEF StoreQueue, Keep, Goto, history, Inside, InsideSteps, Steps, LockOf
  <2>1. Holding'
    BY DEF Holding
  <2>2. LockExcludes'
    BY DEF LockExcludes
  <2>3. LockNotLeaked'
    BY DEF LockNotLeaked
  <2> QED
    BY <2>1, <2>2, <2>3
<1>20. ASSUME NEW u \in Updates, Show(u) PROVE Holding' /\ LockExcludes' /\ LockNotLeaked'
  <2> USE <1>20 DEF Show, Goto, kv, history, Inside, InsideSteps, Steps, LockOf
  <2>1. Holding'
    BY DEF Holding
  <2>2. LockExcludes'
    BY DEF LockExcludes
  <2>3. LockNotLeaked'
    BY DEF LockNotLeaked
  <2> QED
    BY <2>1, <2>2, <2>3
<1>21. ASSUME NEW u \in Updates, Send(u) PROVE Holding' /\ LockExcludes' /\ LockNotLeaked'
  <2> USE <1>21 DEF Send, Shown, Finish, Leave, Goto, kv, Inside, InsideSteps, Steps, LockOf
  <2>1. Holding'
    BY DEF Holding
  <2>2. LockExcludes'
    BY DEF LockExcludes
  <2>3. LockNotLeaked'
    BY DEF LockNotLeaked
  <2> QED
    BY <2>1, <2>2, <2>3
<1>22. ASSUME NEW u \in Updates, Drop(u) PROVE Holding' /\ LockExcludes' /\ LockNotLeaked'
  <2> USE <1>22 DEF Drop, Shown, Finish, Leave, Goto, history, Inside, InsideSteps, Steps, LockOf
  <2>1. Holding'
    BY DEF Holding
  <2>2. LockExcludes'
    BY DEF LockExcludes
  <2>3. LockNotLeaked'
    BY DEF LockNotLeaked
  <2> QED
    BY <2>1, <2>2, <2>3
<1>23. ASSUME NEW u \in Updates, Throw(u) PROVE Holding' /\ LockExcludes' /\ LockNotLeaked'
  <2> USE <1>23 DEF Throw, Inside, InsideSteps, Finish, Leave, Goto, kv, LockOf
  <2>1. Holding'
    BY DEF Holding
  <2>2. LockExcludes'
    BY DEF LockExcludes
  <2>3. LockNotLeaked'
    <3> SUFFICES ASSUME NEW l \in Locks, lock[l] = "held" PROVE \E v \in Updates : Inside(v, l)'
      BY DEF LockNotLeaked
    <3>1. PICK v \in Updates : Inside(v, l)
      BY DEF LockNotLeaked
    <3>2. CASE v # u
      BY <3>1, <3>2
    <3>3. CASE v = u
      <4>1. pc'[u] = "release" /\ kind'[u] = kind[u]
        BY <3>1, <3>3
      <4>2. kind[u] # "dismiss" /\ (IF kind[u] = "find" THEN "command" ELSE "action") = l
        BY <3>1, <3>3
      <4>3. (kind')[u] # "dismiss" /\ (IF (kind')[u] = "find" THEN "command" ELSE "action") = l
        BY <4>1, <4>2
      <4>4. Inside(u, l)'
        BY <4>1, <4>3 DEF Steps
      <4> QED
        BY <4>4
    <3> QED
      BY <3>2, <3>3
  <2> QED
    BY <2>1, <2>2, <2>3
<1>24. ASSUME NEW u \in Updates, Crash(u) PROVE Holding' /\ LockExcludes' /\ LockNotLeaked'
  <2> USE <1>24 DEF Crash, Leave, Goto, Inside, InsideSteps, Steps, LockOf
  <2>1. Holding'
    BY DEF Holding
  <2>2. LockExcludes'
    BY DEF LockExcludes
  <2>3. LockNotLeaked'
    BY DEF LockNotLeaked
  <2> QED
    BY <2>1, <2>2, <2>3
<1>25. CASE Expire
  <2> USE <1>25 DEF Expire, locals, Inside, InsideSteps, Steps, LockOf
  <2>1. Holding'
    <3>1. CASE lock' = lock
      BY <3>1 DEF Holding
    <3>2. ASSUME NEW l \in Locks, lock' = [lock EXCEPT ![l] = "free"],
                 weak' = (weak \/ \E u \in Updates : Inside(u, l))
          PROVE  Holding'
      <4>1. ~weak' => \A u \in Updates : ~Inside(u, l)
        BY <3>2
      <4> QED
        BY <3>2, <4>1 DEF Holding
    <3> QED
      BY <3>1, <3>2
  <2>2. LockExcludes'
    BY DEF LockExcludes
  <2>3. LockNotLeaked'
    BY DEF LockNotLeaked
  <2> QED
    BY <2>1, <2>2, <2>3
<1>26. CASE UNCHANGED vars
  <2> USE <1>26 DEF vars, kv, locals, history, Inside, InsideSteps, Steps, LockOf
  <2>1. Holding'
    BY DEF Holding
  <2>2. LockExcludes'
    BY DEF LockExcludes
  <2>3. LockNotLeaked'
    BY DEF LockNotLeaked
  <2> QED
    BY <2>1, <2>2, <2>3
<1> QED
  BY ArriveIsStart, <1>1, <1>2, <1>3, <1>4, <1>5, <1>6, <1>7, <1>8, <1>9, <1>10, <1>11, <1>12,
     <1>13, <1>14, <1>15, <1>16, <1>17, <1>18, <1>19, <1>20, <1>21, <1>22, <1>23, <1>24, <1>25,
     <1>26
     DEF Next, Locking, Deciding, Advancing, Presenting

LEMMA InitLocks == Init => Holding /\ LockExcludes /\ LockNotLeaked
BY DEF Init, Holding, LockExcludes, LockNotLeaked, Inside, InsideSteps, Steps, Locks

LEMMA LocksHold == Spec => [](Holding /\ LockExcludes /\ LockNotLeaked)
<1>1. IInv /\ (Holding /\ LockExcludes /\ LockNotLeaked) /\ [Next]_vars
        => (Holding /\ LockExcludes /\ LockNotLeaked)'
  BY StepLocks
<1> QED
  BY IInvHolds, InitLocks, <1>1, PTL DEF Spec

\* A lock admits one handler, unless two looked before either put it or it
\* timed out under its holder.
THEOREM LocksExclude == Spec => []LockExcludes
BY LocksHold, PTL

\* No way of ending a handler leaves its lock behind, but an eviction.
THEOREM LocksAreNotLeaked == Spec => []LockNotLeaked
BY LocksHold, PTL

-----------------------------------------------------------------------------
LEMMA InitOrder == Init => NoClash /\ OnScreen /\ Current /\ ScreenSeen /\ Aim
<1> SUFFICES ASSUME Init PROVE NoClash /\ OnScreen /\ Current /\ ScreenSeen /\ Aim
  OBVIOUS
<1>1. ~HasCard(queue) /\ screen = NoCard /\ \A u \in Updates : pc[u] = "idle"
  BY EmptyQueue DEF Init
<1> QED
  BY <1>1 DEF NoClash, OnScreen, Current, ScreenSeen, Aim, Aiming, Busy

\* While all is calm one handler at most is past its lock.
LEMMA Sole ==
    ASSUME TypeOK, Paths, LockExcludes, NoClash, Calm,
           NEW u \in Updates, NEW v \in Updates, pc[u] \in InsideSteps, pc[v] \in InsideSteps
    PROVE  u = v
<1> SUFFICES ASSUME u # v PROVE FALSE
  OBVIOUS
<1>1. Busy(u) /\ Busy(v)
  BY DEF Busy, InsideSteps
<1>2. kind[u] # "none" /\ kind[v] # "none" /\ kind[u] \in Kinds /\ kind[v] \in Kinds
  BY <1>1 DEF Paths, Path, Busy, TypeOK
<1>3. \/ kind[u] \notin Unlocked /\ kind[v] \notin Unlocked
      \/ kind[u] = "find" /\ kind[v] = "find"
  BY <1>1 DEF NoClash, Calm
<1>4. \E l \in Locks : Inside(u, l) /\ Inside(v, l)
  BY <1>2, <1>3 DEF Inside, LockOf, Unlocked, Locks, Kinds
<1> QED
  BY <1>4 DEF LockExcludes, Calm

LEMMA PendingInside == \A u \in Updates : Pending(u) => pc[u] \in InsideSteps /\ pc[u] \in Showing
BY DEF Pending, Closing, InsideSteps, Steps, Showing

\* Who adds no target, moves no queue and ends no showing keeps the aim.
LEMMA AimKept ==
    ASSUME Aim, Calm' => Calm /\ queue' = queue /\ seen \subseteq seen',
           Calm' => \A v \in Updates : Pending(v) => Pending(v)',
           \A v \in Updates : Aiming(v)' => Aiming(v) /\ target'[v] = target[v]
    PROVE  Aim'
<1> SUFFICES ASSUME Calm', NEW u \in Updates, Aiming(u)'
             PROVE  \/ target'[u] \in seen'
                    \/ \E v \in Updates \ {u} : Pending(v)' /\ HasCard(queue') /\ Card(queue') = target'[u]
  BY DEF Aim, HasCard, Card
<1>1. \/ target[u] \in seen
      \/ \E v \in Updates \ {u} : Pending(v) /\ HasCard(queue) /\ Card(queue) = target[u]
  BY DEF Aim
<1> QED
  BY <1>1

\* Who is sole inside and shows nothing may move the queue.
LEMMA AimSole ==
    ASSUME TypeOK, Paths, LockExcludes, NoClash, Aim, Calm' => Calm /\ seen \subseteq seen',
           NEW u \in Updates, pc[u] \in InsideSteps, Calm /\ HasCard(queue) => ~Pending(u),
           \A v \in Updates : Aiming(v)' => Aiming(v) /\ target'[v] = target[v]
    PROVE  Aim'
<1> SUFFICES ASSUME Calm', NEW x \in Updates, Aiming(x)' PROVE target'[x] \in seen'
  BY DEF Aim
<1>1. Calm /\ Aiming(x) /\ target'[x] = target[x]
  OBVIOUS
<1>2. \A v \in Updates : Pending(v) => v = u
  BY <1>1, PendingInside, Sole
<1> QED
  BY <1>1, <1>2 DEF Aim

\* A writer that comes in beside another is remembered.
LEMMA StepOrder ==
    ASSUME IInv, NoClash, [Next]_vars
    PROVE  NoClash'
<1> USE DEF IInv, TypeOK, Paths, Path, Middle, Closing, Kinds
<1>1. ASSUME NEW u \in Updates, NEW d \in Doors, Start(u, d[1], d[2]) PROVE NoClash'
  <2> USE <1>1 DEF Doors, Start, Goto, kv
  <2> SUFFICES ASSUME ~spoilt', NEW v \in Updates, NEW w \in Updates, v # w, Busy(v)', Busy(w)'
               PROVE  \/ kind'[v] \notin Unlocked /\ kind'[w] \notin Unlocked
                      \/ kind'[v] = "find" /\ kind'[w] = "find"
    BY DEF NoClash
  <2>1. ~Clash(u, d[1]) /\ ~spoilt
    OBVIOUS
  <2>2. \A x \in Updates \ {u} : Busy(x) =>
           \/ d[1] \notin Unlocked /\ kind[x] \notin Unlocked
           \/ d[1] = "find" /\ kind[x] = "find"
    BY <2>1 DEF Clash, Unlocked
  <2>3. \A x \in Updates \ {u} : kind'[x] = kind[x] /\ (Busy(x)' => Busy(x))
    BY DEF Busy
  <2>4. kind'[u] = d[1]
    OBVIOUS
  <2>5. CASE v # u /\ w # u
    BY <2>1, <2>3, <2>5 DEF NoClash
  <2>6. CASE v = u
    BY <2>2, <2>3, <2>4, <2>6
  <2>7. CASE w = u
    BY <2>2, <2>3, <2>4, <2>7
  <2> QED
    BY <2>5, <2>6, <2>7
<1>2. ASSUME NEW u \in Updates, PickCurrent(u) PROVE NoClash'
  <2> USE <1>2 DEF PickCurrent, Goto, Leave, kv, history
  <2> QED
    BY DEF NoClash, Busy
<1>3. ASSUME NEW u \in Updates, LookAtLock(u) PROVE NoClash'
  <2> USE <1>3 DEF LookAtLock, Keep, Goto, Leave, kv, history
  <2> QED
    BY DEF NoClash, Busy
<1>4. ASSUME NEW u \in Updates, PutLock(u) PROVE NoClash'
  <2> USE <1>4 DEF PutLock, Keep, Goto
  <2> QED
    BY DEF NoClash, Busy
<1>5. ASSUME NEW u \in Updates, Release(u) PROVE NoClash'
  <2> USE <1>5 DEF Release, Leave, Goto, history
  <2> QED
    BY DEF NoClash, Busy
<1>6. ASSUME NEW u \in Updates, Check(u) PROVE NoClash'
  <2> USE <1>6 DEF Check, Keep, Finish, Goto, kv, history
  <2> QED
    BY DEF NoClash, Busy
<1>7. ASSUME NEW u \in Updates, CheckLast(u) PROVE NoClash'
  <2> USE <1>7 DEF CheckLast, Keep, Finish, Goto, kv, history
  <2> QED
    BY DEF NoClash, Busy
<1>8. ASSUME NEW u \in Updates, Decide(u) PROVE NoClash'
  <2> USE <1>8 DEF Decide, Keep, Finish, Goto, kv, history
  <2> QED
    BY DEF NoClash, Busy
<1>9. ASSUME NEW u \in Updates, CheckPrompt(u) PROVE NoClash'
  <2> USE <1>9 DEF CheckPrompt, Keep, Leave, Goto, kv, history
  <2> QED
    BY DEF NoClash, Busy
<1>10. ASSUME NEW u \in Updates, ForgetPrompt(u) PROVE NoClash'
  <2> USE <1>10 DEF ForgetPrompt, Keep, Goto, history
  <2> QED
    BY DEF NoClash, Busy
<1>11. ASSUME NEW u \in Updates, Read(u) PROVE NoClash'
  <2> USE <1>11 DEF Read, AfterRead, Leave, Goto, kv, history
  <2> QED
    BY DEF NoClash, Busy
<1>12. ASSUME NEW u \in Updates, Remember(u) PROVE NoClash'
  <2> USE <1>12 DEF Remember, Goto, history
  <2> QED
    BY DEF NoClash, Busy
<1>13. ASSUME NEW u \in Updates, Prompt(u) PROVE NoClash'
  <2> USE <1>13 DEF Prompt, Finish, Keep, Goto, history
  <2> QED
    BY DEF NoClash, Busy
<1>14. ASSUME NEW u \in Updates, WriteQueue(u) PROVE NoClash'
  <2> USE <1>14 DEF WriteQueue, Moved, Keep, Goto, history
  <2> QED
    BY DEF NoClash, Busy
<1>15. ASSUME NEW u \in Updates, ForgetLast(u) PROVE NoClash'
  <2> USE <1>15 DEF ForgetLast, Keep, Goto, history
  <2> QED
    BY DEF NoClash, Busy
<1>16. ASSUME NEW u \in Updates, Reset(u) PROVE NoClash'
  <2> USE <1>16 DEF Reset, Keep, Goto
  <2>1. CASE CleanSlate(u)
    <3>1. \A v \in Updates : v # u => pc'[v] = "idle"
      BY <2>1 DEF CleanSlate, Alone, Busy
    <3> QED
      BY <3>1 DEF NoClash, Busy
  <2>2. CASE ~CleanSlate(u)
    <3>1. spoilt' = spoilt
      BY <2>2
    <3> QED
      BY <3>1 DEF NoClash, Busy
  <2> QED
    BY <2>1, <2>2
<1>17. ASSUME NEW u \in Updates, NotReady(u) PROVE NoClash'
  <2> USE <1>17 DEF NotReady, Finish, Goto, kv, history
  <2> QED
    BY DEF NoClash, Busy
<1>18. ASSUME NEW u \in Updates, Fetch(u) PROVE NoClash'
  <2> USE <1>18 DEF Fetch, Finish, Goto, kv, history
  <2> QED
    BY DEF NoClash, Busy
<1>19. ASSUME NEW u \in Updates, StoreQueue(u) PROVE NoClash'
  <2> USE <1>19 DEF StoreQueue, Keep, Goto, history
  <2> QED
    BY DEF NoClash, Busy
<1>20. ASSUME NEW u \in Updates, Show(u) PROVE NoClash'
  <2> USE <1>20 DEF Show, Goto, kv, history
  <2> QED
    BY DEF NoClash, Busy
<1>21. ASSUME NEW u \in Updates, Send(u) PROVE NoClash'
  <2> USE <1>21 DEF Send, Shown, Finish, Leave, Goto, kv
  <2> QED
    BY DEF NoClash, Busy
<1>22. ASSUME NEW u \in Updates, Drop(u) PROVE NoClash'
  <2> USE <1>22 DEF Drop, Shown, Finish, Leave, Goto, history
  <2> QED
    BY DEF NoClash, Busy
<1>23. ASSUME NEW u \in Updates, Throw(u) PROVE NoClash'
  <2> USE <1>23 DEF Throw, Inside, InsideSteps, Finish, Leave, Goto, kv
  <2> QED
    BY DEF NoClash, Busy
<1>24. ASSUME NEW u \in Updates, Crash(u) PROVE NoClash'
  <2> USE <1>24 DEF Crash, Leave, Goto
  <2> QED
    BY DEF NoClash, Busy
<1>25. CASE Expire
  <2> USE <1>25 DEF Expire, locals
  <2> QED
    BY DEF NoClash, Busy
<1>26. CASE UNCHANGED vars
  <2> USE <1>26 DEF vars, kv, locals, history
  <2> QED
    BY DEF NoClash, Busy
<1> QED
  BY ArriveIsStart, <1>1, <1>2, <1>3, <1>4, <1>5, <1>6, <1>7, <1>8, <1>9, <1>10, <1>11, <1>12,
     <1>13, <1>14, <1>15, <1>16, <1>17, <1>18, <1>19, <1>20, <1>21, <1>22, <1>23, <1>24, <1>25,
     <1>26
     DEF Next, Locking, Deciding, Advancing, Presenting

\* The card that is shown is the queue's.
LEMMA StepScreen ==
    ASSUME IInv, LockExcludes, NoClash, OnScreen, Current, ScreenSeen, [Next]_vars
    PROVE  OnScreen' /\ Current' /\ ScreenSeen'
<1> USE DEF IInv, TypeOK, Paths, Path, Middle, Closing, Kinds
<1>1. ASSUME NEW u \in Updates, NEW d \in Doors, Start(u, d[1], d[2]) PROVE OnScreen' /\ Current' /\ ScreenSeen'
  <2> USE <1>1 DEF Doors, Start, Goto, kv
  <2>1. OnScreen'
    <3>1. (Calm' => Calm) /\ ~Pending(u)
      BY PendingInside DEF Calm, Busy, InsideSteps
    <3>2. \A v \in Updates : v # u => (Pending(v) => Pending(v)')
      BY DEF Pending
    <3>3. queue' = queue /\ screen' = screen
      OBVIOUS
    <3> QED
      BY <3>1, <3>2, <3>3 DEF OnScreen, HasCard, Card
  <2>2. Current'
    BY DEF Current, Pending, Calm, HasCard, Card
  <2>3. ScreenSeen'
    BY DEF ScreenSeen
  <2> QED
    BY <2>1, <2>2, <2>3
<1>2. ASSUME NEW u \in Updates, PickCurrent(u) PROVE OnScreen' /\ Current' /\ ScreenSeen'
  <2> USE <1>2 DEF PickCurrent, Goto, Leave, kv, history
  <2>1. OnScreen'
    BY DEF OnScreen, Pending, Calm, HasCard, Card
  <2>2. Current'
    BY DEF Current, Pending, Calm, HasCard, Card
  <2>3. ScreenSeen'
    BY DEF ScreenSeen
  <2> QED
    BY <2>1, <2>2, <2>3
<1>3. ASSUME NEW u \in Updates, LookAtLock(u) PROVE OnScreen' /\ Current' /\ ScreenSeen'
  <2> USE <1>3 DEF LookAtLock, Keep, Goto, Leave, kv, history
  <2>1. OnScreen'
    BY DEF OnScreen, Pending, Calm, HasCard, Card
  <2>2. Current'
    BY DEF Current, Pending, Calm, HasCard, Card
  <2>3. ScreenSeen'
    BY DEF ScreenSeen
  <2> QED
    BY <2>1, <2>2, <2>3
<1>4. ASSUME NEW u \in Updates, PutLock(u) PROVE OnScreen' /\ Current' /\ ScreenSeen'
  <2> USE <1>4 DEF PutLock, Keep, Goto
  <2>1. OnScreen'
    BY DEF OnScreen, Pending, Calm, HasCard, Card
  <2>2. Current'
    BY DEF Current, Pending, Calm, HasCard, Card
  <2>3. ScreenSeen'
    BY DEF ScreenSeen
  <2> QED
    BY <2>1, <2>2, <2>3
<1>5. ASSUME NEW u \in Updates, Release(u) PROVE OnScreen' /\ Current' /\ ScreenSeen'
  <2> USE <1>5 DEF Release, Leave, Goto, history
  <2>1. OnScreen'
    BY DEF OnScreen, Pending, Calm, HasCard, Card
  <2>2. Current'
    BY DEF Current, Pending, Calm, HasCard, Card
  <2>3. ScreenSeen'
    BY DEF ScreenSeen
  <2> QED
    BY <2>1, <2>2, <2>3
<1>6. ASSUME NEW u \in Updates, Check(u) PROVE OnScreen' /\ Current' /\ ScreenSeen'
  <2> USE <1>6 DEF Check, Keep, Finish, Goto, kv, history
  <2>1. OnScreen'
    BY DEF OnScreen, Pending, Calm, HasCard, Card
  <2>2. Current'
    BY DEF Current, Pending, Calm, HasCard, Card
  <2>3. ScreenSeen'
    BY DEF ScreenSeen
  <2> QED
    BY <2>1, <2>2, <2>3
<1>7. ASSUME NEW u \in Updates, CheckLast(u) PROVE OnScreen' /\ Current' /\ ScreenSeen'
  <2> USE <1>7 DEF CheckLast, Keep, Finish, Goto, kv, history
  <2>1. OnScreen'
    BY DEF OnScreen, Pending, Calm, HasCard, Card
  <2>2. Current'
    BY DEF Current, Pending, Calm, HasCard, Card
  <2>3. ScreenSeen'
    BY DEF ScreenSeen
  <2> QED
    BY <2>1, <2>2, <2>3
<1>8. ASSUME NEW u \in Updates, Decide(u) PROVE OnScreen' /\ Current' /\ ScreenSeen'
  <2> USE <1>8 DEF Decide, Keep, Finish, Goto, kv, history
  <2>1. OnScreen'
    BY DEF OnScreen, Pending, Calm, HasCard, Card
  <2>2. Current'
    BY DEF Current, Pending, Calm, HasCard, Card
  <2>3. ScreenSeen'
    BY DEF ScreenSeen
  <2> QED
    BY <2>1, <2>2, <2>3
<1>9. ASSUME NEW u \in Updates, CheckPrompt(u) PROVE OnScreen' /\ Current' /\ ScreenSeen'
  <2> USE <1>9 DEF CheckPrompt, Keep, Leave, Goto, kv, history
  <2>1. OnScreen'
    BY DEF OnScreen, Pending, Calm, HasCard, Card
  <2>2. Current'
    BY DEF Current, Pending, Calm, HasCard, Card
  <2>3. ScreenSeen'
    BY DEF ScreenSeen
  <2> QED
    BY <2>1, <2>2, <2>3
<1>10. ASSUME NEW u \in Updates, ForgetPrompt(u) PROVE OnScreen' /\ Current' /\ ScreenSeen'
  <2> USE <1>10 DEF ForgetPrompt, Keep, Goto, history
  <2>1. OnScreen'
    BY DEF OnScreen, Pending, Calm, HasCard, Card
  <2>2. Current'
    BY DEF Current, Pending, Calm, HasCard, Card
  <2>3. ScreenSeen'
    BY DEF ScreenSeen
  <2> QED
    BY <2>1, <2>2, <2>3
<1>11. ASSUME NEW u \in Updates, Read(u) PROVE OnScreen' /\ Current' /\ ScreenSeen'
  <2> USE <1>11 DEF Read, AfterRead, Leave, Goto, kv, history
  <2>1. OnScreen'
    BY DEF OnScreen, Pending, Calm, HasCard, Card
  <2>2. Current'
    BY DEF Current, Pending, Calm, HasCard, Card
  <2>3. ScreenSeen'
    BY DEF ScreenSeen
  <2> QED
    BY <2>1, <2>2, <2>3
<1>12. ASSUME NEW u \in Updates, Remember(u) PROVE OnScreen' /\ Current' /\ ScreenSeen'
  <2> USE <1>12 DEF Remember, Goto, history
  <2>1. OnScreen'
    BY DEF OnScreen, Pending, Calm, HasCard, Card
  <2>2. Current'
    BY DEF Current, Pending, Calm, HasCard, Card
  <2>3. ScreenSeen'
    BY DEF ScreenSeen
  <2> QED
    BY <2>1, <2>2, <2>3
<1>13. ASSUME NEW u \in Updates, Prompt(u) PROVE OnScreen' /\ Current' /\ ScreenSeen'
  <2> USE <1>13 DEF Prompt, Finish, Keep, Goto, history
  <2>1. OnScreen'
    BY DEF OnScreen, Pending, Calm, HasCard, Card
  <2>2. Current'
    BY DEF Current, Pending, Calm, HasCard, Card
  <2>3. ScreenSeen'
    BY DEF ScreenSeen
  <2> QED
    BY <2>1, <2>2, <2>3
<1>14. ASSUME NEW u \in Updates, WriteQueue(u) PROVE OnScreen' /\ Current' /\ ScreenSeen'
  <2> USE <1>14 DEF WriteQueue, Moved, Keep, Goto, history
  <2>4. Calm' => \A v \in Updates : v # u => pc[v] \notin {"send", "drop"}
    BY Sole DEF Calm, InsideSteps, Steps
  <2>1. OnScreen'
    BY EmptyQueue DEF OnScreen, Pending, Calm, Carried
  <2>2. Current'
    BY <2>4 DEF Current
  <2>3. ScreenSeen'
    BY DEF ScreenSeen
  <2> QED
    BY <2>1, <2>2, <2>3
<1>15. ASSUME NEW u \in Updates, ForgetLast(u) PROVE OnScreen' /\ Current' /\ ScreenSeen'
  <2> USE <1>15 DEF ForgetLast, Keep, Goto, history
  <2>1. OnScreen'
    BY DEF OnScreen, Pending, Calm, HasCard, Card
  <2>2. Current'
    BY DEF Current, Pending, Calm, HasCard, Card
  <2>3. ScreenSeen'
    BY DEF ScreenSeen
  <2> QED
    BY <2>1, <2>2, <2>3
<1>16. ASSUME NEW u \in Updates, Reset(u) PROVE OnScreen' /\ Current' /\ ScreenSeen'
  <2> USE <1>16 DEF Reset, Keep, Goto
  <2>1. CASE CleanSlate(u)
    <3>1. \A v \in Updates : v # u => pc'[v] = "idle"
      BY <2>1 DEF CleanSlate, Alone, Busy
    <3>2. queue' = NoQueue
      BY <2>1 DEF CleanSlate
    <3> QED
      BY <3>1, <3>2, EmptyQueue DEF OnScreen, Current, ScreenSeen
  <2>2. CASE ~CleanSlate(u)
    <3>1. Calm' => Calm
      BY <2>2 DEF Calm
    <3>2. Calm' => \A v \in Updates : v # u => pc[v] \notin {"send", "drop"}
      BY <3>1, Sole DEF InsideSteps, Steps
    <3>3. Current'
      BY <3>2 DEF Current
    <3>4. OnScreen'
      <4>1. CASE queue' = NoQueue
        BY <4>1, EmptyQueue DEF OnScreen
      <4>2. CASE queue' = queue
        BY <3>1, <4>2 DEF OnScreen, Pending
      <4> QED
        BY <4>1, <4>2
    <3> QED
      BY <3>3, <3>4 DEF ScreenSeen
  <2> QED
    BY <2>1, <2>2
<1>17. ASSUME NEW u \in Updates, NotReady(u) PROVE OnScreen' /\ Current' /\ ScreenSeen'
  <2> USE <1>17 DEF NotReady, Finish, Goto, kv, history
  <2>1. OnScreen'
    BY DEF OnScreen, Pending, Calm, HasCard, Card
  <2>2. Current'
    BY DEF Current, Pending, Calm, HasCard, Card
  <2>3. ScreenSeen'
    BY DEF ScreenSeen
  <2> QED
    BY <2>1, <2>2, <2>3
<1>18. ASSUME NEW u \in Updates, Fetch(u) PROVE OnScreen' /\ Current' /\ ScreenSeen'
  <2> USE <1>18 DEF Fetch, Finish, Goto, kv, history
  <2>1. OnScreen'
    BY DEF OnScreen, Pending, Calm, HasCard, Card
  <2>2. Current'
    BY DEF Current, Pending, Calm, HasCard, Card
  <2>3. ScreenSeen'
    BY DEF ScreenSeen
  <2> QED
    BY <2>1, <2>2, <2>3
<1>19. ASSUME NEW u \in Updates, StoreQueue(u) PROVE OnScreen' /\ Current' /\ ScreenSeen'
  <2> USE <1>19 DEF StoreQueue, Keep, Goto, history
  <2>4. Calm' => \A v \in Updates : v # u => pc[v] \notin {"send", "drop"}
    BY Sole DEF Calm, InsideSteps, Steps
  <2>1. OnScreen'
    BY EmptyQueue DEF OnScreen, Pending, Calm, Carried
  <2>2. Current'
    BY <2>4 DEF Current
  <2>3. ScreenSeen'
    BY DEF ScreenSeen
  <2> QED
    BY <2>1, <2>2, <2>3
<1>20. ASSUME NEW u \in Updates, Show(u) PROVE OnScreen' /\ Current' /\ ScreenSeen'
  <2> USE <1>20 DEF Show, Goto, kv, history
  <2>1. OnScreen'
    BY DEF OnScreen, Pending, Calm, HasCard, Card
  <2>2. Current'
    BY DEF Current, Pending, Calm, HasCard, Card
  <2>3. ScreenSeen'
    BY DEF ScreenSeen
  <2> QED
    BY <2>1, <2>2, <2>3
<1>21. ASSUME NEW u \in Updates, Send(u) PROVE OnScreen' /\ Current' /\ ScreenSeen'
  <2> USE <1>21 DEF Send, Shown, Finish, Leave, Goto, kv
  <2>1. OnScreen'
    <3>1. Calm' => Calm /\ screen' = Card(queue) /\ queue' = queue
      BY DEF Calm, Current
    <3> QED
      BY <3>1 DEF OnScreen, Card
  <2>2. Current'
    BY DEF Current, Pending, Calm, HasCard, Card
  <2>3. ScreenSeen'
    BY DEF ScreenSeen
  <2> QED
    BY <2>1, <2>2, <2>3
<1>22. ASSUME NEW u \in Updates, Drop(u) PROVE OnScreen' /\ Current' /\ ScreenSeen'
  <2> USE <1>22 DEF Drop, Shown, Finish, Leave, Goto, history
  <2>4. Calm' => \A v \in Updates : v # u => pc[v] \notin {"send", "drop"}
    BY Sole DEF Calm, InsideSteps, Steps
  <2>1. OnScreen'
    BY EmptyQueue DEF OnScreen, Pending, Calm, Carried
  <2>2. Current'
    BY <2>4 DEF Current
  <2>3. ScreenSeen'
    BY DEF ScreenSeen
  <2> QED
    BY <2>1, <2>2, <2>3
<1>23. ASSUME NEW u \in Updates, Throw(u) PROVE OnScreen' /\ Current' /\ ScreenSeen'
  <2> USE <1>23 DEF Throw, Finish, Leave, Goto, kv
  <2>1. OnScreen'
    <3>1. Calm' => Calm /\ ~Pending(u)
      BY PendingInside DEF Calm
    <3>2. \A v \in Updates : v # u => (Pending(v) => Pending(v)')
      BY DEF Pending
    <3> QED
      BY <3>1, <3>2 DEF OnScreen
  <2>2. Current'
    BY DEF Current, Pending, Calm, HasCard, Card
  <2>3. ScreenSeen'
    BY DEF ScreenSeen
  <2> QED
    BY <2>1, <2>2, <2>3
<1>24. ASSUME NEW u \in Updates, Crash(u) PROVE OnScreen' /\ Current' /\ ScreenSeen'
  <2> USE <1>24 DEF Crash, Leave, Goto
  <2>1. OnScreen'
    <3>1. Calm' => Calm /\ ~Pending(u)
      BY PendingInside DEF Calm
    <3>2. \A v \in Updates : v # u => (Pending(v) => Pending(v)')
      BY DEF Pending
    <3> QED
      BY <3>1, <3>2 DEF OnScreen
  <2>2. Current'
    BY DEF Current, Pending, Calm, HasCard, Card
  <2>3. ScreenSeen'
    BY DEF ScreenSeen
  <2> QED
    BY <2>1, <2>2, <2>3
<1>25. CASE Expire
  <2> USE <1>25 DEF Expire, locals
  <2>1. CASE queue' = NoQueue /\ (Calm' => \A u \in Updates : pc[u] \notin Showing)
    <3>1. Current'
      BY <2>1 DEF Current, Showing
    <3> QED
      BY <2>1, <3>1, EmptyQueue DEF OnScreen, ScreenSeen
  <2>2. CASE queue' = queue
    <3>1. Calm' => Calm
      BY DEF Calm
    <3> QED
      BY <2>2, <3>1 DEF OnScreen, Current, ScreenSeen, Pending
  <2> QED
    BY <2>1, <2>2 DEF Calm
<1>26. CASE UNCHANGED vars
  <2> USE <1>26 DEF vars, kv, locals, history
  <2>1. OnScreen'
    BY DEF OnScreen, Pending, Calm, HasCard, Card
  <2>2. Current'
    BY DEF Current, Pending, Calm, HasCard, Card
  <2>3. ScreenSeen'
    BY DEF ScreenSeen
  <2> QED
    BY <2>1, <2>2, <2>3
<1> QED
  BY ArriveIsStart, <1>1, <1>2, <1>3, <1>4, <1>5, <1>6, <1>7, <1>8, <1>9, <1>10, <1>11, <1>12,
     <1>13, <1>14, <1>15, <1>16, <1>17, <1>18, <1>19, <1>20, <1>21, <1>22, <1>23, <1>24, <1>25,
     <1>26
     DEF Next, Locking, Deciding, Advancing, Presenting

\* What a reply aims at stays seen, or about to be.
LEMMA StepAim ==
    ASSUME IInv, LockExcludes, NoClash, OnScreen, Current, ScreenSeen, Aim, [Next]_vars
    PROVE  Aim'
<1> USE DEF IInv, TypeOK, Paths, Path, Middle, Closing, Kinds
<1>1. ASSUME NEW u \in Updates, NEW d \in Doors, Start(u, d[1], d[2]) PROVE Aim'
  <2> USE <1>1 DEF Doors, Start, Goto, kv
  <2>1. Calm' => Calm /\ queue' = queue /\ seen \subseteq seen'
    BY DEF Calm
  <2>2. Calm' => \A v \in Updates : Pending(v) => Pending(v)'
    <3>1. Calm' => ~Pending(u)
      BY PendingInside DEF Busy, InsideSteps
    <3>2. \A v \in Updates : v # u => (Pending(v) => Pending(v)')
      BY DEF Pending
    <3> QED
      BY <3>1, <3>2
  <2>3. \A v \in Updates : Aiming(v)' => Aiming(v) /\ target'[v] = target[v]
    BY DEF Aiming
  <2> QED
    BY <2>1, <2>2, <2>3, AimKept
<1>2. ASSUME NEW u \in Updates, PickCurrent(u) PROVE Aim'
  <2> USE <1>2 DEF PickCurrent, Goto, Leave, kv, history
  <2> SUFFICES ASSUME Calm', NEW x \in Updates, Aiming(x)'
               PROVE  \/ target'[x] \in seen'
                      \/ \E v \in Updates \ {x} : Pending(v)' /\ HasCard(queue') /\ Card(queue') = target'[x]
    BY DEF Aim, HasCard, Card
  <2>1. Calm /\ \A v \in Updates : Pending(v) => v # u /\ Pending(v)'
    BY DEF Pending, Calm
  <2>2. CASE x # u
    <3>1. Aiming(x) /\ target'[x] = target[x]
      BY <2>2 DEF Aiming
    <3> QED
      BY <2>1, <3>1 DEF Aim
  <2>3. CASE x = u
    <3>1. HasCard(queue) /\ target'[u] = Card(queue)
      BY <2>3 DEF Aiming
    <3>2. CASE \E v \in Updates : Pending(v)
      BY <2>1, <2>3, <3>1, <3>2
    <3>3. CASE \A v \in Updates : ~Pending(v)
      <4>1. screen = Card(queue)
        BY <2>1, <3>1, <3>3 DEF OnScreen
      <4>2. Card(queue) # NoCard
        BY <3>1, QueueFacts DEF Cards, NoCard
      <4> QED
        BY <2>3, <3>1, <4>1, <4>2 DEF ScreenSeen
    <3> QED
      BY <3>2, <3>3
  <2> QED
    BY <2>2, <2>3
<1>3. ASSUME NEW u \in Updates, LookAtLock(u) PROVE Aim'
  <2> USE <1>3 DEF LookAtLock, Keep, Goto, Leave, kv, history
  <2>1. Calm' => Calm /\ queue' = queue /\ seen \subseteq seen'
    BY DEF Calm
  <2>2. Calm' => \A v \in Updates : Pending(v) => Pending(v)'
    BY DEF Pending
  <2>3. \A v \in Updates : Aiming(v)' => Aiming(v) /\ target'[v] = target[v]
    BY DEF Aiming
  <2> QED
    BY <2>1, <2>2, <2>3, AimKept
<1>4. ASSUME NEW u \in Updates, PutLock(u) PROVE Aim'
  <2> USE <1>4 DEF PutLock, Keep, Goto
  <2>1. Calm' => Calm /\ queue' = queue /\ seen \subseteq seen'
    BY DEF Calm
  <2>2. Calm' => \A v \in Updates : Pending(v) => Pending(v)'
    BY DEF Pending
  <2>3. \A v \in Updates : Aiming(v)' => Aiming(v) /\ target'[v] = target[v]
    BY DEF Aiming
  <2> QED
    BY <2>1, <2>2, <2>3, AimKept
<1>5. ASSUME NEW u \in Updates, Release(u) PROVE Aim'
  <2> USE <1>5 DEF Release, Leave, Goto, history
  <2>1. Calm' => Calm /\ queue' = queue /\ seen \subseteq seen'
    BY DEF Calm
  <2>2. Calm' => \A v \in Updates : Pending(v) => Pending(v)'
    BY DEF Pending
  <2>3. \A v \in Updates : Aiming(v)' => Aiming(v) /\ target'[v] = target[v]
    BY DEF Aiming
  <2> QED
    BY <2>1, <2>2, <2>3, AimKept
<1>6. ASSUME NEW u \in Updates, Check(u) PROVE Aim'
  <2> USE <1>6 DEF Check, Keep, Finish, Goto, kv, history
  <2>1. Calm' => Calm /\ queue' = queue /\ seen \subseteq seen'
    BY DEF Calm
  <2>2. Calm' => \A v \in Updates : Pending(v) => Pending(v)'
    BY DEF Pending
  <2>3. \A v \in Updates : Aiming(v)' => Aiming(v) /\ target'[v] = target[v]
    BY DEF Aiming
  <2> QED
    BY <2>1, <2>2, <2>3, AimKept
<1>7. ASSUME NEW u \in Updates, CheckLast(u) PROVE Aim'
  <2> USE <1>7 DEF CheckLast, Keep, Finish, Goto, kv, history
  <2>1. Calm' => Calm /\ queue' = queue /\ seen \subseteq seen'
    BY DEF Calm
  <2>2. Calm' => \A v \in Updates : Pending(v) => Pending(v)'
    BY DEF Pending
  <2>3. \A v \in Updates : Aiming(v)' => Aiming(v) /\ target'[v] = target[v]
    BY DEF Aiming
  <2> QED
    BY <2>1, <2>2, <2>3, AimKept
<1>8. ASSUME NEW u \in Updates, Decide(u) PROVE Aim'
  <2> USE <1>8 DEF Decide, Keep, Finish, Goto, kv, history
  <2>1. Calm' => Calm /\ queue' = queue /\ seen \subseteq seen'
    BY DEF Calm
  <2>2. Calm' => \A v \in Updates : Pending(v) => Pending(v)'
    BY DEF Pending
  <2>3. \A v \in Updates : Aiming(v)' => Aiming(v) /\ target'[v] = target[v]
    BY DEF Aiming
  <2> QED
    BY <2>1, <2>2, <2>3, AimKept
<1>9. ASSUME NEW u \in Updates, CheckPrompt(u) PROVE Aim'
  <2> USE <1>9 DEF CheckPrompt, Keep, Leave, Goto, kv, history
  <2>1. Calm' => Calm /\ queue' = queue /\ seen \subseteq seen'
    BY DEF Calm
  <2>2. Calm' => \A v \in Updates : Pending(v) => Pending(v)'
    BY DEF Pending
  <2>3. \A v \in Updates : Aiming(v)' => Aiming(v) /\ target'[v] = target[v]
    BY DEF Aiming
  <2> QED
    BY <2>1, <2>2, <2>3, AimKept
<1>10. ASSUME NEW u \in Updates, ForgetPrompt(u) PROVE Aim'
  <2> USE <1>10 DEF ForgetPrompt, Keep, Goto, history
  <2>1. Calm' => Calm /\ queue' = queue /\ seen \subseteq seen'
    BY DEF Calm
  <2>2. Calm' => \A v \in Updates : Pending(v) => Pending(v)'
    BY DEF Pending
  <2>3. \A v \in Updates : Aiming(v)' => Aiming(v) /\ target'[v] = target[v]
    BY DEF Aiming
  <2> QED
    BY <2>1, <2>2, <2>3, AimKept
<1>11. ASSUME NEW u \in Updates, Read(u) PROVE Aim'
  <2> USE <1>11 DEF Read, AfterRead, Leave, Goto, kv, history
  <2>1. Calm' => Calm /\ queue' = queue /\ seen \subseteq seen'
    BY DEF Calm
  <2>2. Calm' => \A v \in Updates : Pending(v) => Pending(v)'
    BY DEF Pending
  <2>3. \A v \in Updates : Aiming(v)' => Aiming(v) /\ target'[v] = target[v]
    BY DEF Aiming
  <2> QED
    BY <2>1, <2>2, <2>3, AimKept
<1>12. ASSUME NEW u \in Updates, Remember(u) PROVE Aim'
  <2> USE <1>12 DEF Remember, Goto, history
  <2>1. Calm' => Calm /\ queue' = queue /\ seen \subseteq seen'
    BY DEF Calm
  <2>2. Calm' => \A v \in Updates : Pending(v) => Pending(v)'
    BY DEF Pending
  <2>3. \A v \in Updates : Aiming(v)' => Aiming(v) /\ target'[v] = target[v]
    BY DEF Aiming
  <2> QED
    BY <2>1, <2>2, <2>3, AimKept
<1>13. ASSUME NEW u \in Updates, Prompt(u) PROVE Aim'
  <2> USE <1>13 DEF Prompt, Finish, Keep, Goto, history
  <2>1. Calm' => Calm /\ queue' = queue /\ seen \subseteq seen'
    BY DEF Calm
  <2>2. Calm' => \A v \in Updates : Pending(v) => Pending(v)'
    BY DEF Pending
  <2>3. \A v \in Updates : Aiming(v)' => Aiming(v) /\ target'[v] = target[v]
    BY DEF Aiming
  <2> QED
    BY <2>1, <2>2, <2>3, AimKept
<1>14. ASSUME NEW u \in Updates, WriteQueue(u) PROVE Aim'
  <2> USE <1>14 DEF WriteQueue, Moved, Keep, Goto, history
  <2>1. Calm' => Calm /\ seen \subseteq seen'
    BY DEF Calm
  <2>2. pc[u] \in InsideSteps /\ (Calm /\ HasCard(queue) => ~Pending(u))
    BY DEF InsideSteps, Steps, Pending
  <2>3. \A v \in Updates : Aiming(v)' => Aiming(v) /\ target'[v] = target[v]
    BY DEF Aiming
  <2> QED
    BY <2>1, <2>2, <2>3, AimSole
<1>15. ASSUME NEW u \in Updates, ForgetLast(u) PROVE Aim'
  <2> USE <1>15 DEF ForgetLast, Keep, Goto, history
  <2>1. Calm' => Calm /\ queue' = queue /\ seen \subseteq seen'
    BY DEF Calm
  <2>2. Calm' => \A v \in Updates : Pending(v) => Pending(v)'
    BY DEF Pending
  <2>3. \A v \in Updates : Aiming(v)' => Aiming(v) /\ target'[v] = target[v]
    BY DEF Aiming
  <2> QED
    BY <2>1, <2>2, <2>3, AimKept
<1>16. ASSUME NEW u \in Updates, Reset(u) PROVE Aim'
  <2> USE <1>16 DEF Reset, Keep, Goto
  <2>1. CASE CleanSlate(u)
    <3>1. \A v \in Updates : ~Aiming(v)'
      BY <2>1 DEF CleanSlate, Alone, Busy, Aiming
    <3> QED
      BY <3>1 DEF Aim
  <2>2. CASE ~CleanSlate(u)
    <3>1. Calm' => Calm /\ seen \subseteq seen'
      BY <2>2 DEF Calm
    <3>2. pc[u] \in InsideSteps /\ ~Pending(u)
      BY DEF InsideSteps, Steps, Pending
    <3>3. \A v \in Updates : Aiming(v)' => Aiming(v) /\ target'[v] = target[v]
      BY DEF Aiming
    <3> QED
      BY <3>1, <3>2, <3>3, AimSole
  <2> QED
    BY <2>1, <2>2
<1>17. ASSUME NEW u \in Updates, NotReady(u) PROVE Aim'
  <2> USE <1>17 DEF NotReady, Finish, Goto, kv, history
  <2>1. Calm' => Calm /\ queue' = queue /\ seen \subseteq seen'
    BY DEF Calm
  <2>2. Calm' => \A v \in Updates : Pending(v) => Pending(v)'
    BY DEF Pending
  <2>3. \A v \in Updates : Aiming(v)' => Aiming(v) /\ target'[v] = target[v]
    BY DEF Aiming
  <2> QED
    BY <2>1, <2>2, <2>3, AimKept
<1>18. ASSUME NEW u \in Updates, Fetch(u) PROVE Aim'
  <2> USE <1>18 DEF Fetch, Finish, Goto, kv, history
  <2>1. Calm' => Calm /\ queue' = queue /\ seen \subseteq seen'
    BY DEF Calm
  <2>2. Calm' => \A v \in Updates : Pending(v) => Pending(v)'
    BY DEF Pending
  <2>3. \A v \in Updates : Aiming(v)' => Aiming(v) /\ target'[v] = target[v]
    BY DEF Aiming
  <2> QED
    BY <2>1, <2>2, <2>3, AimKept
<1>19. ASSUME NEW u \in Updates, StoreQueue(u) PROVE Aim'
  <2> USE <1>19 DEF StoreQueue, Keep, Goto, history
  <2>1. Calm' => Calm /\ seen \subseteq seen'
    BY DEF Calm
  <2>2. pc[u] \in InsideSteps /\ (Calm /\ HasCard(queue) => ~Pending(u))
    BY DEF InsideSteps, Steps, Pending
  <2>3. \A v \in Updates : Aiming(v)' => Aiming(v) /\ target'[v] = target[v]
    BY DEF Aiming
  <2> QED
    BY <2>1, <2>2, <2>3, AimSole
<1>20. ASSUME NEW u \in Updates, Show(u) PROVE Aim'
  <2> USE <1>20 DEF Show, Goto, kv, history
  <2>1. Calm' => Calm /\ queue' = queue /\ seen \subseteq seen'
    BY DEF Calm
  <2>2. Calm' => \A v \in Updates : Pending(v) => Pending(v)'
    BY DEF Pending
  <2>3. \A v \in Updates : Aiming(v)' => Aiming(v) /\ target'[v] = target[v]
    BY DEF Aiming
  <2> QED
    BY <2>1, <2>2, <2>3, AimKept
<1>21. ASSUME NEW u \in Updates, Send(u) PROVE Aim'
  <2> USE <1>21 DEF Send, Shown, Finish, Leave, Goto, kv
  <2> SUFFICES ASSUME Calm', NEW x \in Updates, Aiming(x)' PROVE target'[x] \in seen'
    BY DEF Aim
  <2>1. Calm /\ seen' = seen \cup {Card(queue)}
    BY DEF Calm, Current
  <2>2. Aiming(x) /\ target'[x] = target[x]
    BY DEF Aiming
  <2>3. target[x] \in seen \/ (HasCard(queue) /\ Card(queue) = target[x])
    BY <2>1, <2>2 DEF Aim
  <2> QED
    BY <2>1, <2>2, <2>3
<1>22. ASSUME NEW u \in Updates, Drop(u) PROVE Aim'
  <2> USE <1>22 DEF Drop, Shown, Finish, Leave, Goto, history
  <2>1. Calm' => Calm /\ seen \subseteq seen'
    BY DEF Calm
  <2>2. pc[u] \in InsideSteps /\ (Calm /\ HasCard(queue) => ~Pending(u))
    BY DEF InsideSteps, Steps, Pending, Current
  <2>3. \A v \in Updates : Aiming(v)' => Aiming(v) /\ target'[v] = target[v]
    BY DEF Aiming
  <2> QED
    BY <2>1, <2>2, <2>3, AimSole
<1>23. ASSUME NEW u \in Updates, Throw(u) PROVE Aim'
  <2> USE <1>23 DEF Throw, Finish, Leave, Goto, kv
  <2>1. Calm' => Calm /\ queue' = queue /\ seen \subseteq seen'
    BY DEF Calm
  <2>2. Calm' => \A v \in Updates : Pending(v) => Pending(v)'
    <3>1. Calm' => ~Pending(u)
      BY PendingInside DEF Calm
    <3>2. \A v \in Updates : v # u => (Pending(v) => Pending(v)')
      BY DEF Pending
    <3> QED
      BY <3>1, <3>2
  <2>3. \A v \in Updates : Aiming(v)' => Aiming(v) /\ target'[v] = target[v]
    BY DEF Aiming
  <2> QED
    BY <2>1, <2>2, <2>3, AimKept
<1>24. ASSUME NEW u \in Updates, Crash(u) PROVE Aim'
  <2> USE <1>24 DEF Crash, Leave, Goto
  <2>1. Calm' => Calm /\ queue' = queue /\ seen \subseteq seen'
    BY DEF Calm
  <2>2. Calm' => \A v \in Updates : Pending(v) => Pending(v)'
    <3>1. Calm' => ~Pending(u)
      BY PendingInside DEF Calm
    <3>2. \A v \in Updates : v # u => (Pending(v) => Pending(v)')
      BY DEF Pending
    <3> QED
      BY <3>1, <3>2
  <2>3. \A v \in Updates : Aiming(v)' => Aiming(v) /\ target'[v] = target[v]
    BY DEF Aiming
  <2> QED
    BY <2>1, <2>2, <2>3, AimKept
<1>25. CASE Expire
  <2> USE <1>25 DEF Expire, locals
  <2>1. \A v \in Updates : Aiming(v)' => Aiming(v) /\ target'[v] = target[v]
    BY DEF Aiming
  <2>2. \A v \in Updates : Pending(v)' <=> Pending(v)
    BY DEF Pending
  <2>3. Calm' => Calm /\ seen' = seen
    BY DEF Calm
  <2>4. CASE queue' = queue
    BY <2>1, <2>2, <2>3, <2>4, AimKept
  <2>5. CASE Calm' => \A u \in Updates : pc[u] \notin Showing
    BY <2>1, <2>3, <2>5, PendingInside DEF Aim
  <2> QED
    BY <2>4, <2>5 DEF Calm
<1>26. CASE UNCHANGED vars
  <2> USE <1>26 DEF vars, kv, locals, history
  <2>1. Calm' => Calm /\ queue' = queue /\ seen \subseteq seen'
    BY DEF Calm
  <2>2. Calm' => \A v \in Updates : Pending(v) => Pending(v)'
    BY DEF Pending
  <2>3. \A v \in Updates : Aiming(v)' => Aiming(v) /\ target'[v] = target[v]
    BY DEF Aiming
  <2> QED
    BY <2>1, <2>2, <2>3, AimKept
<1> QED
  BY ArriveIsStart, <1>1, <1>2, <1>3, <1>4, <1>5, <1>6, <1>7, <1>8, <1>9, <1>10, <1>11, <1>12,
     <1>13, <1>14, <1>15, <1>16, <1>17, <1>18, <1>19, <1>20, <1>21, <1>22, <1>23, <1>24, <1>25,
     <1>26
     DEF Next, Locking, Deciding, Advancing, Presenting

LEMMA OrderHolds == Spec => [](NoClash /\ OnScreen /\ Current /\ ScreenSeen /\ Aim)
<1>1. /\ IInv /\ LockExcludes /\ (NoClash /\ OnScreen /\ Current /\ ScreenSeen /\ Aim)
      /\ [Next]_vars
      => (NoClash /\ OnScreen /\ Current /\ ScreenSeen /\ Aim)'
  BY StepOrder, StepScreen, StepAim
<1> QED
  BY IInvHolds, LocksExclude, InitOrder, <1>1, PTL DEF Spec

\* When every handler has ended, the card on the screen is the one the queue
\* points at: every write of the queue is followed by its card under one lock.
THEOREM ScreenAgrees == Spec => []ShownIsCurrent
<1>1. OnScreen => ShownIsCurrent
  BY PendingInside DEF OnScreen, ShownIsCurrent, Calm, Busy, InsideSteps
<1> QED
  BY OrderHolds, <1>1, PTL

\* The reply keyboard decides only on cards that were shown, although it looks
\* its card up before it has the lock.
THEOREM RepliesHitSeen == Spec => []DecidesOnlySeen
<1>1. IInv /\ LockExcludes /\ NoClash /\ Aim => DecidesOnlySeen
  <2> SUFFICES ASSUME IInv, LockExcludes, NoClash, Aim, Calm,
                      NEW u \in Updates, pc[u] = "decide", kind[u] = "reply"
               PROVE  target[u] \in seen
    BY DEF DecidesOnlySeen, Calm
  <2>1. \A v \in Updates : Pending(v) => v = u
    BY PendingInside, Sole DEF IInv, InsideSteps, Steps
  <2> QED
    BY <2>1 DEF Aim, Aiming
<1> QED
  BY IInvHolds, LocksExclude, OrderHolds, <1>1, PTL

=============================================================================
