----------------------------- MODULE MatchSession -----------------------------
(***************************************************************************)
(* One user's walk through the bot's match cards.  The queue of cards, the *)
(* last action, the pending prompt and two locks are keys of a KV store    *)
(* without compare-and-swap; every Telegram update is a handler of its     *)
(* own that reads and writes them one call at a time.  Buttons under old   *)
(* cards stay usable, the reply keyboard acts on the queue's current card. *)
(***************************************************************************)
EXTENDS Integers, Sequences

CONSTANTS
    Updates, \* handlers that may run at the same time; each serves update after update
    MaxCards \* bound: cards a queue can hold; the bot asks for five

ASSUME ConstantsAssumption == MaxCards \in Nat \ {0}

\* The candidates are named by their rank.
Cards == 1..MaxCards

VARIABLES
    queue,     \* match_queue:<user>, or NoQueue
    last,      \* whether last_action:<user> names a decision to undo
    prompt,    \* ad_pending:<user>
    lock,      \* action_lock and match_command_lock: free, held, or orphaned by a crash
    pc, kind,  \* pc[u], kind[u]: the next step of handler u and what it serves
    target,    \* target[u]: the card a reply found in the queue
    mine,      \* mine[u]: the queue u has read
    seen,      \* history: the cards that were sent
    screen,    \* history: the card sent last
    weak,      \* history: two handlers got one lock, or a lock timed out under its holder
    spoilt     \* history: an unlocked writer overlapped, or queue and screen came apart

kv      == <<queue, last, prompt, lock>>
locals  == <<pc, kind, target, mine>>
history == <<seen, screen, weak, spoilt>>
vars    == <<kv, locals, history>>

NoCard  == 0
NoQueue == [cards |-> <<>>, index |-> 0]
Locks   == {"action", "command"}
Kinds   == {"none", "find", "act", "reply", "undo", "letter", "block", "dismiss"}
Steps   == {"idle", "pick", "lock", "locking", "check", "decide", "read", "remember", "prompt",
            "write", "forget", "show", "send", "drop", "release", "reset", "fetch"}

\* Bound: an exhausted queue that failed to be cleared is not advanced for ever.
IndexBound == MaxCards + 1

Queues == {NoQueue} \cup [cards : {[i \in 1..n |-> i] : n \in Cards}, index : 0..IndexBound]

\* queue.index counts from zero.
HasCard(q) == q.index < Len(q.cards)
Card(q)    == q.cards[q.index + 1]

Busy(u)  == pc[u] # "idle"
Alone(u) == \A v \in Updates \ {u} : ~Busy(v)

\* The queue writers that do not take the action lock.
Unlocked == {"find", "dismiss"}
LockOf(k) == IF k = "find" THEN "command" ELSE "action"

InsideSteps == Steps \ {"idle", "pick", "lock", "locking"}
Inside(u, l) == kind[u] # "dismiss" /\ LockOf(kind[u]) = l /\ pc[u] \in InsideSteps

Init ==
    /\ queue = NoQueue /\ last = FALSE /\ prompt = FALSE
    /\ lock = [l \in Locks |-> "free"]
    /\ pc = [u \in Updates |-> "idle"]
    /\ kind = [u \in Updates |-> "none"]
    /\ target = [u \in Updates |-> NoCard]
    /\ mine = [u \in Updates |-> NoQueue]
    /\ seen = {} /\ screen = NoCard /\ weak = FALSE /\ spoilt = FALSE

Goto(u, step) == pc' = [pc EXCEPT ![u] = step]
Keep(u, step) == Goto(u, step) /\ UNCHANGED <<kind, target, mine>>

\* On to the finally, which needs no locals.
Finish(u) ==
    /\ Goto(u, "release")
    /\ target' = [target EXCEPT ![u] = NoCard]
    /\ mine' = [mine EXCEPT ![u] = NoQueue]
    /\ UNCHANGED kind

\* The handler returned or is gone; its locals are forgotten.
Leave(u) ==
    /\ Goto(u, "idle")
    /\ kind' = [kind EXCEPT ![u] = "none"]
    /\ target' = [target EXCEPT ![u] = NoCard]
    /\ mine' = [mine EXCEPT ![u] = NoQueue]

-----------------------------------------------------------------------------
\* An update arrives.  Overlap with an unlocked writer of another kind, or of
\* two dismissals, is what nothing in the code guards against.
Clash(u, k) ==
    \E v \in Updates \ {u} :
        /\ Busy(v)
        /\ {k, kind[v]} \cap Unlocked # {}
        /\ k # kind[v] \/ k = "dismiss"

\* Bound: once something has gone wrong only a new /match is started.
MayStart(k) == weak \/ spoilt => k = "find"

Start(u, k, step) ==
    /\ ~Busy(u) /\ MayStart(k)
    /\ Goto(u, step)
    /\ kind' = [kind EXCEPT ![u] = k]
    /\ spoilt' = (spoilt \/ Clash(u, k))
    /\ UNCHANGED <<kv, target, mine, seen, screen, weak>>

Find(u) == Start(u, "find", "lock")

\* match:like|dislike|skip:<id>, match:block:<id>: buttons under any card sent so far.
Tap(u)   == seen # {} /\ Start(u, "act", "lock")
Block(u) == seen # {} /\ Start(u, "block", "lock")

\* The reply keyboard names no card.
Reply(u) == Start(u, "reply", "pick")

\* match:undo; who may not undo gets an upgrade hint.
Undo(u) == Start(u, "undo", "lock")

\* The text or photo that goes with a like.
Letter(u) == seen # {} /\ Start(u, "letter", "lock")

\* premium_ad:dismiss, referral:dismiss
Dismiss(u) == Start(u, "dismiss", "check")

\* handleMatchReplyAction: the card is looked up before the lock is taken.
PickCurrent(u) ==
    /\ pc[u] = "pick"
    /\ IF HasCard(queue)
       THEN /\ Goto(u, "lock")
            /\ target' = [target EXCEPT ![u] = Card(queue)]
            /\ UNCHANGED <<kind, mine>>
       ELSE Leave(u)
    /\ UNCHANGED <<kv, history>>

-----------------------------------------------------------------------------
\* The bug variant of LookAtLock returns inside the try, whose finally deletes.
LookAtLockInTry(u) ==
    /\ pc[u] = "lock"
    /\ IF lock[LockOf(kind[u])] = "free" THEN Keep(u, "locking") ELSE Keep(u, "release")
    /\ UNCHANGED <<kv, history>>

\* acquireActionLock and the head of matchCommand: get, then put.  Who finds
\* the key leaves without touching it.
LookAtLock(u) ==
    /\ pc[u] = "lock"
    /\ IF lock[LockOf(kind[u])] = "free" THEN Keep(u, "locking") ELSE Leave(u)
    /\ UNCHANGED <<kv, history>>

PutLock(u) ==
    /\ pc[u] = "locking"
    /\ weak' = (weak \/ lock[LockOf(kind[u])] # "free")
    /\ lock' = [lock EXCEPT ![LockOf(kind[u])] = "held"]
    /\ Keep(u, IF kind[u] = "find" THEN "reset" ELSE "check")
    /\ UNCHANGED <<queue, last, prompt, seen, screen, spoilt>>

\* finally
Release(u) ==
    /\ pc[u] = "release"
    /\ lock' = [lock EXCEPT ![LockOf(kind[u])] = "free"]
    /\ Leave(u)
    /\ UNCHANGED <<queue, last, prompt, history>>

-----------------------------------------------------------------------------
\* handleMatchAction's limits: a tier without skips, no likes or dislikes left.
\* A letter was checked when it was addressed, and a block needs nothing.
Check(u) ==
    /\ pc[u] = "check" /\ kind[u] \in {"act", "reply", "letter", "block"}
    /\ \/ Keep(u, "decide")
       \/ kind[u] \in {"act", "reply"} /\ Finish(u)
    /\ UNCHANGED <<kv, history>>

\* handleRollback reads which match to undo.
CheckLast(u) ==
    /\ pc[u] = "check" /\ kind[u] = "undo"
    /\ IF last THEN Keep(u, "decide") ELSE Finish(u)
    /\ UNCHANGED <<kv, history>>

\* createMatch, then the decision, the undo or the block: what the API makes of
\* it is MatchRepository's matter.  A call that fails or an undo that restores
\* nothing ends the handler; a refused dislike or skip goes on like a recorded one.
Decide(u) ==
    /\ pc[u] = "decide"
    /\ \/ Keep(u, IF kind[u] = "block" THEN "reset" ELSE "read")
       \/ Finish(u)
    /\ UNCHANGED <<kv, history>>

-----------------------------------------------------------------------------
\* advanceMatchQueueAfterAdDismiss: the prompt is read, then deleted.
CheckPrompt(u) ==
    /\ pc[u] = "check" /\ kind[u] = "dismiss"
    /\ IF prompt THEN Keep(u, "forget") ELSE Leave(u)
    /\ UNCHANGED <<kv, history>>

ForgetPrompt(u) ==
    /\ pc[u] = "forget" /\ kind[u] = "dismiss"
    /\ prompt' = FALSE
    /\ Keep(u, "read")
    /\ UNCHANGED <<queue, last, lock, history>>

\* The bug variant of AfterRead lets an undo step back from the first card.
AfterReadUnchecked(u) ==
    CASE queue = NoQueue     -> "release"
      [] kind[u] = "block"   -> IF HasCard(queue) THEN "show" ELSE "release"
      [] kind[u] \in {"act", "reply"} -> "remember"
      [] OTHER               -> "write"

\* getMatchQueue; where the handler goes with the queue it found, or without.
AfterRead(u) ==
    CASE kind[u] \in {"act", "reply"} -> IF queue = NoQueue THEN "release" ELSE "remember"
      [] kind[u] = "undo"            -> IF queue.index > 0 THEN "write" ELSE "forget"
      [] kind[u] = "block"           -> IF HasCard(queue) THEN "show" ELSE "release"
      [] OTHER                       -> IF queue = NoQueue THEN "release" ELSE "write"

Read(u) ==
    /\ pc[u] = "read"
    /\ IF kind[u] = "dismiss" /\ queue = NoQueue
       THEN Leave(u)
       ELSE /\ Goto(u, AfterRead(u))
            /\ mine' = [mine EXCEPT ![u] = queue]
            /\ UNCHANGED <<kind, target>>
    /\ UNCHANGED <<kv, history>>

\* setLastAction
Remember(u) ==
    /\ pc[u] = "remember"
    /\ last' = TRUE
    /\ Goto(u, "prompt")
    /\ target' = [target EXCEPT ![u] = NoCard]
    /\ UNCHANGED <<kind, mine, queue, prompt, lock, history>>

\* The referral prompt at the third card, an advertisement for free users once
\* enough cards have passed: the queue waits for the dismissal.  Which card gets
\* a prompt is left open; one that cannot be sent is passed over.
Prompt(u) ==
    /\ pc[u] = "prompt"
    /\ prompt' \in BOOLEAN
    /\ IF prompt' THEN Finish(u) ELSE Keep(u, "write")
    /\ UNCHANGED <<queue, last, lock, history>>

\* setMatchQueue with the index moved on, or back by an undo.
Moved(u) == [mine[u] EXCEPT !.index = IF kind[u] = "undo" THEN @ - 1 ELSE @ + 1]

\* The bug variant gives the lock back before the card is shown.
WriteAndUnlock(u) ==
    /\ pc[u] = "write" /\ kind[u] # "find"
    /\ Moved(u).index <= IndexBound
    /\ queue' = Moved(u)
    /\ lock' = [lock EXCEPT !["action"] = IF kind[u] = "dismiss" THEN @ ELSE "free"]
    /\ Keep(u, IF kind[u] = "undo" THEN "forget" ELSE "show")
    /\ UNCHANGED <<last, prompt, history>>

WriteQueue(u) ==
    /\ pc[u] = "write" /\ kind[u] # "find"
    /\ Moved(u).index <= IndexBound
    /\ queue' = Moved(u)
    /\ Keep(u, IF kind[u] = "undo" THEN "forget" ELSE "show")
    /\ UNCHANGED <<last, prompt, lock, history>>

ForgetLast(u) ==
    /\ pc[u] = "forget" /\ kind[u] \in {"undo", "find"}
    /\ last' = FALSE
    /\ Keep(u, IF kind[u] = "find" THEN "fetch" ELSE IF mine[u] = NoQueue THEN "release" ELSE "show")
    /\ UNCHANGED <<queue, prompt, lock, history>>

-----------------------------------------------------------------------------
\* A /match that holds its lock and has the queue to itself ends what went wrong.
CleanSlate(u) == kind[u] = "find" /\ Alone(u) /\ lock["command"] = "held"

\* matchCommand and handleBlock clear the queue; a block does not mind a failure.
Reset(u) ==
    /\ pc[u] = "reset"
    /\ queue' = NoQueue \/ (kind[u] = "block" /\ queue' = queue)
    /\ Keep(u, IF kind[u] = "find" THEN "forget" ELSE "read")
    /\ weak' = (weak /\ ~CleanSlate(u))
    /\ spoilt' = (spoilt /\ ~CleanSlate(u))
    /\ UNCHANGED <<last, prompt, lock, seen, screen>>

\* No profile, an incomplete one or no verified phone; the bug variant returns
\* before the try.
NotReadyEarly(u) ==
    /\ pc[u] = "reset" /\ kind[u] = "find"
    /\ Leave(u)
    /\ UNCHANGED <<kv, history>>
NotReady(u) ==
    /\ pc[u] = "reset" /\ kind[u] = "find"
    /\ Finish(u)
    /\ UNCHANGED <<kv, history>>

\* GET /users/:id/potential-matches: the candidates, best first; a failing call
\* counts as none.
Fetch(u) ==
    /\ pc[u] = "fetch"
    /\ \/ \E n \in Cards :
            /\ mine' = [mine EXCEPT ![u] = [cards |-> [i \in 1..n |-> i], index |-> 0]]
            /\ Goto(u, "write")
            /\ UNCHANGED <<kind, target>>
       \/ Finish(u)
    /\ UNCHANGED <<kv, history>>

StoreQueue(u) ==
    /\ pc[u] = "write" /\ kind[u] = "find"
    /\ queue' = mine[u]
    /\ Keep(u, "show")
    /\ UNCHANGED <<last, prompt, lock, history>>

\* The bug variant of Show uses the queue that was read before the write.
ShowOwn(u) ==
    /\ pc[u] = "show"
    /\ Goto(u, IF HasCard(mine[u]) THEN "send" ELSE "drop")
    /\ UNCHANGED <<kind, target, mine, kv, history>>

\* showNextMatch reads the queue again.
Show(u) ==
    /\ pc[u] = "show"
    /\ mine' = [mine EXCEPT ![u] = queue]
    /\ Goto(u, IF HasCard(queue) THEN "send" ELSE "drop")
    /\ UNCHANGED <<kind, target, kv, history>>

Shown(u) == IF kind[u] = "dismiss" THEN Leave(u) ELSE Finish(u)

\* sendMatchCard; when its fallback fails too the user sees no card.
Send(u) ==
    /\ pc[u] = "send"
    /\ \/ /\ seen' = seen \cup {Card(mine[u])}
          /\ screen' = Card(mine[u])
          /\ UNCHANGED spoilt
       \/ spoilt' = TRUE /\ UNCHANGED <<seen, screen>>
    /\ Shown(u)
    /\ UNCHANGED <<kv, weak>>

\* No card left: the queue is deleted.
Drop(u) ==
    /\ pc[u] = "drop"
    /\ queue' = NoQueue
    /\ Shown(u)
    /\ UNCHANGED <<last, prompt, lock, history>>

-----------------------------------------------------------------------------
\* The steps after which the queue and the screen may differ.
Showing == {"forget", "show", "send", "drop"}

\* A KV, API or Telegram call throws: inside a lock's try the finally runs.
Throw(u) ==
    /\ Busy(u)
    /\ \/ \E l \in Locks : Inside(u, l) /\ pc[u] # "release" /\ Finish(u)
       \/ (\A l \in Locks : ~Inside(u, l)) /\ Leave(u)
    /\ spoilt' = (spoilt \/ pc[u] \in Showing)
    /\ UNCHANGED <<kv, seen, screen, weak>>

\* The isolate is evicted, or the delete in the finally fails: the lock stays.
Crash(u) ==
    /\ Busy(u)
    /\ lock' = [l \in Locks |-> IF Inside(u, l) /\ lock[l] = "held" THEN "orphaned" ELSE lock[l]]
    /\ spoilt' = (spoilt \/ pc[u] \in Showing)
    /\ Leave(u)
    /\ UNCHANGED <<queue, last, prompt, seen, screen, weak>>

\* expirationTtl of each key.  A queue may time out between its last write and
\* the card that should follow.
Expire ==
    /\ \/ /\ queue' = NoQueue
          /\ spoilt' = (spoilt \/ \E u \in Updates : pc[u] \in Showing)
          /\ UNCHANGED <<last, prompt, lock, weak>>
       \/ last' = FALSE /\ UNCHANGED <<queue, prompt, lock, weak, spoilt>>
       \/ prompt' = FALSE /\ UNCHANGED <<queue, last, lock, weak, spoilt>>
       \/ \E l \in Locks :
            /\ lock' = [lock EXCEPT ![l] = "free"]
            /\ weak' = (weak \/ \E u \in Updates : Inside(u, l))
            /\ UNCHANGED <<queue, last, prompt, spoilt>>
    /\ UNCHANGED <<locals, seen, screen>>

-----------------------------------------------------------------------------
Arrive(u) == Find(u) \/ Tap(u) \/ Reply(u) \/ Undo(u) \/ Letter(u) \/ Block(u) \/ Dismiss(u)

Locking(u) == PickCurrent(u) \/ LookAtLock(u) \/ PutLock(u) \/ Release(u)

Deciding(u) == Check(u) \/ CheckLast(u) \/ Decide(u)

Advancing(u) ==
    CheckPrompt(u) \/ ForgetPrompt(u) \/ Read(u) \/ Remember(u) \/ Prompt(u) \/ WriteQueue(u) \/ ForgetLast(u)

Presenting(u) == Reset(u) \/ NotReady(u) \/ Fetch(u) \/ StoreQueue(u) \/ Show(u) \/ Send(u) \/ Drop(u)

Next ==
    \/ \E u \in Updates :
        \/ Arrive(u) \/ Locking(u) \/ Deciding(u) \/ Advancing(u) \/ Presenting(u)
        \/ Throw(u) \/ Crash(u)
    \/ Expire

Spec == Init /\ [][Next]_vars

-----------------------------------------------------------------------------
TypeOK ==
    /\ queue \in Queues
    /\ screen \in Cards \cup {NoCard}
    /\ {last, prompt, weak, spoilt} \subseteq BOOLEAN
    /\ lock \in [Locks -> {"free", "held", "orphaned"}]
    /\ seen \subseteq Cards
    /\ pc \in [Updates -> Steps]
    /\ kind \in [Updates -> Kinds]
    /\ target \in [Updates -> Cards \cup {NoCard}]
    /\ mine \in [Updates -> Queues]

\* A lock admits one handler at a time, unless two looked before either put it
\* (the race its comment concedes) or it timed out under its holder.
LockExcludes ==
    ~weak => \A l \in Locks : \A u, v \in Updates : Inside(u, l) /\ Inside(v, l) => u = v

\* Whatever early return, refusal or exception ends a handler, it takes its
\* lock with it: a held lock has a handler inside, so only a crash makes the
\* user wait for the 60 seconds of the TTL.
LockNotLeaked ==
    \A l \in Locks : lock[l] = "held" => \E u \in Updates : Inside(u, l)

\* Once every handler has ended, the card on the user's screen is the one the
\* queue points at, which is the one the reply keyboard would decide on.  Excused
\* (spoilt) is what a dismissal of a prompt, which takes no lock, or a handler of
\* another lock does while a handler is inside.
ShownIsCurrent ==
    (\A u \in Updates : ~Busy(u)) /\ HasCard(queue) /\ ~weak /\ ~spoilt => screen = Card(queue)

\* The reply keyboard never decides on a profile the user has not been shown,
\* although the card is looked up before the lock is taken.
DecidesOnlySeen ==
    \A u \in Updates :
        pc[u] = "decide" /\ kind[u] = "reply" /\ ~weak /\ ~spoilt => target[u] \in seen

=============================================================================
