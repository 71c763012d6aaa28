-------------------------- MODULE NotificationQueue --------------------------
(***************************************************************************)
(* Notifications from the row INSERTed by a producer to the verdict of the *)
(* queue consumer: persistAndEnqueue (cron jobs) and the API's enqueue     *)
(* handler produce, NotificationQueueConsumer and the dead-letter branch   *)
(* of the worker consume.  A process is one copy of a queue message; every *)
(* awaited D1 statement and the call to the bot are steps of their own.    *)
(* The queue itself (redelivery, duplicates, dead-lettering) is external   *)
(* and configured by wrangler.toml.                                        *)
(***************************************************************************)
EXTENDS Integers

CONSTANTS
    Notes,      \* notification ids (a fresh UUID per enqueue)
    ApiNotes,   \* those produced by the API's handler instead of a cron job
    Msgs,       \* copies of queue messages
    MaxRetries, \* max_retries of the consumer
    Faults      \* what may go wrong, a subset of FaultKinds

\* "send": send rejects, nothing queued; "lostAnswer": it rejects after the
\* message was queued; "db": a statement fails, run or not; "bot": the call
\* fails or is refused; "body": reading the answer's body fails; "crash": the
\* invocation is evicted; "duplicate": the queue delivers twice.
FaultKinds == {"send", "lostAnswer", "db", "bot", "body", "crash", "duplicate"}

ASSUME ConstantsAssumption ==
    /\ ApiNotes \subseteq Notes
    /\ MaxRetries \in Nat
    /\ Faults \subseteq FaultKinds

VARIABLES
    row,   \* row[n]: notifications.status, or "absent"
    prod,  \* prod[n]: the producer's next statement, or how it ended
    pc,    \* pc[m]: where copy m is; a verdict: the UPDATE it runs next
    of,    \* of[m]: the notification copy m is about
    tries, \* tries[m]: deliveries of m that ended in a retry
    told   \* history: told[n]: answers with success the consumers got for n

vars == <<row, prod, pc, of, tries, told>>

Verdicts == {"delivered", "dlq", "failed"}
Statuses == {"absent", "pending", "processing"} \cup Verdicts
InFlight == {"read", "claim", "fetch"} \cup Verdicts
Places   == {"none", "queued", "dead", "gone"} \cup InFlight
Stages   == {"idle", "send", "compensate", "accepted", "refused"}

Holding(m)   == pc[m] \in {"fetch"} \cup Verdicts
Holders(n)   == {m \in Msgs : Holding(m) /\ of[m] = n}
Claimable(n) == row[n] \in {"pending", "failed"}

Init ==
    /\ row = [n \in Notes |-> "absent"]
    /\ prod = [n \in Notes |-> "idle"]
    /\ pc = [m \in Msgs |-> "none"]
    /\ of = [m \in Msgs |-> "none"]
    /\ tries = [m \in Msgs |-> 0]
    /\ told = [n \in Notes |-> 0]

\* UPDATE notifications SET status = s WHERE id = ?; a failing statement may
\* have run all the same.
SetStatus(n, s) ==
    row' = IF row[n] = "absent" THEN row ELSE [row EXCEPT ![n] = s]
MaybeSetStatus(n, s) == SetStatus(n, s) \/ UNCHANGED row

-----------------------------------------------------------------------------
(* The queue, external. *)

GoTo(m, place) ==
    /\ pc' = [pc EXCEPT ![m] = place]
    /\ UNCHANGED <<of, tries>>

Ack(m) == GoTo(m, "gone")

\* A delivery that is not acknowledged comes back until max_retries is used up.
Retry(m) ==
    \/ /\ tries[m] < MaxRetries
       /\ pc' = [pc EXCEPT ![m] = "queued"]
       /\ tries' = [tries EXCEPT ![m] = @ + 1]
       /\ UNCHANGED of
    \/ /\ tries[m] = MaxRetries
       /\ GoTo(m, "dead")

\* NotificationQueueProducer.enqueue; the bug variant sends a body without the id.
EnqueueBlank(n) ==
    \E m \in Msgs :
        /\ pc[m] = "none"
        /\ pc' = [pc EXCEPT ![m] = "queued"]
        /\ UNCHANGED <<of, tries>>
Enqueue(n) ==
    \E m \in Msgs :
        /\ pc[m] = "none"
        /\ pc' = [pc EXCEPT ![m] = "queued"]
        /\ of' = [of EXCEPT ![m] = n]
        /\ UNCHANGED tries

Deliver(m) ==
    /\ pc[m] = "queued"
    /\ GoTo(m, "read")
    /\ UNCHANGED <<row, prod, told>>

Duplicate(m, copy) ==
    /\ "duplicate" \in Faults
    /\ pc[m] \in {"queued"} \cup InFlight /\ pc[copy] = "none"
    /\ pc' = [pc EXCEPT ![copy] = "queued"]
    /\ of' = [of EXCEPT ![copy] = of[m]]
    /\ tries' = [tries EXCEPT ![copy] = tries[m]]
    /\ UNCHANGED <<row, prod, told>>

\* The invocation ends without a word: the queue takes it for a retry.
Crash(m) ==
    /\ "crash" \in Faults
    /\ pc[m] \in InFlight
    /\ Retry(m)
    /\ UNCHANGED <<row, prod, told>>

-----------------------------------------------------------------------------
(* Producers. *)

Stage(n, s) == prod' = [prod EXCEPT ![n] = s]

Persist(n) ==
    /\ prod[n] = "idle"
    /\ \/ /\ row' = [row EXCEPT ![n] = "pending"]
          /\ Stage(n, "send")
       \/ /\ "db" \in Faults
          /\ row' \in {row, [row EXCEPT ![n] = "pending"]}
          /\ Stage(n, "refused")
    /\ UNCHANGED <<pc, of, tries, told>>

Send(n) ==
    /\ prod[n] = "send"
    /\ \/ Enqueue(n) /\ Stage(n, "accepted")
       \/ /\ "lostAnswer" \in Faults
          /\ Enqueue(n) /\ Stage(n, "compensate")
       \/ /\ "send" \in Faults
          /\ Stage(n, "compensate")
          /\ UNCHANGED <<pc, of, tries>>
    /\ UNCHANGED <<row, told>>

\* Bug variant of Compensate: the row is left for the next run to find.
ForgetRow(n) ==
    /\ prod[n] = "compensate"
    /\ \/ n \in ApiNotes /\ SetStatus(n, "failed")
       \/ n \notin ApiNotes /\ UNCHANGED row
    /\ Stage(n, "refused")
    /\ UNCHANGED <<pc, of, tries, told>>

\* The cron jobs DELETE the row, the API marks it failed; either way an error of
\* the statement is swallowed and the caller hears of the failed send.
Compensate(n) ==
    /\ prod[n] = "compensate"
    /\ \/ n \in ApiNotes /\ SetStatus(n, "failed")
       \/ n \notin ApiNotes /\ row' = [row EXCEPT ![n] = "absent"]
       \/ "db" \in Faults /\ UNCHANGED row
    /\ Stage(n, "refused")
    /\ UNCHANGED <<pc, of, tries, told>>

ProducerCrash(n) ==
    /\ "crash" \in Faults
    /\ prod[n] \in {"send", "compensate"}
    /\ Stage(n, "refused")
    /\ UNCHANGED <<row, pc, of, tries, told>>

-----------------------------------------------------------------------------
(* The consumer. *)

\* processOne: a message about an unknown or settled row is acknowledged.
ReadRow(m) ==
    /\ pc[m] = "read"
    /\ \/ row[of[m]] \in {"absent", "delivered", "dlq"} /\ Ack(m)
       \/ row[of[m]] \notin {"absent", "delivered", "dlq"} /\ GoTo(m, "claim")
       \/ "db" \in Faults /\ Retry(m)
    /\ UNCHANGED <<row, prod, told>>

\* Bug variant of Claim: rows in 'processing' can be claimed too.
ClaimAgain(m) ==
    /\ pc[m] = "claim"
    /\ \/ /\ row[of[m]] \in {"pending", "failed", "processing"}
          /\ SetStatus(of[m], "processing")
          /\ GoTo(m, "fetch")
       \/ /\ row[of[m]] \notin {"pending", "failed", "processing"}
          /\ Ack(m)
          /\ UNCHANGED row
    /\ UNCHANGED <<prod, told>>

\* UPDATE ... SET status = 'processing' WHERE id = ? AND status IN ('pending',
\* 'failed'); no row changed is an acknowledgement.
Claim(m) ==
    /\ pc[m] = "claim"
    /\ \/ Claimable(of[m]) /\ SetStatus(of[m], "processing") /\ GoTo(m, "fetch")
       \/ ~Claimable(of[m]) /\ Ack(m) /\ UNCHANGED row
       \/ /\ "db" \in Faults
          /\ Retry(m)
          /\ IF Claimable(of[m]) THEN MaybeSetStatus(of[m], "processing") ELSE UNCHANGED row
    /\ UNCHANGED <<prod, told>>

\* The call to the bot: success, 410, another status or a transport error; the
\* body of a refusal is read before anything is written.
Fetch(m) ==
    /\ pc[m] = "fetch"
    /\ \/ /\ told' = [told EXCEPT ![of[m]] = @ + 1]
          /\ GoTo(m, "delivered")
       \/ /\ "bot" \in Faults
          /\ GoTo(m, "dlq") \/ GoTo(m, "failed")
          /\ UNCHANGED told
       \/ /\ "body" \in Faults
          /\ Retry(m)
          /\ UNCHANGED told
    /\ UNCHANGED <<row, prod>>

\* Bug variants of Settle: a delivered notification returned to the queue as
\* retryable; a message that used its last try acknowledged as failed.
SettleAsFailed(m) ==
    /\ pc[m] \in Verdicts
    /\ SetStatus(of[m], IF pc[m] = "dlq" THEN "dlq" ELSE "failed")
    /\ Retry(m)
    /\ UNCHANGED <<prod, told>>
SettleWithoutRetry(m) ==
    /\ pc[m] \in Verdicts
    /\ SetStatus(of[m], pc[m])
    /\ Ack(m)
    /\ UNCHANGED <<prod, told>>

\* The UPDATE of the verdict and the INSERT of the delivery attempt; whichever
\* fails, the message is retried, with the row written or not.
Settle(m) ==
    /\ pc[m] \in Verdicts
    /\ \/ /\ SetStatus(of[m], pc[m])
          /\ IF pc[m] = "failed" THEN Retry(m) ELSE Ack(m)
       \/ /\ "db" \in Faults
          /\ MaybeSetStatus(of[m], pc[m])
          /\ Retry(m)
    /\ UNCHANGED <<prod, told>>

\* The dead-letter consumer marks the row whatever its status; it has no retries
\* and acknowledges on errors too.
DeadLetter(m) ==
    /\ pc[m] = "dead"
    /\ \/ SetStatus(of[m], "dlq")
       \/ Faults \cap {"db", "crash"} # {} /\ UNCHANGED row
    /\ Ack(m)
    /\ UNCHANGED <<prod, told>>

-----------------------------------------------------------------------------
Produce(n) == Persist(n) \/ Send(n) \/ Compensate(n)

Consume(m) ==
    \/ Deliver(m) \/ ReadRow(m) \/ Claim(m) \/ Fetch(m) \/ Settle(m)
    \/ DeadLetter(m)

Next ==
    \/ \E n \in Notes : Produce(n) \/ ProducerCrash(n)
    \/ \E m \in Msgs : Consume(m) \/ Crash(m) \/ \E copy \in Msgs : Duplicate(m, copy)

Spec == Init /\ [][Next]_vars

\* The queue keeps delivering what is not acknowledged and an invocation that is
\* not evicted runs to its end; producers owe nothing.
FairSpec == Spec /\ \A m \in Msgs : WF_vars(Consume(m))

-----------------------------------------------------------------------------
TypeOK ==
    /\ row \in [Notes -> Statuses]
    /\ prod \in [Notes -> Stages]
    /\ pc \in [Msgs -> Places]
    /\ of \in [Msgs -> Notes \cup {"none"}]
    /\ \A m \in Msgs : pc[m] # "none" => of[m] \in Notes
    /\ tries \in [Msgs -> 0..MaxRetries]
    /\ told \in [Notes -> Nat]

\* The claim is a lock: whatever is lost, repeated or evicted, at most one copy
\* is between its claim and its verdict (deliverOrMarkFailed: "only one consumer
\* can transition a row ... into 'processing'").
OneHolder == \A m, c \in Msgs : Holding(m) /\ Holding(c) /\ of[m] = of[c] => m = c

\* A consumer that heard success from the bot is the last to call it: no lost
\* verdict, eviction or duplicate makes the row claimable again.
AtMostOneSuccess == \A n \in Notes : told[n] <= 1

\* A cron job that reports a failed enqueue has left no row behind
\* (persistAndEnqueue; queue.test.ts "no orphan").
NoOrphan == \A n \in Notes \ ApiNotes : prod[n] = "refused" => row[n] = "absent"

\* Every accepted notification ends up delivered or dead-lettered.
Settles == \A n \in Notes : prod[n] = "accepted" ~> row[n] \in {"delivered", "dlq"}

\* A message waiting for its retry finds a row it can reclaim, or one that is
\* settled ("reset to 'failed' so the retry can reclaim it").
RetryCanReclaim ==
    \A m \in Msgs :
        pc[m] = "queued" /\ Holders(of[m]) = {} => row[of[m]] # "processing"

\* The row and its consumers implement a lock with a success flag.
Delivery == INSTANCE DeliveryContract WITH
    holder <- [n \in Notes |-> Holders(n)]

ImplementsDelivery == Delivery!Spec

=============================================================================
