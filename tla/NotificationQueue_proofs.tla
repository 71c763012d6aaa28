----------------------- MODULE NotificationQueue_proofs -----------------------
(***************************************************************************)
(* Proofs about NotificationQueue for every set of notifications, message  *)
(* copies, retry bound and faults, as long as no API send that put its     *)
(* message in the queue is reported as failed; and, at the end, about the  *)
(* Reminders that the cron jobs put there, for every table of stages.      *)
(***************************************************************************)
EXTENDS NotificationQueue, Reminders, TLAPS

\* The API marks the row of a failed send 'failed', which gives away a row that
\* a consumer may hold if the message was queued all the same.
HonestSend == ApiNotes = {} \/ "lostAnswer" \notin Faults

NoCopies(n) == \A m \in Msgs : pc[m] # "none" => of[m] # n

\* Before the message is handed over, and while the API compensates, no copy of
\* it exists.
ProducerFacts ==
    \A n \in Notes :
        /\ prod[n] = "idle" => row[n] = "absent"
        /\ prod[n] \in {"idle", "send"} \/ (prod[n] = "compensate" /\ n \in ApiNotes)
              => NoCopies(n) /\ told[n] = 0

\* The lock: a held row is not claimable; a row whose success was heard is not
\* claimable either, and its holder, if any, is about to write 'delivered'.
HeldFacts == \A m \in Msgs : Holding(m) => ~Claimable(of[m])

ToldFacts ==
    \A n \in Notes :
        /\ told[n] \in {0, 1}
        /\ told[n] = 1 => /\ ~Claimable(n)
                          /\ \A m \in Msgs : Holding(m) /\ of[m] = n => pc[m] = "delivered"

IInv ==
    /\ TypeOK
    /\ OneHolder
    /\ ProducerFacts
    /\ HeldFacts
    /\ ToldFacts

HoldPlaces == {"fetch"} \cup Verdicts

\* The invariant holds before anything is produced.
LEMMA InitIInv == Init => IInv
BY ConstantsAssumption DEF Init, IInv, TypeOK, OneHolder, ProducerFacts, HeldFacts, ToldFacts, NoCopies,
   Holding, Claimable, Verdicts, Statuses, InFlight, Places, Stages

\* A retry puts the copy back in the queue or among the dead letters.
LEMMA RetryMoves ==
    ASSUME TypeOK, NEW m \in Msgs, Retry(m)
    PROVE  \E x \in {"queued", "dead"} :
              /\ pc' = [pc EXCEPT ![m] = x]
              /\ of' = of
              /\ tries' \in [Msgs -> 0..MaxRetries]
BY ConstantsAssumption DEF TypeOK, Retry, GoTo

\* A status UPDATE changes one existing row and no other.
LEMMA SetStatusRow ==
    ASSUME TypeOK, NEW n \in Notes, NEW s \in Statuses, SetStatus(n, s)
    PROVE  /\ row' \in [Notes -> Statuses]
           /\ \A k \in Notes : k # n => row'[k] = row[k]
           /\ row'[n] \in {row[n], s}
           /\ row'[n] = row[n] <=> row[n] \in {"absent", s}
BY DEF TypeOK, SetStatus

\* A step of one copy that takes no lock, writes nothing claimable to the row
\* and hears nothing.
LEMMA PlainMove ==
    ASSUME IInv, NEW m \in Msgs, pc[m] # "none",
           NEW x \in Places \ {"none"}, pc' = [pc EXCEPT ![m] = x],
           x \in HoldPlaces => Holding(m) /\ (x = "delivered" \/ told[of[m]] = 0),
           of' = of, tries' \in [Msgs -> 0..MaxRetries],
           row' \in [Notes -> Statuses],
           \A n \in Notes : prod[n] = "idle" => row'[n] = row[n],
           \A n \in Notes : Claimable(n)' => Claimable(n) \/
                 (n = of[m] /\ Holding(m) /\ x \notin HoldPlaces /\ told[n] = 0),
           UNCHANGED <<prod, told>>
    PROVE  IInv'
<1>1. TypeOK'
  BY DEF IInv, TypeOK
<1>2. OneHolder'
  BY DEF IInv, TypeOK, OneHolder, Holding, HoldPlaces
<1>3. ProducerFacts'
  BY DEF IInv, TypeOK, ProducerFacts, NoCopies
<1>4. HeldFacts'
  <2> SUFFICES ASSUME NEW c \in Msgs, Holding(c)'
               PROVE  ~Claimable(of[c])'
    BY DEF HeldFacts
  <2>1. Holding(c) /\ (c = m => x \in HoldPlaces)
    BY DEF IInv, TypeOK, Holding, HoldPlaces
  <2>2. of[c] \in Notes /\ ~Claimable(of[c])
    BY <2>1 DEF IInv, TypeOK, HeldFacts, Holding, Verdicts
  <2>3. c # m /\ Holding(m) => of[c] # of[m]
    BY <2>1 DEF IInv, OneHolder
  <2>4. QED
    BY <2>1, <2>2, <2>3 DEF Claimable
<1>5. ToldFacts'
  BY DEF IInv, TypeOK, ToldFacts, Holding, HoldPlaces, Claimable
<1>6. QED
  BY <1>1, <1>2, <1>3, <1>4, <1>5 DEF IInv

\* Producers touch a row only before a consumer can hold it.
LEMMA ProduceIInv ==
    ASSUME IInv, HonestSend, NEW n \in Notes, Produce(n) \/ ProducerCrash(n)
    PROVE  IInv'
<1>1. CASE Persist(n)
  <2>1. NoCopies(n) /\ told[n] = 0 /\ prod[n] = "idle"
    BY <1>1 DEF Persist, IInv, ProducerFacts
  <2>2. PICK p \in {"send", "refused"} :
            /\ prod' = [prod EXCEPT ![n] = p]
            /\ row' \in {row, [row EXCEPT ![n] = "pending"]}
    BY <1>1 DEF Persist, Stage
  <2>3. /\ row' \in [Notes -> Statuses]
        /\ \A k \in Notes : k # n => row'[k] = row[k]
        /\ UNCHANGED <<pc, of, tries, told>>
    BY <1>1, <2>2 DEF Persist, IInv, TypeOK, Statuses
  <2>4. TypeOK'
    BY <2>2, <2>3 DEF IInv, TypeOK, Stages
  <2>5. (OneHolder /\ ProducerFacts)'
    BY <2>1, <2>2, <2>3 DEF IInv, TypeOK, OneHolder, ProducerFacts, NoCopies, Holding
  <2>6. (HeldFacts /\ ToldFacts)'
    BY <2>1, <2>3 DEF IInv, TypeOK, HeldFacts, ToldFacts, NoCopies, Holding, Verdicts,
                      Claimable
  <2>7. QED
    BY <2>4, <2>5, <2>6 DEF IInv
<1>2. CASE Send(n)
  <2>1. CASE Enqueue(n) /\ \/ prod' = [prod EXCEPT ![n] = "accepted"]
                            \/ /\ n \notin ApiNotes
                               /\ prod' = [prod EXCEPT ![n] = "compensate"]
    <3>1. PICK m \in Msgs :
              /\ pc[m] = "none"
              /\ pc' = [pc EXCEPT ![m] = "queued"]
              /\ of' = [of EXCEPT ![m] = n]
              /\ tries' = tries
      BY <2>1 DEF Enqueue
    <3>2. prod[n] = "send" /\ UNCHANGED <<row, told>>
      BY <1>2 DEF Send
    <3>3. TypeOK'
      BY <2>1, <3>1, <3>2 DEF IInv, TypeOK, Places, Stages
    <3>4. OneHolder' /\ HeldFacts' /\ ToldFacts'
      BY <3>1, <3>2 DEF IInv, TypeOK, OneHolder, HeldFacts, ToldFacts, Holding, Verdicts,
                        Claimable
    <3>5. ProducerFacts'
      BY <2>1, <3>1, <3>2 DEF IInv, TypeOK, ProducerFacts, NoCopies
    <3>6. QED
      BY <3>3, <3>4, <3>5 DEF IInv
  <2>2. CASE /\ prod[n] = "send" /\ prod' = [prod EXCEPT ![n] = "compensate"]
             /\ UNCHANGED <<row, pc, of, tries, told>>
    BY <2>2 DEF IInv, TypeOK, OneHolder, ProducerFacts, NoCopies, HeldFacts, ToldFacts,
                Holding, Claimable, Stages
  <2>3. CASE Enqueue(n) /\ Stage(n, "accepted")
    BY <2>1, <2>3 DEF Stage
  <2>4. CASE "lostAnswer" \in Faults /\ Enqueue(n) /\ Stage(n, "compensate")
    BY <2>1, <2>4 DEF Stage, HonestSend
  <2>5. CASE Stage(n, "compensate") /\ UNCHANGED <<pc, of, tries>>
    BY <1>2, <2>2, <2>5 DEF Send, Stage
  <2>6. QED
    BY <1>2, <2>3, <2>4, <2>5 DEF Send
<1>3. CASE Compensate(n) \/ ProducerCrash(n)
  <2>1. /\ row' \in [Notes -> Statuses]
        /\ \A k \in Notes : k # n => row'[k] = row[k]
        /\ row'[n] \in {row[n], "absent", "failed"}
        /\ row'[n] = "failed" => row[n] = "failed" \/
                                 (n \in ApiNotes /\ prod[n] = "compensate")
    <3>1. CASE UNCHANGED row
      BY <3>1 DEF IInv, TypeOK
    <3>2. CASE row' = [row EXCEPT ![n] = "absent"]
      BY <3>2 DEF IInv, TypeOK, Statuses
    <3>3. CASE n \in ApiNotes /\ prod[n] = "compensate" /\ SetStatus(n, "failed")
      BY <3>3, SetStatusRow DEF IInv, Statuses, Verdicts
    <3>4. QED
      BY <1>3, <3>1, <3>2, <3>3 DEF Compensate, ProducerCrash
  <2>2. /\ prod[n] \in {"send", "compensate"}
        /\ prod' = [prod EXCEPT ![n] = "refused"]
        /\ UNCHANGED <<pc, of, tries, told>>
    BY <1>3 DEF Compensate, ProducerCrash, Stage
  <2>3. Claimable(n)' => Claimable(n) \/ (NoCopies(n) /\ told[n] = 0)
    BY <2>1 DEF Claimable, IInv, ProducerFacts
  <2>4. TypeOK'
    BY <2>1, <2>2 DEF IInv, TypeOK, Stages
  <2>5. (OneHolder /\ ProducerFacts)'
    BY <2>1, <2>2 DEF IInv, TypeOK, OneHolder, ProducerFacts, NoCopies, Holding
  <2>6. (HeldFacts /\ ToldFacts)'
    BY <2>1, <2>2, <2>3 DEF IInv, TypeOK, HeldFacts, ToldFacts, NoCopies, Holding, Verdicts,
                            Claimable
  <2>7. QED
    BY <2>4, <2>5, <2>6 DEF IInv
<1>4. QED
  BY <1>1, <1>2, <1>3 DEF Produce

\* The claim: the row leaves the claimable statuses, so nobody held it before.
LEMMA ClaimTakes ==
    ASSUME IInv, NEW m \in Msgs, pc[m] = "claim", Claimable(of[m]),
           SetStatus(of[m], "processing"), GoTo(m, "fetch"), UNCHANGED <<prod, told>>
    PROVE  IInv'
<1>1. of[m] \in Notes /\ row' = [row EXCEPT ![of[m]] = "processing"]
  BY DEF IInv, TypeOK, SetStatus, Claimable
<1>2. /\ \A c \in Msgs : Holding(c) => of[c] # of[m]
      /\ told[of[m]] = 0
  BY <1>1 DEF IInv, HeldFacts, ToldFacts
<1>3. TypeOK'
  BY <1>1 DEF IInv, TypeOK, GoTo, Places, InFlight, Statuses
<1>4. OneHolder'
  BY <1>2 DEF IInv, TypeOK, OneHolder, Holding, GoTo
<1>5. ProducerFacts'
  BY <1>1 DEF IInv, TypeOK, ProducerFacts, NoCopies, GoTo, Claimable
<1>6. HeldFacts'
  BY <1>1, <1>2 DEF IInv, TypeOK, HeldFacts, Holding, GoTo, Claimable
<1>7. ToldFacts'
  BY <1>1, <1>2 DEF IInv, TypeOK, ToldFacts, Holding, GoTo, Claimable
<1>8. QED
  BY <1>3, <1>4, <1>5, <1>6, <1>7 DEF IInv

\* The bot's success: the holder was the only one and had not heard it before.
LEMMA SuccessIsFirst ==
    ASSUME IInv, NEW m \in Msgs, pc[m] = "fetch",
           told' = [told EXCEPT ![of[m]] = @ + 1], GoTo(m, "delivered"),
           UNCHANGED <<row, prod>>
    PROVE  IInv' /\ told[of[m]] = 0
<1>1. of[m] \in Notes /\ told[of[m]] = 0 /\ ~Claimable(of[m])
  BY DEF IInv, TypeOK, ToldFacts, HeldFacts, Holding
<1>2. TypeOK'
  BY <1>1 DEF IInv, TypeOK, GoTo, Places, InFlight, Verdicts
<1>3. (OneHolder /\ HeldFacts)'
  BY <1>1 DEF IInv, TypeOK, OneHolder, HeldFacts, Holding, GoTo, Verdicts, Claimable
<1>4. ProducerFacts'
  BY <1>1 DEF IInv, TypeOK, ProducerFacts, NoCopies, GoTo
<1>5. ToldFacts'
  BY <1>1 DEF IInv, TypeOK, ToldFacts, OneHolder, Holding, GoTo, Verdicts, Claimable
<1>6. QED
  BY <1>1, <1>2, <1>3, <1>4, <1>5 DEF IInv

\* The rows a consumer's statement may leave behind, in PlainMove's terms.
LEMMA WriteKeepsRows ==
    ASSUME IInv, NEW m \in Msgs, pc[m] # "none",
           NEW s \in {"processing", "delivered", "dlq", "failed"}, MaybeSetStatus(of[m], s)
    PROVE  /\ of[m] \in Notes
           /\ row' \in [Notes -> Statuses]
           /\ \A n \in Notes : prod[n] = "idle" => row'[n] = row[n]
           /\ \A n \in Notes : Claimable(n)' => Claimable(n) \/ (n = of[m] /\ s = "failed")
<1>1. of[m] \in Notes /\ TypeOK
  BY DEF IInv, TypeOK
<1>2. CASE UNCHANGED row
  BY <1>1, <1>2 DEF TypeOK, Claimable
<1>3. CASE SetStatus(of[m], s)
  <2>1. /\ row' \in [Notes -> Statuses]
        /\ \A k \in Notes : k # of[m] => row'[k] = row[k]
        /\ row'[of[m]] \in {row[of[m]], s}
        /\ row[of[m]] = "absent" => row'[of[m]] = row[of[m]]
    BY <1>1, <1>3, SetStatusRow DEF Statuses, Verdicts
  <2>2. \A n \in Notes : prod[n] = "idle" => row[n] = "absent"
    BY DEF IInv, ProducerFacts
  <2>3. QED
    BY <1>1, <2>1, <2>2 DEF Claimable
<1>4. QED
  BY <1>1, <1>2, <1>3 DEF MaybeSetStatus

\* A step of one copy that ends its turn, or hands it to the next statement
\* without the lock.
LEMMA FreeMove ==
    ASSUME IInv, NEW m \in Msgs, pc[m] # "none",
           NEW s \in {"processing", "delivered", "dlq", "failed"}, MaybeSetStatus(of[m], s),
           s = "failed" => pc[m] = "failed",
           GoTo(m, "read") \/ GoTo(m, "claim") \/ Ack(m) \/ Retry(m),
           UNCHANGED <<prod, told>>
    PROVE  IInv'
<1>1. PICK x \in {"read", "claim", "gone", "queued", "dead"} :
          /\ pc' = [pc EXCEPT ![m] = x]
          /\ of' = of /\ tries' \in [Msgs -> 0..MaxRetries]
  BY RetryMoves DEF GoTo, Ack, IInv, TypeOK
<1>2. s = "failed" => Holding(m) /\ told[of[m]] = 0
  BY DEF IInv, TypeOK, ToldFacts, Holding, Verdicts
<1>3. x \in Places \ {"none"} /\ x \notin HoldPlaces
  BY DEF Places, InFlight, HoldPlaces, Verdicts
<1>4. /\ row' \in [Notes -> Statuses]
      /\ \A n \in Notes : prod[n] = "idle" => row'[n] = row[n]
      /\ \A n \in Notes : Claimable(n)' => Claimable(n) \/ (n = of[m] /\ s = "failed")
  BY WriteKeepsRows
<1>5. QED
  BY <1>1, <1>2, <1>3, <1>4, PlainMove

\* Every step of a consumer keeps the inductive invariant.
LEMMA ConsumeIInv ==
    ASSUME IInv, NEW m \in Msgs, Consume(m) \/ Crash(m)
    PROVE  IInv'
<1>1. CASE Deliver(m) \/ ReadRow(m) \/ Crash(m)
  <2>1. /\ pc[m] # "none" /\ UNCHANGED <<row, prod, told>>
        /\ GoTo(m, "read") \/ GoTo(m, "claim") \/ Ack(m) \/ Retry(m)
    BY <1>1 DEF Deliver, ReadRow, Crash, InFlight, Verdicts
  <2>2. MaybeSetStatus(of[m], "dlq")
    BY <2>1 DEF MaybeSetStatus
  <2>3. QED
    BY <2>1, <2>2, FreeMove
<1>2. CASE Claim(m)
  <2>1. pc[m] = "claim" /\ UNCHANGED <<prod, told>>
    BY <1>2 DEF Claim
  <2>2. CASE Claimable(of[m]) /\ SetStatus(of[m], "processing") /\ GoTo(m, "fetch")
    BY <2>1, <2>2, ClaimTakes
  <2>3. CASE (Ack(m) \/ Retry(m)) /\ MaybeSetStatus(of[m], "processing")
    BY <2>1, <2>3, FreeMove
  <2>4. QED
    BY <1>2, <2>2, <2>3 DEF Claim, MaybeSetStatus
<1>3. CASE Fetch(m)
  <2>1. pc[m] = "fetch" /\ UNCHANGED <<row, prod>>
    BY <1>3 DEF Fetch
  <2>2. CASE told' = [told EXCEPT ![of[m]] = @ + 1] /\ GoTo(m, "delivered")
    BY <2>1, <2>2, SuccessIsFirst
  <2>3. CASE (GoTo(m, "dlq") \/ GoTo(m, "failed")) /\ UNCHANGED told
    <3>1. PICK x \in {"dlq", "failed"} : GoTo(m, x)
      BY <2>3
    <3>2. Holding(m) /\ told[of[m]] = 0
      BY <2>1 DEF IInv, TypeOK, ToldFacts, Holding
    <3>3. x \in Places \ {"none"}
      BY DEF Places, InFlight, Verdicts
    <3>4. /\ row' \in [Notes -> Statuses] /\ tries' \in [Msgs -> 0..MaxRetries]
          /\ \A n \in Notes : Claimable(n)' <=> Claimable(n)
      BY <2>1, <3>1 DEF IInv, TypeOK, GoTo, Claimable
    <3>5. QED
      BY <2>1, <2>3, <3>1, <3>2, <3>3, <3>4, PlainMove DEF GoTo
  <2>4. CASE Retry(m) /\ UNCHANGED told
    <3>1. MaybeSetStatus(of[m], "dlq")
      BY <2>1 DEF MaybeSetStatus
    <3>2. QED
      BY <2>1, <2>4, <3>1, FreeMove
  <2>5. QED
    BY <1>3, <2>2, <2>3, <2>4 DEF Fetch
<1>4. CASE Settle(m)
  <2>1. /\ pc[m] \in {"delivered", "dlq", "failed"} /\ UNCHANGED <<prod, told>>
        /\ MaybeSetStatus(of[m], pc[m])
        /\ Ack(m) \/ Retry(m)
    BY <1>4 DEF Settle, Verdicts, MaybeSetStatus
  <2>2. QED
    BY <2>1, FreeMove
<1>5. CASE DeadLetter(m)
  <2>1. /\ pc[m] = "dead" /\ UNCHANGED <<prod, told>>
        /\ MaybeSetStatus(of[m], "dlq") /\ Ack(m)
    BY <1>5 DEF DeadLetter, MaybeSetStatus
  <2>2. QED
    BY <2>1, FreeMove
<1>6. QED
  BY <1>1, <1>2, <1>3, <1>4, <1>5 DEF Consume

\* A second copy holds nothing when it appears.
LEMMA DuplicateIInv ==
    ASSUME IInv, NEW m \in Msgs, NEW copy \in Msgs, Duplicate(m, copy)
    PROVE  IInv'
<1>1. /\ pc[m] # "none" /\ pc[copy] = "none" /\ of[m] \in Notes
      /\ pc' = [pc EXCEPT ![copy] = "queued"]
      /\ of' = [of EXCEPT ![copy] = of[m]]
      /\ tries' = [tries EXCEPT ![copy] = tries[m]]
      /\ UNCHANGED <<row, prod, told>>
  BY DEF Duplicate, IInv, TypeOK, InFlight, Verdicts
<1>2. TypeOK'
  BY <1>1 DEF IInv, TypeOK, Places
<1>3. OneHolder'
  BY <1>1 DEF IInv, TypeOK, OneHolder, Holding, Verdicts
<1>4. ProducerFacts'
  BY <1>1 DEF IInv, TypeOK, ProducerFacts, NoCopies
<1>5. (HeldFacts /\ ToldFacts)'
  BY <1>1 DEF IInv, TypeOK, HeldFacts, ToldFacts, Holding, Verdicts, Claimable
<1>6. QED
  BY <1>2, <1>3, <1>4, <1>5 DEF IInv

\* Every step keeps the inductive invariant when send is honest.
LEMMA NextIInv == HonestSend /\ IInv /\ [Next]_vars => IInv'
<1> SUFFICES ASSUME HonestSend, IInv, [Next]_vars PROVE IInv'
  OBVIOUS
<1>1. CASE UNCHANGED vars
  BY <1>1 DEF vars, IInv, TypeOK, OneHolder, ProducerFacts, NoCopies, HeldFacts, ToldFacts,
              Holding, Claimable
<1>2. CASE Next
  BY <1>2, ProduceIInv, ConsumeIInv, DuplicateIInv DEF Next
<1>3. QED
  BY <1>1, <1>2

\* The inductive invariant holds of every reachable state.
LEMMA SpecIInv == HonestSend /\ Spec => []IInv
<1> SUFFICES ASSUME HonestSend PROVE Spec => []IInv
  OBVIOUS
<1>1. IInv /\ [Next]_vars => IInv'
  BY NextIInv
<1>2. QED
  BY <1>1, InitIInv, PTL DEF Spec

\* Every step keeps the types, whatever fails.
LEMMA NextTypeOK == TypeOK /\ [Next]_vars => TypeOK'
<1> SUFFICES ASSUME TypeOK, [Next]_vars PROVE TypeOK'
  OBVIOUS
<1> USE ConstantsAssumption
<1>1. CASE UNCHANGED vars
  BY <1>1 DEF vars, TypeOK
<1>2. ASSUME NEW n \in Notes, Persist(n) \/ Compensate(n) \/ ProducerCrash(n) PROVE TypeOK'
  <2>1. row' \in [Notes -> Statuses]
    BY <1>2 DEF Persist, Compensate, ProducerCrash, SetStatus, Statuses, Verdicts, TypeOK
  <2>2. prod' \in [Notes -> Stages]
    BY <1>2 DEF Persist, Compensate, ProducerCrash, Stage, Stages, TypeOK
  <2> QED
    BY <1>2, <2>1, <2>2 DEF Persist, Compensate, ProducerCrash, TypeOK
<1>3. ASSUME NEW n \in Notes, Send(n) PROVE TypeOK'
  BY <1>3 DEF Send, Enqueue, Stage, Stages, Places, TypeOK
<1>4. ASSUME NEW m \in Msgs, pc[m] # "none", NEW x \in Places, pc' = [pc EXCEPT ![m] = x],
             of' = of, tries' \in [Msgs -> 0..MaxRetries], row' \in [Notes -> Statuses],
             prod' = prod, told' \in [Notes -> Nat]
      PROVE  TypeOK'
  BY <1>4 DEF TypeOK
<1>5. ASSUME NEW m \in Msgs, Retry(m)
      PROVE  \E x \in Places : /\ pc' = [pc EXCEPT ![m] = x]
                               /\ of' = of /\ tries' \in [Msgs -> 0..MaxRetries]
  BY <1>5, RetryMoves DEF Places
<1>6. ASSUME NEW m \in Msgs, NEW x \in Places, GoTo(m, x)
      PROVE  /\ pc' = [pc EXCEPT ![m] = x]
             /\ of' = of /\ tries' \in [Msgs -> 0..MaxRetries]
  BY <1>6 DEF GoTo, TypeOK
<1>7. ASSUME NEW m \in Msgs, pc[m] # "none", NEW s \in Statuses, MaybeSetStatus(of[m], s)
      PROVE  row' \in [Notes -> Statuses]
  BY <1>7, SetStatusRow DEF MaybeSetStatus, TypeOK
<1>8. ASSUME NEW m \in Msgs, Deliver(m) \/ Crash(m) \/ ReadRow(m) PROVE TypeOK'
  BY <1>4, <1>5, <1>6, <1>8 DEF Deliver, Crash, ReadRow, Ack, Places, InFlight, Verdicts, TypeOK
<1>9. ASSUME NEW m \in Msgs, Claim(m) PROVE TypeOK'
  <2>1. pc[m] # "none" /\ UNCHANGED <<prod, told>>
    BY <1>9 DEF Claim
  <2>2. row' \in [Notes -> Statuses]
    <3>1. MaybeSetStatus(of[m], "processing") \/ UNCHANGED row
      BY <1>9 DEF Claim, MaybeSetStatus
    <3> QED
      BY <2>1, <3>1, <1>7 DEF Statuses, TypeOK
  <2>3. GoTo(m, "fetch") \/ GoTo(m, "gone") \/ Retry(m)
    BY <1>9 DEF Claim, Ack
  <2> QED
    BY <1>4, <1>5, <1>6, <2>1, <2>2, <2>3 DEF Places, InFlight, TypeOK
<1>10. ASSUME NEW m \in Msgs, Fetch(m) PROVE TypeOK'
  <2>1. pc[m] # "none" /\ UNCHANGED <<prod, row>> /\ of[m] \in Notes
    BY <1>10 DEF Fetch, TypeOK
  <2>2. told' \in [Notes -> Nat]
    BY <1>10, <2>1 DEF Fetch, TypeOK
  <2>3. GoTo(m, "delivered") \/ GoTo(m, "dlq") \/ GoTo(m, "failed") \/ Retry(m)
    BY <1>10 DEF Fetch
  <2> QED
    BY <1>4, <1>5, <1>6, <2>1, <2>2, <2>3 DEF Places, InFlight, Verdicts, TypeOK
<1>11. ASSUME NEW m \in Msgs, Settle(m) \/ DeadLetter(m) PROVE TypeOK'
  <2>1. pc[m] # "none" /\ UNCHANGED <<prod, told>>
    BY <1>11 DEF Settle, DeadLetter, Verdicts
  <2>2. row' \in [Notes -> Statuses]
    <3>1. \E s \in Verdicts : MaybeSetStatus(of[m], s)
      BY <1>11 DEF Settle, DeadLetter, MaybeSetStatus, Verdicts
    <3> QED
      BY <2>1, <3>1, <1>7 DEF Statuses
  <2>3. GoTo(m, "gone") \/ Retry(m)
    BY <1>11 DEF Settle, DeadLetter, Ack
  <2> QED
    BY <1>4, <1>5, <1>6, <2>1, <2>2, <2>3 DEF Places, TypeOK
<1>12. ASSUME NEW m \in Msgs, NEW copy \in Msgs, Duplicate(m, copy) PROVE TypeOK'
  BY <1>12 DEF Duplicate, TypeOK, Places, InFlight, Verdicts
<1> QED
  BY <1>1, <1>2, <1>3, <1>8, <1>9, <1>10, <1>11, <1>12 DEF Next, Produce, Consume

\* Type correctness of the queue's rows, producers and consumers, from the row's
\* INSERT to the verdict (queue.ts, index.ts, router.ts).
THEOREM TypeCorrect == Spec => []TypeOK
<1>1. Init => TypeOK
  BY InitIInv DEF IInv
<1>2. QED
  BY <1>1, NextTypeOK, PTL DEF Spec

\* When statements run and no producer dies, a cron job that reports a failed
\* enqueue has deleted the row, and nothing brings it back: the consumers only
\* UPDATE (persistAndEnqueue).
THEOREM NoOrphanIsLeft ==
    ASSUME Faults \cap {"db", "crash"} = {}
    PROVE  Spec => []NoOrphan
<1>1. Init => NoOrphan
  BY DEF Init, NoOrphan
<1>2. TypeOK /\ NoOrphan /\ [Next]_vars => NoOrphan'
  <2> SUFFICES ASSUME TypeOK, NoOrphan, [Next]_vars,
                      NEW n \in Notes, n \notin ApiNotes, prod'[n] = "refused"
               PROVE  row'[n] = "absent"
    BY DEF NoOrphan
  <2>1. ASSUME prod[n] = "refused", prod' = prod,
               NEW k \in Notes, NEW s \in Statuses, SetStatus(k, s) \/ UNCHANGED row
        PROVE  row'[n] = "absent"
    BY <2>1 DEF SetStatus, NoOrphan, TypeOK
  <2>2. CASE UNCHANGED <<row, prod>>
    BY <2>2 DEF NoOrphan
  <2>3. ASSUME NEW k \in Notes, Produce(k) PROVE row'[n] = "absent"
    <3>1. CASE k = n
      BY <2>3, <3>1 DEF Produce, Persist, Send, Compensate, Stage, TypeOK
    <3>2. CASE k # n
      BY <2>3, <3>2 DEF Produce, Persist, Send, Compensate, Stage, SetStatus, NoOrphan, TypeOK
    <3> QED
      BY <3>1, <3>2
  <2>4. ASSUME NEW m \in Msgs, Claim(m) \/ Settle(m) \/ DeadLetter(m)
        PROVE  row'[n] = "absent"
    <3>1. of[m] \in Notes /\ prod' = prod /\ prod[n] = "refused"
      BY <2>4 DEF Claim, Settle, DeadLetter, Verdicts, TypeOK
    <3>2. \E s \in {"processing"} \cup Verdicts : SetStatus(of[m], s) \/ UNCHANGED row
      BY <2>4 DEF Claim, Settle, DeadLetter, MaybeSetStatus, Verdicts
    <3> QED
      BY <2>1, <3>1, <3>2 DEF Statuses
  <2>5. ASSUME NEW m \in Msgs, Deliver(m) \/ ReadRow(m) \/ Fetch(m) \/ Crash(m)
        PROVE  row'[n] = "absent"
    BY <2>2, <2>5 DEF Deliver, ReadRow, Fetch, Crash
  <2>6. ASSUME NEW m \in Msgs, NEW copy \in Msgs, Duplicate(m, copy) PROVE row'[n] = "absent"
    BY <2>2, <2>6 DEF Duplicate
  <2>7. ASSUME NEW k \in Notes PROVE ~ProducerCrash(k)
    BY DEF ProducerCrash
  <2>8. UNCHANGED vars => UNCHANGED <<row, prod>>
    BY DEF vars
  <2> QED
    BY <2>2, <2>3, <2>4, <2>5, <2>6, <2>7, <2>8 DEF Next, Consume
<1> QED
  BY <1>1, <1>2, TypeCorrect, PTL DEF Spec

\* The safety half of Settles: an accepted notification that is not settled has a
\* copy with the queue, a consumer or the dead letters.
Carries(m, n) == pc[m] \notin {"none", "gone"} /\ of[m] = n
NotForgotten  ==
    \A n \in Notes :
        prod[n] = "accepted" =>
            row[n] \in {"delivered", "dlq"} \/ \E m \in Msgs : Carries(m, n)

\* A row in 'processing' has its consumer: whoever finds it there may acknowledge.
Progress ==
    \A n \in Notes :
        /\ prod[n] \in {"send", "accepted"} => row[n] # "absent"
        /\ row[n] = "processing" => \E m \in Msgs : Holding(m) /\ of[m] = n

\* Consumers run to their end, and so do their statements.
Steady == Faults \cap {"db", "crash", "body"} = {}

\* A step that moves one copy on and leaves its row settled, with a live copy, or
\* with somebody else's.
LEMMA CopyMoves ==
    ASSUME TypeOK, NotForgotten, Progress, NEW m \in Msgs, pc[m] # "none",
           NEW x \in Places \ {"none"}, pc' = [pc EXCEPT ![m] = x], of' = of, prod' = prod,
           NEW s \in {"processing"} \cup Verdicts, SetStatus(of[m], s) \/ UNCHANGED row,
           x = "gone" => row'[of[m]] \in {"delivered", "dlq"}
                         \/ \E c \in Msgs : c # m /\ Carries(c, of[m]),
           row'[of[m]] = "processing" =>
               \E c \in Msgs : of[c] = of[m] /\ (IF c = m THEN x \in {"fetch"} \cup Verdicts ELSE Holding(c))
    PROVE  NotForgotten' /\ Progress'
<1>1. of[m] \in Notes /\ \A n \in Notes : n # of[m] => row'[n] = row[n]
  BY DEF TypeOK, SetStatus
<1>2. \A c \in Msgs : c # m => pc'[c] = pc[c]
  BY DEF TypeOK
<1>3. pc'[m] = x
  BY DEF TypeOK
<1>4. row[of[m]] # "absent" => row'[of[m]] # "absent"
  BY DEF TypeOK, SetStatus, Verdicts
<1>5. ASSUME NEW n \in Notes, prod[n] = "accepted"
      PROVE  row'[n] \in {"delivered", "dlq"} \/ \E c \in Msgs : Carries(c, n)'
  <2>1. CASE n # of[m]
    BY <2>1, <1>1, <1>2, <1>5 DEF NotForgotten, Carries
  <2>2. CASE n = of[m] /\ x # "gone"
    BY <2>2, <1>3 DEF Carries
  <2>3. CASE n = of[m] /\ x = "gone"
    BY <2>3, <1>2 DEF Carries
  <2> QED
    BY <2>1, <2>2, <2>3
<1>6. ASSUME NEW n \in Notes, row'[n] = "processing"
      PROVE  \E c \in Msgs : Holding(c)' /\ of[c] = n
  <2>1. CASE n # of[m]
    BY <2>1, <1>1, <1>2, <1>6 DEF Progress, Holding
  <2>2. CASE n = of[m]
    BY <2>2, <1>2, <1>3, <1>6 DEF Holding
  <2> QED
    BY <2>1, <2>2
<1>7. \A n \in Notes : prod[n] \in {"send", "accepted"} => row'[n] # "absent"
  BY <1>1, <1>4 DEF Progress
<1> QED
  BY <1>5, <1>6, <1>7 DEF NotForgotten, Progress

\* While consumers run to their end, no accepted notification is without a live
\* copy before it is delivered or dead-lettered (NotificationQueueConsumer).
THEOREM AcceptedIsCarried ==
    ASSUME Steady
    PROVE  Spec => []NotForgotten
<1>1. Init => NotForgotten /\ Progress
  BY DEF Init, NotForgotten, Progress
<1>2. TypeOK /\ NotForgotten /\ Progress /\ [Next]_vars => (NotForgotten /\ Progress)'
  <2> SUFFICES ASSUME TypeOK, NotForgotten, Progress, [Next]_vars
               PROVE  NotForgotten' /\ Progress'
    OBVIOUS
  <2>1. ASSUME NEW m \in Msgs, Retry(m), pc[m] # "none"
        PROVE  \E x \in {"queued", "dead"} : pc' = [pc EXCEPT ![m] = x] /\ of' = of
    BY <2>1 DEF Retry, GoTo
  <2>2. {"queued", "read", "claim", "fetch", "delivered", "dlq", "failed", "dead", "gone"} \subseteq Places \ {"none"}
    BY DEF Places, InFlight, Verdicts
  <2>3. ASSUME NEW m \in Msgs, Deliver(m) PROVE NotForgotten' /\ Progress'
    <3>1. row'[of[m]] = "processing" =>
            \E c \in Msgs : of[c] = of[m] /\ c # m /\ Holding(c)
      BY <2>3 DEF Deliver, Progress, Holding, Verdicts, TypeOK
    <3> QED
      BY <2>2, <2>3, <3>1, CopyMoves DEF Deliver, GoTo
  <2>4. ASSUME NEW m \in Msgs, ReadRow(m) PROVE NotForgotten' /\ Progress'
    <3>1. row'[of[m]] = "processing" =>
            \E c \in Msgs : of[c] = of[m] /\ c # m /\ Holding(c)
      BY <2>4 DEF ReadRow, Progress, Holding, Verdicts, TypeOK
    <3>2. CASE row[of[m]] \in {"absent", "delivered", "dlq"} /\ Ack(m)
      <4>1. CASE row[of[m]] = "absent"
        BY <4>1, <3>2, <2>4 DEF ReadRow, Ack, GoTo, NotForgotten, Progress, Carries, Holding, Verdicts, TypeOK
      <4>2. CASE row[of[m]] # "absent"
        BY <4>2, <3>1, <3>2, <2>2, <2>4, CopyMoves DEF ReadRow, Ack, GoTo
      <4> QED
        BY <4>1, <4>2
    <3>3. CASE GoTo(m, "claim")
      BY <2>2, <2>4, <3>1, <3>3, CopyMoves DEF ReadRow, GoTo
    <3> QED
      BY <2>4, <3>2, <3>3 DEF ReadRow, Steady
  <2>5. ASSUME NEW m \in Msgs, Claim(m) PROVE NotForgotten' /\ Progress'
    <3>1. CASE Claimable(of[m]) /\ SetStatus(of[m], "processing") /\ GoTo(m, "fetch")
      BY <2>2, <2>5, <3>1, CopyMoves DEF Claim, GoTo
    <3>2. CASE ~Claimable(of[m]) /\ Ack(m) /\ UNCHANGED row
      <4>1. row[of[m]] \in {"absent", "processing", "delivered", "dlq"} /\ of[m] \in Notes
        BY <2>5, <3>2 DEF Claimable, Claim, TypeOK, Statuses, Verdicts
      <4>2. CASE row[of[m]] = "absent"
        BY <4>2, <3>2, <2>5 DEF Claim, Ack, GoTo, NotForgotten, Progress, Carries, Holding, Verdicts, TypeOK
      <4>3. CASE row[of[m]] # "absent"
        <5>1. row[of[m]] = "processing" =>
                \E c \in Msgs : of[c] = of[m] /\ c # m /\ Holding(c) /\ Carries(c, of[m])
          BY <4>1, <2>5 DEF Claim, Progress, Holding, Carries, Verdicts
        <5> QED
          BY <5>1, <4>1, <4>3, <3>2, <2>2, <2>5, CopyMoves DEF Claim, Ack, GoTo
      <4> QED
        BY <4>2, <4>3
    <3> QED
      BY <2>5, <3>1, <3>2 DEF Claim, Steady
  <2>6. ASSUME NEW m \in Msgs, Fetch(m) PROVE NotForgotten' /\ Progress'
    <3>1. \E x \in Verdicts : GoTo(m, x)
      BY <2>6 DEF Fetch, Steady, Verdicts
    <3>2. of[m] \in Notes /\ UNCHANGED <<row, prod>> /\ pc[m] = "fetch"
      BY <2>6 DEF Fetch, TypeOK
    <3>3. row'[of[m]] = "processing" =>
            \E c \in Msgs : of[c] = of[m] /\ (c = m \/ Holding(c))
      BY <3>2
    <3> QED
      BY <2>2, <3>1, <3>2, <3>3, CopyMoves DEF GoTo, Verdicts
  <2>7. ASSUME NEW m \in Msgs, Settle(m) PROVE NotForgotten' /\ Progress'
    <3>1. SetStatus(of[m], pc[m]) /\ (IF pc[m] = "failed" THEN Retry(m) ELSE Ack(m))
          /\ pc[m] \in Verdicts /\ UNCHANGED prod /\ of[m] \in Notes
      BY <2>7 DEF Settle, Steady, TypeOK, Verdicts
    <3>2. row'[of[m]] # "processing" /\ (row[of[m]] = "absent" \/ row'[of[m]] = pc[m])
          /\ (row[of[m]] = "absent" => UNCHANGED row)
      BY <3>1 DEF SetStatus, TypeOK, Verdicts
    <3>3. CASE pc[m] = "failed"
      BY <3>1, <3>2, <3>3, <2>1, <2>2, CopyMoves
    <3>4. CASE pc[m] # "failed" /\ row[of[m]] # "absent"
      BY <3>1, <3>2, <3>4, <2>2, CopyMoves DEF Ack, GoTo, Verdicts
    <3>5. CASE pc[m] # "failed" /\ row[of[m]] = "absent"
      BY <3>1, <3>2, <3>5 DEF Ack, GoTo, NotForgotten, Progress, Carries, Holding, Verdicts, TypeOK
    <3> QED
      BY <3>3, <3>4, <3>5
  <2>8. ASSUME NEW m \in Msgs, DeadLetter(m) PROVE NotForgotten' /\ Progress'
    <3>1. SetStatus(of[m], "dlq") /\ Ack(m) /\ pc[m] = "dead" /\ UNCHANGED prod /\ of[m] \in Notes
      BY <2>8 DEF DeadLetter, Steady, TypeOK
    <3>2. (row[of[m]] = "absent" \/ row'[of[m]] = "dlq") /\ (row[of[m]] = "absent" => UNCHANGED row)
      BY <3>1 DEF SetStatus, TypeOK
    <3>3. CASE row[of[m]] # "absent"
      BY <3>1, <3>2, <3>3, <2>2, CopyMoves DEF Ack, GoTo, Verdicts
    <3>4. CASE row[of[m]] = "absent"
      BY <3>1, <3>2, <3>4 DEF Ack, GoTo, NotForgotten, Progress, Carries, Holding, Verdicts, TypeOK
    <3> QED
      BY <3>3, <3>4
  <2>9. ASSUME NEW m \in Msgs, NEW copy \in Msgs, Duplicate(m, copy) PROVE NotForgotten' /\ Progress'
    <3>1. pc[copy] = "none" /\ pc[m] # "none" /\ UNCHANGED <<row, prod>>
          /\ pc' = [pc EXCEPT ![copy] = "queued"] /\ of' = [of EXCEPT ![copy] = of[m]]
      BY <2>9 DEF Duplicate, InFlight, Verdicts
    <3>2. \A c \in Msgs : c # copy => pc'[c] = pc[c] /\ of'[c] = of[c]
      BY <3>1 DEF TypeOK
    <3>3. \A c \in Msgs, n \in Notes : Carries(c, n) => Carries(c, n)'
      BY <3>1, <3>2 DEF Carries
    <3>4. \A c \in Msgs : Holding(c) => Holding(c)' /\ of'[c] = of[c]
      BY <3>1, <3>2 DEF Holding, Verdicts
    <3> QED
      BY <3>1, <3>3, <3>4 DEF NotForgotten, Progress
  <2>10. ASSUME NEW n \in Notes, Produce(n) PROVE NotForgotten' /\ Progress'
    <3>1. \A k \in Notes : k # n => prod'[k] = prod[k] /\ row'[k] = row[k]
      BY <2>10 DEF Produce, Persist, Send, Compensate, Stage, SetStatus, TypeOK
    <3>2. /\ \A c \in Msgs, k \in Notes : Carries(c, k) => Carries(c, k)'
          /\ \A c \in Msgs : Holding(c) => Holding(c)' /\ of'[c] = of[c]
      BY <2>10 DEF Produce, Persist, Send, Compensate, Enqueue, Carries, Holding, Verdicts, TypeOK
    <3>3. prod'[n] = "accepted" => \E c \in Msgs : Carries(c, n)'
      BY <2>10 DEF Produce, Persist, Send, Compensate, Stage, Enqueue, Carries, TypeOK
    <3>4. prod'[n] \in {"send", "accepted"} => row'[n] # "absent"
      BY <2>10 DEF Produce, Persist, Send, Compensate, Stage, Progress, TypeOK
    <3>5. row'[n] = "processing" => row[n] = "processing"
      BY <2>10 DEF Produce, Persist, Send, Compensate, SetStatus, Steady, TypeOK
    <3> QED
      BY <3>1, <3>2, <3>3, <3>4, <3>5 DEF NotForgotten, Progress
  <2>11. ASSUME NEW n \in Notes PROVE ~ProducerCrash(n)
    BY DEF ProducerCrash, Steady
  <2>12. ASSUME NEW m \in Msgs PROVE ~Crash(m)
    BY DEF Crash, Steady
  <2>13. CASE UNCHANGED vars
    BY <2>13 DEF vars, NotForgotten, Progress, Carries, Holding
  <2> QED
    BY <2>3, <2>4, <2>5, <2>6, <2>7, <2>8, <2>9, <2>10, <2>11, <2>12, <2>13 DEF Next, Consume
<1> QED
  BY <1>1, <1>2, TypeCorrect, PTL DEF Spec

\* The claim is a lock for any number of message copies and whatever fails
\* (deliverOrMarkFailed: the UPDATE ... WHERE status IN ('pending', 'failed')).
THEOREM ClaimIsExclusive == HonestSend /\ Spec => []OneHolder
<1>1. IInv => OneHolder
  BY DEF IInv
<1>2. QED
  BY <1>1, SpecIInv, PTL

\* No notification is answered with success twice, although the queue delivers
\* at least once and every statement may be lost (deliverOrMarkFailed).
THEOREM SuccessHeardOnce == HonestSend /\ Spec => []AtMostOneSuccess
<1>1. IInv => AtMostOneSuccess
  <2> SUFFICES ASSUME IInv, NEW n \in Notes PROVE told[n] <= 1
    BY DEF AtMostOneSuccess
  <2>1. told[n] \in {0, 1}
    BY DEF IInv, ToldFacts
  <2>2. QED
    BY <2>1
<1>2. QED
  BY <1>1, SpecIInv, PTL

-----------------------------------------------------------------------------
(* Refinement of DeliveryContract. *)

LockMap == [n \in Notes |-> Holders(n)]

\* Steps that hand the lock to nobody and take it from nobody.
LEMMA SameHolders ==
    ASSUME \A c \in Msgs : Holding(c)' <=> Holding(c),
           \A c \in Msgs : Holding(c) => of'[c] = of[c]
    PROVE  LockMap' = LockMap
<1>1. \A n \in Notes : Holders(n)' = Holders(n)
  BY DEF Holders
<1>2. QED
  BY <1>1 DEF LockMap

\* What one copy's move does to the lock of its notification.
LEMMA MoveLock ==
    ASSUME IInv, NEW m \in Msgs, pc[m] # "none", NEW x \in Places,
           pc' = [pc EXCEPT ![m] = x], of' = of
    PROVE  /\ of[m] \in Notes
           /\ (x \in HoldPlaces <=> Holding(m)) => LockMap' = LockMap
           /\ x \notin HoldPlaces /\ Holding(m) =>
                /\ Holders(of[m]) # {}
                /\ LockMap' = [LockMap EXCEPT ![of[m]] = {}]
           /\ x \in HoldPlaces /\ Holders(of[m]) = {} =>
                LockMap' = [LockMap EXCEPT ![of[m]] = {m}]
<1>1. of[m] \in Notes
  BY DEF IInv, TypeOK
<1>2. /\ \A c \in Msgs : c # m => (Holding(c)' <=> Holding(c))
      /\ Holding(m)' <=> x \in HoldPlaces
  BY DEF IInv, TypeOK, Holding, HoldPlaces
<1>3. \A n \in Notes : n # of[m] => Holders(n)' = Holders(n)
  BY <1>2 DEF Holders
<1>4. (x \in HoldPlaces <=> Holding(m)) => Holders(of[m])' = Holders(of[m])
  BY <1>2 DEF Holders
<1>5. x \notin HoldPlaces /\ Holding(m) => Holders(of[m])' = {} /\ Holders(of[m]) # {}
  BY <1>2 DEF Holders, IInv, OneHolder
<1>6. x \in HoldPlaces /\ Holders(of[m]) = {} => Holders(of[m])' = {m}
  BY <1>2 DEF Holders
<1>7. \A n \in Notes : LockMap'[n] = Holders(n)' /\ LockMap[n] = Holders(n)
  BY DEF LockMap
<1>8. QED
  BY <1>1, <1>3, <1>4, <1>5, <1>6, <1>7 DEF LockMap

\* A copy that goes anywhere but to the bot gives the lock up or never had it.
LEMMA FreeMoveLock ==
    ASSUME IInv, NEW m \in Msgs, pc[m] # "none", UNCHANGED told,
           GoTo(m, "read") \/ GoTo(m, "claim") \/ Ack(m) \/ Retry(m)
    PROVE  [Delivery!Next]_(Delivery!vars)
<1>1. PICK x \in {"read", "claim", "gone", "queued", "dead"} :
          pc' = [pc EXCEPT ![m] = x] /\ of' = of
  BY RetryMoves DEF GoTo, Ack, IInv
<1>2. x \in Places /\ x \notin HoldPlaces
  BY DEF Places, InFlight, HoldPlaces, Verdicts
<1>3. CASE Holding(m)
  <2>1. /\ of[m] \in Notes /\ Holders(of[m]) # {}
        /\ LockMap' = [LockMap EXCEPT ![of[m]] = {}]
    BY <1>1, <1>2, <1>3, MoveLock
  <2>2. Delivery!Release(of[m])
    BY <2>1 DEF Delivery!Release, LockMap
  <2>3. QED
    BY <2>1, <2>2 DEF Delivery!Next
<1>4. CASE ~Holding(m)
  <2>1. LockMap' = LockMap
    BY <1>1, <1>2, <1>4, MoveLock
  <2>2. QED
    BY <2>1 DEF Delivery!vars, LockMap
<1>5. QED
  BY <1>3, <1>4

\* A consumer's step is a step of the lock or a stutter.
LEMMA ConsumeImplements ==
    ASSUME IInv, NEW m \in Msgs, Consume(m) \/ Crash(m)
    PROVE  [Delivery!Next]_(Delivery!vars)
<1>1. CASE Claim(m) /\ Claimable(of[m]) /\ GoTo(m, "fetch")
  <2>1. pc[m] = "claim" /\ UNCHANGED told /\ of[m] \in Notes
    BY <1>1 DEF Claim, IInv, TypeOK
  <2>2. Holders(of[m]) = {} /\ told[of[m]] = 0
    BY <1>1, <2>1 DEF IInv, HeldFacts, ToldFacts, Holders
  <2>3. "fetch" \in Places /\ "fetch" \in HoldPlaces
    BY DEF Places, InFlight, HoldPlaces
  <2>4. LockMap' = [LockMap EXCEPT ![of[m]] = {m}]
    BY <1>1, <2>1, <2>2, <2>3, MoveLock DEF GoTo
  <2>5. Delivery!Acquire(of[m], m)
    BY <2>1, <2>2, <2>4 DEF Delivery!Acquire, LockMap
  <2>6. QED
    BY <2>1, <2>5 DEF Delivery!Next
<1>2. CASE Fetch(m)
  <2>1. pc[m] = "fetch" /\ UNCHANGED <<row, prod>> /\ Holding(m) /\ of[m] \in Notes
    BY <1>2 DEF Fetch, Holding, IInv, TypeOK
  <2>2. ASSUME NEW x \in Verdicts, GoTo(m, x) PROVE LockMap' = LockMap
    <3>1. x \in Places /\ x \in HoldPlaces
      BY DEF Places, InFlight, HoldPlaces
    <3>2. QED
      BY <2>1, <2>2, <3>1, MoveLock DEF GoTo
  <2>3. CASE told' = [told EXCEPT ![of[m]] = @ + 1] /\ GoTo(m, "delivered")
    <3>1. told[of[m]] = 0 /\ told \in [Notes -> Nat]
      BY <2>1, <2>3, SuccessIsFirst DEF IInv, TypeOK
    <3>2. LockMap' = LockMap
      BY <2>2, <2>3 DEF Verdicts
    <3>3. Holders(of[m]) # {}
      BY <2>1 DEF Holders
    <3>4. Delivery!Tell(of[m])
      BY <2>1, <2>3, <3>1, <3>2, <3>3 DEF Delivery!Tell, LockMap
    <3>5. QED
      BY <2>1, <3>4 DEF Delivery!Next
  <2>4. CASE (GoTo(m, "dlq") \/ GoTo(m, "failed")) /\ UNCHANGED told
    <3>1. LockMap' = LockMap
      BY <2>2, <2>4 DEF Verdicts
    <3>2. QED
      BY <2>4, <3>1 DEF Delivery!vars, LockMap
  <2>5. CASE Retry(m) /\ UNCHANGED told
    BY <2>1, <2>5, FreeMoveLock
  <2>6. QED
    BY <1>2, <2>3, <2>4, <2>5 DEF Fetch
<1>3. CASE /\ pc[m] # "none" /\ UNCHANGED told
           /\ GoTo(m, "read") \/ GoTo(m, "claim") \/ Ack(m) \/ Retry(m)
  BY <1>3, FreeMoveLock
<1>4. CASE Deliver(m) \/ ReadRow(m) \/ Crash(m) \/ Settle(m) \/ DeadLetter(m)
  <2>1. pc[m] # "none" /\ UNCHANGED told
    BY <1>4 DEF Deliver, ReadRow, Crash, Settle, DeadLetter, InFlight, Verdicts
  <2>2. GoTo(m, "read") \/ GoTo(m, "claim") \/ Ack(m) \/ Retry(m)
    BY <1>4 DEF Deliver, ReadRow, Crash, Settle, DeadLetter
  <2>3. QED
    BY <1>3, <2>1, <2>2
<1>5. CASE Claim(m)
  <2>1. pc[m] # "none" /\ UNCHANGED told
    BY <1>5 DEF Claim
  <2>2. QED
    BY <1>1, <1>3, <1>5, <2>1 DEF Claim
<1>6. QED
  BY <1>2, <1>4, <1>5 DEF Consume

\* A producer's step is a stutter of the lock.
LEMMA ProduceImplements ==
    ASSUME IInv, NEW n \in Notes, Produce(n) \/ ProducerCrash(n)
    PROVE  UNCHANGED Delivery!vars
<1>1. told' = told
  BY DEF Produce, Persist, Send, Compensate, ProducerCrash
<1>2. CASE UNCHANGED <<pc, of>>
  <2>1. LockMap' = LockMap
    BY <1>2, SameHolders DEF Holding
  <2>2. QED
    BY <1>1, <2>1 DEF Delivery!vars, LockMap
<1>3. CASE Enqueue(n)
  <2>1. PICK m \in Msgs : /\ pc[m] = "none"
                          /\ pc' = [pc EXCEPT ![m] = "queued"]
                          /\ of' = [of EXCEPT ![m] = n]
    BY <1>3 DEF Enqueue
  <2>2. LockMap' = LockMap
    BY <2>1, SameHolders DEF IInv, TypeOK, Holding, Verdicts
  <2>3. QED
    BY <1>1, <2>2 DEF Delivery!vars, LockMap
<1>4. QED
  BY <1>2, <1>3 DEF Produce, Persist, Send, Compensate, ProducerCrash

\* A duplicate is a stutter of the lock.
LEMMA DuplicateImplements ==
    ASSUME IInv, NEW m \in Msgs, NEW copy \in Msgs, Duplicate(m, copy)
    PROVE  UNCHANGED Delivery!vars
<1>1. /\ pc[copy] = "none" /\ told' = told
      /\ pc' = [pc EXCEPT ![copy] = "queued"]
      /\ of' = [of EXCEPT ![copy] = of[m]]
  BY DEF Duplicate
<1>2. LockMap' = LockMap
  BY <1>1, SameHolders DEF IInv, TypeOK, Holding, Verdicts
<1>3. QED
  BY <1>1, <1>2 DEF Delivery!vars, LockMap

\* The status column, updated by single statements that may be lost, implements
\* the lock with a success flag (deliverOrMarkFailed).
THEOREM QueueImplementsDelivery == HonestSend /\ Spec => ImplementsDelivery
<1> SUFFICES ASSUME HonestSend PROVE Spec => ImplementsDelivery
  OBVIOUS
<1>1. Init => Delivery!Init
  BY DEF Init, Delivery!Init, Holders, Holding, Verdicts
<1>2. ASSUME IInv, [Next]_vars PROVE [Delivery!Next]_(Delivery!vars)
  <2>1. CASE UNCHANGED vars
    <3>1. LockMap' = LockMap /\ told' = told
      BY <2>1, SameHolders DEF vars, Holding
    <3>2. QED
      BY <3>1 DEF Delivery!vars, LockMap
  <2>2. CASE Next
    BY <1>2, <2>2, ProduceImplements, ConsumeImplements, DuplicateImplements DEF Next
  <2>3. QED
    BY <1>2, <2>1, <2>2
<1>3. Spec => []IInv
  BY SpecIInv
<1>4. QED
  BY <1>1, <1>2, <1>3, PTL DEF Spec, ImplementsDelivery, Delivery!Spec

-----------------------------------------------------------------------------
(* The reminders of the cron jobs: one job reads what another wrote or found, *)
(* days before, so the invariant says what is still so of what was found.     *)

\* The clock's hours in which a stage is due.
Opens(job, s)  == Day * STAGES[job][s].first
Closes(job, s) == Day * (STAGES[job][s].last + 1)

Slots   == [daily |-> 1, reengage |-> 2, incomplete |-> 3]
Busy    == step # "idle"
Watched == <<hour, plan>> = watch
Sending == step = "write" /\ Watched

\* A job looks once and sends at most one reminder.
Fits ==
    /\ nudges + (IF due \/ step = "send" THEN 1 ELSE 0) <= Slots[hour]
    /\ Busy => ~due /\ plan \in 1..3

\* On a day without a change of the profile: whoever got the daily message was
\* here a day ago, so at 10 nobody calls them inactive; whoever got one of the
\* first two has a complete profile.
Apart ==
    ~changed =>
        /\ nudges <= 1
        /\ step = "send" \/ (hour = "daily" /\ due) => nudges = 0
        /\ hour = "daily" /\ (Busy \/ nudges = 1) => idle < Day
        /\ Busy => profile = (IF hour = "incomplete" THEN "incomplete" ELSE "complete")
        /\ nudges = 1 /\ (hour # "incomplete" \/ due) => profile = "complete"
        /\ nudges = 1 /\ hour = "reengage" /\ due => idle <= Day

\* What a job found is still so when it sends and writes, unless the user came back.
StillSo ==
    Busy =>
        /\ step = "send" /\ Watched => since = Limit
        /\ hour = "incomplete" =>
              /\ Opens(hour, plan) <= age /\ age < Closes(hour, plan)
              /\ profile = "incomplete" \/ idle <= 0
        /\ hour = "reengage" =>
              /\ idle <= 0 \/ (Opens(hour, plan) <= idle /\ idle < Closes(hour, plan))
              /\ watch[1] = "incomplete" => since = Limit

\* Within the cooldown the columns hold the watched stage, or the clock has left
\* it for good, or the job is about to write it.
Remembered(job, s, clock) ==
    /\ Opens(job, s) <= clock
    /\ (lastStage = s /\ at <= since) \/ Closes(job, s) <= clock \/ Sending

\* The watched stage is remembered while it may come again: the other job has
\* nothing for this user before the cooldown is over.
Kept ==
    since < Limit =>
        /\ watch[1] = "incomplete" =>
              /\ profile = "complete" => idle <= since
              /\ Remembered("incomplete", watch[2], age)
        /\ watch[1] = "reengage" /\ profile = "complete" /\ idle > since =>
              Remembered("reengage", watch[2], idle)

ReminderInv == ReminderTypeOK /\ Fits /\ Apart /\ StillSo /\ Kept

\* The stages of a job follow one another, and a silence of the first stage takes
\* longer than the cooldowns.
LEMMA StagesFollow ==
    /\ \A job \in Staged, s \in 1..3 :
          /\ Opens(job, s) \in Nat /\ Closes(job, s) \in Nat /\ Cool(job, s) \in Nat
          /\ Opens(job, s) < Closes(job, s)
          /\ \A t \in 1..3 : s < t => Closes(job, s) <= Opens(job, t)
    /\ \A s \in 1..3 :
          /\ Opens("reengage", s) >= 2 * Day
          /\ Cool("reengage", s) <= Opens("reengage", s)
          /\ \A t \in 1..3 : Cool("incomplete", t) <= Opens("reengage", s)
<1> DEFINE First(job, s) == STAGES[job][s].first
           Last(job, s)  == STAGES[job][s].last
           Rest(job, s)  == STAGES[job][s].cool
<1>1. /\ \A job \in Staged, s \in 1..3 : First(job, s) \in Nat /\ Last(job, s) \in Nat /\ Rest(job, s) \in Nat
      /\ \A job \in Staged, s \in 1..3 : First(job, s) <= Last(job, s)
      /\ \A job \in Staged, s \in 1..2 : Last(job, s) < First(job, s + 1)
  BY StagesAssumption DEF Window
<1>2. /\ First("reengage", 1) > 1
      /\ \A s \in 1..3 : Rest("reengage", s) <= First("reengage", s)
      /\ \A s \in 1..3 : Rest("incomplete", s) <= First("reengage", 1)
  BY StagesAssumption
<1>3. \A job \in Staged, s \in 1..3 :
         /\ Opens(job, s) = 3 * First(job, s)
         /\ Closes(job, s) = 3 * (Last(job, s) + 1)
         /\ Cool(job, s) = 3 * Rest(job, s)
  BY DEF Opens, Closes, Cool, Day
<1>4. "reengage" \in Staged /\ "incomplete" \in Staged
  BY DEF Staged
<1> HIDE DEF First, Last, Rest
<1>5. \A job \in Staged : Last(job, 1) < First(job, 2) /\ Last(job, 2) < First(job, 3)
  BY <1>1
<1>6. \A job \in Staged, s \in 1..3, t \in 1..3 : s < t => Last(job, s) < First(job, t)
  <2> TAKE job \in Staged, s \in 1..3, t \in 1..3
  <2> HAVE s < t
  <2>1. (s = 1 /\ t = 2) \/ (s = 2 /\ t = 3) \/ (s = 1 /\ t = 3)
    OBVIOUS
  <2>2. First(job, 2) <= Last(job, 2) /\ Last(job, 1) \in Nat /\ Last(job, 2) \in Nat
        /\ First(job, 2) \in Nat /\ First(job, 3) \in Nat
    BY <1>1
  <2> QED
    BY <2>1, <2>2, <1>5
<1>7. \A s \in 1..3 : First("reengage", 1) <= First("reengage", s)
  <2> TAKE s \in 1..3
  <2>1. s = 1 \/ 1 < s
    OBVIOUS
  <2>2. First("reengage", 1) <= Last("reengage", 1) /\ First("reengage", 1) \in Nat
        /\ Last("reengage", 1) \in Nat /\ First("reengage", s) \in Nat
    BY <1>1, <1>4
  <2> QED
    BY <2>1, <2>2, <1>6, <1>4
<1>8. ASSUME NEW job \in Staged, NEW s \in 1..3
      PROVE  /\ Opens(job, s) \in Nat /\ Closes(job, s) \in Nat /\ Cool(job, s) \in Nat
             /\ Opens(job, s) < Closes(job, s)
             /\ \A t \in 1..3 : s < t => Closes(job, s) <= Opens(job, t)
  BY <1>1, <1>3, <1>6
<1>9. ASSUME NEW s \in 1..3
      PROVE  /\ Opens("reengage", s) >= 2 * Day
             /\ Cool("reengage", s) <= Opens("reengage", s)
             /\ \A t \in 1..3 : Cool("incomplete", t) <= Opens("reengage", s)
  BY <1>1, <1>2, <1>3, <1>4, <1>7 DEF Day
<1> QED
  BY <1>8, <1>9

\* Where the clocks stop.
LEMMA LongestAre ==
    /\ Longest.idle \in Nat /\ Longest.age \in Nat /\ Longest.at \in Nat /\ Longest.daily \in Nat
<1>1. /\ Longest.idle = Opens("reengage", 3) /\ Longest.age = Opens("incomplete", 3)
      /\ Longest.at = Cool("reengage", 3) /\ Longest.daily = 4
  BY DEF Longest, Opens, Cool, Day
<1>2. "reengage" \in Staged /\ "incomplete" \in Staged /\ 3 \in 1..3
  BY DEF Staged
<1> QED
  BY <1>1, <1>2, StagesFollow

\* The watched stage and its cooldown.
LEMMA WatchIs ==
    ASSUME ReminderTypeOK
    PROVE  /\ watch[1] \in Staged /\ watch[2] \in 1..3
           /\ Limit \in Nat /\ Limit = Cool(watch[1], watch[2])
           /\ Watched <=> hour = watch[1] /\ plan = watch[2]
<1>1. watch[1] \in Staged /\ watch[2] \in 1..3 /\ watch = <<watch[1], watch[2]>>
  BY DEF ReminderTypeOK
<1>2. Limit \in Nat /\ Limit = Cool(watch[1], watch[2])
  BY <1>1, StagesFollow DEF Limit
<1>3. Watched <=> hour = watch[1] /\ plan = watch[2]
  BY <1>1 DEF Watched
<1> QED
  BY <1>1, <1>2, <1>3

\* A clock that grows older grows by at most an hour and never goes back.
LEMMA OlderIs ==
    ASSUME NEW limit \in Nat, NEW t \in -1..limit
    PROVE  /\ Older(t, limit) \in 0..limit
           /\ t <= Older(t, limit) /\ Older(t, limit) <= t + 1
           /\ Older(t, limit) < limit => Older(t, limit) = t + 1
BY DEF Older

\* So many whole days on a clock are so many hours.
LEMMA DaysAre ==
    ASSUME NEW clock \in Int, clock >= -1, NEW n \in Nat, NEW m \in Nat,
           DaysOn(clock) \in n..m, clock >= 0 \/ n >= 1
    PROVE  Day * n <= clock /\ clock < Day * (m + 1)
BY DEF DaysOn, Day, JustNow


\* The stage a job finds is open on its clock.
LEMMA StageForOpen ==
    ASSUME ReminderTypeOK, NEW job \in Staged, StageFor(job) # 0
    PROVE  /\ StageFor(job) \in 1..3
           /\ Opens(job, StageFor(job)) <= Clock(job)
           /\ Clock(job) < Closes(job, StageFor(job))
<1> DEFINE s == StageFor(job)
           n == STAGES[job][s].first
           m == STAGES[job][s].last
<1>1. s \in 1..3 /\ DaysOn(Clock(job)) \in n..m
  BY DEF StageFor
<1>2. n \in Nat /\ m \in Nat /\ (job = "reengage" => n >= 1)
  <2>1. STAGES[job][s] \in Window
    BY <1>1, StagesAssumption
  <2>2. Opens(job, s) = 3 * n /\ (job = "reengage" => Opens(job, s) >= 6)
    BY <1>1, StagesFollow DEF Opens, Day
  <2> QED
    BY <2>1, <2>2 DEF Window
<1>3. Clock(job) \in Int /\ Clock(job) >= -1 /\ (job # "reengage" => Clock(job) >= 0)
  BY LongestAre DEF Clock, ReminderTypeOK, Staged
<1>4. Day * n <= Clock(job) /\ Clock(job) < Day * (m + 1)
  <2> HIDE DEF n, m
  <2> QED
    BY <1>1, <1>2, <1>3, DaysAre
<1> QED
  BY <1>1, <1>4 DEF Opens, Closes

\* What a job that plans to send has found.
LEMMA PlansFound ==
    ASSUME ReminderTypeOK, NEW p \in Plans(hour)
    PROVE  /\ p \in 0..3
           /\ p # 0 /\ hour = "daily" => profile = "complete" /\ idle < Day
           /\ p # 0 /\ hour # "daily" =>
                 /\ profile = (IF hour = "incomplete" THEN "incomplete" ELSE "complete")
                 /\ Opens(hour, p) <= Clock(hour) /\ Clock(hour) < Closes(hour, p)
                 /\ lastStage = p => at >= Cool(hour, p)
<1>1. CASE hour = "daily"
  <2>1. p = 1 \/ p = 0
    BY <1>1 DEF Plans, PlansDaily
  <2>2. p # 0 => profile = "complete" /\ idle < 1 * Day
    BY <1>1 DEF Plans, PlansDaily
  <2> QED
    BY <1>1, <2>1, <2>2 DEF Day
<1>2. CASE hour # "daily"
  <2>1. hour \in Staged
    BY <1>2 DEF ReminderTypeOK, Jobs, Staged
  <2>2. p \in PlansStage(hour)
    BY <1>2 DEF Plans
  <2>3. CASE p = 0
    BY <2>3, <1>2
  <2>4. CASE p # 0
    <3>1. /\ StageFor(hour) # 0 /\ profile = For[hour]
          /\ \E c \in Cooled(hour, StageFor(hour)) : p = IF c THEN StageFor(hour) ELSE 0
      BY <2>2, <2>4 DEF PlansStage
    <3>2. p = StageFor(hour) /\ TRUE \in Cooled(hour, StageFor(hour))
      BY <3>1, <2>4 DEF Cooled, MaySee
    <3>3. lastStage = p => at >= Cool(hour, p)
      BY <3>2 DEF Cooled, MaySee
    <3>4. profile = (IF hour = "incomplete" THEN "incomplete" ELSE "complete")
      BY <3>1, <2>1 DEF For, Staged
    <3> QED
      BY <3>1, <3>2, <3>3, <3>4, <2>1, <1>2, StageForOpen
  <2> QED
    BY <2>3, <2>4
<1> QED
  BY <1>1, <1>2

\* At first no reminder was sent and no job is under way.
LEMMA InitReminderInv == ReminderInit => ReminderInv
<1> SUFFICES ASSUME ReminderInit PROVE ReminderInv
  OBVIOUS
<1>1. watch[1] \in Staged /\ watch[2] \in 1..3 /\ Limit \in Nat
  BY StagesFollow DEF ReminderInit, Limit
<1>2. ReminderTypeOK
  <2>1. /\ idle \in -1..Longest.idle /\ age \in 0..Longest.age
        /\ at \in 0..Longest.at /\ dailyAt \in 0..Longest.daily
    BY LongestAre DEF ReminderInit
  <2>2. since \in 0..Limit /\ lastStage \in 0..3 /\ plan \in 0..3 /\ nudges \in 0..3
    BY <1>1 DEF ReminderInit
  <2>3. /\ hour \in Jobs /\ profile \in Profiles /\ {due, changed} \subseteq BOOLEAN
        /\ step \in {"idle", "send", "write"} /\ watch \in Staged \X (1..3)
    BY DEF ReminderInit, Jobs, Profiles
  <2> QED
    BY <2>1, <2>2, <2>3 DEF ReminderTypeOK
<1>3. Fits /\ Apart /\ StillSo /\ Kept
  BY <1>1 DEF ReminderInit, Fits, Apart, StillSo, Kept, Busy, Slots
<1> QED
  BY <1>2, <1>3 DEF ReminderInv

\* The user comes back: whatever a clock of silence said, it starts over.
LEMMA ActKeeps == ASSUME ReminderInv, Act PROVE ReminderInv'
<1> USE DEF ReminderInv, Act, user, sent, run, seen
<1>1. idle' <= 0 /\ idle' \in -1..Longest.idle
  BY LongestAre DEF ReminderTypeOK, JustNow
<1>2. Limit' = Limit /\ Limit \in Nat
  BY WatchIs DEF Limit
<1>3. ReminderTypeOK'
  <2>1. profile' \in Profiles /\ {due', changed'} \subseteq BOOLEAN
    BY DEF ReminderTypeOK
  <2> QED
    BY <1>1, <1>2, <2>1 DEF ReminderTypeOK
<1>4. Fits'
  BY DEF Fits, Busy
<1>5. Apart'
  <2>1. ~changed' => ~changed /\ profile' = profile
    BY DEF ReminderTypeOK
  <2>2. idle' < Day /\ idle' <= Day
    BY <1>1 DEF Day
  <2>3. due' = due /\ hour' = hour /\ step' = step /\ nudges' = nudges
    OBVIOUS
  <2> SUFFICES ASSUME ~changed' PROVE Apart'
    BY DEF Apart
  <2>4. ~changed /\ profile' = profile
    BY <2>1
  <2> HIDE DEF ReminderInv, Act
  <2>5. Apart
    BY DEF ReminderInv
  <2> QED
    BY <2>2, <2>3, <2>4, <2>5 DEF Apart, Busy
<1>6. StillSo'
  BY <1>1, <1>2 DEF StillSo, Busy, Watched
<1>7. Kept'
  BY <1>1, <1>2 DEF Kept, Remembered, Sending, Watched, ReminderTypeOK
<1> QED
  BY <1>3, <1>4, <1>5, <1>6, <1>7

\* The cleanup makes the profile incomplete between two jobs.
LEMMA WipeKeeps == ASSUME ReminderInv, Wipe PROVE ReminderInv'
<1> USE DEF ReminderInv, Wipe, user, sent, run, seen
<1>1. Limit' = Limit
  BY DEF Limit
<1>2. ReminderTypeOK'
  BY <1>1 DEF ReminderTypeOK, Profiles
<1>3. Fits' /\ Apart' /\ StillSo'
  BY DEF Fits, Apart, StillSo, Busy
<1>4. Kept'
  BY <1>1 DEF Kept, Remembered, Sending, Watched
<1> QED
  BY <1>2, <1>3, <1>4

\* An hour passes on every clock alike.
LEMMA StrikeKeeps == ASSUME ReminderInv, Strike PROVE ReminderInv'
<1> USE DEF ReminderInv, Strike, user, sent, run, seen
<1>1. Limit' = Limit /\ Limit \in Nat /\ watch[1] \in Staged /\ watch[2] \in 1..3
  BY WatchIs DEF Limit
<1>2. /\ idle' \in 0..Longest.idle /\ idle <= idle' /\ idle' <= idle + 1
      /\ age' \in 0..Longest.age /\ age <= age'
      /\ at' \in 0..Longest.at /\ at' <= at + 1
      /\ dailyAt' \in 0..Longest.daily
      /\ since' \in 0..Limit /\ (since' < Limit => since < Limit /\ since' = since + 1)
  <2>1. /\ idle \in -1..Longest.idle /\ age \in -1..Longest.age /\ at \in -1..Longest.at
        /\ dailyAt \in -1..Longest.daily /\ since \in -1..Limit
    BY LongestAre, <1>1 DEF ReminderTypeOK
  <2>2. idle' \in 0..Longest.idle /\ idle <= idle' /\ idle' <= idle + 1
    BY <2>1, OlderIs, LongestAre
  <2>3. age' \in 0..Longest.age /\ age <= age'
    BY <2>1, OlderIs, LongestAre
  <2>4. at' \in 0..Longest.at /\ at' <= at + 1
    BY <2>1, OlderIs, LongestAre
  <2>5. dailyAt' \in 0..Longest.daily
    BY <2>1, OlderIs, LongestAre
  <2>6. since' \in 0..Limit /\ (since' < Limit => since < Limit /\ since' = since + 1)
    BY <2>1, <1>1 DEF Older
  <2> QED
    BY <2>2, <2>3, <2>4, <2>5, <2>6
<1>3. hour' = IF hour = "daily" THEN "reengage" ELSE IF hour = "reengage" THEN "incomplete" ELSE "daily"
  BY DEF After, ReminderTypeOK, Jobs
<1>4. Slots["daily"] = 1 /\ Slots["reengage"] = 2 /\ Slots["incomplete"] = 3
  BY DEF Slots
<1>5. ReminderTypeOK'
  <2>1. nudges' \in 0..3 /\ changed' \in BOOLEAN /\ hour' \in Jobs /\ due' \in BOOLEAN
    BY <1>3 DEF ReminderTypeOK, Jobs
  <2> QED
    BY <1>1, <1>2, <2>1 DEF ReminderTypeOK
<1>6. Fits'
  BY <1>3, <1>4 DEF Fits, Busy, ReminderTypeOK, Jobs
<1>7. Apart'
  BY <1>2, <1>3 DEF Apart, Busy, ReminderTypeOK, Day
<1>8. StillSo'
  BY DEF StillSo, Busy
<1>9. Kept'
  <2> SUFFICES ASSUME since' < Limit
               PROVE  /\ watch[1] = "incomplete" =>
                            /\ profile = "complete" => idle' <= since'
                            /\ Remembered("incomplete", watch[2], age)'
                      /\ watch[1] = "reengage" /\ profile = "complete" /\ idle' > since' =>
                            Remembered("reengage", watch[2], idle)'
    BY <1>1 DEF Kept
  <2>1. since < Limit /\ since' = since + 1 /\ ~Sending /\ since \in Int /\ idle \in Int
        /\ age \in Int /\ at \in Int
    BY <1>2 DEF Sending, ReminderTypeOK
  <2>2. Opens("incomplete", watch[2]) \in Nat /\ Closes("incomplete", watch[2]) \in Nat
        /\ Opens("reengage", watch[2]) \in Nat /\ Closes("reengage", watch[2]) \in Nat
    BY <1>1, StagesFollow DEF Staged
  <2>3. watch[1] = "incomplete" => Remembered("incomplete", watch[2], age)'
    BY <2>1, <2>2, <1>2 DEF Kept, Remembered
  <2>4. watch[1] = "incomplete" /\ profile = "complete" => idle' <= since'
    BY <2>1, <1>2 DEF Kept
  <2>5. watch[1] = "reengage" /\ profile = "complete" /\ idle' > since' =>
            Remembered("reengage", watch[2], idle)'
    BY <2>1, <2>2, <1>2 DEF Kept, Remembered
  <2> QED
    BY <2>3, <2>4, <2>5
<1> QED
  BY <1>5, <1>6, <1>7, <1>8, <1>9


\* The job reads the user; for a stage within its cooldown there is nothing to plan.
LEMMA LookKeeps == ASSUME ReminderInv, Look PROVE ReminderInv'
<1> USE DEF ReminderInv, Look, user, sent, run, seen
<1>1. Limit' = Limit /\ Limit \in Nat /\ Limit = Cool(watch[1], watch[2])
      /\ watch[1] \in Staged /\ watch[2] \in 1..3
  BY WatchIs DEF Limit
<1>2. /\ plan' \in 0..3
      /\ plan' # 0 /\ hour = "daily" => profile = "complete" /\ idle < Day
      /\ plan' # 0 /\ hour # "daily" =>
            /\ profile = (IF hour = "incomplete" THEN "incomplete" ELSE "complete")
            /\ Opens(hour, plan') <= Clock(hour) /\ Clock(hour) < Closes(hour, plan')
            /\ lastStage = plan' => at >= Cool(hour, plan')
  <2> DEFINE p == plan'
  <2>1. p \in Plans(hour)
    OBVIOUS
  <2> HIDE DEF p
  <2>2. /\ p \in 0..3
        /\ p # 0 /\ hour = "daily" => profile = "complete" /\ idle < Day
        /\ p # 0 /\ hour # "daily" =>
              /\ profile = (IF hour = "incomplete" THEN "incomplete" ELSE "complete")
              /\ Opens(hour, p) <= Clock(hour) /\ Clock(hour) < Closes(hour, p)
              /\ lastStage = p => at >= Cool(hour, p)
    BY <2>1, PlansFound
  <2> QED
    BY <2>2 DEF p
<1>3. Clock("reengage") = idle /\ Clock("incomplete") = age
  BY DEF Clock
<1>4. /\ (step' = "idle" /\ plan' = 0) \/ (step' = "send" /\ plan' # 0)
      /\ step = "idle" /\ ~due' /\ hour' = hour /\ nudges' = nudges /\ changed' = changed
      /\ profile' = profile /\ idle' = idle /\ age' = age /\ lastStage' = lastStage /\ at' = at
      /\ since' = since /\ watch' = watch
  OBVIOUS
<1>5. idle \in Int /\ age \in Int /\ at \in Int /\ since \in 0..Limit /\ nudges \in Nat
  BY <1>1 DEF ReminderTypeOK
<1>6. ASSUME plan' # 0, hour = "reengage"
      PROVE  idle >= 2 * Day
  <2> DEFINE p == plan'
  <2>1. p \in 1..3 /\ Opens(hour, p) <= idle
    BY <1>6, <1>2, <1>3
  <2> HIDE DEF p
  <2>2. Opens("reengage", p) >= 2 * Day /\ Opens("reengage", p) \in Nat
    BY <2>1, StagesFollow DEF Staged
  <2> QED
    BY <2>1, <2>2, <1>5, <1>6 DEF Day
<1>7. ReminderTypeOK'
  <2>1. {due', changed'} \subseteq BOOLEAN
    BY DEF ReminderTypeOK
  <2> QED
    BY <1>1, <1>2, <2>1 DEF ReminderTypeOK
<1>8. Fits'
  <2>1. nudges + 1 <= Slots[hour]
    BY DEF Fits
  <2>2. Slots[hour] \in Nat
    BY DEF Slots, ReminderTypeOK, Jobs
  <2>3. nudges' + (IF due' \/ step' = "send" THEN 1 ELSE 0) <= Slots[hour']
    BY <2>1, <2>2, <1>4, <1>5
  <2>4. Busy' => ~due' /\ plan' \in 1..3
    BY <1>2, <1>4 DEF Busy
  <2> QED
    BY <2>3, <2>4 DEF Fits
<1>9. Apart'
  <2>1. ~changed' /\ step' = "send" => nudges = 0
    <3>1. CASE hour = "daily"
      BY <3>1, <1>4 DEF Apart
    <3>2. CASE hour = "reengage"
      BY <3>2, <1>4, <1>5, <1>6 DEF Apart, Day
    <3>3. CASE hour = "incomplete"
      BY <3>3, <1>2, <1>4, <1>5 DEF Apart
    <3> QED
      BY <3>1, <3>2, <3>3 DEF ReminderTypeOK, Jobs
  <2> QED
    BY <2>1, <1>2, <1>4 DEF Apart, Busy
<1>10. ASSUME plan' # 0, hour = watch[1], plan' = watch[2]
       PROVE  since = Limit
  <2> SUFFICES ASSUME since # Limit PROVE FALSE
    OBVIOUS
  <2>1. since < Limit /\ ~Sending
    BY <1>1, <1>4, <1>5 DEF Sending
  <2>2. Opens(hour, watch[2]) <= Clock(hour) /\ Clock(hour) < Closes(hour, watch[2])
        /\ (lastStage = watch[2] => at >= Limit) /\ hour \in {"reengage", "incomplete"}
        /\ profile = (IF hour = "incomplete" THEN "incomplete" ELSE "complete")
    BY <1>1, <1>2, <1>10 DEF Staged
  <2>3. Closes(hour, watch[2]) \in Nat /\ Clock(hour) \in Int
    BY <1>1, <1>3, <1>5, <1>10, <2>2, StagesFollow
  <2>4. ~Remembered(hour, watch[2], Clock(hour))
    BY <2>1, <2>2, <2>3, <1>5, <1>1 DEF Remembered
  <2>5. CASE hour = "incomplete"
    BY <2>1, <2>4, <2>5, <1>3, <1>10 DEF Kept
  <2>6. CASE hour = "reengage"
    <3>1. Limit <= Opens("reengage", watch[2]) /\ Opens("reengage", watch[2]) \in Nat
      BY <1>1, <1>10, <2>6, StagesFollow DEF Staged
    <3>2. idle > since
      BY <3>1, <2>1, <2>2, <2>6, <1>1, <1>3, <1>5
    <3> QED
      BY <3>2, <2>1, <2>2, <2>4, <2>6, <1>3, <1>10 DEF Kept
  <2> QED
    BY <2>2, <2>5, <2>6
<1>11. ASSUME plan' # 0, hour = "reengage", watch[1] = "incomplete"
       PROVE  since = Limit
  <2> SUFFICES ASSUME since # Limit PROVE FALSE
    OBVIOUS
  <2>1. since < Limit
    BY <1>1, <1>5
  <2>2. idle <= since
    BY <2>1, <1>2, <1>11 DEF Kept
  <2> DEFINE p == plan'
  <2>3. p \in 1..3 /\ Opens("reengage", p) <= idle
    BY <1>2, <1>3, <1>11
  <2> HIDE DEF p
  <2>4. Limit <= Opens("reengage", p) /\ Opens("reengage", p) \in Nat
    BY <1>1, <1>11, <2>3, StagesFollow DEF Staged
  <2> QED
    BY <2>1, <2>2, <2>3, <2>4, <1>1, <1>5
<1>12. StillSo'
  <2> SUFFICES ASSUME plan' # 0
               PROVE  /\ hour = watch[1] /\ plan' = watch[2] => since = Limit
                      /\ hour = "incomplete" =>
                            /\ Opens(hour, plan') <= age /\ age < Closes(hour, plan')
                            /\ profile = "incomplete" \/ idle <= 0
                      /\ hour = "reengage" =>
                            /\ idle <= 0 \/ (Opens(hour, plan') <= idle /\ idle < Closes(hour, plan'))
                            /\ watch[1] = "incomplete" => since = Limit
    <3>1. Watched' => hour = watch[1] /\ plan' = watch[2]
      BY <1>4 DEF Watched
    <3> QED
      BY <3>1, <1>1, <1>4 DEF StillSo, Busy, Opens, Closes
  <2> QED
    BY <1>2, <1>3, <1>10, <1>11
<1>13. Kept'
  BY <1>1, <1>4 DEF Kept, Remembered, Sending
<1> QED
  BY <1>7, <1>8, <1>9, <1>12, <1>13


\* A reminder sent starts the watched cooldown only when none was running, and
\* only on the day's first turn unless the profile changed.
LEMMA NudgeKeeps == ASSUME ReminderInv, Nudge PROVE ReminderInv'
<1> USE DEF ReminderInv, Nudge, user, sent, run, seen
<1>1. Limit' = Limit /\ Limit \in Nat /\ watch[1] \in Staged /\ watch[2] \in 1..3
      /\ (Watched <=> hour = watch[1] /\ plan = watch[2])
  BY WatchIs DEF Limit
<1>2. /\ step = "send" /\ step' = "write" /\ nudges' = nudges + 1
      /\ since' = IF Watched THEN 0 ELSE since
      /\ hour' = hour /\ due' = due /\ profile' = profile /\ idle' = idle /\ age' = age
      /\ lastStage' = lastStage /\ at' = at /\ dailyAt' = dailyAt /\ plan' = plan
      /\ watch' = watch /\ changed' = changed /\ Busy /\ ~Sending
  BY DEF Watched, Busy, Sending
<1> HIDE DEF Nudge, user, sent, run, seen
<1>3. idle \in Int /\ age \in Int /\ since \in 0..Limit /\ since' \in 0..Limit /\ nudges \in Nat
  BY <1>1, <1>2 DEF ReminderTypeOK
<1>4. nudges + 1 <= Slots[hour] /\ ~due /\ plan \in 1..3
  BY <1>2 DEF Fits
<1>5. Slots[hour] \in {1, 2, 3}
  BY DEF Slots, ReminderTypeOK, Jobs
<1>6. ReminderTypeOK'
  <2>1. nudges' \in 0..3
    BY <1>2, <1>3, <1>4, <1>5
  <2> QED
    BY <1>1, <1>2, <1>3, <2>1 DEF ReminderTypeOK
<1>7. Fits'
  <2>1. nudges' + (IF due' \/ step' = "send" THEN 1 ELSE 0) <= Slots[hour']
    BY <1>2, <1>3, <1>4, <1>5
  <2> QED
    BY <2>1, <1>2, <1>4 DEF Fits, Busy
<1>8. Apart'
  <2> SUFFICES ASSUME ~changed PROVE Apart'
    BY <1>2 DEF Apart
  <2>1. nudges' = 1 /\ ~due'
    BY <1>2, <1>4 DEF Apart
  <2>2. /\ hour = "daily" => idle < Day
        /\ profile = (IF hour = "incomplete" THEN "incomplete" ELSE "complete")
    BY <1>2 DEF Apart
  <2> QED
    BY <2>1, <2>2, <1>2 DEF Apart, Busy
<1>9. StillSo'
  BY <1>1, <1>2 DEF StillSo, Busy, Watched, Opens, Closes
<1>10. Kept'
  <2>1. CASE Watched
    <3> SUFFICES ASSUME since' < Limit
                 PROVE  /\ watch[1] = "incomplete" =>
                              /\ profile = "complete" => idle <= 0
                              /\ Opens("incomplete", watch[2]) <= age
                        /\ watch[1] = "reengage" /\ profile = "complete" /\ idle > 0 =>
                              Opens("reengage", watch[2]) <= idle
      <4>1. Sending' /\ since' = 0
        BY <2>1, <1>1, <1>2 DEF Sending, Watched
      <4> QED
        BY <4>1, <1>1, <1>2 DEF Kept, Remembered, Opens, Closes
    <3>1. hour = watch[1] /\ plan = watch[2]
      BY <2>1, <1>1
    <3>2. watch[1] = "incomplete" => Opens("incomplete", watch[2]) <= age /\ (profile = "complete" => idle <= 0)
      BY <3>1, <1>2 DEF StillSo
    <3>3. watch[1] = "reengage" => idle <= 0 \/ Opens("reengage", watch[2]) <= idle
      BY <3>1, <1>2 DEF StillSo
    <3> QED
      BY <3>2, <3>3, <1>3
  <2>2. CASE ~Watched
    <3>1. since' = since /\ ~Sending'
      BY <2>2, <1>1, <1>2 DEF Sending, Watched
    <3> QED
      BY <3>1, <1>1, <1>2 DEF Kept, Remembered, Opens, Closes
  <2> QED
    BY <2>1, <2>2
<1> QED
  BY <1>6, <1>7, <1>8, <1>9, <1>10

\* A job that stops without having sent leaves everything as it was.
LEMMA NudgeFailsKeeps == ASSUME ReminderInv, NudgeFails PROVE ReminderInv'
<1> USE DEF ReminderInv
<1>1. /\ step = "send" /\ step' = "idle" /\ plan' = 0 /\ nudges' = nudges /\ since' = since
      /\ hour' = hour /\ due' = due /\ profile' = profile /\ idle' = idle /\ age' = age
      /\ lastStage' = lastStage /\ at' = at /\ dailyAt' = dailyAt
      /\ watch' = watch /\ changed' = changed /\ Limit' = Limit /\ ~Sending
  BY DEF NudgeFails, Stop, user, sent, run, seen, Limit, Sending
<1>2. ReminderTypeOK'
  BY <1>1 DEF ReminderTypeOK
<1>3. Fits'
  <2>1. nudges \in Nat /\ Slots[hour] \in Nat /\ nudges + 1 <= Slots[hour] /\ ~due
    BY <1>1 DEF Fits, Busy, ReminderTypeOK, Jobs, Slots
  <2>2. nudges' + (IF due' \/ step' = "send" THEN 1 ELSE 0) <= Slots[hour']
    BY <2>1, <1>1
  <2> QED
    BY <2>2, <1>1 DEF Fits, Busy
<1>4. Apart'
  BY <1>1 DEF Apart, Busy
<1>5. StillSo'
  BY <1>1 DEF StillSo, Busy
<1>6. Kept'
  BY <1>1 DEF Kept, Remembered, Sending
<1> QED
  BY <1>2, <1>3, <1>4, <1>5, <1>6

\* The progress is written: if it overwrites the watched stage, the clock has left
\* that stage for good.
LEMMA WriteKeeps == ASSUME ReminderInv, Write PROVE ReminderInv'
<1> USE DEF ReminderInv
<1>1. /\ step = "write" /\ step' = "idle" /\ plan' = 0 /\ nudges' = nudges /\ since' = since
      /\ hour' = hour /\ due' = due /\ profile' = profile /\ idle' = idle /\ age' = age
      /\ watch' = watch /\ changed' = changed /\ Limit' = Limit
      /\ (hour = "daily" => dailyAt' = 0 /\ lastStage' = lastStage /\ at' = at)
      /\ (hour # "daily" => dailyAt' = dailyAt /\ lastStage' = plan /\ at' = 0)
      /\ Busy
  BY DEF Write, Stop, user, run, seen, Limit, Busy
<1>2. watch[1] \in Staged /\ watch[2] \in 1..3 /\ Limit \in Nat
      /\ (Watched <=> hour = watch[1] /\ plan = watch[2])
  BY WatchIs
<1>3. nudges \in Nat /\ Slots[hour] \in Nat /\ ~due /\ plan \in 1..3 /\ nudges <= Slots[hour]
      /\ hour \in Jobs
  BY <1>1 DEF Fits, ReminderTypeOK, Jobs, Slots
<1>4. idle \in Int /\ age \in Int /\ since \in 0..Limit
  BY DEF ReminderTypeOK
<1>5. ReminderTypeOK'
  <2>1. at' \in 0..Longest.at /\ dailyAt' \in 0..Longest.daily /\ lastStage' \in 0..3
    BY <1>1, <1>3, LongestAre DEF ReminderTypeOK
  <2> QED
    BY <1>1, <2>1 DEF ReminderTypeOK
<1>6. Fits'
  <2>1. nudges' + (IF due' \/ step' = "send" THEN 1 ELSE 0) <= Slots[hour']
    BY <1>1, <1>3
  <2> QED
    BY <2>1, <1>1 DEF Fits, Busy
<1>7. Apart'
  BY <1>1 DEF Apart, Busy
<1>8. StillSo'
  BY <1>1 DEF StillSo, Busy
<1>9. ASSUME NEW clock \in Int, hour = watch[1],
             Opens(hour, plan) <= clock, clock < Closes(hour, plan),
             Remembered(hour, watch[2], clock)
      PROVE  plan = watch[2] \/ Closes(hour, watch[2]) <= clock
  <2> SUFFICES ASSUME plan # watch[2] PROVE Closes(hour, watch[2]) <= clock
    OBVIOUS
  <2>1. /\ Opens(hour, plan) \in Nat /\ Closes(hour, plan) \in Nat
        /\ Opens(hour, watch[2]) \in Nat /\ Closes(hour, watch[2]) \in Nat
        /\ (plan < watch[2] => Closes(hour, plan) <= Opens(hour, watch[2]))
        /\ (watch[2] < plan => Closes(hour, watch[2]) <= Opens(hour, plan))
    BY <1>2, <1>3, <1>9, StagesFollow
  <2>2. plan < watch[2] \/ watch[2] < plan
    BY <1>2, <1>3
  <2>3. Opens(hour, watch[2]) <= clock
    BY <1>9 DEF Remembered
  <2> QED
    BY <2>1, <2>2, <2>3, <1>9
<1>10. Kept'
  <2> SUFFICES ASSUME since < Limit
               PROVE  /\ watch[1] = "incomplete" =>
                            /\ profile = "complete" => idle <= since
                            /\ Remembered("incomplete", watch[2], age)'
                      /\ watch[1] = "reengage" /\ profile = "complete" /\ idle > since =>
                            Remembered("reengage", watch[2], idle)'
    BY <1>1 DEF Kept, Remembered, Opens, Closes
  <2>1. CASE hour = "daily"
    <3>1. ~Sending
      BY <2>1, <1>2 DEF Sending, Staged
    <3> QED
      BY <3>1, <2>1, <1>1 DEF Kept, Remembered, Opens, Closes
  <2>2. CASE hour = "incomplete"
    <3>1. /\ Opens(hour, plan) <= age /\ age < Closes(hour, plan)
          /\ profile = "incomplete" \/ idle <= 0
      BY <2>2, <1>1 DEF StillSo
    <3>2. watch[1] = "incomplete" =>
             /\ profile = "complete" => idle <= since
             /\ Remembered("incomplete", watch[2], age)
      BY DEF Kept
    <3>3. watch[1] = "incomplete" => plan = watch[2] \/ Closes("incomplete", watch[2]) <= age
      BY <3>1, <3>2, <2>2, <1>4, <1>9
    <3>4. watch[1] = "incomplete" => Remembered("incomplete", watch[2], age)'
      BY <3>2, <3>3, <2>2, <1>1, <1>4 DEF Remembered, Opens, Closes
    <3>5. ~(watch[1] = "reengage" /\ profile = "complete" /\ idle > since)
      BY <3>1, <1>4
    <3> QED
      BY <3>2, <3>4, <3>5
  <2>3. CASE hour = "reengage"
    <3>1. /\ idle <= 0 \/ (Opens(hour, plan) <= idle /\ idle < Closes(hour, plan))
          /\ watch[1] = "incomplete" => since = Limit
      BY <2>3, <1>1 DEF StillSo
    <3>2. watch[1] # "incomplete"
      BY <3>1, <1>2, <1>4
    <3>3. ASSUME watch[1] = "reengage", profile = "complete", idle > since
          PROVE  Remembered("reengage", watch[2], idle)'
      <4>1. Opens(hour, plan) <= idle /\ idle < Closes(hour, plan)
        BY <3>1, <3>3, <1>4
      <4>2. Remembered("reengage", watch[2], idle)
        BY <3>3 DEF Kept
      <4>3. plan = watch[2] \/ Closes("reengage", watch[2]) <= idle
        BY <4>1, <4>2, <3>3, <2>3, <1>4, <1>9
      <4> QED
        BY <4>2, <4>3, <2>3, <1>1, <1>4 DEF Remembered, Opens, Closes
    <3> QED
      BY <3>2, <3>3
  <2> QED
    BY <2>1, <2>2, <2>3, <1>3 DEF Jobs
<1> QED
  BY <1>5, <1>6, <1>7, <1>8, <1>10

\* A progress that was not written stops the watched clock.
LEMMA WriteFailsKeeps == ASSUME ReminderInv, WriteFails PROVE ReminderInv'
<1> USE DEF ReminderInv
<1>1. /\ step = "write" /\ step' = "idle" /\ plan' = 0 /\ nudges' = nudges
      /\ since' = IF Watched THEN Limit ELSE since
      /\ hour' = hour /\ due' = due /\ profile' = profile /\ idle' = idle /\ age' = age
      /\ lastStage' = lastStage /\ at' = at /\ dailyAt' = dailyAt
      /\ watch' = watch /\ changed' = changed /\ Limit' = Limit /\ Busy
  BY DEF WriteFails, Stop, user, sent, Limit, Watched, Busy
<1>2. Limit \in Nat /\ since \in 0..Limit /\ since' \in 0..Limit
  BY <1>1, WatchIs DEF ReminderTypeOK
<1>3. ReminderTypeOK'
  BY <1>1, <1>2 DEF ReminderTypeOK
<1>4. Fits'
  <2>1. nudges \in Nat /\ Slots[hour] \in Nat /\ nudges <= Slots[hour] /\ ~due
    BY <1>1 DEF Fits, ReminderTypeOK, Jobs, Slots
  <2>2. nudges' + (IF due' \/ step' = "send" THEN 1 ELSE 0) <= Slots[hour']
    BY <2>1, <1>1
  <2> QED
    BY <2>2, <1>1 DEF Fits, Busy
<1>5. Apart'
  BY <1>1 DEF Apart, Busy
<1>6. StillSo'
  BY <1>1 DEF StillSo, Busy
<1>7. Kept'
  <2>1. CASE Watched
    BY <2>1, <1>1, <1>2 DEF Kept
  <2>2. CASE ~Watched
    BY <2>2, <1>1 DEF Kept, Remembered, Sending, Opens, Closes
  <2> QED
    BY <2>1, <2>2
<1> QED
  BY <1>3, <1>4, <1>5, <1>6, <1>7

\* Every step keeps the invariant.
LEMMA StepReminderInv == ReminderInv /\ [ReminderNext]_reminderVars => ReminderInv'
<1> SUFFICES ASSUME ReminderInv, [ReminderNext]_reminderVars PROVE ReminderInv'
  OBVIOUS
<1>1. CASE UNCHANGED reminderVars
  BY <1>1 DEF ReminderInv, ReminderTypeOK, Fits, Apart, StillSo, Kept, Remembered, Sending, Watched,
     Busy, Limit, Opens, Closes, reminderVars, user, sent, run, seen
<1> QED
  BY <1>1, ActKeeps, WipeKeeps, StrikeKeeps, LookKeeps, NudgeKeeps, NudgeFailsKeeps, WriteKeeps,
     WriteFailsKeeps DEF ReminderNext

\* The whole invariant, for every table of stages that follow one another.
LEMMA ReminderInvHolds == ReminderSpec => []ReminderInv
BY InitReminderInv, StepReminderInv, PTL DEF ReminderSpec

\* The clocks stay within their bounds and a user gets at most three reminders a day.
THEOREM RemindersTyped == ReminderSpec => []ReminderTypeOK
<1>1. ReminderInv => ReminderTypeOK
  BY DEF ReminderInv
<1> QED
  BY <1>1, ReminderInvHolds, PTL

\* The three jobs stay out of each other's way: a second reminder on one day takes
\* a change of the profile.
THEOREM RemindersApart == ReminderSpec => []OneNudgeADay
<1>1. ReminderInv => OneNudgeADay
  BY DEF ReminderInv, Apart, OneNudgeADay
<1> QED
  BY <1>1, ReminderInvHolds, PTL

\* No stage is sent again within its cooldown, although the two jobs overwrite each
\* other's progress; only a progress that could not be written repeats one.
THEOREM StagesNotTooSoon == ReminderSpec => NotTooSoon
<1>1. ASSUME ReminderInv, [ReminderNext]_reminderVars
      PROVE  [since' = 0 => since = Limit]_since
  <2> SUFFICES ASSUME since' # since, since' = 0 PROVE since = Limit
    OBVIOUS
  <2>1. Limit \in Nat /\ since \in 0..Limit
    BY <1>1, WatchIs DEF ReminderInv, ReminderTypeOK
  <2>2. CASE Strike
    BY <2>1, <2>2 DEF Strike, Older
  <2>3. CASE Nudge
    BY <1>1, <2>3 DEF Nudge, ReminderInv, StillSo, Busy, Watched
  <2>4. CASE WriteFails
    BY <2>1, <2>4 DEF WriteFails
  <2>5. CASE Act \/ Wipe \/ Look \/ NudgeFails \/ Write
    BY <2>5 DEF Act, Wipe, Look, NudgeFails, Write, seen
  <2>6. CASE UNCHANGED reminderVars
    BY <2>6 DEF reminderVars, seen
  <2> QED
    BY <1>1, <2>2, <2>3, <2>4, <2>5, <2>6 DEF ReminderNext
<1> QED
  BY <1>1, ReminderInvHolds, PTL DEF ReminderSpec, NotTooSoon

=============================================================================
