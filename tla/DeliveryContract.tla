--------------------------- MODULE DeliveryContract ---------------------------
(***************************************************************************)
(* What the status column of a notification promises to the consumers of   *)
(* the queue: it is a lock that at most one of them holds, and once a bot  *)
(* call made under it was answered with success nobody gets it again.      *)
(* NotificationQueue implements it with single-row UPDATE statements.      *)
(***************************************************************************)
EXTENDS Integers

CONSTANTS Notes, Msgs

VARIABLES
    holder, \* holder[n]: the consumers (0 or 1) between claim and verdict
    told    \* told[n]: successful answers of the bot for n

vars == <<holder, told>>

Init ==
    /\ holder = [n \in Notes |-> {}]
    /\ told = [n \in Notes |-> 0]

Acquire(n, m) ==
    /\ holder[n] = {} /\ told[n] = 0
    /\ holder' = [holder EXCEPT ![n] = {m}]
    /\ UNCHANGED told

Tell(n) ==
    /\ holder[n] # {} /\ told[n] = 0
    /\ told' = [told EXCEPT ![n] = 1]
    /\ UNCHANGED holder

Release(n) ==
    /\ holder[n] # {}
    /\ holder' = [holder EXCEPT ![n] = {}]
    /\ UNCHANGED told

Next == \E n \in Notes : Tell(n) \/ Release(n) \/ \E m \in Msgs : Acquire(n, m)

Spec == Init /\ [][Next]_vars

=============================================================================
