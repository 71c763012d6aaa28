---------------------------- MODULE QuotaContract ----------------------------
(***************************************************************************)
(* A daily allowance as its callers understand it: what was used today     *)
(* counts up to the total in force and starts at zero every midnight.      *)
(* DailyQuota implements it with a counter and a date per row.             *)
(***************************************************************************)
EXTENDS Naturals

CONSTANTS Counters, Totals, MaxDay

VARIABLES day, total, count

vars == <<day, total, count>>

Init ==
    /\ day = 1
    /\ total \in [Counters -> Totals]
    /\ count = [k \in Counters |-> 0]

Use(k) ==
    /\ count[k] < total[k]
    /\ count' = [count EXCEPT ![k] = @ + 1]
    /\ UNCHANGED <<day, total>>

Change(k, t) ==
    /\ total' = [total EXCEPT ![k] = t]
    /\ UNCHANGED <<day, count>>

Midnight ==
    /\ day < MaxDay
    /\ day' = day + 1
    /\ count' = [k \in Counters |-> 0]
    /\ UNCHANGED total

Next ==
    \/ \E k \in Counters : Use(k) \/ \E t \in Totals : Change(k, t)
    \/ Midnight

Spec == Init /\ [][Next]_vars

=============================================================================
