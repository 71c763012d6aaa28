----------------------------- MODULE Entitlements -----------------------------
(***************************************************************************)
(* What one user has paid for: DM credits and a subscription with an       *)
(* expiry, granted by the bot's successful_payment handlers through        *)
(* grantDMCredits and grantPremium, spent by useDMCredit, taken back by    *)
(* the expiry job.  A delivery is one webhook call for a payment; Telegram *)
(* (external) repeats it until it is answered with 200.  The self purchase *)
(* computes its expiry before the grant, the gift reads the recipient's    *)
(* tier and expiry for it, a DM reads the credits it writes back.          *)
(***************************************************************************)
EXTENDS Integers, FiniteSets

CONSTANTS
    Payments,   \* telegram_payment_charge_ids of payments for this user
    Deliveries, \* webhook calls; each delivers one payment once
    Spends,     \* send-DM requests of this user
    Period,     \* the length of a subscription (30 days)
    MaxTime,    \* bound on the clock
    Faults      \* subset of {"crash", "api"}

\* "crash": the bot's invocation dies, or throws where nothing catches it (also
\* when the error message cannot be sent), and is not answered with 200; "api": a
\* call fails, or its answer is lost.
ASSUME ConstantsAssumption ==
    /\ Period \in Nat \ {0}
    /\ MaxTime \in Nat \ {0}
    /\ Faults \subseteq {"crash", "api"}

VARIABLES
    clock,   \* the time, 1..MaxTime
    item,    \* item[p]: what payment p is for, "none" before it is made
    payer,   \* payer[p]: who pays it, one of Payers
    acked,   \* the payments whose update was answered with 200
    claimed, \* payment_charges
    credits, \* users.dm_credits
    tier,    \* users.subscription_tier as a rank: free, premium, premium_plus
    expires, \* users.subscription_expires_at, 0 for NULL
    pc,      \* pc[d]: the next step of delivery d
    of,      \* of[d]: the payment it delivers
    want,    \* want[d]: the tier and the expiry it will write
    spend,   \* spend[s]: the next step of request s
    saw,     \* saw[s]: the credits it will write back
    sent,    \* history: DMs paid with a credit
    told,    \* history: the payments whose payer was told of an error
    raced    \* history: something got between the SELECT of a DM and its UPDATE

vars == <<clock, item, payer, acked, claimed, credits, tier, expires, pc, of, want,
          spend, saw, sent, told, raced>>
account == <<credits, tier, expires>>

Tiers == 0..2
Plans == {"premium", "plus"}
Gifts == {"giftPremium", "giftPlus"}
Items == {"credit"} \cup Plans \cup Gifts
Rank(i) == IF i \in {"plus", "giftPlus"} THEN 2 ELSE IF i = "credit" THEN 0 ELSE 1

\* "steady": from the payment on, the profile is complete and verified and the
\* bot is not blocked; "wavering": not at all times; "other": as "steady", but
\* not the user whom the invoice was made for.
Payers == {"steady", "wavering", "other"}

\* The invoice of a gift may be paid by anybody.
Stranger(p)  == payer[p] = "other" /\ item[p] \notin Gifts
MayBeLost(p) == payer[p] = "wavering" \/ Stranger(p)

Larger(a, b) == IF a >= b THEN a ELSE b

Nothing == [tier |-> 0, until |-> 0]

\* Payments whose charge id was claimed, by what they bought.
Bought     == {p \in claimed : item[p] = "credit"}
Subscribed == {p \in claimed : item[p] \in Plans \cup Gifts}

Init ==
    /\ clock = 1
    /\ item = [p \in Payments |-> "none"]
    /\ payer = [p \in Payments |-> "steady"]
    /\ acked = {}
    /\ claimed = {}
    /\ credits = 0 /\ tier = 0 /\ expires = 0
    /\ pc = [d \in Deliveries |-> "new"]
    /\ of = [d \in Deliveries |-> "none"]
    /\ want = [d \in Deliveries |-> Nothing]
    /\ spend = [s \in Spends |-> "new"]
    /\ saw = [s \in Spends |-> 0]
    /\ sent = 0
    /\ told = {}
    /\ raced = FALSE

-----------------------------------------------------------------------------
(* Telegram, external. *)

Pay(p, i, u) ==
    /\ item[p] = "none"
    /\ item' = [item EXCEPT ![p] = i]
    /\ payer' = [payer EXCEPT ![p] = u]
    /\ UNCHANGED <<clock, acked, claimed, account, pc, of, want, spend, saw, sent, told>>

\* Any delivery of an unanswered update, the first or a repetition.
Arrives(d, p) ==
    /\ pc[d] = "new"
    /\ item[p] # "none" /\ p \notin acked
    /\ of' = [of EXCEPT ![d] = p]
    /\ UNCHANGED <<clock, item, payer, claimed, account, spend, saw, sent, told>>

\* It reaches the handler.  A plan for oneself expires one period from now,
\* whatever is left of the current one.
Receive(d, p) ==
    /\ Arrives(d, p)
    /\ ~Stranger(p)
    /\ pc' = [pc EXCEPT ![d] = IF item[p] \in Gifts THEN "read" ELSE "grant"]
    /\ want' = [want EXCEPT ![d] = IF item[p] \in Plans
                                   THEN [tier |-> Rank(item[p]), until |-> clock + Period]
                                   ELSE Nothing]
    /\ UNCHANGED acked

\* It does not, and is answered all the same: the mandatory check asks the payer
\* of an incomplete or unverified profile for what is missing, unless the check
\* fails or a conversation is open; a stranger is logged.
TurnAway(d, p) ==
    /\ Arrives(d, p)
    /\ MayBeLost(p)
    /\ pc' = [pc EXCEPT ![d] = "done"]
    /\ acked' = acked \cup {p}
    /\ UNCHANGED want

\* The handler returns, also after an error it caught: the update is answered.
Answer(d) ==
    /\ pc' = [pc EXCEPT ![d] = "done"]
    /\ want' = [want EXCEPT ![d] = Nothing]
    /\ acked' = acked \cup {of[d]}
    /\ UNCHANGED of

Crash(d) ==
    /\ "crash" \in Faults
    /\ pc[d] \in {"read", "grant", "reply"}
    /\ pc' = [pc EXCEPT ![d] = "done"]
    /\ want' = [want EXCEPT ![d] = Nothing]
    /\ UNCHANGED <<clock, item, payer, acked, claimed, account, of, spend, saw, sent, told>>

-----------------------------------------------------------------------------
(* The payment handlers. *)

\* handleGiftPremiumPayment reads the recipient: the better tier, one period on
\* top of the later of now and the current expiry.
ReadRecipient(d) ==
    /\ pc[d] = "read"
    /\ pc' = [pc EXCEPT ![d] = "grant"]
    /\ want' = [want EXCEPT ![d] =
           [tier |-> Larger(Rank(item[of[d]]), tier), until |-> Larger(clock, expires) + Period]]
    /\ UNCHANGED <<clock, item, payer, acked, claimed, account, of, spend, saw, sent, told>>

\* The entitlement UPDATE of the batch, by what was paid for.
Apply(d) ==
    IF item[of[d]] = "credit"
    THEN credits' = credits + 1 /\ UNCHANGED <<tier, expires>>
    ELSE tier' = want[d].tier /\ expires' = want[d].until /\ UNCHANGED credits

\* Bug variants of Grant: the UPDATE is not gated on the claim; the claim is a
\* batch of its own and the UPDATE may be lost after it.
GrantUngated(d) ==
    /\ pc[d] = "grant"
    /\ Apply(d)
    /\ claimed' = claimed \cup {of[d]}
    /\ pc' = [pc EXCEPT ![d] = "reply"]
    /\ UNCHANGED <<clock, item, payer, acked, of, want, spend, saw, sent, told>>
GrantInTwo(d) ==
    /\ pc[d] = "grant"
    /\ \/ of[d] \notin claimed /\ Apply(d)
       \/ UNCHANGED account
    /\ claimed' = claimed \cup {of[d]}
    /\ pc' = [pc EXCEPT ![d] = "reply"]
    /\ UNCHANGED <<clock, item, payer, acked, of, want, spend, saw, sent, told>>

\* grantDMCredits, grantPremium: one batch applies the entitlement unless the
\* charge is claimed, and claims it.
Grant(d) ==
    /\ pc[d] = "grant"
    /\ \/ of[d] \notin claimed /\ Apply(d)
       \/ of[d] \in claimed /\ UNCHANGED account
    /\ claimed' = claimed \cup {of[d]}
    /\ pc' = [pc EXCEPT ![d] = "reply"]
    /\ UNCHANGED <<clock, item, payer, acked, of, want, spend, saw, sent, told>>

\* The handler confirms to the payer; when the API's answer or the confirmation
\* is lost, it takes the grant for failed.
Reply(d) ==
    /\ pc[d] = "reply"
    /\ Answer(d)
    /\ \/ UNCHANGED told
       \/ "api" \in Faults /\ told' = told \cup {of[d]}
    /\ UNCHANGED <<clock, item, payer, claimed, account, spend, saw, sent>>

\* The bug variant answers the update before the work is done.
AnswerEarly(d) ==
    /\ pc[d] \in {"read", "grant"}
    /\ Answer(d)
    /\ UNCHANGED <<clock, item, payer, claimed, account, spend, saw, sent, told>>
\* A failing call is logged and reported to the payer, but for one who blocked the
\* bot; the webhook answers 200.
CallFails(d) ==
    /\ "api" \in Faults
    /\ pc[d] \in {"read", "grant"}
    /\ Answer(d)
    /\ \/ told' = told \cup {of[d]}
       \/ payer[of[d]] = "wavering" /\ UNCHANGED told
    /\ UNCHANGED <<clock, item, payer, claimed, account, spend, saw, sent>>

-----------------------------------------------------------------------------
(* useDMCredit and downgradeExpiredSubscriptions. *)

Settle(s) ==
    /\ spend' = [spend EXCEPT ![s] = "done"]
    /\ saw' = [saw EXCEPT ![s] = 0]

\* Bug variant of SelectCredits: the balance is not checked.
SelectUnchecked(s) ==
    /\ spend[s] = "new"
    /\ \/ tier > 0 /\ Settle(s)
       \/ /\ tier = 0
          /\ spend' = [spend EXCEPT ![s] = "debit"]
          /\ saw' = [saw EXCEPT ![s] = credits - 1]
    /\ UNCHANGED <<clock, item, payer, acked, claimed, account, pc, of, want, sent, told>>

\* Subscribers send for nothing; no credits, no DM.
SelectCredits(s) ==
    /\ spend[s] = "new"
    /\ \/ /\ tier > 0 \/ credits <= 0
          /\ Settle(s)
       \/ /\ tier = 0 /\ credits > 0
          /\ spend' = [spend EXCEPT ![s] = "debit"]
          /\ saw' = [saw EXCEPT ![s] = credits - 1]
    /\ UNCHANGED <<clock, item, payer, acked, claimed, account, pc, of, want, sent, told>>

\* UPDATE users SET dm_credits = ?, the value computed from the SELECT.
Debit(s) ==
    /\ spend[s] = "debit"
    /\ credits' = saw[s]
    /\ sent' = sent + 1
    /\ Settle(s)
    /\ UNCHANGED <<clock, item, payer, acked, claimed, tier, expires, pc, of, want, told>>

\* The statement fails: no DM.
DebitFails(s) ==
    /\ "api" \in Faults
    /\ spend[s] = "debit"
    /\ Settle(s)
    /\ UNCHANGED <<clock, item, payer, acked, claimed, account, pc, of, want, sent, told>>

\* Bug variant of Downgrade: the expiry is kept.
DowngradeTierOnly ==
    /\ expires # 0 /\ expires < clock
    /\ tier' = 0
    /\ UNCHANGED <<clock, item, payer, acked, claimed, credits, expires, pc, of, want, spend, saw, sent, told>>
Downgrade ==
    /\ expires # 0 /\ expires < clock
    /\ tier' = 0 /\ expires' = 0
    /\ UNCHANGED <<clock, item, payer, acked, claimed, credits, pc, of, want, spend, saw, sent, told>>

Tick ==
    /\ clock < MaxTime
    /\ clock' = clock + 1
    /\ UNCHANGED <<item, payer, acked, claimed, account, pc, of, want, spend, saw, sent, told>>

-----------------------------------------------------------------------------
Deliver(d) ==
    \/ \E p \in Payments : Receive(d, p) \/ TurnAway(d, p)
    \/ ReadRecipient(d) \/ Grant(d) \/ Reply(d) \/ CallFails(d) \/ Crash(d)

Send(s) == SelectCredits(s) \/ Debit(s) \/ DebitFails(s)

\* No change of the balance and no second DM between the SELECT of a DM and its
\* UPDATE.
SpendsAlone ==
    \A s \in Spends : spend[s] = "debit" =>
        /\ credits' # credits => spend'[s] = "done"
        /\ \A q \in Spends \ {s} : spend'[q] = "debit" => spend[q] = "debit"

Next ==
    /\ \/ \E p \in Payments, i \in Items, u \in Payers : Pay(p, i, u)
       \/ \E d \in Deliveries : Deliver(d)
       \/ \E s \in Spends : Send(s)
       \/ Downgrade \/ Tick
    /\ raced' = (raced \/ ~SpendsAlone)

Spec == Init /\ [][Next]_vars

\* Gifts alone, with nothing failing.
GiftSpec ==
    Init /\ [][/\ \/ \E p \in Payments, i \in Gifts : Pay(p, i, "steady")
                  \/ \E d \in Deliveries : Deliver(d)
               /\ UNCHANGED raced]_vars

-----------------------------------------------------------------------------
TypeOK ==
    /\ clock \in 1..MaxTime
    /\ item \in [Payments -> Items \cup {"none"}]
    /\ payer \in [Payments -> Payers]
    /\ acked \subseteq Payments /\ claimed \subseteq Payments
    /\ credits \in Nat /\ tier \in Tiers /\ expires \in Nat
    /\ pc \in [Deliveries -> {"new", "read", "grant", "reply", "done"}]
    /\ of \in [Deliveries -> Payments \cup {"none"}]
    /\ \A d \in Deliveries : pc[d] # "new" => of[d] \in Payments
    /\ want \in [Deliveries -> [tier : Tiers, until : Nat]]
    /\ spend \in [Spends -> {"new", "debit", "done"}]
    /\ saw \in [Spends -> Nat]
    /\ sent \in Nat
    /\ told \subseteq Payments
    /\ raced \in BOOLEAN

\* Repeated deliveries, crashes, failing calls and stale balances never leave
\* more credits than were bought ("a replayed successful_payment delivery ...
\* cannot double-grant").
CreditsAreBought == credits <= Cardinality(Bought)

\* Nor a longer subscription than was bought, although a gift writes an expiry
\* computed from one it read before.
TimeIsBought ==
    expires # 0 => expires <= clock + Period * Cardinality(Subscribed)

\* A tier was bought by some payment at least as good, and it lapses: it stands
\* exactly as long as an expiry that the expiry job can find.
TierIsBought ==
    /\ tier > 0 => \E p \in Subscribed : Rank(item[p]) >= tier
    /\ tier > 0 <=> expires # 0

\* A payment that Telegram will not deliver again is claimed ("a failed grant
\* rolls back the claim and a retry can re-attempt") or its payer knows, whatever
\* dies, fails, repeats or overlaps: only a stranger, and a payer whose profile or
\* chat was not in order all the time, may hear nothing.
AnsweredIsGranted == \A p \in acked : p \in claimed \cup told \/ MayBeLost(p)

\* Every credit bought is either left or was spent on a DM, whatever happens to
\* the deliveries, as long as nothing changes the balance under a DM.
CreditsBalance == raced \/ credits + sent = Cardinality(Bought)

\* A gift never lowers the tier of a subscription that is running ("never
\* downgrade").
GiftKeepsTier == [][expires >= clock => tier' >= tier]_vars

=============================================================================
