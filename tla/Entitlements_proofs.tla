------------------------- MODULE Entitlements_proofs -------------------------
(***************************************************************************)
(* Proofs about Entitlements for any payments, deliveries, DM requests,    *)
(* period and time: what the account holds was bought, whatever is         *)
(* repeated, overlaps or dies.                                             *)
(***************************************************************************)
EXTENDS Entitlements, FiniteSetTheorems, TLAPS

NBought     == Cardinality(Bought)
NSubscribed == Cardinality(Subscribed)

\* Charges are claimed one by one and by deliveries of payments that were made.
ClaimFacts ==
    /\ IsFiniteSet(claimed)
    /\ \A p \in claimed : item[p] \in Items
    /\ \A d \in Deliveries :
        /\ pc[d] # "new" => item[of[d]] \in Items
        /\ pc[d] = "read" => item[of[d]] \in Gifts
        /\ pc[d] = "reply" => of[d] \in claimed

\* A balance about to be written back was read when it was one higher.
SawFacts == \A s \in Spends : spend[s] = "debit" => saw[s] + 1 <= NBought

\* A tier and an expiry about to be written are bought, once their own payment
\* counts.
WantFacts ==
    \A d \in Deliveries :
        pc[d] = "grant" /\ of[d] \notin claimed /\ item[of[d]] # "credit" =>
            /\ want[d].tier > 0
            /\ \/ want[d].tier <= Rank(item[of[d]])
               \/ \E p \in Subscribed : Rank(item[p]) >= want[d].tier
            /\ want[d].until > 0
            /\ want[d].until <= clock + (Period * NSubscribed + Period)

IInv ==
    /\ TypeOK
    /\ CreditsAreBought
    /\ TimeIsBought
    /\ TierIsBought
    /\ ClaimFacts
    /\ SawFacts
    /\ WantFacts

-----------------------------------------------------------------------------
\* The two counts are natural numbers.
LEMMA CountTypes ==
    ASSUME ClaimFacts
    PROVE  /\ IsFiniteSet(Bought) /\ IsFiniteSet(Subscribed)
           /\ NBought \in Nat /\ NSubscribed \in Nat
           /\ Period * NSubscribed \in Nat
<1>1. Bought \subseteq claimed /\ Subscribed \subseteq claimed
  BY DEF Bought, Subscribed
<1>2. IsFiniteSet(Bought) /\ IsFiniteSet(Subscribed)
  BY <1>1, FS_Subset DEF ClaimFacts
<1>3. NBought \in Nat /\ NSubscribed \in Nat
  BY <1>2, FS_CardinalityType DEF NBought, NSubscribed
<1>4. Period * NSubscribed \in Nat
  BY <1>3, ConstantsAssumption
<1> QED
  BY <1>2, <1>3, <1>4

\* Claiming a charge counts it where it belongs, unless it was claimed before.
LEMMA ClaimCounts ==
    ASSUME TypeOK, ClaimFacts, NEW p \in Payments, item[p] \in Items,
           claimed' = claimed \cup {p}, item' = item
    PROVE  /\ IsFiniteSet(claimed')
           /\ p \in claimed => NBought' = NBought /\ NSubscribed' = NSubscribed
           /\ p \notin claimed /\ item[p] = "credit" =>
                NBought' = NBought + 1 /\ NSubscribed' = NSubscribed
           /\ p \notin claimed /\ item[p] # "credit" =>
                NBought' = NBought /\ NSubscribed' = NSubscribed + 1
           /\ Subscribed \subseteq Subscribed'
           /\ item[p] # "credit" => p \in Subscribed'
<1> USE CountTypes, FS_AddElement
<1>1. IsFiniteSet(claimed')
  BY DEF ClaimFacts
<1>2. CASE p \in claimed
  <2>1. claimed' = claimed
    BY <1>2
  <2>2. Bought' = Bought /\ Subscribed' = Subscribed
    BY <2>1 DEF Bought, Subscribed
  <2>3. item[p] # "credit" => p \in Subscribed
    BY <1>2 DEF Subscribed, Items
  <2> QED
    BY <1>1, <1>2, <2>2, <2>3 DEF NBought, NSubscribed
<1>3. CASE p \notin claimed /\ item[p] = "credit"
  <2>1. Bought' = Bought \cup {p} /\ Subscribed' = Subscribed /\ p \notin Bought
    BY <1>3 DEF Bought, Subscribed, Plans, Gifts
  <2>2. NBought' = NBought + 1
    BY <2>1 DEF NBought
  <2> QED
    BY <1>1, <1>3, <2>1, <2>2 DEF NSubscribed
<1>4. CASE p \notin claimed /\ item[p] # "credit"
  <2>1. Bought' = Bought /\ Subscribed' = Subscribed \cup {p} /\ p \notin Subscribed
    BY <1>4 DEF Bought, Subscribed, Items
  <2>2. NSubscribed' = NSubscribed + 1
    BY <2>1 DEF NSubscribed
  <2> QED
    BY <1>1, <1>4, <2>1, <2>2 DEF NBought
<1> QED
  BY <1>2, <1>3, <1>4

\* Where neither charges nor claimed payments change, neither do the counts.
LEMMA CountsStay ==
    ASSUME claimed' = claimed, \A p \in claimed : item'[p] = item[p]
    PROVE  /\ Bought' = Bought /\ Subscribed' = Subscribed
           /\ NBought' = NBought /\ NSubscribed' = NSubscribed
<1>1. Bought' = Bought /\ Subscribed' = Subscribed
  BY DEF Bought, Subscribed
<1> QED
  BY <1>1 DEF NBought, NSubscribed

\* Nothing is owned before anything is paid.
LEMMA InitIInv == Init => IInv
<1> SUFFICES ASSUME Init PROVE IInv
  OBVIOUS
<1> USE ConstantsAssumption DEF Init, Nothing
<1>1. TypeOK
  <2>1. raced \in BOOLEAN
    OBVIOUS
  <2>2. payer \in [Payments -> Payers]
    BY DEF Payers
  <2> QED
    BY <2>1, <2>2 DEF TypeOK, Tiers
<1>2. ClaimFacts
  BY FS_EmptySet DEF ClaimFacts
<1>3. NBought \in Nat /\ NSubscribed \in Nat
  BY <1>2, CountTypes
<1>4. CreditsAreBought /\ TimeIsBought /\ TierIsBought
  BY <1>3 DEF CreditsAreBought, TimeIsBought, TierIsBought, NBought
<1>5. SawFacts /\ WantFacts
  BY DEF SawFacts, WantFacts
<1> QED
  BY <1>1, <1>2, <1>4, <1>5 DEF IInv

\* A payment that is made is neither claimed nor under delivery.
LEMMA PayIInv ==
    ASSUME IInv, NEW p \in Payments, NEW i \in Items, NEW u \in Payers, Pay(p, i, u),
           raced' \in BOOLEAN
    PROVE  IInv'
<1> USE DEF IInv, Pay, account
<1>1. "none" \notin Items
  BY DEF Items, Plans, Gifts
<1>2. \A q \in Payments : item[q] \in Items => item'[q] = item[q]
  BY <1>1 DEF TypeOK
<1>3. \A q \in claimed : q \in Payments /\ item'[q] = item[q]
  BY <1>2 DEF ClaimFacts, TypeOK
<1>4. /\ Bought' = Bought /\ Subscribed' = Subscribed
      /\ NBought' = NBought /\ NSubscribed' = NSubscribed
  BY <1>3, CountsStay
<1>5. TypeOK'
  <2>1. item' \in [Payments -> Items \cup {"none"}] /\ payer' \in [Payments -> Payers]
    BY DEF TypeOK
  <2> QED
    BY <2>1 DEF TypeOK
<1>6. CreditsAreBought' /\ TimeIsBought' /\ SawFacts'
  BY <1>4 DEF CreditsAreBought, TimeIsBought, SawFacts, NBought, NSubscribed
<1>7. TierIsBought'
  BY <1>3, <1>4 DEF TierIsBought, Subscribed
<1>8. \A d \in Deliveries : pc[d] # "new" => of[d] \in Payments /\ item'[of[d]] = item[of[d]]
  BY <1>2 DEF ClaimFacts, TypeOK
<1>9. ClaimFacts'
  BY <1>3, <1>8 DEF ClaimFacts
<1>10. WantFacts'
  BY <1>3, <1>4, <1>8 DEF WantFacts, Subscribed
<1> QED
  BY <1>5, <1>6, <1>7, <1>9, <1>10

\* A delivery that starts wants what its payment is for.
LEMMA ReceiveIInv ==
    ASSUME IInv, NEW d \in Deliveries, NEW p \in Payments, Receive(d, p), raced' \in BOOLEAN
    PROVE  IInv'
<1> USE ConstantsAssumption DEF IInv, Receive, Arrives, account
<1>0. "none" \notin Items /\ item[p] \in Items /\ clock \in Nat /\ clock + Period \in Nat
  BY DEF TypeOK, Items, Plans, Gifts
<1>1. /\ Bought' = Bought /\ Subscribed' = Subscribed
      /\ NBought' = NBought /\ NSubscribed' = NSubscribed
  BY CountsStay
<1>2. /\ of' = [of EXCEPT ![d] = p] /\ of'[d] = p
      /\ pc'[d] \in {"read", "grant"} /\ pc'[d] = "read" => item[p] \in Gifts
      /\ \A e \in Deliveries \ {d} : pc'[e] = pc[e] /\ of'[e] = of[e] /\ want'[e] = want[e]
  BY DEF TypeOK
<1>3. want'[d] = IF item[p] \in Plans
                 THEN [tier |-> Rank(item[p]), until |-> clock + Period] ELSE Nothing
  BY DEF TypeOK
<1>4. want'[d] \in [tier : Tiers, until : Nat]
  BY <1>0, <1>3 DEF Nothing, Tiers, Rank
<1>5. TypeOK'
  <2>1. want' \in [Deliveries -> [tier : Tiers, until : Nat]]
    BY <1>4 DEF TypeOK
  <2>2. pc' \in [Deliveries -> {"new", "read", "grant", "reply", "done"}]
    BY DEF TypeOK
  <2>3. of' \in [Deliveries -> Payments \cup {"none"}]
    BY DEF TypeOK
  <2>4. \A e \in Deliveries : pc'[e] # "new" => of'[e] \in Payments
    BY <1>2 DEF TypeOK
  <2> QED
    BY <2>1, <2>2, <2>3, <2>4 DEF TypeOK
<1>6. CreditsAreBought' /\ TimeIsBought' /\ SawFacts'
  BY <1>1 DEF CreditsAreBought, TimeIsBought, SawFacts, NBought, NSubscribed
<1>7. TierIsBought'
  BY <1>1 DEF TierIsBought
<1>8. ClaimFacts'
  BY <1>0, <1>2 DEF ClaimFacts
<1>9. WantFacts'
  <2> SUFFICES ASSUME NEW e \in Deliveries,
                      pc'[e] = "grant", of'[e] \notin claimed, item[of'[e]] # "credit"
               PROVE  /\ want'[e].tier > 0
                      /\ \/ want'[e].tier <= Rank(item[of'[e]])
                         \/ \E q \in Subscribed : Rank(item[q]) >= want'[e].tier
                      /\ want'[e].until > 0
                      /\ want'[e].until <= clock + (Period * NSubscribed + Period)
    BY <1>1 DEF WantFacts
  <2>1. CASE e = d
    <3>1. item[p] \in Plans
      BY <1>0, <1>2, <2>1 DEF Items
    <3>2. want'[d].tier = Rank(item[p]) /\ want'[d].until = clock + Period
      BY <1>3, <3>1
    <3>3. Rank(item[p]) > 0 /\ Rank(item[p]) <= Rank(item[p])
      BY <3>1 DEF Rank, Plans
    <3>4. Period * NSubscribed \in Nat
      BY CountTypes
    <3> QED
      BY <1>0, <1>2, <2>1, <3>2, <3>3, <3>4
  <2>2. CASE e # d
    BY <1>2, <2>2 DEF WantFacts
  <2> QED
    BY <2>1, <2>2
<1> QED
  BY <1>5, <1>6, <1>7, <1>8, <1>9

\* A delivery that is turned away changes nothing that was granted.
LEMMA TurnAwayIInv ==
    ASSUME IInv, NEW d \in Deliveries, NEW p \in Payments, TurnAway(d, p), raced' \in BOOLEAN
    PROVE  IInv'
<1> USE ConstantsAssumption DEF IInv, TurnAway, Arrives, account
<1>1. /\ Bought' = Bought /\ Subscribed' = Subscribed
      /\ NBought' = NBought /\ NSubscribed' = NSubscribed
  BY CountsStay
<1>2. /\ pc'[d] = "done" /\ of'[d] = p /\ item[p] \in Items
      /\ \A e \in Deliveries \ {d} : pc'[e] = pc[e] /\ of'[e] = of[e]
  BY DEF TypeOK
<1>3. TypeOK'
  <2>1. pc' \in [Deliveries -> {"new", "read", "grant", "reply", "done"}]
    BY DEF TypeOK
  <2>2. of' \in [Deliveries -> Payments \cup {"none"}] /\ acked' \subseteq Payments
    BY DEF TypeOK
  <2>3. \A e \in Deliveries : pc'[e] # "new" => of'[e] \in Payments
    BY <1>2 DEF TypeOK
  <2> QED
    BY <2>1, <2>2, <2>3 DEF TypeOK
<1>4. CreditsAreBought' /\ TimeIsBought' /\ TierIsBought' /\ SawFacts'
  BY <1>1 DEF CreditsAreBought, TimeIsBought, TierIsBought, SawFacts, NBought, NSubscribed
<1>5. ClaimFacts'
  BY <1>2 DEF ClaimFacts
<1>6. WantFacts'
  BY <1>1, <1>2 DEF WantFacts
<1> QED
  BY <1>3, <1>4, <1>5, <1>6

\* What a gift reads of the recipient was bought before it.
LEMMA ReadRecipientIInv ==
    ASSUME IInv, NEW d \in Deliveries, ReadRecipient(d), raced' \in BOOLEAN
    PROVE  IInv'
<1> USE ConstantsAssumption DEF IInv, ReadRecipient, account
<1> DEFINE gift == item[of[d]]
<1>0. /\ clock \in Nat /\ clock > 0 /\ expires \in Nat /\ tier \in Tiers
      /\ Period * NSubscribed \in Nat /\ of[d] \in Payments /\ gift \in Gifts
  BY CountTypes DEF TypeOK, ClaimFacts
<1>1. /\ Bought' = Bought /\ Subscribed' = Subscribed
      /\ NBought' = NBought /\ NSubscribed' = NSubscribed
  BY CountsStay
<1>2. /\ pc'[d] = "grant"
      /\ \A e \in Deliveries \ {d} : pc'[e] = pc[e] /\ want'[e] = want[e]
      /\ want'[d].tier = Larger(Rank(gift), tier)
      /\ want'[d].until = Larger(clock, expires) + Period
      /\ want'[d] = [tier |-> Larger(Rank(gift), tier), until |-> Larger(clock, expires) + Period]
  BY DEF TypeOK
<1>3. Rank(gift) \in {1, 2}
  BY <1>0 DEF Rank, Gifts
<1>4. /\ Larger(Rank(gift), tier) \in Tiers /\ Larger(Rank(gift), tier) > 0
      /\ Larger(clock, expires) \in Nat /\ Larger(clock, expires) > 0
  BY <1>0, <1>3 DEF Larger, Tiers
<1>5. TypeOK'
  <2>1. want'[d] \in [tier : Tiers, until : Nat]
    BY <1>2, <1>4
  <2>2. want' \in [Deliveries -> [tier : Tiers, until : Nat]]
    BY <2>1 DEF TypeOK
  <2>3. pc' \in [Deliveries -> {"new", "read", "grant", "reply", "done"}]
    BY DEF TypeOK
  <2>4. \A e \in Deliveries : pc'[e] # "new" => of'[e] \in Payments
    BY <1>0, <1>2 DEF TypeOK
  <2> QED
    BY <2>2, <2>3, <2>4 DEF TypeOK
<1>6. CreditsAreBought' /\ TimeIsBought' /\ SawFacts'
  BY <1>1 DEF CreditsAreBought, TimeIsBought, SawFacts, NBought, NSubscribed
<1>7. TierIsBought'
  BY <1>1 DEF TierIsBought
<1>8. ClaimFacts'
  BY <1>2 DEF ClaimFacts
<1>9. WantFacts'
  <2> SUFFICES ASSUME NEW e \in Deliveries,
                      pc'[e] = "grant", of[e] \notin claimed, item[of[e]] # "credit"
               PROVE  /\ want'[e].tier > 0
                      /\ \/ want'[e].tier <= Rank(item[of[e]])
                         \/ \E q \in Subscribed : Rank(item[q]) >= want'[e].tier
                      /\ want'[e].until > 0
                      /\ want'[e].until <= clock + (Period * NSubscribed + Period)
    BY <1>1 DEF WantFacts
  <2>1. CASE e = d
    <3>1. Larger(Rank(gift), tier) <= Rank(gift)
            \/ \E q \in Subscribed : Rank(item[q]) >= Larger(Rank(gift), tier)
      <4>1. CASE Rank(gift) >= tier
        BY <1>3, <4>1 DEF Larger
      <4>2. CASE ~(Rank(gift) >= tier)
        <5>1. tier > 0 /\ Larger(Rank(gift), tier) = tier
          BY <1>0, <1>3, <4>2 DEF Larger, Tiers
        <5> QED
          BY <5>1 DEF TierIsBought
      <4> QED
        BY <4>1, <4>2
    <3>2. Larger(clock, expires) + Period <= clock + (Period * NSubscribed + Period)
      BY <1>0 DEF Larger, TimeIsBought, NSubscribed
    <3> QED
      BY <1>2, <1>4, <2>1, <3>1, <3>2
  <2>2. CASE e # d
    BY <1>2, <2>2 DEF WantFacts
  <2> QED
    BY <2>1, <2>2
<1> QED
  BY <1>5, <1>6, <1>7, <1>8, <1>9

\* The batch grants what is wanted together with the charge that backs it.
LEMMA GrantIInv ==
    ASSUME IInv, NEW d \in Deliveries, Grant(d), raced' \in BOOLEAN
    PROVE  IInv'
<1> USE ConstantsAssumption DEF IInv
<1> DEFINE p == of[d]
<1>0. /\ p \in Payments /\ item[p] \in Items /\ pc[d] = "grant"
      /\ claimed' = claimed \cup {p} /\ pc' = [pc EXCEPT ![d] = "reply"]
      /\ UNCHANGED <<clock, item, payer, acked, of, want, spend, saw, sent, told>>
  BY DEF Grant, TypeOK, ClaimFacts
<1>1. /\ IsFiniteSet(claimed')
      /\ p \in claimed => NBought' = NBought /\ NSubscribed' = NSubscribed
      /\ p \notin claimed /\ item[p] = "credit" =>
            NBought' = NBought + 1 /\ NSubscribed' = NSubscribed
      /\ p \notin claimed /\ item[p] # "credit" =>
            NBought' = NBought /\ NSubscribed' = NSubscribed + 1
      /\ Subscribed \subseteq Subscribed'
      /\ item[p] # "credit" => p \in Subscribed'
  BY <1>0, ClaimCounts
<1>2. /\ NBought \in Nat /\ NSubscribed \in Nat /\ Period \in Nat
      /\ clock \in Nat /\ clock > 0 /\ credits \in Nat /\ expires \in Nat
      /\ Period * NSubscribed \in Nat
      /\ Period * (NSubscribed + 1) = Period * NSubscribed + Period
  BY CountTypes DEF TypeOK
<1>3. /\ NBought' \in Nat /\ NBought' >= NBought
      /\ Period * NSubscribed' \in Nat /\ Period * NSubscribed' >= Period * NSubscribed
  BY <1>0, <1>1, <1>2
<1>4. ClaimFacts'
  BY <1>0, <1>1 DEF ClaimFacts, TypeOK
<1>5. SawFacts'
  BY <1>0, <1>2, <1>3 DEF SawFacts, TypeOK
<1>6. WantFacts'
  <2> SUFFICES ASSUME NEW e \in Deliveries,
                      pc'[e] = "grant", of[e] \notin claimed', item[of[e]] # "credit"
               PROVE  /\ want[e].tier > 0
                      /\ \/ want[e].tier <= Rank(item[of[e]])
                         \/ \E q \in Subscribed' : Rank(item[q]) >= want[e].tier
                      /\ want[e].until > 0
                      /\ want[e].until <= clock + (Period * NSubscribed' + Period)
    BY <1>0 DEF WantFacts
  <2>1. /\ want[e].tier > 0
        /\ \/ want[e].tier <= Rank(item[of[e]])
           \/ \E q \in Subscribed : Rank(item[q]) >= want[e].tier
        /\ want[e].until > 0
        /\ want[e].until <= clock + (Period * NSubscribed + Period)
    BY <1>0 DEF WantFacts, TypeOK
  <2>2. want[e].until \in Nat
    BY DEF TypeOK
  <2>3. want[e].until <= clock + (Period * NSubscribed' + Period)
    BY <1>2, <1>3, <2>1, <2>2
  <2> QED
    BY <1>1, <2>1, <2>3
<1>7. TypeOK'
  <2>1. credits' \in Nat /\ tier' \in Tiers /\ expires' \in Nat
    BY <1>0, <1>2 DEF Grant, Apply, account, TypeOK
  <2>2. pc' \in [Deliveries -> {"new", "read", "grant", "reply", "done"}] /\ claimed' \subseteq Payments
    BY <1>0 DEF TypeOK
  <2>3. \A e \in Deliveries : pc'[e] # "new" => of'[e] \in Payments
    BY <1>0 DEF TypeOK
  <2> QED
    BY <1>0, <2>1, <2>2, <2>3 DEF TypeOK
<1>8. CreditsAreBought' /\ TimeIsBought' /\ TierIsBought'
  <2>1. CASE UNCHANGED account
    <3>1. credits' = credits /\ tier' = tier /\ expires' = expires
      BY <2>1 DEF account
    <3>2. CreditsAreBought'
      BY <1>2, <1>3, <3>1 DEF CreditsAreBought, NBought
    <3>3. TimeIsBought'
      BY <1>0, <1>2, <1>3, <3>1 DEF TimeIsBought, NSubscribed
    <3>4. TierIsBought'
      BY <1>0, <1>1, <3>1 DEF TierIsBought
    <3> QED
      BY <3>2, <3>3, <3>4
  <2>2. CASE p \notin claimed /\ Apply(d) /\ item[p] = "credit"
    <3>1. credits' = credits + 1 /\ tier' = tier /\ expires' = expires
      BY <2>2 DEF Apply
    <3>2. CreditsAreBought'
      BY <1>1, <1>2, <2>2, <3>1 DEF CreditsAreBought, NBought
    <3>3. TimeIsBought'
      BY <1>0, <1>2, <1>3, <3>1 DEF TimeIsBought, NSubscribed
    <3>4. TierIsBought'
      BY <1>0, <1>1, <3>1 DEF TierIsBought
    <3> QED
      BY <3>2, <3>3, <3>4
  <2>3. CASE p \notin claimed /\ Apply(d) /\ item[p] # "credit"
    <3>1. credits' = credits /\ tier' = want[d].tier /\ expires' = want[d].until
      BY <2>3 DEF Apply
    <3>2. /\ want[d].tier > 0
          /\ \/ want[d].tier <= Rank(item[p])
             \/ \E q \in Subscribed : Rank(item[q]) >= want[d].tier
          /\ want[d].until > 0
          /\ want[d].until <= clock + (Period * NSubscribed + Period)
      BY <1>0, <2>3 DEF WantFacts
    <3>3. CreditsAreBought'
      BY <1>2, <1>3, <3>1 DEF CreditsAreBought, NBought
    <3>4. Period * NSubscribed' = Period * NSubscribed + Period
      BY <1>1, <1>2, <2>3
    <3>5. TimeIsBought'
      BY <1>0, <3>1, <3>2, <3>4 DEF TimeIsBought, NSubscribed
    <3>6. Rank(item[p]) \in Tiers /\ want[d].tier \in Tiers
      BY <1>0 DEF Rank, Tiers, TypeOK
    <3>7. \E q \in Subscribed' : Rank(item[q]) >= want[d].tier
      <4>1. CASE want[d].tier <= Rank(item[p])
        BY <1>1, <2>3, <3>6, <4>1 DEF Tiers
      <4>2. CASE \E q \in Subscribed : Rank(item[q]) >= want[d].tier
        BY <1>1, <4>2
      <4> QED
        BY <3>2, <4>1, <4>2
    <3>8. TierIsBought'
      BY <1>0, <3>1, <3>2, <3>7 DEF TierIsBought
    <3> QED
      BY <3>3, <3>5, <3>8
  <2> QED
    BY <2>1, <2>2, <2>3 DEF Grant
<1> QED
  BY <1>4, <1>5, <1>6, <1>7, <1>8

\* A delivery that ends, well or not, changes nothing that was granted.
LEMMA EndIInv ==
    ASSUME IInv, NEW d \in Deliveries, Reply(d) \/ CallFails(d) \/ Crash(d), raced' \in BOOLEAN
    PROVE  IInv'
<1> USE ConstantsAssumption DEF IInv, Reply, CallFails, Crash, Answer, account
<1>1. /\ pc' = [pc EXCEPT ![d] = "done"] /\ want' = [want EXCEPT ![d] = Nothing]
      /\ UNCHANGED <<clock, item, payer, claimed, credits, tier, expires, of, spend, saw, sent>>
      /\ acked' \subseteq acked \cup {of[d]} /\ pc[d] # "new"
      /\ told' \subseteq told \cup {of[d]}
  OBVIOUS
<1>2. /\ Bought' = Bought /\ Subscribed' = Subscribed
      /\ NBought' = NBought /\ NSubscribed' = NSubscribed
  BY <1>1, CountsStay
<1>3. TypeOK'
  <2>1. Nothing \in [tier : Tiers, until : Nat]
    BY DEF Nothing, Tiers
  <2>2. want' \in [Deliveries -> [tier : Tiers, until : Nat]]
    BY <1>1, <2>1 DEF TypeOK
  <2>3. pc' \in [Deliveries -> {"new", "read", "grant", "reply", "done"}]
    BY <1>1 DEF TypeOK
  <2>4. \A e \in Deliveries : pc'[e] # "new" => of'[e] \in Payments
    BY <1>1 DEF TypeOK
  <2>5. acked' \subseteq Payments /\ told' \subseteq Payments
    BY <1>1 DEF TypeOK
  <2> QED
    BY <1>1, <2>2, <2>3, <2>4, <2>5 DEF TypeOK
<1>4. CreditsAreBought' /\ TimeIsBought' /\ TierIsBought' /\ SawFacts'
  BY <1>1, <1>2 DEF CreditsAreBought, TimeIsBought, TierIsBought, SawFacts, NBought, NSubscribed
<1>5. ClaimFacts'
  BY <1>1 DEF ClaimFacts, TypeOK
<1>6. WantFacts'
  BY <1>1, <1>2 DEF WantFacts, TypeOK
<1> QED
  BY <1>3, <1>4, <1>5, <1>6

\* A debit writes back less than was bought; the expiry job and the clock only
\* shorten what is left.
LEMMA AccountIInv ==
    ASSUME IInv,
           \/ \E s \in Spends : Send(s)
           \/ Downgrade
           \/ Tick
           \/ UNCHANGED vars,
           raced' \in BOOLEAN
    PROVE  IInv'
<1> USE ConstantsAssumption DEF IInv, account
<1>1. UNCHANGED <<item, payer, acked, claimed, pc, of, want, told>>
  BY DEF Send, SelectCredits, Debit, DebitFails, Downgrade, Tick, vars
<1>2. /\ Bought' = Bought /\ Subscribed' = Subscribed
      /\ NBought' = NBought /\ NSubscribed' = NSubscribed
  BY <1>1, CountsStay
<1>3. ClaimFacts'
  BY <1>1 DEF ClaimFacts
<1>4. /\ NBought \in Nat /\ NSubscribed \in Nat /\ Period * NSubscribed \in Nat
      /\ clock \in Nat
  BY CountTypes DEF TypeOK
<1>5. ASSUME NEW s \in Spends, Send(s) PROVE IInv'
  <2>1. clock' = clock /\ tier' = tier /\ expires' = expires
    BY <1>5 DEF Send, SelectCredits, Debit, DebitFails
  <2>2. TimeIsBought' /\ TierIsBought' /\ WantFacts'
    BY <1>1, <1>2, <2>1 DEF TimeIsBought, TierIsBought, WantFacts, NSubscribed
  <2>3. CASE SelectCredits(s) /\ spend'[s] = "debit"
    <3>1. /\ credits > 0 /\ credits' = credits /\ credits \in Nat /\ sent' = sent
          /\ saw' = [saw EXCEPT ![s] = credits - 1] /\ spend' = [spend EXCEPT ![s] = "debit"]
      BY <2>3 DEF SelectCredits, Settle, TypeOK
    <3>2. TypeOK'
      BY <1>1, <2>1, <3>1 DEF TypeOK
    <3>3. SawFacts'
      BY <1>2, <1>4, <3>1 DEF SawFacts, CreditsAreBought, NBought, TypeOK
    <3>4. CreditsAreBought'
      BY <1>2, <3>1 DEF CreditsAreBought, NBought
    <3> QED
      BY <1>3, <2>2, <3>2, <3>3, <3>4
  <2>4. CASE Settle(s) /\ credits' = credits /\ sent' = sent
    <3>1. TypeOK'
      BY <1>1, <2>1, <2>4 DEF TypeOK, Settle
    <3>2. SawFacts' /\ CreditsAreBought'
      BY <1>2, <2>4 DEF SawFacts, CreditsAreBought, Settle, TypeOK, NBought
    <3> QED
      BY <1>3, <2>2, <3>1, <3>2
  <2>5. CASE Debit(s)
    <3>1. /\ Settle(s) /\ credits' = saw[s] /\ sent' = sent + 1 /\ saw[s] \in Nat
          /\ saw[s] + 1 <= NBought
      BY <2>5 DEF Debit, SawFacts, TypeOK
    <3>2. TypeOK'
      BY <1>1, <2>1, <3>1 DEF TypeOK, Settle
    <3>3. SawFacts'
      BY <1>2, <3>1 DEF SawFacts, Settle, TypeOK
    <3>4. CreditsAreBought'
      BY <1>2, <1>4, <3>1 DEF CreditsAreBought, NBought
    <3> QED
      BY <1>3, <2>2, <3>2, <3>3, <3>4
  <2>6. SelectCredits(s) => Settle(s) \/ spend'[s] = "debit"
    BY DEF SelectCredits, TypeOK
  <2> QED
    BY <1>5, <2>3, <2>4, <2>5, <2>6 DEF Send, SelectCredits, DebitFails
<1>6. CASE Downgrade
  <2>1. tier' = 0 /\ expires' = 0 /\ UNCHANGED <<clock, credits, spend, saw, sent>>
    BY <1>6 DEF Downgrade
  <2>2. TypeOK'
    BY <1>1, <2>1 DEF TypeOK, Tiers
  <2>3. CreditsAreBought' /\ SawFacts'
    BY <1>2, <2>1 DEF CreditsAreBought, SawFacts, NBought
  <2>4. TimeIsBought' /\ TierIsBought'
    BY <1>1, <2>1 DEF TimeIsBought, TierIsBought
  <2>5. WantFacts'
    BY <1>1, <1>2, <2>1 DEF WantFacts
  <2> QED
    BY <1>3, <2>2, <2>3, <2>4, <2>5
<1>7. CASE Tick
  <2>1. clock' = clock + 1 /\ clock' \in 1..MaxTime
        /\ UNCHANGED <<credits, tier, expires, spend, saw, sent>>
    BY <1>7 DEF Tick, TypeOK
  <2>2. TypeOK'
    BY <1>1, <2>1 DEF TypeOK
  <2>3. CreditsAreBought' /\ SawFacts' /\ TierIsBought'
    BY <1>1, <1>2, <2>1 DEF CreditsAreBought, SawFacts, TierIsBought, NBought
  <2>4. TimeIsBought'
    BY <1>2, <1>4, <2>1 DEF TimeIsBought, NSubscribed, TypeOK
  <2>5. \A d \in Deliveries : want[d].until \in Nat
    BY DEF TypeOK
  <2>6. WantFacts'
    BY <1>1, <1>2, <1>4, <2>1, <2>5 DEF WantFacts
  <2> QED
    BY <1>3, <2>2, <2>3, <2>4, <2>6
<1>8. CASE UNCHANGED vars
  <2>1. UNCHANGED <<clock, credits, tier, expires, spend, saw, sent>>
    BY <1>8 DEF vars
  <2>2. TypeOK'
    BY <1>1, <2>1 DEF TypeOK
  <2> QED
    BY <1>1, <1>2, <1>3, <2>1, <2>2
       DEF CreditsAreBought, SawFacts, TierIsBought, TimeIsBought, WantFacts, NBought, NSubscribed
<1> QED
  BY <1>5, <1>6, <1>7, <1>8

\* Every step keeps the inductive invariant.
LEMMA NextIInv == IInv /\ [Next]_vars => IInv'
<1>1. IInv /\ [Next]_vars => raced' \in BOOLEAN
  BY DEF IInv, TypeOK, Next, vars
<1> QED
  BY <1>1, PayIInv, ReceiveIInv, TurnAwayIInv, ReadRecipientIInv, GrantIInv, EndIInv, AccountIInv
     DEF Next, Deliver

\* The inductive invariant holds of every reachable state.
LEMMA InvariantIInv == Spec => []IInv
BY InitIInv, NextIInv, PTL DEF Spec

-----------------------------------------------------------------------------
\* Every variable keeps its type; the balance never turns negative.
THEOREM TypeCorrect == Spec => []TypeOK
BY InvariantIInv, PTL DEF IInv

\* No repetition or race leaves more credits than were bought.
THEOREM CreditsWereBought == Spec => []CreditsAreBought
BY InvariantIInv, PTL DEF IInv

\* No repetition or race leaves a longer subscription than was bought.
THEOREM TimeWasBought == Spec => []TimeIsBought
BY InvariantIInv, PTL DEF IInv

\* Every tier was bought and stands as long as its expiry does.
THEOREM TierWasBought == Spec => []TierIsBought
BY InvariantIInv, PTL DEF IInv

-----------------------------------------------------------------------------
\* The answered payments were made, so what they are and who pays them is settled.
AnsweredFacts ==
    /\ AnsweredIsGranted
    /\ \A p \in acked : item[p] # "none"

\* Whom an answered payment may be lost on does not change.
LEMMA LossStays ==
    ASSUME TypeOK, AnsweredFacts, [Next]_vars, NEW p \in acked
    PROVE  item'[p] = item[p] /\ (MayBeLost(p) => MayBeLost(p)')
<1>1. p \in Payments /\ item[p] # "none"
  BY DEF TypeOK, AnsweredFacts
<1>2. CASE UNCHANGED <<item, payer>>
  BY <1>2 DEF MayBeLost, Stranger
<1>3. ASSUME NEW q \in Payments, NEW i \in Items, NEW u \in Payers, Pay(q, i, u)
      PROVE  item'[p] = item[p] /\ payer'[p] = payer[p]
  <2>1. p # q
    BY <1>1, <1>3 DEF Pay
  <2> QED
    BY <1>1, <1>3, <2>1 DEF Pay, TypeOK
<1>4. ASSUME NEW d \in Deliveries, Deliver(d) PROVE UNCHANGED <<item, payer>>
  BY <1>4 DEF Deliver, Receive, TurnAway, Arrives, ReadRecipient, Grant, Reply, CallFails, Crash
<1>5. ASSUME NEW s \in Spends, Send(s) PROVE UNCHANGED <<item, payer>>
  BY <1>5 DEF Send, SelectCredits, Debit, DebitFails
<1>6. Downgrade \/ Tick \/ UNCHANGED vars => UNCHANGED <<item, payer>>
  BY DEF Downgrade, Tick, vars
<1> QED
  BY <1>2, <1>3, <1>4, <1>5, <1>6 DEF Next, MayBeLost, Stranger

\* What becomes answered is claimed, reported or may be lost: a reply follows its
\* claim, an error its report, and the mandatory check and the comparison of the
\* payer turn nobody away who is in order all the time.
LEMMA NewlyAnswered ==
    ASSUME TypeOK, ClaimFacts, Next, NEW p \in acked', p \notin acked
    PROVE  /\ p \in claimed' \cup told' \/ MayBeLost(p)'
           /\ item'[p] # "none"
<1>1. ASSUME NEW d \in Deliveries, Reply(d) PROVE p \in claimed' /\ item'[p] # "none"
  <2>1. p = of[d] /\ claimed' = claimed /\ item' = item
    BY <1>1 DEF Reply, Answer
  <2> QED
    BY <1>1, <2>1 DEF Reply, ClaimFacts, Items, Plans, Gifts
<1>2. ASSUME NEW d \in Deliveries, CallFails(d)
      PROVE  (p \in told' \/ MayBeLost(p)') /\ item'[p] # "none"
  <2>1. p = of[d] /\ item' = item /\ payer' = payer /\ pc[d] # "new"
    BY <1>2 DEF CallFails, Answer
  <2>2. item[p] \in Items
    BY <2>1 DEF ClaimFacts
  <2> QED
    BY <1>2, <2>1, <2>2 DEF CallFails, MayBeLost, Items, Plans, Gifts
<1>3. ASSUME NEW d \in Deliveries, NEW q \in Payments, TurnAway(d, q)
      PROVE  MayBeLost(p)' /\ item'[p] # "none"
  <2>1. p = q /\ item' = item /\ payer' = payer
    BY <1>3 DEF TurnAway, Arrives
  <2> QED
    BY <1>3, <2>1 DEF TurnAway, Arrives, MayBeLost, Stranger
<1>4. ASSUME NEW d \in Deliveries,
             \/ \E q \in Payments : Receive(d, q)
             \/ ReadRecipient(d) \/ Grant(d) \/ Crash(d)
      PROVE  FALSE
  BY <1>4 DEF Receive, ReadRecipient, Grant, Crash
<1>5. ASSUME NEW s \in Spends, Send(s) PROVE FALSE
  BY <1>5 DEF Send, SelectCredits, Debit, DebitFails
<1>6. ~(\E q \in Payments, i \in Items, u \in Payers : Pay(q, i, u))
  BY DEF Pay
<1>7. ~(Downgrade \/ Tick)
  BY DEF Downgrade, Tick
<1> QED
  BY <1>1, <1>2, <1>3, <1>4, <1>5, <1>6, <1>7 DEF Next, Deliver

\* Neither a claim nor a report is taken back.
LEMMA ClaimsStay ==
    ASSUME [Next]_vars
    PROVE  claimed \subseteq claimed' /\ told \subseteq told'
<1>1. ASSUME NEW d \in Deliveries, Deliver(d)
      PROVE  claimed \subseteq claimed' /\ told \subseteq told'
  BY <1>1 DEF Deliver, Receive, TurnAway, Arrives, ReadRecipient, Grant, Reply, CallFails, Crash
<1>2. ASSUME NEW s \in Spends, Send(s) PROVE UNCHANGED <<claimed, told>>
  BY <1>2 DEF Send, SelectCredits, Debit, DebitFails
<1>3. ASSUME NEW p \in Payments, NEW i \in Items, NEW u \in Payers, Pay(p, i, u)
      PROVE  UNCHANGED <<claimed, told>>
  BY <1>3 DEF Pay
<1>4. Downgrade \/ Tick \/ UNCHANGED vars => UNCHANGED <<claimed, told>>
  BY DEF Downgrade, Tick, vars
<1> QED
  BY <1>1, <1>2, <1>3, <1>4 DEF Next

\* A payment that will not be delivered again was granted, or its payer knows, or
\* the payer is a stranger or was not in order all the time.
THEOREM AnsweredWasGranted == Spec => []AnsweredIsGranted
<1>1. Init => AnsweredFacts
  BY DEF Init, AnsweredFacts, AnsweredIsGranted
<1>2. ASSUME TypeOK, ClaimFacts, AnsweredFacts, [Next]_vars PROVE AnsweredFacts'
  <2> SUFFICES ASSUME NEW p \in acked'
               PROVE  /\ p \in claimed' \cup told' \/ MayBeLost(p)'
                      /\ item'[p] # "none"
    BY DEF AnsweredFacts, AnsweredIsGranted
  <2>1. CASE p \in acked
    <3>1. p \in claimed \cup told \/ MayBeLost(p)
      BY <1>2, <2>1 DEF AnsweredFacts, AnsweredIsGranted
    <3>2. item[p] # "none"
      BY <1>2, <2>1 DEF AnsweredFacts
    <3>3. item'[p] = item[p] /\ (MayBeLost(p) => MayBeLost(p)')
      BY <1>2, <2>1, LossStays
    <3> QED
      BY <1>2, <3>1, <3>2, <3>3, ClaimsStay
  <2>2. CASE p \notin acked
    <3>1. Next
      BY <1>2, <2>2 DEF vars
    <3> QED
      BY <1>2, <2>2, <3>1, NewlyAnswered
  <2> QED
    BY <2>1, <2>2
<1>3. IInv /\ AnsweredFacts /\ [Next]_vars => AnsweredFacts'
  BY <1>2 DEF IInv
<1>4. AnsweredFacts => AnsweredIsGranted
  BY DEF AnsweredFacts
<1> QED
  BY <1>1, <1>3, <1>4, InvariantIInv, PTL DEF Spec

-----------------------------------------------------------------------------
\* The books balance, and a balance about to be written back is one below the
\* current one and the only one.
BalanceFacts ==
    /\ credits + sent = NBought
    /\ \A s \in Spends : spend[s] = "debit" =>
        /\ saw[s] + 1 = credits
        /\ \A q \in Spends : spend[q] = "debit" => q = s

\* A grant finds no DM between its SELECT and its UPDATE.
LEMMA GrantBalances ==
    ASSUME TypeOK, ClaimFacts, BalanceFacts, SpendsAlone, NEW d \in Deliveries, Grant(d)
    PROVE  BalanceFacts'
<1>1. /\ of[d] \in Payments /\ item[of[d]] \in Items /\ claimed' = claimed \cup {of[d]}
      /\ item' = item /\ UNCHANGED <<spend, saw, sent>>
  BY DEF Grant, TypeOK, ClaimFacts
<1>2. /\ of[d] \in claimed => NBought' = NBought
      /\ of[d] \notin claimed /\ item[of[d]] = "credit" => NBought' = NBought + 1
      /\ of[d] \notin claimed /\ item[of[d]] # "credit" => NBought' = NBought
  BY <1>1, ClaimCounts
<1>3. NBought \in Nat /\ credits \in Nat /\ sent \in Nat
  BY CountTypes DEF TypeOK
<1>4. CASE credits' = credits /\ NBought' = NBought
  BY <1>1, <1>4 DEF BalanceFacts
<1>5. CASE credits' = credits + 1 /\ NBought' = NBought + 1
  <2>1. \A s \in Spends : spend[s] # "debit"
    BY <1>1, <1>3, <1>5 DEF SpendsAlone
  <2> QED
    BY <1>1, <1>3, <1>5, <2>1 DEF BalanceFacts
<1> QED
  BY <1>2, <1>4, <1>5 DEF Grant, Apply, account

\* A DM that is alone between its SELECT and its UPDATE moves one credit.
LEMMA SendBalances ==
    ASSUME TypeOK, ClaimFacts, BalanceFacts, SpendsAlone, NEW s \in Spends, Send(s)
    PROVE  BalanceFacts'
<1>1. claimed' = claimed /\ item' = item
  BY DEF Send, SelectCredits, Debit, DebitFails
<1>2. NBought' = NBought
  BY <1>1, CountsStay
<1>3. NBought \in Nat /\ credits \in Nat /\ sent \in Nat /\ saw[s] \in Nat
  BY CountTypes DEF TypeOK
<1>4. CASE Settle(s) /\ UNCHANGED <<credits, sent>>
  BY <1>2, <1>4 DEF BalanceFacts, Settle, TypeOK
<1>5. CASE SelectCredits(s) /\ spend' = [spend EXCEPT ![s] = "debit"]
  <2>1. /\ credits' = credits /\ sent' = sent /\ spend[s] = "new"
        /\ saw' = [saw EXCEPT ![s] = credits - 1]
    BY <1>5 DEF SelectCredits, Settle, account, TypeOK
  <2>2. \A r \in Spends : spend[r] # "debit"
    BY <1>5, <2>1 DEF SpendsAlone, TypeOK
  <2> QED
    BY <1>2, <1>3, <1>5, <2>1, <2>2 DEF BalanceFacts, TypeOK
<1>6. CASE Debit(s)
  <2>1. /\ credits' = saw[s] /\ sent' = sent + 1 /\ Settle(s) /\ saw[s] + 1 = credits
        /\ \A q \in Spends : spend[q] = "debit" => q = s
    BY <1>6 DEF Debit, BalanceFacts
  <2>2. \A q \in Spends : spend'[q] # "debit"
    BY <2>1 DEF Settle, TypeOK
  <2>3. credits + sent = NBought
    BY DEF BalanceFacts
  <2> QED
    BY <1>2, <1>3, <2>1, <2>2, <2>3 DEF BalanceFacts
<1> QED
  BY <1>4, <1>5, <1>6 DEF Send, SelectCredits, DebitFails, account

\* As long as no step raced, every step keeps the balance.
LEMMA BalanceStep ==
    ASSUME TypeOK, ClaimFacts, raced \/ BalanceFacts, [Next]_vars
    PROVE  raced' \/ BalanceFacts'
<1>1. CASE UNCHANGED vars
  <2>1. UNCHANGED <<item, claimed, credits, sent, spend, saw, raced>>
    BY <1>1 DEF vars
  <2>2. NBought' = NBought
    BY <2>1, CountsStay
  <2> QED
    BY <2>1, <2>2 DEF BalanceFacts
<1>2. CASE Next
  <2> SUFFICES ASSUME ~raced' PROVE BalanceFacts'
    OBVIOUS
  <2>1. BalanceFacts /\ SpendsAlone
    BY <1>2 DEF Next
  <2>2. CASE UNCHANGED <<credits, sent, spend, saw>> /\ NBought' = NBought
    BY <2>1, <2>2 DEF BalanceFacts
  <2>3. ASSUME NEW p \in Payments, NEW i \in Items, NEW u \in Payers, Pay(p, i, u)
        PROVE  BalanceFacts'
    <3>1. \A q \in claimed : q \in Payments /\ item'[q] = item[q]
      BY <2>3 DEF Pay, TypeOK, ClaimFacts, Items, Plans, Gifts
    <3>2. NBought' = NBought
      BY <2>3, <3>1, CountsStay DEF Pay
    <3> QED
      BY <2>2, <2>3, <3>2 DEF Pay, account
  <2>4. ASSUME UNCHANGED <<item, claimed>> PROVE NBought' = NBought
    BY <2>4, CountsStay
  <2>5. ASSUME NEW d \in Deliveries, NEW p \in Payments, Receive(d, p) \/ TurnAway(d, p)
        PROVE  BalanceFacts'
    BY <2>2, <2>4, <2>5 DEF Receive, TurnAway, Arrives, account
  <2>6. ASSUME NEW d \in Deliveries,
               ReadRecipient(d) \/ Reply(d) \/ CallFails(d) \/ Crash(d)
        PROVE  BalanceFacts'
    BY <2>2, <2>4, <2>6 DEF ReadRecipient, Reply, CallFails, Crash, account
  <2>7. ASSUME NEW d \in Deliveries, Grant(d) PROVE BalanceFacts'
    BY <2>1, <2>7, GrantBalances
  <2>8. ASSUME NEW s \in Spends, Send(s) PROVE BalanceFacts'
    BY <2>1, <2>8, SendBalances
  <2>9. Downgrade \/ Tick => BalanceFacts'
    BY <2>2, <2>4 DEF Downgrade, Tick, account
  <2> QED
    BY <1>2, <2>3, <2>5, <2>6, <2>7, <2>8, <2>9 DEF Next, Deliver
<1> QED
  BY <1>1, <1>2

\* Every credit bought is left or was spent on a DM, unless something got
\* between the SELECT of a DM and its UPDATE.
THEOREM CreditsBalanceUp == Spec => []CreditsBalance
<1>1. Init => BalanceFacts
  <2> SUFFICES ASSUME Init PROVE BalanceFacts
    OBVIOUS
  <2>1. Bought = {}
    BY DEF Init, Bought
  <2>2. NBought = 0
    BY <2>1, FS_EmptySet DEF NBought
  <2> QED
    BY <2>2 DEF Init, BalanceFacts
<1>2. IInv /\ (raced \/ BalanceFacts) /\ [Next]_vars => (raced \/ BalanceFacts)'
  BY BalanceStep DEF IInv
<1>3. raced \/ BalanceFacts => CreditsBalance
  BY DEF BalanceFacts, CreditsBalance, NBought
<1> QED
  BY <1>1, <1>2, <1>3, InvariantIInv, PTL DEF Spec

=============================================================================
