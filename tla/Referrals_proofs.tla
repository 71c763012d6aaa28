--------------------------- MODULE Referrals_proofs ---------------------------
(***************************************************************************)
(* Proofs about Referrals for any number of users and overlapping calls:   *)
(* promised bonuses are paid, nobody refers themselves, and one code       *)
(* counts and works unless two calls of one user overlap.                  *)
(***************************************************************************)
EXTENDS Referrals, FiniteSetTheorems, TLAPS

\* What a request knows at each of its steps.
Shape ==
    \A r \in Requests :
        /\ pc[r] \in Looking \cup Applying \cup {"handed", "told"} => who[r] \in Users
        /\ pc[r] \in Applying \cup {"store", "handed"} => given[r] \in Codes
        /\ pc[r] \in {"join", "reward", "told"} => found[r] \in Users
        /\ pc[r] = "store" => given[r] = r

\* A code anybody can know of: it was there at first or has been handed out.
Public(c) == c \in Users \/ (c \in Requests /\ pc[c] = "handed")

\* Nothing else is in a row or in a request, so a code about to be stored is new.
Published ==
    /\ \A u \in Users : code[u] # Nobody => Public(code[u])
    /\ \A r \in Requests : pc[r] \in Applying \cup {"handed"} => Public(given[r])

\* From the check to the UPDATE the code stays somebody else's.
Selfless ==
    \A r \in Requests :
        /\ pc[r] = "find" => code[who[r]] # given[r]
        /\ pc[r] = "join" => found[r] # who[r]

\* A user whose calls have not overlapped.
Orderly(u, kind) == <<u, kind>> \notin clashed

\* Such a user has one attempt under way, and none past its check after a success.
OneAttempt ==
    /\ \A r \in Requests : pc[r] \in {"reward", "told"} => referredBy[who[r]] # Nobody
    /\ \A r, q \in Requests :
        r # q /\ who[r] = who[q] /\ Orderly(who[r], Applying) =>
            /\ ~(pc[r] \in Applying /\ pc[q] \in Applying)
            /\ pc[q] = "told" => pc[r] \notin {"find", "join", "reward", "told"}

\* Such a user has one look under way, which stores a code where none was handed out.
OneLook ==
    /\ \A r \in Requests : pc[r] = "store" /\ Orderly(who[r], Looking) => code[who[r]] = Nobody
    /\ \A r, q \in Requests :
        r # q /\ who[r] = who[q] /\ Orderly(who[r], Looking) =>
            /\ ~(pc[r] \in Looking /\ pc[q] \in Looking)
            /\ pc[r] = "handed" => pc[q] # "store"

\* The requests that have already paid user u.
Paid(u) ==
    {r \in Requests : \/ pc[r] = "reward" /\ who[r] = u
                      \/ pc[r] = "told" /\ u \in {who[r], found[r]}}

EachIsPaid == \A u \in Users : bonus[u] >= Bonus * Cardinality(Paid(u))

IInv == TypeOK /\ Shape /\ Published

-----------------------------------------------------------------------------
LEMMA InitIInv == Init => IInv
<1> SUFFICES ASSUME Init PROVE IInv
  OBVIOUS
<1> USE DEF Init
<1>1. TypeOK
  <2>1. code \in [Users -> Codes \cup {Nobody}]
    BY DEF Codes
  <2> QED
    BY <2>1 DEF TypeOK, Steps
<1>2. Shape
  BY DEF Shape, Looking, Applying
<1>3. Published
  BY DEF Published, Public, Applying
<1> QED
  BY <1>1, <1>2, <1>3 DEF IInv

\* The names of codes are no user's absence of a code.
LEMMA NobodyIsNoCode == Nobody \notin Codes
BY ConstantsAssumption DEF Codes

LEMMA MoreBonus == TypeOK => \A u \in Users : bonus[u] + Bonus \in Nat
<1> SUFFICES ASSUME TypeOK, NEW u \in Users PROVE bonus[u] + Bonus \in Nat
  OBVIOUS
<1>1. bonus[u] \in Nat
  BY DEF TypeOK
<1> QED
  BY <1>1 DEF Bonus

\* Every step keeps types, shape and publication.
LEMMA StepIInv == IInv /\ [Next]_vars => IInv'
<1> SUFFICES ASSUME IInv, [Next]_vars PROVE IInv'
  OBVIOUS
<1> USE DEF IInv
<1>1. ASSUME NEW r \in Requests, NEW u \in Users, Look(r, u) PROVE IInv'
  <2> USE <1>1 DEF Look, Start, Goto, rows
  <2>1. TypeOK'
    BY DEF TypeOK, Steps, Looking
  <2>2. Shape'
    BY DEF Shape, TypeOK, Looking, Applying
  <2>3. Published'
    BY DEF Published, Public, TypeOK, Applying
  <2> QED
    BY <2>1, <2>2, <2>3
<1>2. ASSUME NEW r \in Requests, NEW u \in Users, NEW c \in Codes, Apply(r, u, c) PROVE IInv'
  <2> USE <1>2 DEF Apply, Start, Goto, rows
  <2>1. TypeOK'
    BY DEF TypeOK, Steps, Applying
  <2>2. Shape'
    BY DEF Shape, TypeOK, Looking, Applying
  <2>3. Public(c)
    BY DEF Known, Published, Public, TypeOK
  <2>4. Published'
    BY <2>3 DEF Published, Public, TypeOK, Applying
  <2> QED
    BY <2>1, <2>2, <2>4
<1>3. ASSUME NEW r \in Requests, ReadCode(r) PROVE IInv'
  <2> USE <1>3 DEF ReadCode, Goto, rows
  <2>1. TypeOK'
    BY DEF TypeOK, Steps, Looking, Shape, Codes
  <2>2. Shape'
    BY DEF Shape, TypeOK, Looking, Applying, Codes
  <2>3. Published'
    BY DEF Published, Public, TypeOK, Applying, Shape, Looking
  <2> QED
    BY <2>1, <2>2, <2>3
<1>4. ASSUME NEW r \in Requests, StoreCode(r) PROVE IInv'
  <2> USE <1>4 DEF StoreCode, Goto, locals
  <2>1. TypeOK'
    BY DEF TypeOK, Steps
  <2>2. Shape'
    BY DEF Shape, TypeOK, Looking, Applying
  <2>3. Published'
    BY DEF Published, Public, TypeOK, Applying, Shape
  <2> QED
    BY <2>1, <2>2, <2>3
<1>5. ASSUME NEW r \in Requests, Check(r) PROVE IInv'
  <2> USE <1>5 DEF Check, CheckSelf, Done, Goto, rows, locals
  <2>1. TypeOK'
    BY DEF TypeOK, Steps, Applying
  <2>2. Shape'
    BY DEF Shape, TypeOK, Looking, Applying
  <2>3. Published'
    BY DEF Published, Public, TypeOK, Applying
  <2> QED
    BY <2>1, <2>2, <2>3
<1>6. ASSUME NEW r \in Requests, Find(r) PROVE IInv'
  <2> USE <1>6 DEF Find, Done, Goto, rows
  <2>1. TypeOK'
    BY DEF TypeOK, Steps, Applying
  <2>2. Shape'
    BY DEF Shape, TypeOK, Looking, Applying
  <2>3. Published'
    BY DEF Published, Public, TypeOK, Applying
  <2> QED
    BY <2>1, <2>2, <2>3
<1>7. ASSUME NEW r \in Requests, Join(r) PROVE IInv'
  <2> USE <1>7 DEF Join, Goto, locals
  <2>1. TypeOK'
    <3>1. bonus' \in [Users -> Nat]
      BY MoreBonus DEF TypeOK
    <3>2. referredBy' \in [Users -> Users \cup {Nobody}]
      BY DEF TypeOK
    <3> QED
      BY <3>1, <3>2 DEF TypeOK, Steps, Applying
  <2>2. Shape'
    BY DEF Shape, TypeOK, Looking, Applying
  <2>3. Published'
    BY DEF Published, Public, TypeOK, Applying
  <2> QED
    BY <2>1, <2>2, <2>3
<1>8. ASSUME NEW r \in Requests, Reward(r) PROVE IInv'
  <2> USE <1>8 DEF Reward, Goto, locals
  <2>1. TypeOK'
    <3>1. bonus' \in [Users -> Nat]
      BY MoreBonus DEF TypeOK
    <3>2. count' \in [Users -> Nat]
      <4>1. read[r] + 1 \in Nat
        BY DEF TypeOK
      <4> QED
        BY <4>1 DEF TypeOK
    <3> QED
      BY <3>1, <3>2 DEF TypeOK, Steps, Applying
  <2>2. Shape'
    BY DEF Shape, TypeOK, Looking, Applying
  <2>3. Published'
    BY DEF Published, Public, TypeOK, Applying
  <2> QED
    BY <2>1, <2>2, <2>3
<1>9. ASSUME NEW r \in Requests, Abort(r) PROVE IInv'
  <2> USE <1>9 DEF Abort, Done, Goto, rows
  <2>1. TypeOK'
    BY DEF TypeOK, Steps
  <2>2. Shape'
    BY DEF Shape, TypeOK, Looking, Applying
  <2>3. Published'
    BY DEF Published, Public, TypeOK, Looking, Applying
  <2> QED
    BY <2>1, <2>2, <2>3
<1>10. CASE UNCHANGED vars
  BY <1>10 DEF vars, rows, locals, TypeOK, Shape, Published, Public
<1> QED
  BY <1>1, <1>2, <1>3, <1>4, <1>5, <1>6, <1>7, <1>8, <1>9, <1>10 DEF Next

-----------------------------------------------------------------------------
\* Rows, requests and counters keep their types, for any users and requests.
THEOREM TypeCorrect == Spec => []TypeOK
<1>1. IInv => TypeOK
  BY DEF IInv
<1> QED
  BY InitIInv, StepIInv, <1>1, PTL DEF Spec

LEMMA IInvHolds == Spec => []IInv
BY InitIInv, StepIInv, PTL DEF Spec

-----------------------------------------------------------------------------
\* Between check, search and UPDATE only new codes are stored.
LEMMA StepSelfless ==
    ASSUME IInv, Selfless, NoSelfReferral, [Next]_vars
    PROVE  Selfless' /\ NoSelfReferral'
<1> USE DEF IInv, Selfless, NoSelfReferral
<1>1. ASSUME NEW r \in Requests, NEW u \in Users, Look(r, u) PROVE Selfless' /\ NoSelfReferral'
  BY <1>1 DEF Look, Start, Goto, rows, TypeOK
<1>2. ASSUME NEW r \in Requests, NEW u \in Users, NEW c \in Codes, Apply(r, u, c)
      PROVE  Selfless' /\ NoSelfReferral'
  BY <1>2 DEF Apply, Start, Goto, rows, TypeOK
<1>3. ASSUME NEW r \in Requests, ReadCode(r) PROVE Selfless' /\ NoSelfReferral'
  BY <1>3 DEF ReadCode, Goto, rows, TypeOK
<1>4. ASSUME NEW r \in Requests, StoreCode(r) PROVE Selfless' /\ NoSelfReferral'
  <2> USE <1>4 DEF StoreCode, Goto, locals, TypeOK
  <2>1. ASSUME NEW q \in Requests, pc[q] = "find" PROVE given[q] # given[r]
    <3>1. Public(given[q]) /\ given[r] = r /\ pc[r] = "store"
      BY <2>1 DEF Published, Shape, Applying
    <3> QED
      BY <3>1, ConstantsAssumption DEF Public
  <2>2. NoSelfReferral'
    OBVIOUS
  <2>3. Selfless'
    BY <2>1
  <2> QED
    BY <2>2, <2>3
<1>5. ASSUME NEW r \in Requests, Check(r) PROVE Selfless' /\ NoSelfReferral'
  BY <1>5 DEF Check, CheckSelf, Done, Goto, rows, locals, TypeOK
<1>6. ASSUME NEW r \in Requests, Find(r) PROVE Selfless' /\ NoSelfReferral'
  BY <1>6 DEF Find, Done, Goto, rows, TypeOK
<1>7. ASSUME NEW r \in Requests, Join(r) PROVE Selfless' /\ NoSelfReferral'
  BY <1>7 DEF Join, Goto, locals, TypeOK
<1>8. ASSUME NEW r \in Requests, Reward(r) PROVE Selfless' /\ NoSelfReferral'
  BY <1>8 DEF Reward, Goto, locals, TypeOK
<1>9. ASSUME NEW r \in Requests, Abort(r) PROVE Selfless' /\ NoSelfReferral'
  BY <1>9 DEF Abort, Done, Goto, rows, TypeOK
<1>10. CASE UNCHANGED vars
  BY <1>10 DEF vars, rows, locals
<1> QED
  BY <1>1, <1>2, <1>3, <1>4, <1>5, <1>6, <1>7, <1>8, <1>9, <1>10 DEF Next

\* Nobody becomes their own friend, however looks and attempts interleave.
THEOREM NobodyRefersThemselves == Spec => []NoSelfReferral
<1>1. Init => Selfless /\ NoSelfReferral
  BY ConstantsAssumption DEF Init, Selfless, NoSelfReferral
<1>2. (IInv /\ Selfless /\ NoSelfReferral) /\ [Next]_vars => (Selfless /\ NoSelfReferral)'
  BY StepSelfless
<1> QED
  BY IInvHolds, <1>1, <1>2, PTL DEF Spec

-----------------------------------------------------------------------------
LEMMA StepOneAttempt ==
    ASSUME IInv, OneAttempt, [Next]_vars
    PROVE  OneAttempt'
<1> USE DEF IInv, OneAttempt, Orderly
<1>1. ASSUME NEW r \in Requests, NEW u \in Users, Look(r, u) PROVE OneAttempt'
  BY <1>1 DEF Look, Start, Goto, rows, TypeOK, Applying
<1>2. ASSUME NEW r \in Requests, NEW u \in Users, NEW c \in Codes, Apply(r, u, c) PROVE OneAttempt'
  BY <1>2 DEF Apply, Start, Goto, rows, TypeOK, Applying
<1>3. ASSUME NEW r \in Requests, ReadCode(r) PROVE OneAttempt'
  BY <1>3 DEF ReadCode, Goto, rows, TypeOK, Applying
<1>4. ASSUME NEW r \in Requests, StoreCode(r) PROVE OneAttempt'
  BY <1>4 DEF StoreCode, Goto, locals, TypeOK, Applying
<1>5. ASSUME NEW r \in Requests, Check(r) PROVE OneAttempt'
  BY <1>5 DEF Check, CheckSelf, Done, Goto, rows, locals, TypeOK, Applying
<1>6. ASSUME NEW r \in Requests, Find(r) PROVE OneAttempt'
  BY <1>6 DEF Find, Done, Goto, rows, TypeOK, Applying
<1>7. ASSUME NEW r \in Requests, Join(r) PROVE OneAttempt'
  <2>1. who[r] \in Users /\ found[r] \in Users /\ found[r] # Nobody
    BY <1>7, ConstantsAssumption DEF Join, Shape, Applying
  <2> QED
    BY <1>7, <2>1 DEF Join, Goto, locals, TypeOK, Applying
<1>8. ASSUME NEW r \in Requests, Reward(r) PROVE OneAttempt'
  BY <1>8 DEF Reward, Goto, locals, TypeOK, Applying
<1>9. ASSUME NEW r \in Requests, Abort(r) PROVE OneAttempt'
  BY <1>9 DEF Abort, Done, Goto, rows, TypeOK, Looking, Applying
<1>10. CASE UNCHANGED vars
  BY <1>10 DEF vars, rows, locals
<1> QED
  BY <1>1, <1>2, <1>3, <1>4, <1>5, <1>6, <1>7, <1>8, <1>9, <1>10 DEF Next

\* A user cashes in one code, unless two attempts of that user overlap.
THEOREM OneCodeCounts == Spec => []OneFriendEach
<1>1. Init => OneAttempt
  BY DEF Init, OneAttempt, Applying
<1>2. IInv /\ OneAttempt => OneFriendEach
  BY DEF OneAttempt, OneFriendEach, Orderly
<1>3. (IInv /\ OneAttempt) /\ [Next]_vars => OneAttempt'
  BY StepOneAttempt
<1> QED
  BY IInvHolds, <1>1, <1>2, <1>3, PTL DEF Spec

-----------------------------------------------------------------------------
LEMMA StepOneLook ==
    ASSUME IInv, OneLook, CodeWorks, [Next]_vars
    PROVE  OneLook' /\ CodeWorks'
<1> USE DEF IInv, OneLook, CodeWorks, Orderly
<1>1. ASSUME NEW r \in Requests, NEW u \in Users, Look(r, u) PROVE OneLook' /\ CodeWorks'
  BY <1>1 DEF Look, Start, Goto, rows, TypeOK, Looking
<1>2. ASSUME NEW r \in Requests, NEW u \in Users, NEW c \in Codes, Apply(r, u, c)
      PROVE  OneLook' /\ CodeWorks'
  BY <1>2 DEF Apply, Start, Goto, rows, TypeOK, Looking
<1>3. ASSUME NEW r \in Requests, ReadCode(r) PROVE OneLook' /\ CodeWorks'
  <2>1. \A q \in Requests : pc[q] = "handed" => given[q] # Nobody
    BY NobodyIsNoCode DEF Shape
  <2> QED
    BY <1>3, <2>1 DEF ReadCode, Goto, rows, TypeOK, Looking
<1>4. ASSUME NEW r \in Requests, StoreCode(r) PROVE OneLook' /\ CodeWorks'
  <2>1. who[r] \in Users
    BY <1>4 DEF StoreCode, Shape, Looking
  <2> QED
    BY <1>4, <2>1 DEF StoreCode, Goto, locals, TypeOK, Looking
<1>5. ASSUME NEW r \in Requests, Check(r) PROVE OneLook' /\ CodeWorks'
  BY <1>5 DEF Check, CheckSelf, Done, Goto, rows, locals, TypeOK, Looking
<1>6. ASSUME NEW r \in Requests, Find(r) PROVE OneLook' /\ CodeWorks'
  BY <1>6 DEF Find, Done, Goto, rows, TypeOK, Looking
<1>7. ASSUME NEW r \in Requests, Join(r) PROVE OneLook' /\ CodeWorks'
  BY <1>7 DEF Join, Goto, locals, TypeOK, Looking
<1>8. ASSUME NEW r \in Requests, Reward(r) PROVE OneLook' /\ CodeWorks'
  BY <1>8 DEF Reward, Goto, locals, TypeOK, Looking
<1>9. ASSUME NEW r \in Requests, Abort(r) PROVE OneLook' /\ CodeWorks'
  BY <1>9 DEF Abort, Done, Goto, rows, TypeOK, Looking, Applying
<1>10. CASE UNCHANGED vars
  BY <1>10 DEF vars, rows, locals
<1> QED
  BY <1>1, <1>2, <1>3, <1>4, <1>5, <1>6, <1>7, <1>8, <1>9, <1>10 DEF Next

\* A code that was handed out works, unless two looks of that user overlap.
THEOREM HandedCodesWork == Spec => []CodeWorks
<1>1. Init => OneLook /\ CodeWorks
  BY DEF Init, OneLook, CodeWorks, Looking
<1>2. (IInv /\ OneLook /\ CodeWorks) /\ [Next]_vars => (OneLook /\ CodeWorks)'
  BY StepOneLook
<1> QED
  BY IInvHolds, <1>1, <1>2, PTL DEF Spec

-----------------------------------------------------------------------------
\* A user whose bonus stands or grows by one share may have one request more paid.
LEMMA OneMorePaid ==
    ASSUME NEW u \in Users, NEW r, TypeOK, TypeOK', EachIsPaid,
           \/ bonus'[u] = bonus[u] /\ Paid(u)' \subseteq Paid(u)
           \/ bonus'[u] = bonus[u] + Bonus /\ Paid(u)' \subseteq Paid(u) \cup {r}
    PROVE  bonus'[u] >= Bonus * Cardinality(Paid(u)')
<1>1. IsFiniteSet(Paid(u)) /\ IsFiniteSet(Paid(u) \cup {r})
  <2>1. IsFiniteSet(Paid(u))
    BY ConstantsAssumption, FS_Subset DEF Paid
  <2> QED
    BY <2>1, FS_AddElement
<1>2. Cardinality(Paid(u)) \in Nat /\ Cardinality(Paid(u) \cup {r}) <= Cardinality(Paid(u)) + 1
  BY <1>1, FS_AddElement, FS_CardinalityType
<1>3. bonus[u] \in Nat /\ bonus[u] >= 5 * Cardinality(Paid(u))
  BY DEF EachIsPaid, Bonus, TypeOK
<1>4. CASE bonus'[u] = bonus[u] /\ Paid(u)' \subseteq Paid(u)
  <2>1. Cardinality(Paid(u)') \in Nat /\ Cardinality(Paid(u)') <= Cardinality(Paid(u))
    BY <1>1, <1>4, FS_Subset, FS_CardinalityType
  <2> QED
    BY <1>2, <1>3, <1>4, <2>1 DEF Bonus
<1>5. CASE bonus'[u] = bonus[u] + Bonus /\ Paid(u)' \subseteq Paid(u) \cup {r}
  <2>1. IsFiniteSet(Paid(u)') /\ Cardinality(Paid(u)') <= Cardinality(Paid(u) \cup {r})
    BY <1>1, <1>5, FS_Subset
  <2>2. Cardinality(Paid(u)') \in Nat /\ Cardinality(Paid(u) \cup {r}) \in Nat
    BY <1>1, <2>1, FS_CardinalityType
  <2>3. Cardinality(Paid(u)') <= Cardinality(Paid(u)) + 1
    BY <1>2, <2>1, <2>2
  <2> QED
    BY <1>2, <1>3, <1>5, <2>2, <2>3 DEF Bonus
<1> QED
  BY <1>4, <1>5

LEMMA StepEachIsPaid ==
    ASSUME IInv, IInv', EachIsPaid, [Next]_vars
    PROVE  EachIsPaid'
<1> SUFFICES ASSUME NEW u \in Users PROVE bonus'[u] >= Bonus * Cardinality(Paid(u)')
  BY DEF EachIsPaid
<1> USE DEF IInv, Paid
<1>0. ASSUME bonus' = bonus, Paid(u)' \subseteq Paid(u) PROVE bonus'[u] >= Bonus * Cardinality(Paid(u)')
  BY <1>0, OneMorePaid DEF IInv
<1>1. ASSUME NEW r \in Requests, NEW v \in Users, Look(r, v) PROVE bonus'[u] >= Bonus * Cardinality(Paid(u)')
  <2>1. Paid(u)' \subseteq Paid(u)
    BY <1>1 DEF Look, Start, Goto, rows, TypeOK
  <2> QED
    BY <1>0, <1>1, <2>1 DEF Look, Start, rows
<1>2. ASSUME NEW r \in Requests, NEW v \in Users, NEW c \in Codes, Apply(r, v, c)
      PROVE  bonus'[u] >= Bonus * Cardinality(Paid(u)')
  <2>1. Paid(u)' \subseteq Paid(u)
    BY <1>2 DEF Apply, Start, Goto, rows, TypeOK
  <2> QED
    BY <1>0, <1>2, <2>1 DEF Apply, Start, rows
<1>3. ASSUME NEW r \in Requests, ReadCode(r) PROVE bonus'[u] >= Bonus * Cardinality(Paid(u)')
  <2>1. Paid(u)' \subseteq Paid(u)
    BY <1>3 DEF ReadCode, Goto, TypeOK
  <2> QED
    BY <1>0, <1>3, <2>1 DEF ReadCode, rows
<1>4. ASSUME NEW r \in Requests, StoreCode(r) PROVE bonus'[u] >= Bonus * Cardinality(Paid(u)')
  <2>1. Paid(u)' \subseteq Paid(u)
    BY <1>4 DEF StoreCode, Goto, locals, TypeOK
  <2> QED
    BY <1>0, <1>4, <2>1 DEF StoreCode
<1>5. ASSUME NEW r \in Requests, Check(r) PROVE bonus'[u] >= Bonus * Cardinality(Paid(u)')
  <2>1. Paid(u)' \subseteq Paid(u)
    BY <1>5 DEF Check, CheckSelf, Done, Goto, locals, TypeOK
  <2> QED
    BY <1>0, <1>5, <2>1 DEF Check, CheckSelf, rows
<1>6. ASSUME NEW r \in Requests, Find(r) PROVE bonus'[u] >= Bonus * Cardinality(Paid(u)')
  <2>1. Paid(u)' \subseteq Paid(u)
    BY <1>6 DEF Find, Done, Goto, TypeOK
  <2> QED
    BY <1>0, <1>6, <2>1 DEF Find, rows
<1>7. ASSUME NEW r \in Requests, Join(r) PROVE bonus'[u] >= Bonus * Cardinality(Paid(u)')
  <2>1. CASE u = who[r]
    <3>1. bonus'[u] = bonus[u] + Bonus /\ Paid(u)' \subseteq Paid(u) \cup {r}
      BY <1>7, <2>1 DEF Join, Goto, locals, TypeOK
    <3> QED
      BY <3>1, OneMorePaid DEF IInv
  <2>2. CASE u # who[r]
    <3>1. bonus'[u] = bonus[u] /\ Paid(u)' \subseteq Paid(u)
      BY <1>7, <2>2 DEF Join, Goto, locals, TypeOK
    <3> QED
      BY <3>1, OneMorePaid DEF IInv
  <2> QED
    BY <2>1, <2>2
<1>8. ASSUME NEW r \in Requests, Reward(r) PROVE bonus'[u] >= Bonus * Cardinality(Paid(u)')
  <2>1. CASE u = found[r]
    <3>1. bonus'[u] = bonus[u] + Bonus /\ Paid(u)' \subseteq Paid(u) \cup {r}
      BY <1>8, <2>1 DEF Reward, Goto, locals, TypeOK
    <3> QED
      BY <3>1, OneMorePaid DEF IInv
  <2>2. CASE u # found[r]
    <3>1. bonus'[u] = bonus[u] /\ Paid(u)' \subseteq Paid(u)
      BY <1>8, <2>2 DEF Reward, Goto, locals, TypeOK
    <3> QED
      BY <3>1, OneMorePaid DEF IInv
  <2> QED
    BY <2>1, <2>2
<1>9. ASSUME NEW r \in Requests, Abort(r) PROVE bonus'[u] >= Bonus * Cardinality(Paid(u)')
  <2>1. Paid(u)' \subseteq Paid(u)
    BY <1>9 DEF Abort, Done, Goto, TypeOK
  <2> QED
    BY <1>0, <1>9, <2>1 DEF Abort, rows
<1>10. CASE UNCHANGED vars
  <2>1. bonus' = bonus /\ Paid(u)' = Paid(u)
    BY <1>10 DEF vars, rows, locals
  <2> QED
    BY <1>0, <2>1
<1> QED
  BY <1>1, <1>2, <1>3, <1>4, <1>5, <1>6, <1>7, <1>8, <1>9, <1>10 DEF Next

\* Every promised bonus is there, whatever calls of whomever interleave.
THEOREM PromisesAreKept == Spec => []PromiseKept
<1>1. Init => EachIsPaid
  <2> SUFFICES ASSUME Init, NEW u \in Users PROVE bonus[u] >= Bonus * Cardinality(Paid(u))
    BY DEF EachIsPaid
  <2>1. Paid(u) = {}
    BY DEF Init, Paid
  <2>2. Cardinality(Paid(u)) = 0
    BY <2>1, FS_EmptySet
  <2> QED
    BY <2>2 DEF Init, Bonus
<1>2. IInv /\ EachIsPaid => PromiseKept
  <2> SUFFICES ASSUME IInv, EachIsPaid, NEW u \in Users
               PROVE  bonus[u] >= Bonus * Cardinality(Promises(u))
    BY DEF PromiseKept
  <2>1. Promises(u) \subseteq Paid(u) /\ IsFiniteSet(Paid(u))
    BY ConstantsAssumption, FS_Subset DEF Promises, Paid
  <2>2. /\ Cardinality(Promises(u)) \in Nat /\ Cardinality(Paid(u)) \in Nat
        /\ Cardinality(Promises(u)) <= Cardinality(Paid(u))
    BY <2>1, FS_Subset, FS_CardinalityType
  <2>3. bonus[u] \in Nat /\ bonus[u] >= 5 * Cardinality(Paid(u))
    BY DEF EachIsPaid, IInv, TypeOK, Bonus
  <2> QED
    BY <2>2, <2>3 DEF Bonus
<1>3. (IInv /\ IInv' /\ EachIsPaid) /\ [Next]_vars => EachIsPaid'
  BY StepEachIsPaid
<1> QED
  BY IInvHolds, <1>1, <1>2, <1>3, PTL DEF Spec

=============================================================================
