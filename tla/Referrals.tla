------------------------------- MODULE Referrals -------------------------------
(***************************************************************************)
(* Referral codes.  A user's code is made up by whoever looks at it first; *)
(* a newcomer's /start with somebody's code pays both of them.  Each call  *)
(* is a chain of single statements on the users table, without a           *)
(* transaction, and calls of one user or of several may interleave.        *)
(***************************************************************************)
EXTENDS Naturals, FiniteSets

CONSTANTS
    Users,
    Requests, \* invocations; each serves one call
    Nobody

ASSUME ConstantsAssumption ==
    /\ IsFiniteSet(Requests)
    /\ Users \cap Requests = {}
    /\ Nobody \notin Users \cup Requests

VARIABLES
    code,       \* code[u]: referral_code, or Nobody when NULL
    referredBy, \* referredBy[u]: referred_by, or Nobody
    count,      \* count[u]: referral_count
    bonus,      \* bonus[u]: referral_bonus_swipes
    pc,         \* pc[r]: the step request r takes next, or how it ended
    who,        \* who[r]: the user it is for
    given,      \* given[r]: the code it is about
    found,      \* found[r]: the owner of the code
    read,       \* read[r]: the owner's referral_count as read
    clashed     \* history: who had two calls of one kind under way at once

rows   == <<code, referredBy, count, bonus>>
locals == <<who, given, found, read>>
vars   == <<rows, pc, locals, clashed>>

\* Codes that exist at first are named by their owners, later ones by the
\* request that makes them up: Math.random is taken never to repeat itself.
Codes   == Users \cup Requests
Looking == {"look", "store"}
Applying == {"check", "find", "join", "reward"}
Steps   == {"new", "done", "handed", "told"} \cup Looking \cup Applying
Bonus   == 5

Init ==
    /\ code \in {c \in [Users -> Users \cup {Nobody}] : \A u \in Users : c[u] \in {u, Nobody}}
    /\ referredBy = [u \in Users |-> Nobody]
    /\ count = [u \in Users |-> 0]
    /\ bonus = [u \in Users |-> 0]
    /\ pc = [r \in Requests |-> "new"]
    /\ who = [r \in Requests |-> Nobody]
    /\ given = [r \in Requests |-> Nobody]
    /\ found = [r \in Requests |-> Nobody]
    /\ read = [r \in Requests |-> 0]
    /\ clashed = {}

Goto(r, step) == pc' = [pc EXCEPT ![r] = step]

\* The call was refused or failed; its locals are gone.
Done(r) ==
    /\ Goto(r, "done")
    /\ who' = [who EXCEPT ![r] = Nobody]
    /\ given' = [given EXCEPT ![r] = Nobody]
    /\ found' = [found EXCEPT ![r] = Nobody]
    /\ read' = [read EXCEPT ![r] = 0]

Start(r, u, c, kind, step) ==
    /\ pc[r] = "new"
    /\ Goto(r, step)
    /\ who' = [who EXCEPT ![r] = u]
    /\ given' = [given EXCEPT ![r] = c]
    /\ clashed' = IF \E q \in Requests : who[q] = u /\ pc[q] \in kind
                  THEN clashed \cup {<<u, kind>>} ELSE clashed
    /\ UNCHANGED <<rows, found, read>>

-----------------------------------------------------------------------------
\* getOrCreateReferralCode: SELECT referral_code, then an UPDATE if there is none.
Look(r, u) == Start(r, u, Nobody, Looking, "look")

ReadCode(r) ==
    /\ pc[r] = "look"
    /\ IF code[who[r]] # Nobody
       THEN /\ given' = [given EXCEPT ![r] = code[who[r]]]
            /\ Goto(r, "handed")
       ELSE /\ given' = [given EXCEPT ![r] = r]
            /\ Goto(r, "store")
    /\ UNCHANGED <<rows, who, found, read, clashed>>

\* The bug variant hands the code out when the UPDATE was not done.
StoreCodeMaybe(r) ==
    /\ pc[r] = "store"
    /\ code' \in {code, [code EXCEPT ![who[r]] = given[r]]}
    /\ Goto(r, "handed")
    /\ UNCHANGED <<referredBy, count, bonus, locals, clashed>>
StoreCode(r) ==
    /\ pc[r] = "store"
    /\ code' = [code EXCEPT ![who[r]] = given[r]]
    /\ Goto(r, "handed")
    /\ UNCHANGED <<referredBy, count, bonus, locals, clashed>>

-----------------------------------------------------------------------------
\* The codes a deep link can carry; too short or unknown ones change nothing.
Known(c) == c \in Users \/ \E q \in Requests : pc[q] = "handed" /\ given[q] = c

Apply(r, u, c) == Known(c) /\ Start(r, u, c, Applying, "check")

\* applyReferral reads the user's own row: neither the own code nor a second
\* one.  The bug variants drop one check each.
CheckSelf(r, refused) ==
    /\ pc[r] = "check"
    /\ IF refused THEN Done(r) ELSE Goto(r, "find") /\ UNCHANGED locals
    /\ UNCHANGED <<rows, clashed>>

CheckOwnCodeOnly(r)  == CheckSelf(r, code[who[r]] = given[r])
CheckReferredOnly(r) == CheckSelf(r, referredBy[who[r]] # Nobody)

Check(r) == CheckSelf(r, code[who[r]] = given[r] \/ referredBy[who[r]] # Nobody)

\* SELECT id, referral_count FROM users WHERE referral_code = ?
Find(r) ==
    /\ pc[r] = "find"
    /\ \/ \E v \in Users :
            /\ code[v] = given[r]
            /\ Goto(r, "join")
            /\ found' = [found EXCEPT ![r] = v]
            /\ read' = [read EXCEPT ![r] = count[v]]
            /\ UNCHANGED <<who, given>>
       \/ (\A v \in Users : code[v] # given[r]) /\ Done(r)
    /\ UNCHANGED <<rows, clashed>>

\* UPDATE users SET referred_by = ?, referral_bonus_swipes = referral_bonus_swipes + 5
Join(r) ==
    /\ pc[r] = "join"
    /\ referredBy' = [referredBy EXCEPT ![who[r]] = found[r]]
    /\ bonus' = [bonus EXCEPT ![who[r]] = @ + Bonus]
    /\ Goto(r, "reward")
    /\ UNCHANGED <<code, count, locals, clashed>>

\* UPDATE users SET referral_count = <read + 1>, referral_bonus_swipes = ... + 5.
\* The bug variant writes the bonus the way the count is written.
RewardFromRead(r) ==
    /\ pc[r] = "reward"
    /\ count' = [count EXCEPT ![found[r]] = read[r] + 1]
    /\ bonus' = [bonus EXCEPT ![found[r]] = Bonus * (read[r] + 1)]
    /\ Goto(r, "told")
    /\ UNCHANGED <<code, referredBy, locals, clashed>>
Reward(r) ==
    /\ pc[r] = "reward"
    /\ count' = [count EXCEPT ![found[r]] = read[r] + 1]
    /\ bonus' = [bonus EXCEPT ![found[r]] = @ + Bonus]
    /\ Goto(r, "told")
    /\ UNCHANGED <<code, referredBy, locals, clashed>>

-----------------------------------------------------------------------------
\* A statement fails (referral_code is UNIQUE) or the isolate is evicted.
Abort(r) ==
    /\ pc[r] \in Looking \cup Applying
    /\ Done(r)
    /\ UNCHANGED <<rows, clashed>>

Next ==
    \E r \in Requests :
        \/ \E u \in Users : Look(r, u)
        \/ \E u \in Users, c \in Codes : Apply(r, u, c)
        \/ ReadCode(r) \/ StoreCode(r)
        \/ Check(r) \/ Find(r) \/ Join(r) \/ Reward(r)
        \/ Abort(r)

Spec == Init /\ [][Next]_vars

-----------------------------------------------------------------------------
TypeOK ==
    /\ code \in [Users -> Codes \cup {Nobody}]
    /\ referredBy \in [Users -> Users \cup {Nobody}]
    /\ count \in [Users -> Nat]
    /\ bonus \in [Users -> Nat]
    /\ pc \in [Requests -> Steps]
    /\ who \in [Requests -> Users \cup {Nobody}]
    /\ given \in [Requests -> Codes \cup {Nobody}]
    /\ found \in [Requests -> Users \cup {Nobody}]
    /\ read \in [Requests -> Nat]
    /\ clashed \subseteq Users \X {Looking, Applying}

\* The answers "you and your friend both received +5" that concern a user.
Promises(u) == {r \in Requests : pc[r] = "told" /\ u \in {who[r], found[r]}}

\* Nobody's bonus is overwritten by somebody else's referral: every promised
\* bonus is there, whatever interleaves, although the number of friends next
\* to it is written from an old value and may forget some.
PromiseKept == \A u \in Users : bonus[u] >= Bonus * Cardinality(Promises(u))

\* Nobody is their own friend: the check looks at the user's code and the owner
\* is looked up later, with first looks that replace codes in between.
NoSelfReferral == \A u \in Users : referredBy[u] # u

\* A user cashes in one code, even if the attempt that set referred_by failed
\* half-way; two attempts at once are what nothing prevents.
OneFriendEach ==
    \A r, q \in Requests :
        pc[r] = "told" /\ pc[q] = "told" /\ who[r] = who[q] => r = q \/ <<who[r], Applying>> \in clashed

\* A code that was handed out is the user's code for good, so the link works;
\* after two first looks at once one of the links is dead.
CodeWorks ==
    \A r \in Requests :
        pc[r] = "handed" => code[who[r]] = given[r] \/ <<who[r], Looking>> \in clashed

=============================================================================
