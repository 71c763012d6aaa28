------------------------------ MODULE Candidates ------------------------------
(***************************************************************************)
(* Which of two users is offered to the other.  The candidate query joins  *)
(* the pair's row with both profiles: filters on the profiles, which the   *)
(* router relaxes when nobody passes them, and exclusions on the decisions *)
(* that wear off with the age of the row.  Every write of either side      *)
(* makes the row young again, so the two users' cooldowns share one clock. *)
(* The pair's decisions are those of MatchContract.                        *)
(***************************************************************************)
EXTENDS PairRow

CONSTANTS
    Ages,        \* ages of users
    AgeLimits,   \* values of minAge and maxAge; 0 when not set
    Reaches,     \* values of maxDistance; 0 when not set
    Distances,   \* distances in km; Unknown is always among them
    SkipCool,    \* ticks until a skipped profile returns: 6 hours in the code
    DislikeCool, \* ... a disliked one: 3 days
    LikeStale    \* ... one with an unanswered like: 30 days

\* A validated preference lies within what the relaxed filters are clamped to.
ASSUME ConstantsAssumption ==
    /\ Ages \subseteq 12..80 /\ AgeLimits \subseteq {0} \cup 12..80
    /\ Reaches \subseteq 0..500 /\ Distances \subseteq Nat
    /\ {SkipCool, DislikeCool, LikeStale} \subseteq Nat \ {0}
    /\ SkipCool < DislikeCool /\ DislikeCool < LikeStale

VARIABLES
    fits,     \* fits[s]: whether the other profile passes the filters of s
    age,      \* ticks since updated_at
    own,      \* history: own[s]: ticks since s decided
    tookBack, \* history: the sides that took one back after the other decided
    resting   \* history: both users have stopped deciding

offerVars == <<pairRow, fits, age, own, tookBack, resting>>

Pair == INSTANCE MatchContract

-----------------------------------------------------------------------------
Genders  == {"male", "female", "other"}
Accounts == {"shown", "hidden", "closed"}

Profiles == [account : Accounts, age : Ages, gender : Genders,
             min : AgeLimits, max : AgeLimits, wants : {{}, {"male"}, {"male", "female"}}, reach : Reaches]

Unknown == 1000

Lesser(a, b)  == IF a < b THEN a ELSE b
Greater(a, b) == IF a > b THEN a ELSE b

\* computeDefaultPreferences, which fills the gaps of a user without a gender
\* preference.
DefaultWants(g) == CASE g = "male" -> {"female"} [] g = "female" -> {"male"} [] OTHER -> Genders
Given(value, default) == IF value = 0 THEN default ELSE value

Prefs(p) ==
    IF p.wants # {} THEN p
    ELSE [p EXCEPT !.wants = DefaultWants(p.gender),
                   !.min = Given(@, Greater(12, p.age - 7)),
                   !.max = Given(@, Lesser(80, p.age + 7)),
                   !.reach = Given(@, 25)]

\* The limits a relaxed query uses: three years, twice the distance, never the
\* gender; the bug variant lets the clamp narrow a limit.
WidenedTo40(p) ==
    [p EXCEPT !.min = IF @ = 0 THEN 0 ELSE Greater(12, @ - 3),
              !.max = IF @ = 0 THEN 0 ELSE Lesser(40, @ + 3),
              !.reach = Lesser(500, 2 * @)]
Widened(p) ==
    [p EXCEPT !.min = IF @ = 0 THEN 0 ELSE Greater(12, @ - 3),
              !.max = IF @ = 0 THEN 0 ELSE Lesser(80, @ + 3),
              !.reach = Lesser(500, 2 * @)]

InAge(p, q)  == (p.min = 0 \/ q.age >= p.min) /\ (p.max = 0 \/ q.age <= p.max)
InReach(p, d) == d = Unknown \/ p.reach = 0 \/ d <= p.reach

\* A viewer without an active, complete profile sees nobody.
Visible(p, q) == p.account # "closed" /\ q.account = "shown"

\* What viewer p asks of candidate q, with its limits as they are or widened.
Asked(p, q, d) == q.gender \in p.wants /\ InAge(p, q) /\ InReach(p, d)

\* What the candidate asks of the viewer: its stored preferences only, and the
\* ages only when both are stored.
AskedBack(p, q, d) ==
    /\ q.wants = {} \/ p.gender \in q.wants
    /\ q.min = 0 \/ q.max = 0 \/ p.age \in q.min..q.max
    /\ InReach(q, d)

Strict(p, q, d)  == Visible(p, q) /\ Asked(Prefs(p), q, d) /\ AskedBack(p, q, d)
Relaxed(p, q, d) == Visible(p, q) /\ Asked(Widened(Prefs(p)), q, d)

Filters(p, q, d) ==
    [strict |-> [s \in Sides |-> IF s = 1 THEN Strict(p, q, d) ELSE Strict(q, p, d)],
     relaxed |-> [s \in Sides |-> IF s = 1 THEN Relaxed(p, q, d) ELSE Relaxed(q, p, d)]]

-----------------------------------------------------------------------------
\* The rest of the WHERE clause and the cooldowns, for viewer s.
Offerable(s) ==
    /\ blocks = {}
    /\ \/ ~exists
       \/ status = "rejected"
       \/ status = "matched" /\ BothLike
       \/ status = "pending" /\ ~(action[s] = "like" /\ action[Other(s)] = "none" /\ age < LikeStale)

\* A dislike counts while it is what rejected the pair; a skip does not hide
\* somebody who likes the viewer.  The bug variant has a skip hide anybody.
CoolingAnyway(s) ==
    \/ status = "rejected" /\ action[s] = "dislike" /\ age < DislikeCool
    \/ action[s] = "skip" /\ age < SkipCool
Cooling(s) ==
    \/ status = "rejected" /\ action[s] = "dislike" /\ age < DislikeCool
    \/ action[s] = "skip" /\ action[Other(s)] # "like" /\ age < SkipCool

Passes(s) == Offerable(s) /\ ~Cooling(s)

\* getPotentialMatches can return the other user to s: in the first, strict
\* query, or in the relaxed one if the strict query found nobody at all.
Offered(s) == (fits.strict[s] \/ fits.relaxed[s]) /\ Passes(s)

-----------------------------------------------------------------------------
OfferInit ==
    /\ Pair!Init
    /\ \E p, q \in Profiles, d \in Distances : fits = Filters(p, q, d)
    /\ age = 0
    /\ own = [s \in Sides |-> 0]
    /\ tookBack = {}
    /\ resting = FALSE

\* Every UPDATE of the row sets updated_at; the bug variant forgets it for a skip.
TouchUnlessSkipped(s) ==
    /\ age' = IF action'[s] = "skip" THEN age ELSE 0
    /\ own' = [own EXCEPT ![s] = 0]
Touch(s) ==
    /\ age' = 0
    /\ own' = [own EXCEPT ![s] = 0]

Create ==
    /\ Pair!Create
    /\ age' = 0
    /\ UNCHANGED <<fits, own, tookBack, resting>>

Decide(s) ==
    /\ ~resting
    /\ \/ (Pair!Like(s) \/ Pair!Dislike(s) \/ Pair!Skip(s)) /\ tookBack' = tookBack \ {Other(s)}
       \/ Pair!Undo(s) /\ tookBack' = tookBack \cup {s}
    /\ Touch(s)
    /\ UNCHANGED <<fits, resting>>

\* The cleanup job.  Its cutoff is written with a 'T' where updated_at has a
\* blank, so a like may lapse up to a day early.
Lapse(s) ==
    /\ age + 1 >= LikeStale
    /\ Pair!ExpireLike(s)
    /\ age' = 0
    /\ UNCHANGED <<fits, own, tookBack, resting>>

\* matched_at is not tracked: a match is old enough at some time.  The bug
\* variant recycles only what is still a mutual like.
RecycleLiked ==
    /\ BothLike
    /\ Pair!RecycleMatch
    /\ age' = 0
    /\ UNCHANGED <<fits, own, tookBack, resting>>
Recycle ==
    /\ Pair!RecycleMatch
    /\ age' = 0
    /\ UNCHANGED <<fits, own, tookBack, resting>>

SetBlock(s) ==
    /\ ~resting
    /\ Pair!Block(s) \/ Pair!Unblock(s)
    /\ UNCHANGED <<fits, age, own, tookBack, resting>>

\* Bound: the clock stops where every exclusion has worn off.
Older(t) == Lesser(t + 1, LikeStale)

Tick ==
    /\ age' = Older(age)
    /\ own' = [s \in Sides |-> Older(own[s])]
    /\ UNCHANGED <<pairRow, fits, tookBack, resting>>

Rest ==
    /\ resting' = TRUE
    /\ UNCHANGED <<pairRow, fits, age, own, tookBack>>

OfferNext ==
    \/ Create \/ Recycle \/ Tick \/ Rest
    \/ \E s \in Sides : Decide(s) \/ Lapse(s) \/ SetBlock(s)

\* Time passes and the cleanup job runs every day.
OfferSpec == OfferInit /\ [][OfferNext]_offerVars /\ WF_offerVars(Tick) /\ WF_offerVars(Recycle)

-----------------------------------------------------------------------------
OfferTypeOK ==
    /\ exists \in BOOLEAN /\ matchedAt \in BOOLEAN /\ resting \in BOOLEAN
    /\ status \in Statuses
    /\ action \in [Sides -> Decisions]
    /\ blocks \subseteq Sides /\ tookBack \subseteq Sides
    /\ \E p, q \in Profiles, d \in Distances : fits = Filters(p, q, d)
    /\ age \in 0..LikeStale /\ own \in [Sides -> 0..LikeStale]

\* Relaxing the filters never hides somebody the strict ones let through, so
\* the second query is a fallback: clamping a widened limit cannot narrow it.
StrictWithinRelaxed == \A s \in Sides : fits.strict[s] => fits.relaxed[s]

\* Whom a user has turned down stays away for the whole cooldown, although the
\* row's one timestamp moves with the other side too: a skip ends early only
\* for somebody who likes the user, a dislike only when the other side takes a
\* decision back, an unanswered like only when it follows a dislike.
CooldownsHold ==
    \A s \in Sides : exists /\ Offered(s) =>
        /\ action[s] = "skip" => own[s] >= SkipCool \/ action[Other(s)] = "like"
        /\ action[s] = "dislike" => own[s] >= DislikeCool \/ Other(s) \in tookBack
        /\ action[s] = "like" /\ action[Other(s)] = "none" => own[s] >= LikeStale \/ status = "rejected"

\* Who likes a user gets a chance: unless the user dislikes the sender or has
\* skipped out of a match, the sender is offered at once, although a like that
\* follows a dislike never shows among the pending likes.
LikeReachesOther ==
    \A s \in Sides :
        /\ action[Other(s)] = "like" /\ action[s] \in {"none", "skip"}
        /\ fits.relaxed[s] /\ blocks = {} /\ status # "matched"
        => Offered(s)

\* Nobody is lost for good: once both users have stopped deciding, each is
\* offered again to whom the other fits, whatever they had decided.
NobodyLost ==
    \A s \in Sides : (resting /\ blocks = {} /\ fits.relaxed[s]) ~> Offered(s)

=============================================================================
