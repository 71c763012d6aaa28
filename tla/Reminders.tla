------------------------------- MODULE Reminders -------------------------------
(***************************************************************************)
(* The reminders one user gets from three cron jobs: the daily message at  *)
(* 8, the re-engagement of complete profiles at 10, that of incomplete     *)
(* ones at 12.  The last two escalate in three stages on different clocks  *)
(* but keep their progress in the same two columns.  Time passes from one  *)
(* of the three hours to the next; a clock counts the hours it has seen.   *)
(***************************************************************************)
EXTENDS Integers

CONSTANT STAGES \* per job three stages: first and last day it is due, days of cooldown

Staged == {"reengage", "incomplete"}
Window == [first : Nat, last : Nat, cool : Nat]

\* The stages of a job follow one another, and nobody is called inactive on the
\* day after a visit.  A silence that starts over takes at least as long as a
\* cooldown, of either job: it is what keeps shared columns from mixing up.  The
\* last of the conditions serves the bound on clocks.
ASSUME StagesAssumption ==
    /\ STAGES \in [Staged -> [1..3 -> Window]]
    /\ \A job \in Staged, s \in 1..3 : STAGES[job][s].first <= STAGES[job][s].last
    /\ \A job \in Staged, s \in 1..2 : STAGES[job][s].last < STAGES[job][s + 1].first
    /\ STAGES["reengage"][1].first > 1
    /\ \A s \in 1..3 : STAGES["reengage"][s].cool <= STAGES["reengage"][s].first
    /\ \A s \in 1..3 : STAGES["incomplete"][s].cool <= STAGES["reengage"][1].first
    /\ \A job \in Staged, s \in 1..3 : STAGES[job][s].cool <= STAGES["reengage"][3].cool

VARIABLES
    hour,      \* the job that comes next or is running
    due,       \* whether it has yet to look at the user
    profile,   \* is_profile_complete and is_sleeping
    idle,      \* clock: since last_active
    age,       \* clock: since created_at
    lastStage, \* last_reengagement_stage, 0 for NULL
    at,        \* clock: since last_reengagement_at
    dailyAt,   \* clock: since last_daily_message_at
    step,      \* the step the job takes next
    plan,      \* the stage it has decided on
    watch,     \* history: the job and stage looked at
    since,     \* history: clock: since it was sent; stopped if that was not written
    nudges,    \* history: reminders sent today
    changed    \* history: the profile changed between complete, incomplete, asleep today

user == <<profile, idle, age>>
sent == <<lastStage, at, dailyAt>>
run  == <<step, plan>>
seen == <<watch, since, nudges, changed>>
reminderVars == <<hour, due, user, sent, run, seen>>

Jobs     == {"daily", "reengage", "incomplete"}
Profiles == {"complete", "incomplete", "asleep"}
After    == [daily |-> "reengage", reengage |-> "incomplete", incomplete |-> "daily"]
Day      == 3 \* hours that are looked at

Cool(job, s) == Day * STAGES[job][s].cool

\* Bounds: clocks stop when they no longer make a difference, at the last stage
\* and the longest cooldown; the last day of the last stage is not reached.
Longest == [
    idle  |-> Day * STAGES["reengage"][3].first,
    age   |-> Day * STAGES["incomplete"][3].first,
    at    |-> Day * STAGES["reengage"][3].cool,
    daily |-> Day + 1]
Limit   == Cool(watch[1], watch[2])
Older(t, limit) == IF t < limit THEN t + 1 ELSE limit

ReminderInit ==
    /\ hour = "daily" /\ due = TRUE
    /\ profile \in {"complete", "incomplete"}
    /\ idle = 0 /\ age = 0
    /\ lastStage = 0 /\ at = Longest.at /\ dailyAt = Longest.daily
    /\ step = "idle" /\ plan = 0
    /\ watch \in Staged \X (1..3) /\ since = Limit
    /\ nudges = 0 /\ changed = FALSE

-----------------------------------------------------------------------------
\* The user comes back, and may complete the profile, empty it or pause.  The
\* middleware writes last_active before the handler runs, unless it did so in
\* the last five minutes; whoever comes after an hour has struck was last seen
\* less than an hour before the next.  That write is taken to succeed.
JustNow == -1

Act ==
    /\ profile' \in Profiles
    /\ idle' = JustNow \/ (idle \in {JustNow, 0} /\ idle' = idle)
    /\ changed' = (changed \/ profile' # profile)
    /\ UNCHANGED <<hour, due, age, sent, run, watch, since, nudges>>

\* The cleanup job at 11 deletes the media of who has been away for a month (a
\* day less at worst, its cutoff being compared as text) and with it completeness.
Wipe ==
    /\ hour = "reengage" /\ step = "idle"
    /\ profile = "complete" /\ idle >= 29 * Day
    /\ profile' = "incomplete"
    /\ changed' = TRUE
    /\ UNCHANGED <<hour, due, idle, age, sent, run, watch, since, nudges>>

\* The next hour strikes.  A job that has not looked at the user by then did not
\* run, failed, or had its batch of a hundred full.
Strike ==
    /\ step = "idle"
    /\ hour' = After[hour]
    /\ due' = TRUE
    /\ idle' = Older(idle, Longest.idle)
    /\ age' = Older(age, Longest.age)
    /\ at' = Older(at, Longest.at)
    /\ dailyAt' = Older(dailyAt, Longest.daily)
    /\ since' = Older(since, Limit)
    /\ nudges' = IF hour' = "daily" THEN 0 ELSE nudges
    /\ changed' = (changed /\ hour' # "daily")
    /\ UNCHANGED <<profile, lastStage, run, watch>>

-----------------------------------------------------------------------------
\* Whole days on a clock.
DaysOn(clock) == IF clock = JustNow THEN 0 ELSE clock \div Day

Clock(job) == IF job = "reengage" THEN idle ELSE age

\* stageFor
StageFor(job) ==
    LET hits == {s \in 1..3 : DaysOn(Clock(job)) \in STAGES[job][s].first..STAGES[job][s].last}
    IN IF hits = {} THEN 0 ELSE CHOOSE s \in hits : TRUE

\* A clock against a limit of whole days: the jobs start a little early or late,
\* so after exactly that many days the comparison may go either way.
MaySee(clock, limit) == {clock >= limit} \cup (IF clock = limit THEN {FALSE} ELSE {})

\* The same stage not within its cooldown; another stage at any time.  The bug
\* variant takes the cooldown of the job's first stage for every one.
CooledShort(job, s) == IF lastStage = s THEN MaySee(at, Cool(job, 1)) ELSE {TRUE}
Cooled(job, s) == IF lastStage = s THEN MaySee(at, Cool(job, s)) ELSE {TRUE}

\* The WHERE clause of the daily job: here within so many days.
PlansDaily(days) ==
    {IF profile = "complete" /\ idle < days * Day /\ d THEN 1 ELSE 0 : d \in MaySee(dailyAt, Day)}

\* The WHERE clauses of the staged jobs and processCandidate's decision: the
\* stage, or 0.
For == [reengage |-> "complete", incomplete |-> "incomplete"]

PlansStage(job) ==
    LET s == StageFor(job)
    IN IF s = 0 \/ profile # For[job] THEN {0} ELSE {IF c THEN s ELSE 0 : c \in Cooled(job, s)}

\* The bug variant sends the daily message to whoever was here in the last week.
PlansWeek(job) == IF job = "daily" THEN PlansDaily(8) ELSE PlansStage(job)
Plans(job)     == IF job = "daily" THEN PlansDaily(1) ELSE PlansStage(job)

\* The job reads the user and decides.
Look ==
    /\ due /\ step = "idle"
    /\ due' = FALSE
    /\ plan' \in Plans(hour)
    /\ step' = IF plan' = 0 THEN "idle" ELSE "send"
    /\ UNCHANGED <<hour, user, sent, seen>>

Stop == step' = "idle" /\ plan' = 0

\* persistAndEnqueue, or nothing if it fails.
Nudge ==
    /\ step = "send"
    /\ step' = "write"
    /\ nudges' = nudges + 1
    /\ since' = IF <<hour, plan>> = watch THEN 0 ELSE since
    /\ UNCHANGED <<hour, due, user, sent, plan, watch, changed>>

NudgeFails ==
    /\ step = "send"
    /\ Stop
    /\ UNCHANGED <<hour, due, user, sent, seen>>

\* Only then the progress is written, with the time the job started.
Write ==
    /\ step = "write"
    /\ Stop
    /\ IF hour = "daily"
       THEN dailyAt' = 0 /\ UNCHANGED <<lastStage, at>>
       ELSE lastStage' = plan /\ at' = 0 /\ UNCHANGED dailyAt
    /\ UNCHANGED <<hour, due, user, seen>>

\* A failing UPDATE is logged and forgotten; an eviction comes to the same.
WriteFails ==
    /\ step = "write"
    /\ Stop
    /\ since' = IF <<hour, plan>> = watch THEN Limit ELSE since
    /\ UNCHANGED <<hour, due, user, sent, watch, nudges, changed>>

-----------------------------------------------------------------------------
ReminderNext ==
    \/ Act \/ Wipe \/ Strike
    \/ Look \/ Nudge \/ NudgeFails \/ Write \/ WriteFails

ReminderSpec == ReminderInit /\ [][ReminderNext]_reminderVars

-----------------------------------------------------------------------------
ReminderTypeOK ==
    /\ hour \in Jobs /\ profile \in Profiles
    /\ idle \in -1..Longest.idle /\ age \in 0..Longest.age
    /\ at \in 0..Longest.at /\ since \in 0..Limit /\ dailyAt \in 0..Longest.daily
    /\ lastStage \in 0..3 /\ plan \in 0..3 /\ nudges \in 0..3
    /\ step \in {"idle", "send", "write"}
    /\ watch \in Staged \X (1..3)
    /\ {due, changed} \subseteq BOOLEAN

\* A stage is not repeated before its cooldown is over, although the other job
\* overwrites the columns that remember it: whoever moves from one kind of
\* profile to the other has been here, and a stage of silence takes longer to
\* come than any cooldown.  Only a progress that was not written repeats a stage.
NotTooSoon ==
    [][since' = 0 => since = Limit]_since

\* The jobs stay out of each other's way: one reminder a day, but for the day on
\* which the profile changes from complete to incomplete or back.
OneNudgeADay == nudges <= 1 \/ changed

=============================================================================
