# Formal models of MeetsMatch

MeetsMatch is a dating bot for Telegram on Cloudflare Workers. Its state lives in one D1 (SQLite)
database behind an HTTP API, in a Queue of notifications and in a KV store of the bot. There is no
transaction across two `await`s anywhere except the explicit `db.batch` of the payment grants: most
operations SELECT a row, decide in JavaScript and UPDATE with absolute values, while other
invocations do the same. That is what these models are about.

1. [Inventory](#inventory) 2. [Modules](#modules) 3. [Runs](#runs) 4. [Proofs](#proofs)
5. [Known defects](#known-defects) 6. [Not modelled](#not-modelled) 7. [Plan](#plan)

## Inventory

### How the parts interact

`cf-bot` takes Telegram updates at `/webhook` and calls `cf-api` through a service binding;
`cf-api` serves every operation on the database (`src/http/router.ts` dispatches to the
repositories in `src/models/`) and puts notifications on the queue; `cf-worker` runs the cron jobs
and consumes the queue, reading and writing the same database directly, and asks the bot to send the
message. `cf-shared` holds schemas, `cf-tail` forwards logs, `services/api` (Go) is what is left of
the previous backend.

| Component | State | Operations | What makes it hard | What makes it correct |
|---|---|---|---|---|
| Match repository (`cf-api/src/models/match.ts`, `block.ts`) | `matches` (a row per pair: a decision per user, status, `matched_at`), `blocks` | create, like, dislike, skip, undo, block, unblock, list queries; cleanup job's expiry and recycling | row read two statements before it is written; like needs two UPDATEs; the block check is a statement of its own | a match needs both likes; two likes are a match; every match can be recycled; a block stops requests |
| Notification queue (`cf-worker/src/notifications/queue.ts`, API enqueue handler) | `notifications.status`, queue messages with a retry count | persist and enqueue, compensate, claim, call the bot, write the verdict, retry, dead-letter | at-least-once delivery, evictions, statements that fail after they ran, a send whose answer is lost | one consumer at a time holds a row; nobody is notified again after a heard success; every accepted notification settles; no row without a message |
| Daily quotas (`cf-api/src/models/user.ts`) | a counter and a date each for likes, dislikes, swipes and uploads; tier and bonus columns | status (resets), record (counts) | absolute values written back; midnight or a lapsed subscription in between | no day exceeds its total; nobody is charged for a use not granted |
| Payments and entitlements (`user.ts`, bot's `successful_payment` handlers, expiry job) | `payment_charges`, `dm_credits`, `subscription_tier`, `subscription_expires_at` | grant credits, grant premium, gift, spend a credit, downgrade | Telegram repeats deliveries; the gift reads the recipient long before it writes; crashes between grant and answer | nothing held that was not bought, nothing bought that is lost |
| Referrals (`user.ts`) | `referral_code`, `referred_by`, `referral_count`, bonus columns | get or create code, apply | check, search and two UPDATEs without a transaction; two first looks make two codes | every promised bonus is there; nobody refers themselves; one code counts per user; a link works |
| Media list and cleanup (`user.ts`, `router.ts`, `cleanup.ts`) | `media_urls` (JSON), objects in R2 | add, remove, upload handler, cleanup of stale users | list rewritten as a whole; upload checks, adds and counts in three calls; cleanup compares with an old list | at most three items; no item lost; none counted without being added |
| Bot match session (`cf-bot/src/handlers/match.ts`, `premium.ts`, `index.ts`) | KV: the queue of cards, two locks, last action, pending prompt | /match, like, dislike, skip, letter, undo, block, the reply keyboard, prompts and their dismissal | KV get followed by put is no lock; a dismissal takes none; old buttons stay usable; the reply keyboard names no card | locks exclude and are given back; screen and queue show the same card; nobody is decided on unseen |
| Reminders and other cron jobs (`cf-worker/src/jobs/`) | stage and time of the last reminder, time of the last daily message | three jobs: query, decide, enqueue, write | two jobs share their columns and run on different clocks; the progress is written after the message | one reminder a day; no stage again within its cooldown |
| Candidate selection (`getPotentialMatches`, its fallback in `router.ts`) | none; reads profiles, the pair's row and its age | filter strictly, else relaxed; exclude by decisions and cooldowns | one `updated_at` for both users' cooldowns; decisions, undo and the cleanup job all move it | who was turned down stays away; who likes is offered; nobody is lost for good |
| Profile and conversations (`conversations.ts`, `settings.ts`, menus) | KV: conversation, questions shown; `is_profile_complete`, preferences | onboarding, mandatory check, profile menu, settings, feedback | one key for all conversations, overlapping updates, failing calls between store and look | complete profiles are flagged; the onboarding asks to the end; settings survive each other |
| Error reports (`error-report.ts`, `admin-alerts.ts`) | unsent reports | record, summarise, mark sent | reports arriving between summary and mark | every report is in some alert |
| Routing, clients, geocoding, reports, feedback, texts, `cf-tail`, Go service | none of their own, or single INSERTs | | | |

The hazards, each at the line where it bites and with the properties that watch it, are listed in
`PROJECT.json`.

## Modules

Every `await`ed statement or call is one action; JavaScript between two awaits runs without
interruption and is part of the action it follows. The locals of an invocation that survive an
`await` are variables indexed by the invocation. *History* variables record what happened and
guard nothing.

### `MatchRepository` and `MatchContract`

The columns of the row are the variables of `PairRow`, which both modules and `Candidates` extend. One row of `matches` (rows of different pairs share no column) and the `blocks` rows between its two
users, with `Requests` serving calls about it. A request goes `idle -> read -> check -> write
(-> match)` or, for create, `idle -> check -> select -> insert`. `todo[r]` is the operation and, once
`ReadRow` has read the row, the UPDATE chosen from it (`Chosen` is the code's `isMutual`,
`wasMutual` and `wasDislike`): the decision is taken there and written later, which is where the races
come from. `WriteLike` and `WriteMatched` are the two UPDATEs of `like`. `Abort` is a failing
statement or an evicted isolate at any point. `Block`, `Unblock` and the two statements of the
cleanup job are steps of their environment; the age conditions in the latter's WHERE clauses are
left open, so they may run at any time.

`MatchContract` is what the callers are meant to see: every operation at once. `SerialSpec` is the
same set of statements with requests that do not overlap and complete; `ImplementsContract` says it
refines the contract. Between the two UPDATEs of a like back the refinement mapping counts the row
as matched.

### `NotificationQueue` and `DeliveryContract`

`row[n]` is the status of a notification, `prod[n]` its producer, `pc[m]` the place of a copy of a queue
message: with the producer (`none`), in the queue, with a consumer (`read`, `claim`, `fetch`, or the verdict about
to be written), dead-lettered, acknowledged. `ApiNotes` are produced by the API's handler, the rest
by `persistAndEnqueue` of the cron jobs; they differ in what they do when the send fails. The queue is
external: `Retry` follows `wrangler.toml` (`max_retries`, dead-letter queue), `Duplicate` and `Crash`
its documented at-least-once delivery. `Faults` selects what may go wrong, so that a run can say
which fault breaks what. `told[n]` counts the answers with success consumers got from the bot.

`DeliveryContract` is a lock per notification with a success flag: nobody acquires it after a
success. The refinement maps its holder to the set of copies between claim and verdict.

### `DailyQuota` and `QuotaContract`

The four counters share one shape in the code (`recordLike`, `recordDislike`, `recordSwipe`,
`recordMediaUpload` and the three status calls): read counter, date and the columns that make the
total; reset if the date has passed; decide; write both back as absolutes. `scope[r]` is the set of
counters a call looks at (`getInteractionStatus` looks at two and writes both), `counts[r]` says whether
it records. The clock (`Midnight`) may move between SELECT and decision and between decision and UPDATE.
Tiers and bonuses are abstracted to the total they add up to; `Change` stands for every operation
that changes them.

`QuotaContract` is a daily allowance without dates; the refinement maps a counter with an old date
to zero.

### `Entitlements`

One user's credits, tier and expiry, and the payments for this user. A delivery `d` is one webhook
call with a payment; Telegram may deliver an unanswered payment any number of times, also at the
same time. Not every delivery reaches a grant. `payer` says who pays: a steady payer, one whose profile or chat is
not in order all the time ("wavering"), or a stranger to the invoice. `TurnAway` is the update that is answered with 200
without a grant and without a word about the money: the mandatory check keeps it from an incomplete or unverified
payer (bot `index.ts:124-141`), the handlers log a payer who is not the invoice's user (`index.ts:463-469`, `511-517`; a
gift only logs it and goes on). A wavering payer may as well get through (`Receive`), since the check lets pass whoever
has a conversation open and whomever it fails for.
A purchase for oneself fixes its expiry when it starts (`Receive`), a gift when it has
read the recipient (`ReadRecipient`). `Grant` is the `db.batch` that applies the entitlement guarded
by the charge id and claims the charge. `CallFails` is what the handlers do with an error: log, tell
the payer, answer 200; whoever has blocked the bot (a wavering payer) is not told, and any other failure of the error
message is not caught, so the update is repeated (`error-feedback.ts:262-272`; in the model a crash). A lost answer of the API after the batch ran is in `Reply`. `useDMCredit` is
`SelectCredits` and `Debit`; `Downgrade` is the expiry job.

History: `sent` (DMs paid with a credit), `told` (payments whose payer was told of an error),
`raced` (something got between the two statements of a DM).

### `MediaList`

The media of one user: the objects in R2 (`bucket`) and `users.media_urls` (`list`), which every writer replaces as a
whole. An upload `u` is the bot's `handleMediaMessage` (look at the length, store the object, call the
API, take the object back when the call fails) around the API's `handleUploadMedia` (check the day's limit, check the
length, `addMedia`'s SELECT and UPDATE, count). `Remove(c)` is `handleDeleteMedia`, called by a tap on a button
(`Deletes`) or by the cleanup job. The job selects a user, deletes item by item through the API and
then empties the row itself where the list is still the one it found. `Fragile` are the items about
which statements and calls may fail, run or not. A set stands for the JSON list: an item
is appended by its own upload only, so no two lists hold the same items in different orders. The day does not end in this
model (`DailyQuota` has the counter with its dates).

History: `added`, `failed`, `raced` (a list computed from an outdated one was written) and `crowded` (an upload
passed its daily check while another was between check and count) name the circumstances under which
the code promises less.

### `Referrals`

The columns of the users table that referrals touch, for any users. A request is one call of
`getOrCreateReferralCode` (`look -> store`) or of `applyReferral` (`check -> find -> join -> reward`), one
action per statement. Codes are names: those that exist at first are their owners, a new one is the
request that makes it up, so a random code never repeats. `Abort` is a failing statement or an eviction
anywhere. `pc = "told"` and `"handed"` are the answers a user has seen; `clashed` remembers the users who
had two calls of one kind under way at once.

### `MatchSession`

One user's KV keys and the handlers of `Updates` that may run at the same time, each serving one update after another.
`kind[u]` is what arrived (a search, a tap under a card, the reply keyboard, undo, a letter, a block, the
dismissal of a prompt), `pc[u]` the KV or API call it makes next. `lock[l]` is free, held or orphaned: an eviction
leaves a key that nobody deletes before its TTL. `LookAtLock` and `PutLock` are the get and the put.
`Decide` is the call of the API; `MatchRepository` says what it does there. `Throw` is an exception in any step, which ends in the `finally`
where there is one; `Crash` an eviction or a failing delete; `Expire` the TTL of each key.

History: `seen` and `screen` (the cards that were sent), `weak` (two handlers got one lock, or it timed out
under its holder), `spoilt` (a writer that takes no lock, or another one, overlapped, or the card after a write of the queue could not be
shown). A search that runs alone ends both. With `weak` or `spoilt` set, only a search starts (`MayStart`).

### `Candidates`

A pair whose decisions, blocks and recycling are the actions of `MatchContract` (INSTANCE over the same row), plus time. `fits` says which of the two passes the
other's filters, strict and relaxed; it is fixed by an initial choice of two profiles and a distance, so all combinations of
account state, age, gender, stored and default preferences are checked, and the constants include the ends of every
clamp. `age` is the age of `updated_at` in ticks, `own[s]` (history) the time since `s` decided, which the database does not keep.
`Offered(s)` is the WHERE clause, the cooldowns and the fallback.

### `Reminders`

The three jobs of one day as hours that strike in turn; clocks count the hours and stop where they make
no more difference. Jobs start a little early or late, so a comparison after exactly a whole number of days may go either way. A job
may also miss the user (not run, batch of a hundred full). `Nudge` and `Write` are the enqueue and the UPDATE, and either may fail. The stages are the constant
`STAGES`, so that the theorems hold for any table of stages that follow one another; `MCReminders` has the two tables of the code. History: `nudges`
of today, and for one stage of one job chosen at first (`watch`) the time `since` it was sent.

### `Dialogue`

One user's conversation. `job[r].todo` is the rest of a handler as the list of its calls: `Answer` is what a
valid answer does (store, clear the conversation, look whether the profile is complete, ask on), `TextPlan` what each open
question makes of a text. The fields are a set (`has`), with `"phone"` for the verified number; values matter for the settings only, where `prefs` is a
function on the ones that are set. `Check` is `checkMandatoryUpdates`, `Ask`, `Pick` and `Mark` are
`continueOnboarding`, `Look` and `Flag` are `checkAndUpdateProfileComplete`, `Read`, `Select` and `Update` a change of
settings. `half` splits the behaviours: a user either fills in the profile or changes settings, which share the conversation key but no column.
`missed` (history) says that the profile changed without a look that came off.

## Runs

The `MC*` modules add symmetry sets (requests, copies, payments differ in their names only) and, for `reminders`, the tables of stages.
Symmetry is used in runs without liveness properties.

| Run | Shows | Bounds and why they are enough |
|---|---|---|
| `match_concurrent` | with failing statements, blocks and cleanup in between, a match needs both likes, and a standing block stops a request | two requests on a pair at a time, each begun anew without limit: a race needs two writers, and all their earlier partners are covered by the row they leave |
| `match_serial` | one at a time, the statements add up to `MatchContract`; two likes are a match | one invocation, reused without limit: with no overlap there is never a second |
| `notify_faults` | the claim is a lock, success is heard at most once, the row implements `DeliveryContract` | one notification (rows are independent), three copies and three retries, the configured number, under every fault |
| `notify_settles` | a refused cron notification leaves no row; an accepted one settles | two notifications, one of either producer, three copies, one retry: the fault kinds are those after which the code still promises an end |
| `quota` | no stale write charges for a use not granted, no day grants more than its best total; refines `QuotaContract` | four calls that do not overlap, two counters (a status call writes both), totals 0, 1 and 2 (none, the boundary, one below it), two days; that overlapping calls do not overcount either is the theorem `CountersAreBacked` |
| `paid_replays` | nothing held that was not bought; no credit lost unless something got between a DM's statements; what was answered was granted or reported, unless the payer is a stranger or was not in order all the time | two payments, three deliveries (one payment delivered twice next to another), two DMs, time for one subscription to lapse and another to start |
| `media_faults` | the list never outgrows its limit; list, bucket and counter agree unless an outdated list was written or a call failed; the job wipes no upload | three uploads for a limit of two (one upload more than fits, as four for the code's three; the theorem covers every limit), one of them with failing calls, one tap next to the job, which runs any number of times |
| `session` | the KV locks exclude and are given back; screen, queue and reply keyboard agree | two handlers of any kind at a time, reused without limit, and queues of one to three cards (none, one and two left after a decision); the theorems cover any number of both |
| `candidates` | who is turned down stays away, who likes is offered, nobody is lost; relaxed filters contain the strict ones | one pair; ages and limits at 0 (not set), inside, and where the clamps to 80 and 500 are reached; three different cooldowns in ticks |
| `referrals` | every promised bonus is there; nobody refers themselves; one code per user; links work | four calls of three users, so that two calls of one user, of two friends of one owner, and a first look at a code in between all meet |
| `reminders` | one reminder a day; no stage repeated within its cooldown | one user (rows are independent), the stages of the code, clocks up to the longest cooldown and stage |
| `dialogue` | completeness and flag agree; the onboarding asks to the end; ages are ordered; settings survive each other | two overlapping updates, reused without limit; four of eight fields filled in before and one edited from the menu, so that profiles cross the border of completeness both ways; two numbers (the least age and another) |

`CHECK_DEADLOCK FALSE` stands where the model stops by itself: every notification has settled, every
request of a bounded number has been served, the clock has reached its bound. In the match, session, candidate, reminder and dialogue
runs requests begin anew or time passes for ever, and deadlock is checked.

Fairness is used in two runs. `candidates` assumes that time passes (weak fairness of `Tick`) and that the daily cleanup job
runs (of `Recycle`, the statement that resets an old match); users owe nothing, and `NobodyLost` starts when they have
stopped deciding. `notify_settles` assumes weak fairness of `Consume(m)` for each copy. It is what
the platform gives: the queue goes on delivering messages that are not acknowledged, and an
invocation that is not evicted runs on. Producers owe nothing: a cron job may die between its two
calls, and then the notification was not accepted. `Settles` starts at "accepted". Under `"crash"`,
`"db"` or `"body"` faults it does not hold: a copy that dies between claim and verdict leaves the row
in `processing` and its successors acknowledge the message (see the known defects for the one
of these that the code's own comment rules out), which is why that run leaves these faults out.

Every property of a passing run is broken by a mutant of the definitions it is about; the mutants stand
next to the definitions as "bug variant of ..." and are not part of any specification.

## Proofs

The proof modules prove, for every value of the constants, what the runs check on small ones.

- `MatchRepository_proofs`: type correctness, `MatchNeedsBothLikes`, `MatchedIsStamped` and
  `BlockStopsRequest` of `Spec`, for any set of requests. The invariants are not inductive by themselves:
  `MatchNeedsBothLikes` needs that a request about to write `status = 'matched'` was begun by a side
  and read the other's like, both of which are in `consent` for ever; `MatchedIsStamped` that no pending UPDATE clears
  `matched_at` without the status.
  Then `SerialSpec` implements `MatchContract` and `MutualLikeIsMatched`: the invariant says that at most one request is under
  way and that what it chose still fits the row, which is what overlapping destroys.
  Then `Candidates`, over the same row, for all filters, limits and cooldowns: `StrictWithinRelaxed`, `CooldownsHold` and
  `LikeReachesOther`; that its decisions are steps of `MatchContract` (`DecisionsFollowContract`); and the safety half of
  `NobodyLost`: without a block, what keeps a fitting profile from being offered is time or a match that may be recycled
  (`NobodyIsStuck`). `CooldownsHold` relates a clock the database keeps for the row to those it does not keep for the users: the
  row's is never older than either, and a dislike that does not show as `rejected` means that the other took a decision back.
  `StrictWithinRelaxed` rests on one lemma about limits that are widened and then clamped.
- `NotificationQueue_proofs`: type correctness for every constant; `NoOrphan` when neither statements nor producers
  fail (a lost DELETE or a producer that dies between its INSERT and its send does leave a row); `OneHolder`, `AtMostOneSuccess`
  and the refinement of `DeliveryContract` under `HonestSend`: either no notification comes from the API's
  handler or a failing send is not queued (`ApiNotes = {} \/ "lostAnswer" \notin Faults`). The
  invariant: while somebody holds a row it is in `processing`, which only a verdict ends; once success was heard
  the row is held by the copy that heard it, is `delivered` or stays in `processing`. The assumption is needed: the
  API's handler writes `failed` over any status when its send fails (`router.ts:521`), and if that message was queued all
  the same and duplicated, the row can be claimed a second time while it is being delivered. The
  cron jobs DELETE the row instead, and an absent row cannot be claimed. `AcceptedIsCarried` is the safety half of `Settles`: as
  long as consumers and their statements run to their end, an accepted notification that is not settled has a live copy. It needs
  that a row in `processing` has its holder, since the others acknowledge what they find there.
  At the end `Reminders`: type correctness, `OneNudgeADay` and `NotTooSoon`, under `StagesAssumption`. The invariant says what is
  still true of what a job found when it writes (`StillSo`), how one day's jobs exclude each other (`Apart`: whoever got the daily
  message was here a day ago and cannot be inactive two hours later), and where the watched stage is remembered (`Kept`): in the
  columns, or its clock has left the stage for good, or, for the stages of an incomplete profile overwritten by the other job, the user
  has been here since, and the first silence of a complete profile is no shorter than the cooldown. That last margin is zero in the
  code (the longest cooldown of `incompleteProfileReengagement.ts:48` and the first stage of `reengagement.ts:33` are 7 days
  each): with a cooldown of eight the assumption fails.
- `DailyQuota_proofs`: type correctness and `NeverOvercounts` of `Spec`; `QuotaHolds` and the refinement of
  `QuotaContract` of `SerialSpec`. The invariant for `NeverOvercounts`: also what a request has read and
  what it is about to write is backed by uses granted on the day it is stamped with; it is stable because grants only grow.
- `Entitlements_proofs`: type correctness, `CreditsAreBought`, `TimeIsBought`, `TierIsBought`,
  `AnsweredIsGranted` and `CreditsBalance` of `Spec`. The invariant speaks of what is in flight: a balance about to
  be written back is one less than credits that were bought, and a tier and an expiry about to be granted are backed once
  their own payment counts; each claimed charge counts exactly once. `AnsweredIsGranted` needs besides
  that an answered payment was made, so that its payer is settled: a reply follows its claim, an error its report, and
  neither is taken back.
- `MediaList_proofs`: type correctness, `AtMostThree`, `ListedIsStored`, `StoredIsListed`, `DailyLimitHolds` and
  `CleanupSparesUploads` of `Spec`. Three invariants carry them: what a pending UPDATE will write was short
  enough when read; whatever is listed, was read as listed or is to be deleted belongs to an upload past
  its UPDATE (so an object still being registered is never deleted under it); and what the job has deleted stays off the list. The last also
  gives `NotifiedOnlyAfterRace`: the job notifies nobody unless an outdated list was written back.
- `Referrals_proofs`: type correctness, `PromiseKept`, `NoSelfReferral`, `OneFriendEach` and `CodeWorks` of `Spec`, for any
  users and requests. `PromiseKept` needs the promises that are half paid: a request past `join` has already raised the
  newcomer's bonus, and both bonuses are relative UPDATEs, so nobody's is overwritten. `NoSelfReferral` needs that
  a code about to be stored is one nobody can know of yet (`Published`): a first look between check and search cannot turn the code
  in a request into the user's own.
- `MatchSession_proofs`: type correctness, `LockExcludes`, `LockNotLeaked`, `ShownIsCurrent` and `DecidesOnlySeen` of `Spec`, for
  any number of overlapping updates and cards. First the paths of each kind of handler (`Paths`) and what it carries
  (`Carried`: no undo writes an index below zero, no card is sent from an empty queue). Then the locks: whoever is inside a lock holds it while it is not weak
  (`Holding`). Then, while nothing has gone wrong (`Calm`), at most one handler is past its lock (lemma `Sole`), so that
  what it is about to show is the queue (`Current`), and whenever nobody is about to show a card, the screen has the
  queue's (`OnScreen`). A reply that looked its card up before the lock aims at a card that was seen or that the handler inside is
  about to send (`Aim`); when the reply gets the lock itself, only the former is left.
- `Dialogue_proofs`: type correctness, `CompleteIsFlagged`, `AskedToTheEnd`, `RangeOrdered` and `NoLostSetting` of `Spec`, for any
  number of overlapping updates, any profile to begin with and any numbers. `Lists` are the rests of handlers that a run can have
  left; each step takes its list to another of them. `Fit` says what a run must carry for what it has left (whoever is about to read the
  settings sends one of them, whoever is about to pick a question has read a profile with a name: `AskedToTheEnd` rests on
  that, since the name is the one required field whose question is skipped once it was shown). `Agrees` is `NoLostSetting` in flight: what
  a run is about to write equals what is stored, but for its own setting and those changed since it read. `LookIsDue` is
  `CompleteIsFlagged` while handlers run: a complete profile without its flag has a look ahead of it.

Assumptions: `ConstantsAssumption` of each module (types of the constants; `Period` and `MaxTime` positive; the cooldowns of a skip, a
dislike and a like in that order), `StagesAssumption` of `Reminders`, and `HonestSend`, `Steady` or the faults excluded where a theorem names them. Nothing else is assumed. The type invariants and `MatchedIsStamped` are proved and not repeated as
properties of a run.

Only model-checked: `Settles` and `NobodyLost`, which are liveness properties and out of the prover's reach; `AcceptedIsCarried` and
`NobodyIsStuck` prove what must hold in every state for them, the runs that fairness then brings the system there. Every other
property of the runs is stated by a theorem.

## Known defects

The models show these; no run states them, since every run passes. Where a property is named it stands in the module, and TLC
finds it violated in the instance given.

- Two likes that both read before either writes leave a mutual like `pending` for good (`match.ts:227`;
  `match-race.test.ts:82` documents it). `MatchRepository`, `Requests = {r1, r2}`, `RaceSpec`, `MutualLikeIsMatched`. A
  second UPDATE that fails does the same.
- A refusal of the bot whose body cannot be read leaves the row in `processing`: the retry finds nothing to claim and acknowledges the
  message (`queue.ts:297`, against the comment at 250-251). `NotificationQueue`, one note, one copy, three retries,
  `Faults = {"body"}`, `Spec`, `RetryCanReclaim`.
- Two overlapping gifts can lower the tier (bot `match.ts:1993`, against "never downgrade" at 1966). `Entitlements`, two
  payments, deliveries, one spend, `Period = 2`, `MaxTime = 1`, no faults, `GiftSpec`, `GiftKeepsTier`.
- `cleanUserMedia` deletes every item through the API, whose handler rewrites `media_urls`; its own UPDATE asks for the list it
  found and changes nothing (`cleanup.ts:300`), so the user is neither marked nor notified and the run counts a failure. The
  job's test mocks the API. Theorem `NotifiedOnlyAfterRace`; `MediaList`, one item, no taps, nothing fragile, `DeletedIsNotified`.
- After two dislikes, undoing one makes the row `pending` although the other dislike stands (`match.ts:426`; `Undo` of
  `MatchContract`).
- Two overlapping `recordLike` calls share the last like of the day (`user.ts:648`), so `QuotaHolds` is a property of
  `SerialSpec` only; the skipped test in `user-race.test.ts` states it as intended.

These were found while reading for the models:

- The cleanup job hides a user after 14 days of absence (`cleanup.ts:133-140`). Only `restoreProfile` (`user.ts:1366`) shows a
  user again; the API routes it (`router.ts:942`) and the bot has a client for it (`api-client.ts:312`), but nothing calls that.
  The reminder promises "come back today and we'll restore your full match list" (`reengagement.ts:199`).
- A profile completed by a location sent outside its conversation is stored without the look that flags it
  (`conversations.ts:689-695`), and a look that fails is not repeated before the next answer: the gaps `CompleteIsFlagged` excepts. Deleting the
  last photo leaves the flag set.
- The mandatory check lets pre-checkout pass (bot `index.ts:131-132`) but not `successful_payment`: whoever pays with an incomplete profile and no
  conversation open is asked to complete it, and the payment is answered and not granted. `TurnAway` of `Entitlements` has it, together with
  the stranger who is only logged; `AnsweredIsGranted` excepts the two (`MayBeLost`) and says that nobody else loses a payment unheard.
- A maximum age tapped after the conversation with the minimum has expired or was replaced uses the least age allowed, and clears
  whatever is open (`settings.ts:356-372`).
- Settings buttons send the whole preferences as they were read (`NoLostSetting` excepts what overlaps).
- Alerts: the summary compares timestamps with a `T` against ones with a blank (`error-report.ts`), mark-sent marks reports that arrived after the
  summary (`admin-alerts.ts:178`), and `markAlertsSent` may bind more parameters than D1 takes.
- The candidate query takes its rows without an order before cooldowns are applied (`match.ts:598`), and a run of the re-engagement job counts
  users in cooldown towards its hundred (`reengagement.ts:349`): the profiles or users behind them wait.

## Not modelled

`PROJECT.json` lists every component with its status. Left out for good: texts, keyboards,
parsing and translation; routing and HTTP clients (the handlers with logic are modelled with their component);
geocoding, reports and feedback (single INSERTs); error reports and alerts (no program state depends on them); log forwarding;
the legacy Go service. D1 is taken as
linearisable per statement (a Worker's binding talks to the primary) and a `db.batch` as atomic, as documented. KV is taken as a linearisable
register per key, which it is for a user served from one location; its documented delay between locations is not modelled.

Of modelled components: the scores and the order of candidates, and the limits of their query; in the match session, DMs and
gifts (their statements are in `Entitlements`, the rest are messages), reports (a single INSERT) and the KV list of notifications, a hint that nothing depends on; report
conversations, pausing and the gender of a match, which are single writes; the birthday and queue-health jobs, which keep nothing; and the update mask
of the profile editor, which can write any column.

## Plan

What the order was: first what everything else calls (match repository, queue, quotas, payments, media), then the components
with a state of their own around them (referrals, match session, candidates over `MatchContract`, reminders, dialogue), each with its
runs; the proofs followed, and now state every safety property of the runs.

What is left and worth doing, in this order:

1. **Composition of session and repository**: `MatchSession` with `MatchContract` in place of `Decide`, to ask which decision an undo takes
   back when two handlers decided on different cards.
2. **An abstract specification of `MediaList`**: a set with atomic add and remove, which overlapping uploads refine only while no outdated list
   is written.
3. **Error reports**: summary and mark-sent with arrivals in between.
