------------------------------ MODULE MediaList ------------------------------
(***************************************************************************)
(* The media of one user: objects in R2 and the list of their URLs in      *)
(* users.media_urls, which every writer replaces as a whole.  The bot      *)
(* stores an object and registers its URL (the API's upload handler checks *)
(* the day's limit and the length, appends, counts), the bot and the       *)
(* cleanup job delete items through the API's delete handler, and the job  *)
(* then empties the list in the database itself.  An item is appended by   *)
(* its own upload only, so two lists with the same items are the same      *)
(* list, and a set stands for the JSON text.                               *)
(***************************************************************************)
EXTENDS Integers, FiniteSets

CONSTANTS
    Items,   \* uploads, each with the object and the URL it makes
    Deletes, \* taps on a delete button
    Job,     \* the cleanup job
    Limit,   \* the length of the list (3)
    Daily,   \* uploads per day (10, 50, 9999)
    Fragile  \* items about which calls and statements may fail, run or not

ASSUME ConstantsAssumption ==
    /\ IsFiniteSet(Items)
    /\ Limit \in Nat \ {0} /\ Daily \in Nat \ {0}
    /\ Fragile \subseteq Items
    /\ Items \cap Deletes = {} /\ Job \notin Items \cup Deletes

Callers == Deletes \cup {Job}
Procs   == Items \cup Callers

VARIABLES
    list,    \* users.media_urls
    bucket,  \* the user's objects in R2
    used,    \* the day's uploads (daily_media_used, see DailyQuota)
    marked,  \* media_deleted_at is not NULL
    pc,      \* pc[p]: the next step of p
    target,  \* target[c]: the item a delete handler is called with
    seen,    \* seen[p]: the list as read before it is written
    snap, todo, allDeleted, \* the job: the list it found, what is left, all went well
    added,   \* history: items whose UPDATE ran today
    failed,  \* history: items some call about which failed
    raced,   \* history: a list computed from an outdated one was written
    crowded  \* history: an upload passed its daily check while another was being added

job     == <<snap, todo, allDeleted>>
history == <<added, failed, raced, crowded>>
vars    == <<list, bucket, used, marked, pc, target, seen, job, history>>

Adding == {u \in Items : pc[u] \in {"space", "select", "update", "count"}}

Init ==
    /\ list = {} /\ bucket = {} /\ used = 0 /\ marked = FALSE
    /\ pc = [p \in Procs |-> "new"]
    /\ target = [c \in Callers |-> "none"]
    /\ seen = [p \in Procs |-> {}]
    /\ snap = {} /\ todo = {} /\ allDeleted = TRUE
    /\ added = {} /\ failed = {} /\ raced = FALSE /\ crowded = FALSE

Step(p, from, to) == pc[p] = from /\ pc' = [pc EXCEPT ![p] = to]

-----------------------------------------------------------------------------
(* Uploads: handleMediaMessage in the bot, handleUploadMedia in the API. *)

\* The bot looks at the length itself; a failing read counts as an empty list.
CheckCount(u) ==
    /\ \/ (Cardinality(list) < Limit \/ u \in Fragile) /\ Step(u, "new", "put")
       \/ Cardinality(list) >= Limit /\ Step(u, "new", "done")
    /\ UNCHANGED <<list, bucket, used, marked, target, seen, job, history>>

Put(u) ==
    /\ \/ /\ Step(u, "put", "quota")
          /\ bucket' = bucket \cup {u}
          /\ UNCHANGED failed
       \/ /\ u \in Fragile
          /\ Step(u, "put", "done")
          /\ bucket' \in {bucket, bucket \cup {u}}
          /\ failed' = failed \cup {u}
    /\ UNCHANGED <<list, used, marked, target, seen, job, added, raced, crowded>>

\* Bug variant of CheckQuota: one upload too many.
CheckQuotaLate(u) ==
    /\ \/ used <= Daily /\ Step(u, "quota", "space")
       \/ used > Daily /\ Step(u, "quota", "undo")
    /\ crowded' = (crowded \/ Adding # {})
    /\ UNCHANGED <<list, bucket, used, marked, target, seen, job, added, failed, raced>>

\* getMediaUploadStatus: 429 when nothing is left.
CheckQuota(u) ==
    /\ \/ used < Daily /\ Step(u, "quota", "space")
       \/ used >= Daily /\ Step(u, "quota", "undo")
    /\ crowded' = (crowded \/ Adding # {})
    /\ UNCHANGED <<list, bucket, used, marked, target, seen, job, added, failed, raced>>

\* getMedia: 400 when the list is full.
CheckSpace(u) ==
    /\ \/ Cardinality(list) < Limit /\ Step(u, "space", "select")
       \/ Cardinality(list) >= Limit /\ Step(u, "space", "undo")
    /\ UNCHANGED <<list, bucket, used, marked, target, seen, job, history>>

\* addMedia looks at the length once more, at the list it will append to; the
\* bug variant relies on the handler's check.
SelectAnyway(u) ==
    /\ Step(u, "select", "update")
    /\ seen' = [seen EXCEPT ![u] = list]
    /\ UNCHANGED <<list, bucket, used, marked, target, job, history>>
SelectForAdd(u) ==
    /\ \/ /\ Cardinality(list) < Limit
          /\ Step(u, "select", "update")
          /\ seen' = [seen EXCEPT ![u] = list]
       \/ /\ Cardinality(list) >= Limit
          /\ Step(u, "select", "undo")
          /\ UNCHANGED seen
    /\ UNCHANGED <<list, bucket, used, marked, target, job, history>>

\* UPDATE users SET media_urls = ? WHERE id = ?, with the list made from seen[p].
WriteList(p, items) ==
    /\ list' = items
    /\ raced' = (raced \/ seen[p] # list)
    /\ seen' = [seen EXCEPT ![p] = {}]

AddItem(u) ==
    /\ Step(u, "update", "count")
    /\ WriteList(u, seen[u] \cup {u})
    /\ added' = added \cup {u}
    /\ UNCHANGED <<bucket, used, marked, target, job, failed, crowded>>

\* Bug variants of Count: the limit is not looked at; a full counter is an error.
CountAlways(u) ==
    /\ Step(u, "count", "done")
    /\ used' = used + 1
    /\ UNCHANGED <<list, bucket, marked, target, seen, job, history>>
CountOrFail(u) ==
    /\ \/ used < Daily /\ used' = used + 1 /\ Step(u, "count", "done")
       \/ used >= Daily /\ UNCHANGED used /\ Step(u, "count", "undo")
    /\ UNCHANGED <<list, bucket, marked, target, seen, job, history>>

\* recordMediaUpload: a counter that is full by now stays, and nobody minds.
Count(u) ==
    /\ Step(u, "count", "done")
    /\ used' = IF used < Daily THEN used + 1 ELSE used
    /\ UNCHANGED <<list, bucket, marked, target, seen, job, history>>

\* A statement of the handler fails, run or not; a bot that hears of it takes
\* the object back, one that loses the answer or is evicted does not.
UploadFails(u) ==
    /\ u \in Fragile
    /\ \E to \in {"undo", "done"} :
        /\ pc[u] \in {"quota", "space", "select", "count"}
        /\ pc' = [pc EXCEPT ![u] = to]
        /\ UNCHANGED <<list, seen, raced, added>>
     \/ /\ Step(u, "update", to)
        /\ \/ WriteList(u, seen[u] \cup {u}) /\ added' = added \cup {u}
           \/ seen' = [seen EXCEPT ![u] = {}] /\ UNCHANGED <<list, raced, added>>
    /\ failed' = failed \cup {u}
    /\ UNCHANGED <<bucket, used, marked, target, job, crowded>>

\* "Clean up orphaned R2 object"; the bug variant leaves it to the cleanup job.
UndoNothing(u) ==
    /\ Step(u, "undo", "done")
    /\ UNCHANGED <<list, bucket, used, marked, target, seen, job, history>>
Undo(u) ==
    /\ Step(u, "undo", "done")
    /\ \/ bucket' = bucket \ {u} /\ UNCHANGED failed
       \/ u \in Fragile /\ UNCHANGED bucket /\ failed' = failed \cup {u}
    /\ UNCHANGED <<list, used, marked, target, seen, job, added, raced, crowded>>

-----------------------------------------------------------------------------
(* Deletions: handleDeleteMedia in the API, called by taps and by the job. *)

\* The bot reads the list and finds the item at the index of the button.
Tap(d) ==
    /\ Step(d, "new", "owner")
    /\ \E i \in list : target' = [target EXCEPT ![d] = i]
    /\ UNCHANGED <<list, bucket, used, marked, seen, job, history>>

\* The handler's answer: a tap is over, the job notes it and goes on.
Return(c, ok) ==
    /\ pc' = [pc EXCEPT ![c] = IF c = Job THEN "next" ELSE "done"]
    /\ allDeleted' = (allDeleted /\ (c = Job => ok))
    /\ target' = [target EXCEPT ![c] = "none"]
    /\ UNCHANGED <<snap, todo>>

\* getMedia: 403 for a URL that is not listed.
CheckOwner(c) ==
    /\ \/ /\ target[c] \in list
          /\ Step(c, "owner", "object")
          /\ UNCHANGED <<target, job>>
       \/ pc[c] = "owner" /\ target[c] \notin list /\ Return(c, FALSE)
    /\ UNCHANGED <<list, bucket, used, marked, seen, history>>

\* An error of R2 is swallowed.
DeleteObject(c) ==
    /\ Step(c, "object", "reread")
    /\ \/ bucket' = bucket \ {target[c]} /\ UNCHANGED failed
       \/ target[c] \in Fragile /\ UNCHANGED bucket /\ failed' = failed \cup {target[c]}
    /\ UNCHANGED <<list, used, marked, target, seen, job, added, raced, crowded>>

SelectForRemove(c) ==
    /\ Step(c, "reread", "remove")
    /\ seen' = [seen EXCEPT ![c] = list]
    /\ UNCHANGED <<list, bucket, used, marked, target, job, history>>

RemoveItem(c) ==
    /\ pc[c] = "remove"
    /\ WriteList(c, seen[c] \ {target[c]})
    /\ Return(c, TRUE)
    /\ UNCHANGED <<bucket, used, marked, added, failed, crowded>>

DeleteFails(c) ==
    /\ target[c] \in Fragile
    /\ \/ pc[c] \in {"owner", "object", "reread"} /\ UNCHANGED <<list, seen, raced>>
       \/ pc[c] = "remove" /\ WriteList(c, seen[c] \ {target[c]})
       \/ pc[c] = "remove" /\ seen' = [seen EXCEPT ![c] = {}] /\ UNCHANGED <<list, raced>>
    /\ failed' = failed \cup {target[c]}
    /\ Return(c, FALSE)
    /\ UNCHANGED <<bucket, used, marked, added, crowded>>

-----------------------------------------------------------------------------
(* The cleanup job; whether last_active is old enough is left open, since    *)
(* the bot drops an error of its update.                                     *)

JobSelect ==
    /\ ~marked /\ list # {}
    /\ Step(Job, "new", "next")
    /\ snap' = list /\ todo' = list /\ allDeleted' = TRUE
    /\ UNCHANGED <<list, bucket, used, marked, target, seen, history>>

JobNext ==
    /\ Step(Job, "next", "owner")
    /\ \E i \in todo : todo' = todo \ {i} /\ target' = [target EXCEPT ![Job] = i]
    /\ UNCHANGED <<list, bucket, used, marked, seen, snap, allDeleted, history>>

JobOver ==
    /\ snap' = {} /\ todo' = {} /\ allDeleted' = TRUE

\* Bug variant of JobFinish: the UPDATE does not compare the list.
FinishUnconditionally ==
    /\ pc[Job] = "next" /\ todo = {} /\ allDeleted
    /\ list' = {} /\ marked' = TRUE
    /\ pc' = [pc EXCEPT ![Job] = "notify"]
    /\ UNCHANGED <<bucket, used, target, seen, job, history>>

\* UPDATE ... SET media_urls = '[]', media_deleted_at = CURRENT_TIMESTAMP
\* WHERE id = ? AND media_urls = ?, unless a deletion went wrong; the user is
\* notified when it changed the row.
JobFinish ==
    /\ pc[Job] = "next" /\ todo = {}
    /\ \/ /\ allDeleted /\ list = snap
          /\ list' = {} /\ marked' = TRUE
          /\ pc' = [pc EXCEPT ![Job] = "notify"]
          /\ UNCHANGED job
       \/ /\ ~allDeleted \/ list # snap \/ Fragile # {}
          /\ UNCHANGED <<list, marked>>
          /\ pc' = [pc EXCEPT ![Job] = "new"]
          /\ JobOver
    /\ UNCHANGED <<bucket, used, target, seen, history>>

\* persistAndEnqueue; an error is logged (see NotificationQueue).
JobNotify ==
    /\ Step(Job, "notify", "new")
    /\ JobOver
    /\ UNCHANGED <<list, bucket, used, marked, target, seen, history>>

-----------------------------------------------------------------------------
Upload(u) ==
    \/ CheckCount(u) \/ Put(u) \/ CheckQuota(u) \/ CheckSpace(u) \/ SelectForAdd(u)
    \/ AddItem(u) \/ Count(u) \/ UploadFails(u) \/ Undo(u)

Remove(c) ==
    \/ CheckOwner(c) \/ DeleteObject(c) \/ SelectForRemove(c) \/ RemoveItem(c)
    \/ DeleteFails(c)

Clean == JobSelect \/ JobNext \/ JobFinish \/ JobNotify

Next ==
    \/ \E u \in Items : Upload(u)
    \/ \E d \in Deletes : Tap(d)
    \/ \E c \in Callers : Remove(c)
    \/ Clean

Spec == Init /\ [][Next]_vars

-----------------------------------------------------------------------------
TypeOK ==
    /\ list \subseteq Items /\ bucket \subseteq Items
    /\ used \in 0..Daily
    /\ marked \in BOOLEAN
    /\ pc \in [Procs -> {"new", "put", "quota", "space", "select", "update", "count", "undo",
                         "owner", "object", "reread", "remove", "next", "notify", "done"}]
    /\ target \in [Callers -> Items \cup {"none"}]
    /\ seen \in [Procs -> SUBSET Items]
    /\ snap \subseteq Items /\ todo \subseteq Items /\ allDeleted \in BOOLEAN
    /\ added \subseteq Items /\ failed \subseteq Items
    /\ raced \in BOOLEAN /\ crowded \in BOOLEAN

\* However uploads, deletions and the job overlap, and whatever fails, the list
\* never grows longer than three ("Maximum 3 media items allowed"): the handler's
\* check may be outdated, addMedia's own is about the list it writes back.
AtMostThree == Cardinality(list) <= Limit

\* Items whose object is deleted before they leave the list.
Leaving == {target[c] : c \in {k \in Callers : pc[k] \in {"reread", "remove"}}}

\* Every listed item has its object, until somebody writes back an outdated list
\* or a call about the item fails: the delete handler takes the object before
\* the row, the upload brings it before.
ListedIsStored == raced \/ list \subseteq bucket \cup Leaving \cup failed

\* Uploads that stored their object and have not registered it yet.
Entering == {u \in Items : pc[u] \in {"quota", "space", "select", "update", "undo"}}

\* No object is forgotten ("Clean up orphaned R2 object"), with the same two
\* exceptions.
StoredIsListed == raced \/ bucket \subseteq list \cup Entering \cup failed

\* The day's limit is checked, used and counted in three calls: it holds unless
\* two uploads are between the first and the last at once or one of them fails.
DailyLimitHolds == crowded \/ Cardinality(added \ failed) <= Daily

\* The job removes nothing but what it found when it selected the user, unless
\* an outdated list is written ("media_urls changed concurrently").
CleanupSparesUploads ==
    [][~raced' /\ pc'[Job] # pc[Job] => list \ list' \subseteq snap]_vars

\* When the job has deleted all media of an inactive user, the user is notified
\* (cleanup.test.ts: "should delete media for users inactive 30+ days").
DeletedIsNotified ==
    [][pc[Job] = "next" /\ todo = {} /\ allDeleted /\ pc'[Job] # "next"
        => pc'[Job] = "notify"]_vars

=============================================================================
