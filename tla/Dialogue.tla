------------------------------- MODULE Dialogue -------------------------------
(***************************************************************************)
(* One user's conversation with the bot: the onboarding questions, the     *)
(* profile menu and the settings.  What the bot has asked is one key in    *)
(* KV; every update of the user is a run of a worker that reads it, calls  *)
(* the API and writes it back, and runs overlap.                           *)
(***************************************************************************)
EXTENDS Integers, Sequences

CONSTANTS
    Updates, \* updates handled at the same time
    Given,   \* fields the user has filled in before
    Menu,    \* fields the user edits from the menu
    Numbers  \* ages and distances; Youngest stands for the least age allowed

Order    == <<"name", "birthdate", "gender", "bio", "location", "media", "interests", "phone">>
Fields   == {Order[i] : i \in 1..Len(Order)}
Required == Fields \ {"interests", "phone"}
\* The steps shown once, however they are answered; the bug variant has one
\* that a complete profile needs.
OnceMedia == {"name", "interests", "media"}
Once      == {"name", "interests"}

\* Every user has a name from the start: the one the account has in Telegram.
ASSUME ConstantsAssumption ==
    /\ "name" \in Given /\ Given \subseteq Fields
    /\ Menu \subseteq Fields \ {"phone"}
    /\ Numbers # {} /\ Numbers \subseteq 12..80

VARIABLES
    half,   \* bound: what the user does, "profile" or "settings"
    has,    \* the fields that are filled in, "phone" once verified
    flag,   \* is_profile_complete
    seen,   \* onboarding:seen
    conv,   \* conversation: the question asked and the minimum age chosen
    prefs,  \* preferences: a function on those that are set
    job,    \* job[r]: what run r has yet to do and what it has read
    missed  \* history: the last look at the completed profile did not come off

vars == <<half, has, flag, seen, conv, prefs, job, missed>>
profile == <<has, flag, seen, missed>>

Youngest == CHOOSE n \in Numbers : \A m \in Numbers : n <= m

\* A conversation that does not exist reads as one without data.
Open(f) == [field |-> f, min |-> Youngest]
Closed  == Open("none")

Idle == [todo |-> <<>>, item |-> "none", user |-> {}, sent |-> <<>>, during |-> {}]

Busy(r)  == job[r].todo # <<>>
At(r, s) == Busy(r) /\ Head(job[r].todo) = s
Rest(r)  == Tail(job[r].todo)

Become(r, j)   == job' = [job EXCEPT ![r] = IF j.todo = <<>> THEN Idle ELSE j]
Plan(r, steps) == Become(r, [job[r] EXCEPT !.todo = steps])
Proceed(r)     == Plan(r, Rest(r))

\* getProfileCompleteness
Complete(fields) == Required \subseteq fields

\* The first step of the onboarding that is not to be skipped, or "none".
Skip(f, fields, shown) == f \in (IF f \in Once THEN shown ELSE fields)

NextStep(fields, shown) ==
    LET left == {i \in 1..Len(Order) : ~Skip(Order[i], fields, shown)}
    IN IF left = {} THEN "none" ELSE Order[CHOOSE i \in left : \A k \in left : i <= k]

Init ==
    /\ half \in {"profile", "settings"}
    /\ has = IF half = "profile" THEN Given ELSE Fields
    /\ flag = Complete(has)
    /\ seen = {}
    /\ conv = Closed
    /\ prefs = <<>>
    /\ job = [r \in Updates |-> Idle]
    /\ missed = FALSE

-----------------------------------------------------------------------------
\* What arrives, and what the middleware makes of it: commands, contacts and the
\* language buttons go ahead, and so does everything while a question is open.
\* Who is in the settings has nothing left to fill in.
Unchecked == {"store", "language", "feedback"}

Receive(r, todo, item, sent) ==
    /\ ~Busy(r)
    /\ Become(r, [Idle EXCEPT
            !.todo = IF conv # Closed \/ half = "settings" \/ Head(todo) \in Unchecked THEN todo
                     ELSE <<"check">> \o todo,
            !.item = item,
            !.sent = sent])
    /\ UNCHANGED <<half, profile, conv, prefs>>

Say(r) ==
    /\ half = "profile"
    /\ \E said \in {"answer", "cancel", "skip", "done"} : Receive(r, <<"text">>, said, <<>>)

Tap(r) ==
    /\ half = "profile"
    /\ \/ \E f \in Menu : Receive(r, <<"edit">>, f, <<>>)
       \/ \E step \in {"photo", "gps", "delete", "language", "feedback"} : Receive(r, <<step>>, "none", <<>>)

\* handleContactMessage, of the user's own contact.
ShareContact(r) ==
    /\ half = "profile"
    /\ Receive(r, <<"store", "hang up">>, "phone", <<>>)

\* /match sets default preferences where there are none.
Defaults == [ages |-> <<Youngest, Youngest>>, distance |-> Youngest]

\* The buttons, questions and typed answers of the settings.  The gender
\* preference has buttons only, which work as those of the distance do.
Set(r) ==
    /\ half = "settings"
    /\ \/ \E n \in Numbers :
            \/ Receive(r, <<"min">>, "ages", [ages |-> <<n, n>>])
            \/ Receive(r, <<"read", "range", "select", "update", "clear">>, "ages", [ages |-> <<n, n>>])
            \/ Receive(r, <<"number">>, "none", [distance |-> n])
            \/ Receive(r, <<"read", "select", "update">>, "distance", [distance |-> n])
       \/ \E n, m \in Numbers : n <= m /\ Receive(r, <<"pair">>, "ages", [ages |-> <<n, m>>])
       \/ \E f \in {"age-range", "age-range max", "distance"} : Receive(r, <<"edit">>, f, <<>>)
       \/ Receive(r, <<"text">>, "cancel", <<>>)
       \/ Receive(r, <<"default", "select", "update">>, "none", Defaults)

-----------------------------------------------------------------------------
\* checkMandatoryUpdates, which lets pass what it could not check.
Check(r) ==
    /\ At(r, "check")
    /\ \/ ~Complete(has) /\ Plan(r, <<"ask">>)
       \/ Complete(has) /\ "phone" \notin has /\ Plan(r, <<>>)
       \/ Complete(has) /\ "phone" \in has /\ Proceed(r)
       \/ Proceed(r)
    /\ UNCHANGED <<half, profile, conv, prefs>>

\* continueOnboarding: it reads the user, then what was shown and opens the next
\* conversation, then it remembers what is shown once.
Ask(r) ==
    /\ At(r, "ask")
    /\ \/ Become(r, [job[r] EXCEPT !.todo = <<"pick">>, !.user = has])
       \/ Plan(r, <<>>)
    /\ UNCHANGED <<half, profile, conv, prefs>>

Pick(r) ==
    /\ At(r, "pick")
    /\ LET f == NextStep(job[r].user, seen)
       IN IF f = "none"
          THEN seen' = {} /\ Plan(r, <<>>) /\ UNCHANGED conv
          ELSE /\ conv' = Open(f)
               /\ Become(r, [job[r] EXCEPT !.todo = IF f \in Once THEN <<"mark">> ELSE <<>>, !.item = f])
               /\ UNCHANGED seen
    /\ UNCHANGED <<half, has, flag, prefs, missed>>

Mark(r) ==
    /\ At(r, "mark")
    /\ seen' = seen \cup {job[r].item}
    /\ Plan(r, <<>>)
    /\ UNCHANGED <<half, has, flag, conv, prefs, missed>>

\* languageCallback starts the onboarding of an incomplete profile afresh.
Language(r) ==
    /\ At(r, "language")
    /\ IF Complete(has) THEN Plan(r, <<>>) /\ UNCHANGED seen ELSE Plan(r, <<"ask">>) /\ seen' = {}
    /\ UNCHANGED <<half, has, flag, conv, prefs, missed>>

-----------------------------------------------------------------------------
\* A valid answer is stored, the conversation closed, the profile looked at and
\* the onboarding continued; the bug variant looks before it stores.
AnswerLookFirst == <<"look", "store", "clear", "ask">>
Answer          == <<"store", "clear", "look", "ask">>

\* handleConversationMessage, by the open question f: phone, media and feedback
\* take no answer to store.  The button of another question counts as an answer,
\* which is an input of its own, or is refused.
TextPlan(f, said) ==
    CASE f = "none" -> <<>>
      [] f # "none" /\ said = "cancel" -> <<"clear">>
      [] f = "interests" /\ said = "skip" -> <<"clear", "ask">>
      [] f = "media" /\ said = "done" -> <<"clear", "look", "ask">>
      [] said = "answer" /\ f \in Fields \ {"media", "phone"} -> Answer
      [] said = "answer" /\ f \in {"media", "phone", "feedback"} -> <<"clear">>
      [] OTHER -> <<>>

Text(r) ==
    /\ At(r, "text")
    /\ Become(r, [job[r] EXCEPT !.todo = TextPlan(conv.field, job[r].item), !.item = conv.field])
    /\ UNCHANGED <<half, profile, conv, prefs>>

\* handleMediaMessage: the third upload ends the conversation.
Photo(r) ==
    /\ At(r, "photo")
    /\ \E plan \in (IF conv.field = "media" THEN {<<"store", "look">>, <<"store", "look", "clear", "ask">>}
                    ELSE {<<>>}) :
            Become(r, [job[r] EXCEPT !.todo = plan, !.item = "media"])
    /\ UNCHANGED <<half, profile, conv, prefs>>

\* handleLocationMessage: a location is stored outside its conversation as well.
Gps(r) ==
    /\ At(r, "gps")
    /\ Become(r, [job[r] EXCEPT !.todo = IF conv.field = "location" THEN Answer ELSE <<"store">>,
                                !.item = "location"])
    /\ UNCHANGED <<half, profile, conv, prefs>>

\* A menu button opens a conversation, whatever was open; the maximum age keeps
\* the minimum chosen before.
Edit(r) ==
    /\ At(r, "edit")
    /\ conv' = IF job[r].item = "age-range max" THEN [conv EXCEPT !.field = "age-range max"]
               ELSE Open(job[r].item)
    /\ Plan(r, <<>>)
    /\ UNCHANGED <<half, profile, prefs>>

Feedback(r) ==
    /\ At(r, "feedback")
    /\ conv' = Open("feedback")
    /\ Plan(r, <<>>)
    /\ UNCHANGED <<half, profile, prefs>>

\* handleMediaCallback deletes one of up to three, and never touches the flag.
Delete(r) ==
    /\ At(r, "delete")
    /\ has' \in {has, has \ {"media"}}
    /\ Plan(r, <<>>)
    /\ UNCHANGED <<half, flag, seen, conv, prefs, missed>>

-----------------------------------------------------------------------------
\* updateUser, or its failure: an answer still ends its conversation.
Store(r) ==
    /\ At(r, "store")
    /\ \/ /\ has' = has \cup {job[r].item}
          /\ missed' = (missed \/ Rest(r) = <<>>)
          /\ Become(r, [Idle EXCEPT !.todo = Rest(r)])
       \/ /\ Become(r, [Idle EXCEPT !.todo = IF Rest(r) # <<>> /\ Head(Rest(r)) = "clear"
                                            THEN <<"clear">> ELSE <<>>])
          /\ UNCHANGED <<has, missed>>
    /\ UNCHANGED <<half, flag, seen, conv, prefs>>

Clear(r) ==
    /\ At(r, "clear")
    /\ conv' = Closed
    /\ Proceed(r)
    /\ UNCHANGED <<half, profile, prefs>>

HangUp(r) ==
    /\ At(r, "hang up")
    /\ conv' = IF conv.field = "phone" THEN Closed ELSE conv
    /\ Proceed(r)
    /\ UNCHANGED <<half, profile, prefs>>

\* checkAndUpdateProfileComplete reads the user and may set the flag; it returns
\* quietly when either call fails.
Look(r) ==
    /\ At(r, "look")
    /\ \/ /\ Plan(r, IF Complete(has) /\ ~flag THEN <<"flag">> \o Rest(r) ELSE Rest(r))
          /\ missed' = FALSE
       \/ Proceed(r) /\ missed' = TRUE
    /\ UNCHANGED <<half, has, flag, seen, conv, prefs>>

Flag(r) ==
    /\ At(r, "flag")
    /\ \/ flag' = TRUE /\ UNCHANGED missed
       \/ missed' = TRUE /\ UNCHANGED flag
    /\ Proceed(r)
    /\ UNCHANGED <<half, has, seen, conv, prefs>>

-----------------------------------------------------------------------------
\* { ...stored, ...sent }
Merge(new, old) == [s \in DOMAIN new \cup DOMAIN old |-> IF s \in DOMAIN new THEN new[s] ELSE old[s]]

\* A settings button reads the user first, preferences included.
Read(r) ==
    /\ At(r, "read")
    /\ \/ Become(r, [job[r] EXCEPT !.todo = Rest(r), !.sent = Merge(@, prefs)])
       \/ Proceed(r)
    /\ UNCHANGED <<half, profile, conv, prefs>>

\* ensureDefaultPreferences
Default(r) ==
    /\ At(r, "default")
    /\ IF prefs = <<>> THEN Proceed(r) ELSE Plan(r, <<>>)
    /\ UNCHANGED <<half, profile, conv, prefs>>

\* The minimum is kept in the conversation until the maximum is known.
Keep(r, n) ==
    /\ conv' = [field |-> "age-range max", min |-> n]
    /\ Plan(r, <<>>)

Min(r) ==
    /\ At(r, "min")
    /\ Keep(r, job[r].sent.ages[1])
    /\ UNCHANGED <<half, profile, prefs>>

\* The bug variant relies on the keyboard to leave out what is below the minimum.
RangeUnchecked(r) ==
    /\ At(r, "range")
    /\ Become(r, [job[r] EXCEPT !.todo = Rest(r), !.sent.ages[1] = conv.min])
    /\ UNCHANGED <<half, profile, conv, prefs>>
Range(r) ==
    /\ At(r, "range")
    /\ IF job[r].sent.ages[2] < conv.min THEN Plan(r, <<>>)
       ELSE Become(r, [job[r] EXCEPT !.todo = Rest(r), !.sent.ages[1] = conv.min])
    /\ UNCHANGED <<half, profile, conv, prefs>>

\* A number or a range typed in answer to one of the questions.
Typed == <<"select", "update", "clear">>

Number(r) ==
    /\ At(r, "number")
    /\ LET n == job[r].sent.distance
       IN CASE conv.field = "age-range" -> Keep(r, n)
            [] conv.field = "age-range max" /\ conv.min <= n ->
                 /\ Become(r, [job[r] EXCEPT !.todo = Typed, !.item = "ages",
                                             !.sent = [ages |-> <<conv.min, n>>]])
                 /\ UNCHANGED conv
            [] conv.field = "distance" ->
                 Become(r, [job[r] EXCEPT !.todo = Typed, !.item = "distance"]) /\ UNCHANGED conv
            [] OTHER -> Plan(r, <<>>) /\ UNCHANGED conv
    /\ UNCHANGED <<half, profile, prefs>>

Pair(r) ==
    /\ At(r, "pair")
    /\ Plan(r, IF conv.field \in {"age-range", "age-range max"} THEN Typed ELSE <<>>)
    /\ UNCHANGED <<half, profile, conv, prefs>>

\* The API merges what it is sent into the preferences it reads; the bug variant
\* replaces them.
SelectNothing(r) ==
    /\ At(r, "select")
    /\ Proceed(r)
    /\ UNCHANGED <<half, profile, conv, prefs>>
Select(r) ==
    /\ At(r, "select")
    /\ Become(r, [job[r] EXCEPT !.todo = Rest(r), !.sent = Merge(@, prefs)])
    /\ UNCHANGED <<half, profile, conv, prefs>>

Changed(old, new) == {s \in DOMAIN old : s \notin DOMAIN new \/ new[s] # old[s]} \cup (DOMAIN new \ DOMAIN old)

Update(r) ==
    /\ At(r, "update")
    /\ LET done == IF Rest(r) = <<>> THEN Idle ELSE [Idle EXCEPT !.todo = Rest(r)]
       IN \/ /\ prefs' = job[r].sent
             /\ job' = [q \in Updates |->
                    CASE q = r -> done
                      [] q # r /\ Busy(q) -> [job[q] EXCEPT !.during = @ \cup Changed(prefs, prefs')]
                      [] OTHER -> job[q]]
          \/ job' = [job EXCEPT ![r] = done] /\ UNCHANGED prefs
    /\ UNCHANGED <<half, profile, conv>>

-----------------------------------------------------------------------------
\* A call throws or the worker is evicted: the rest of the run is lost.
Break(r) ==
    /\ Busy(r)
    /\ Plan(r, <<>>)
    /\ missed' = (missed \/ \E i \in 1..Len(job[r].todo) : job[r].todo[i] \in {"look", "flag"})
    /\ UNCHANGED <<half, has, flag, seen, conv, prefs>>

\* The keys live for 30 minutes and for a day.
Expire ==
    /\ \/ conv' = Closed /\ conv # Closed /\ UNCHANGED seen
       \/ seen' = {} /\ seen # {} /\ UNCHANGED conv
    /\ UNCHANGED <<half, has, flag, prefs, job, missed>>

\* The cleanup job takes the media of who has been away.
Wipe ==
    /\ half = "profile" /\ "media" \in has
    /\ has' = has \ {"media"}
    /\ flag' = FALSE
    /\ UNCHANGED <<half, seen, conv, prefs, job, missed>>

-----------------------------------------------------------------------------
Arrive(r) == Say(r) \/ Tap(r) \/ ShareContact(r) \/ Set(r)

Serve(r) ==
    \/ Check(r) \/ Ask(r) \/ Pick(r) \/ Mark(r) \/ Language(r)
    \/ Text(r) \/ Photo(r) \/ Gps(r) \/ Edit(r) \/ Feedback(r) \/ Delete(r)
    \/ Store(r) \/ Clear(r) \/ HangUp(r) \/ Look(r) \/ Flag(r)
    \/ Read(r) \/ Default(r) \/ Min(r) \/ Range(r) \/ Number(r) \/ Pair(r) \/ Select(r) \/ Update(r)

Next ==
    \/ \E r \in Updates : Arrive(r) \/ Serve(r) \/ Break(r)
    \/ Expire \/ Wipe

Spec == Init /\ [][Next]_vars

-----------------------------------------------------------------------------
\* Once everybody has finished, a complete profile is marked so, and with it
\* found by others, but for two gaps: a look that failed, and a location sent
\* outside its conversation, after which nobody looks.
CompleteIsFlagged ==
    Complete(has) /\ ~missed /\ (\A r \in Updates : ~Busy(r)) => flag

\* Nobody is let go before the profile is complete: what the onboarding skips,
\* by what is there and by what was shown, and what completeness asks for agree.
AskedToTheEnd ==
    \A r \in Updates :
        At(r, "pick") /\ NextStep(job[r].user, seen) = "none" => Complete(job[r].user)

\* No interleaving of buttons and typed numbers stores a maximum age below the
\* minimum, although the two are chosen in different updates.
RangeOrdered == "ages" \in DOMAIN prefs => prefs.ages[1] <= prefs.ages[2]

\* A setting is not undone by a change of another one, unless both were under
\* way at the same time: each sends or merges the whole object.
NoLostSetting ==
    [][\A s \in DOMAIN prefs \cap Changed(prefs, prefs') :
            \E r \in Updates : job'[r] # job[r] /\ (s = job[r].item \/ s \in job[r].during)]_prefs

=============================================================================
