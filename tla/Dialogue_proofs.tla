---------------------------- MODULE Dialogue_proofs ----------------------------
(***************************************************************************)
(* Proofs about Dialogue for every number of overlapping updates, all      *)
(* profiles to begin with and all numbers.                                 *)
(*                                                                         *)
(* The invariant says which lists of calls a run can have left (Lists),    *)
(* that what it carries fits them (Fit), that what it is about to write    *)
(* agrees with the settings stored but for what it changes itself and what *)
(* changed meanwhile (Agrees), and that a complete profile not marked so   *)
(* has a look ahead of it (LookIsDue).                                     *)
(***************************************************************************)
EXTENDS Dialogue, WellFoundedInduction, TLAPS

Seqs == INSTANCE SequenceTheorems

-----------------------------------------------------------------------------
\* What a run may have yet to do: the handlers and what is left of them.
Starting == {<<"text">>, <<"edit">>, <<"photo">>, <<"gps">>, <<"delete">>,
             <<"check", "text">>, <<"check", "edit">>, <<"check", "photo">>, <<"check", "gps">>,
             <<"check", "delete">>, <<"language">>, <<"feedback">>}
Asking   == {<<"ask">>, <<"pick">>, <<"mark">>}
Storing  == {<<"store">>, <<"store", "hang up">>, <<"store", "clear", "look", "ask">>,
             <<"store", "look">>, <<"store", "look", "clear", "ask">>}
Looking  == {<<"look">>, <<"look", "ask">>, <<"look", "clear", "ask">>, <<"clear", "look", "ask">>,
             <<"flag">>, <<"flag", "ask">>, <<"flag", "clear", "ask">>}
Closing  == {<<"clear">>, <<"clear", "ask">>, <<"hang up">>}
Unread   == {<<"min">>, <<"number">>, <<"pair">>, <<"read", "select", "update">>,
             <<"read", "range", "select", "update", "clear">>, <<"default", "select", "update">>}
Unmerged == {<<"range", "select", "update", "clear">>, <<"select", "update", "clear">>,
             <<"select", "update">>}
Merged   == {<<"update">>, <<"update", "clear">>}

Lists == {<<>>} \cup Starting \cup Asking \cup Storing \cup Looking \cup Closing
         \cup Unread \cup Unmerged \cup Merged

Settings    == {"ages", "distance"}
Ranges      == {p \in Numbers \X Numbers : p[1] <= p[2]}
Preferences == {<<>>} \cup [ages : Ranges] \cup [distance : Numbers]
               \cup [ages : Ranges, distance : Numbers]

\* What a conversation asks for and what an update is about.
Items == Fields \cup {"none", "feedback", "age-range", "age-range max", "distance", "ages",
                      "answer", "cancel", "skip", "done"}

Jobs == [todo : Lists, item : Items, user : SUBSET Fields, sent : Preferences,
         during : SUBSET Settings]

TypeOK ==
    /\ half \in {"profile", "settings"}
    /\ has \subseteq Fields /\ flag \in BOOLEAN /\ missed \in BOOLEAN
    /\ seen \subseteq Once
    /\ conv \in [field : Items, min : Numbers]
    /\ prefs \in Preferences
    /\ job \in [Updates -> Jobs]

\* What a run carries fits what it has yet to do.
Fit(j) ==
    /\ j.todo \in Storing => j.item \in Fields
    /\ j.todo = <<"store", "hang up">> => j.item = "phone"
    /\ j.todo = <<"mark">> => j.item \in Once
    /\ j.todo = <<"pick">> => "name" \in j.user
    /\ j.todo = <<"min">> => DOMAIN j.sent = {"ages"}
    /\ j.todo = <<"pair">> => DOMAIN j.sent = {"ages"} /\ j.item = "ages"
    /\ j.todo = <<"number">> => DOMAIN j.sent = {"distance"}
    /\ j.todo = <<"read", "select", "update">> => DOMAIN j.sent = {j.item}
    /\ j.todo = <<"read", "range", "select", "update", "clear">>
           => DOMAIN j.sent = {"ages"} /\ j.item = "ages"
    /\ j.todo = <<"range", "select", "update", "clear">>
           => "ages" \in DOMAIN j.sent /\ j.item = "ages"

\* What a run is about to write agrees with what is stored, but for what it
\* changes itself and what was changed in the meantime.
Agrees(j) ==
    /\ j.todo \in Unmerged \cup Merged =>
        \A s \in DOMAIN prefs \cap DOMAIN j.sent :
            s = j.item \/ s \in j.during \/ j.sent[s] = prefs[s]
    /\ j.todo \in Merged => DOMAIN prefs \subseteq DOMAIN j.sent \cup j.during

\* Somebody has yet to look at a profile that is complete and not marked so.
LookIsDue ==
    Complete(has) /\ ~missed /\ ~flag => \E r \in Updates : job[r].todo \in Looking

Inv ==
    /\ TypeOK
    /\ "name" \in has
    /\ \A r \in Updates : Fit(job[r]) /\ Agrees(job[r])
    /\ LookIsDue

-----------------------------------------------------------------------------
(* Lists of calls: how each begins and what is left of it. *)

\* The lists that make no demand on what a run carries.
Plain == {<<>>, <<"ask">>} \cup Starting \cup Looking \cup Closing

LEMMA StartingCalls ==
    /\ Head(<<"text">>) = "text" /\ Tail(<<"text">>) = <<>>
    /\ Head(<<"edit">>) = "edit" /\ Tail(<<"edit">>) = <<>>
    /\ Head(<<"photo">>) = "photo" /\ Tail(<<"photo">>) = <<>>
    /\ Head(<<"gps">>) = "gps" /\ Tail(<<"gps">>) = <<>>
    /\ Head(<<"delete">>) = "delete" /\ Tail(<<"delete">>) = <<>>
    /\ Head(<<"check", "text">>) = "check" /\ Tail(<<"check", "text">>) = <<"text">>
    /\ Head(<<"check", "edit">>) = "check" /\ Tail(<<"check", "edit">>) = <<"edit">>
    /\ Head(<<"check", "photo">>) = "check" /\ Tail(<<"check", "photo">>) = <<"photo">>
    /\ Head(<<"check", "gps">>) = "check" /\ Tail(<<"check", "gps">>) = <<"gps">>
    /\ Head(<<"check", "delete">>) = "check" /\ Tail(<<"check", "delete">>) = <<"delete">>
    /\ Head(<<"language">>) = "language" /\ Tail(<<"language">>) = <<>>
    /\ Head(<<"feedback">>) = "feedback" /\ Tail(<<"feedback">>) = <<>>
OBVIOUS

LEMMA AskingCalls ==
    /\ Head(<<"ask">>) = "ask" /\ Tail(<<"ask">>) = <<>>
    /\ Head(<<"pick">>) = "pick" /\ Tail(<<"pick">>) = <<>>
    /\ Head(<<"mark">>) = "mark" /\ Tail(<<"mark">>) = <<>>
OBVIOUS

LEMMA StoringCalls ==
    /\ Head(<<"store">>) = "store" /\ Tail(<<"store">>) = <<>>
    /\ Head(<<"store", "hang up">>) = "store" /\ Tail(<<"store", "hang up">>) = <<"hang up">>
    /\ Head(<<"store", "clear", "look", "ask">>) = "store"
    /\ Tail(<<"store", "clear", "look", "ask">>) = <<"clear", "look", "ask">>
    /\ Head(<<"store", "look">>) = "store" /\ Tail(<<"store", "look">>) = <<"look">>
    /\ Head(<<"store", "look", "clear", "ask">>) = "store"
    /\ Tail(<<"store", "look", "clear", "ask">>) = <<"look", "clear", "ask">>
<1>1. Head(<<"store">>) = "store" /\ Tail(<<"store">>) = <<>>
  OBVIOUS
<1>2. Head(<<"store", "hang up">>) = "store" /\ Tail(<<"store", "hang up">>) = <<"hang up">>
  <2>1. ASSUME NEW x, NEW y PROVE Head(<<x, y>>) = x /\ Tail(<<x, y>>) = <<y>>
    OBVIOUS
  <2> QED
    BY <2>1, Zenon
<1>3. /\ Head(<<"store", "clear", "look", "ask">>) = "store"
      /\ Tail(<<"store", "clear", "look", "ask">>) = <<"clear", "look", "ask">>
  OBVIOUS
<1>4. Head(<<"store", "look">>) = "store" /\ Tail(<<"store", "look">>) = <<"look">>
  OBVIOUS
<1>5. /\ Head(<<"store", "look", "clear", "ask">>) = "store"
      /\ Tail(<<"store", "look", "clear", "ask">>) = <<"look", "clear", "ask">>
  OBVIOUS
<1> QED
  BY <1>1, <1>2, <1>3, <1>4, <1>5

LEMMA LookingCalls ==
    /\ Head(<<"look">>) = "look" /\ Tail(<<"look">>) = <<>>
    /\ Head(<<"look", "ask">>) = "look" /\ Tail(<<"look", "ask">>) = <<"ask">>
    /\ Head(<<"look", "clear", "ask">>) = "look"
    /\ Tail(<<"look", "clear", "ask">>) = <<"clear", "ask">>
    /\ Head(<<"clear", "look", "ask">>) = "clear"
    /\ Tail(<<"clear", "look", "ask">>) = <<"look", "ask">>
    /\ Head(<<"flag">>) = "flag" /\ Tail(<<"flag">>) = <<>>
    /\ Head(<<"flag", "ask">>) = "flag" /\ Tail(<<"flag", "ask">>) = <<"ask">>
    /\ Head(<<"flag", "clear", "ask">>) = "flag"
    /\ Tail(<<"flag", "clear", "ask">>) = <<"clear", "ask">>
OBVIOUS

LEMMA ClosingCalls ==
    /\ Head(<<"clear">>) = "clear" /\ Tail(<<"clear">>) = <<>>
    /\ Head(<<"clear", "ask">>) = "clear" /\ Tail(<<"clear", "ask">>) = <<"ask">>
    /\ Head(<<"hang up">>) = "hang up" /\ Tail(<<"hang up">>) = <<>>
OBVIOUS

LEMMA UnreadCalls ==
    /\ Head(<<"min">>) = "min" /\ Tail(<<"min">>) = <<>>
    /\ Head(<<"number">>) = "number" /\ Tail(<<"number">>) = <<>>
    /\ Head(<<"pair">>) = "pair" /\ Tail(<<"pair">>) = <<>>
    /\ Head(<<"read", "select", "update">>) = "read"
    /\ Tail(<<"read", "select", "update">>) = <<"select", "update">>
    /\ Head(<<"read", "range", "select", "update", "clear">>) = "read"
    /\ Tail(<<"read", "range", "select", "update", "clear">>) = <<"range", "select", "update", "clear">>
    /\ Head(<<"default", "select", "update">>) = "default"
    /\ Tail(<<"default", "select", "update">>) = <<"select", "update">>
OBVIOUS

LEMMA UnmergedCalls ==
    /\ Head(<<"range", "select", "update", "clear">>) = "range"
    /\ Tail(<<"range", "select", "update", "clear">>) = <<"select", "update", "clear">>
    /\ Head(<<"select", "update", "clear">>) = "select"
    /\ Tail(<<"select", "update", "clear">>) = <<"update", "clear">>
    /\ Head(<<"select", "update">>) = "select" /\ Tail(<<"select", "update">>) = <<"update">>
OBVIOUS

LEMMA MergedCalls ==
    /\ Head(<<"update">>) = "update" /\ Tail(<<"update">>) = <<>>
    /\ Head(<<"update", "clear">>) = "update" /\ Tail(<<"update", "clear">>) = <<"clear">>
OBVIOUS

\* Two or three calls put together.
LEMMA TwoCalls ==
    ASSUME NEW x, NEW y
    PROVE  <<x>> \o <<y>> = <<x, y>>
<1> DEFINE S == {x, y}
           s == <<x>> \o <<y>>
           t == <<x, y>>
<1>1. <<x>> \in Seq(S) /\ <<y>> \in Seq(S) /\ Len(<<x>>) = 1 /\ Len(<<y>>) = 1
  OBVIOUS
<1>2. s \in Seq(S) /\ Len(s) = 2 /\ s[1] = x /\ s[2] = y
  BY <1>1
<1>3. t \in Seq(S) /\ Len(t) = 2 /\ t[1] = x /\ t[2] = y
  OBVIOUS
<1> HIDE DEF s, t
<1>4. \A i \in 1..Len(s) : s[i] = t[i]
  BY <1>2, <1>3
<1>5. s = t
  BY <1>2, <1>3, <1>4, Seqs!SeqEqual
<1> QED
  BY <1>5 DEF s, t

LEMMA ThreeCalls ==
    ASSUME NEW x, NEW y, NEW z
    PROVE  <<x>> \o <<y, z>> = <<x, y, z>>
<1> DEFINE S == {x, y, z}
           s == <<x>> \o <<y, z>>
           t == <<x, y, z>>
<1>1. <<x>> \in Seq(S) /\ <<y, z>> \in Seq(S) /\ Len(<<x>>) = 1 /\ Len(<<y, z>>) = 2
  OBVIOUS
<1>2. s \in Seq(S) /\ Len(s) = 3 /\ s[1] = x /\ s[2] = y /\ s[3] = z
  BY <1>1
<1>3. t \in Seq(S) /\ Len(t) = 3 /\ t[1] = x /\ t[2] = y /\ t[3] = z
  OBVIOUS
<1> HIDE DEF s, t
<1>4. \A i \in 1..Len(s) : s[i] = t[i]
  BY <1>2, <1>3
<1>5. s = t
  BY <1>2, <1>3, <1>4, Seqs!SeqEqual
<1> QED
  BY <1>5 DEF s, t

\* The call each kind of list begins with.
LEMMA Heads ==
    ASSUME NEW t
    PROVE  /\ t \in Starting => Head(t) \in {"text", "edit", "photo", "gps", "delete", "check",
                                             "language", "feedback"}
           /\ t \in Asking => Head(t) \in {"ask", "pick", "mark"}
           /\ t \in Storing => Head(t) = "store"
           /\ t \in Looking => Head(t) \in {"look", "flag", "clear"}
           /\ t \in Closing => Head(t) \in {"clear", "hang up"}
           /\ t \in Unread => Head(t) \in {"min", "number", "pair", "read", "default"}
           /\ t \in Unmerged => Head(t) \in {"range", "select"}
           /\ t \in Merged => Head(t) = "update"
<1>1. t \in Starting => Head(t) \in {"text", "edit", "photo", "gps", "delete", "check",
                                     "language", "feedback"}
  BY StartingCalls, Zenon DEF Starting
<1>2. t \in Asking => Head(t) \in {"ask", "pick", "mark"}
  BY AskingCalls, Zenon DEF Asking
<1>3. t \in Storing => Head(t) = "store"
  BY StoringCalls, Zenon DEF Storing
<1>4. t \in Looking => Head(t) \in {"look", "flag", "clear"}
  BY LookingCalls, Zenon DEF Looking
<1>5. t \in Closing => Head(t) \in {"clear", "hang up"}
  BY ClosingCalls, Zenon DEF Closing
<1>6. t \in Unread => Head(t) \in {"min", "number", "pair", "read", "default"}
  BY UnreadCalls, Zenon DEF Unread
<1>7. t \in Unmerged => Head(t) \in {"range", "select"}
  BY UnmergedCalls, Zenon DEF Unmerged
<1>8. t \in Merged => Head(t) = "update"
  BY MergedCalls, Zenon DEF Merged
<1> QED
  BY <1>1, <1>2, <1>3, <1>4, <1>5, <1>6, <1>7, <1>8

\* Only the empty list is empty.
LEMMA NotEmpty ==
    /\ <<>> \notin Starting /\ <<>> \notin Asking /\ <<>> \notin Storing /\ <<>> \notin Looking
    /\ <<>> \notin Closing /\ <<>> \notin Unread /\ <<>> \notin Unmerged /\ <<>> \notin Merged
<1>1. ASSUME NEW x PROVE <<>> # <<x>>
  OBVIOUS
<1>2. ASSUME NEW x, NEW y PROVE <<>> # <<x, y>>
  OBVIOUS
<1>3. ASSUME NEW x, NEW y, NEW z PROVE <<>> # <<x, y, z>>
  OBVIOUS
<1>4. ASSUME NEW x, NEW y, NEW z, NEW u PROVE <<>> # <<x, y, z, u>>
  OBVIOUS
<1>5. ASSUME NEW x, NEW y, NEW z, NEW u, NEW v PROVE <<>> # <<x, y, z, u, v>>
  OBVIOUS
<1> QED
  BY <1>1, <1>2, <1>3, <1>4, <1>5, Zenon
     DEF Starting, Asking, Storing, Looking, Closing, Unread, Unmerged, Merged

\* What kind of list begins with which call.
LEMMA Kinds ==
    ASSUME NEW t \in Lists, t # <<>>
    PROVE  /\ Head(t) \in {"text", "edit", "photo", "gps", "delete", "check", "language", "feedback"}
                 => t \in Starting
           /\ Head(t) \in {"ask", "pick", "mark"} => t \in Asking
           /\ Head(t) = "store" => t \in Storing
           /\ Head(t) \in {"look", "flag"} => t \in Looking
           /\ Head(t) = "clear" => t \in Looking \cup Closing
           /\ Head(t) = "hang up" => t \in Closing
           /\ Head(t) \in {"min", "number", "pair", "read", "default"} => t \in Unread
           /\ Head(t) \in {"range", "select"} => t \in Unmerged
           /\ Head(t) = "update" => t \in Merged
BY Heads DEF Lists

LEMMA PlainIsPlain ==
    ASSUME NEW t \in Plain
    PROVE  /\ t \in Lists
           /\ t \notin Storing /\ t \notin Unread /\ t \notin Unmerged /\ t \notin Merged
           /\ t # <<"mark">> /\ t # <<"pick">>
<1>1. CASE t = <<>>
  <2>1. <<>> # <<"mark">> /\ <<>> # <<"pick">>
    OBVIOUS
  <2> QED
    BY <1>1, <2>1, NotEmpty DEF Lists
<1>2. CASE t = <<"ask">>
  <2>1. Head(t) = "ask" /\ t \in Asking
    BY <1>2, AskingCalls, Zenon DEF Asking
  <2> QED
    BY <2>1, Heads, AskingCalls DEF Lists
<1>3. CASE t \in Starting \cup Looking \cup Closing
  BY <1>3, AskingCalls, Heads DEF Lists
<1> QED
  BY <1>1, <1>2, <1>3 DEF Plain

\* The special lists and their kinds.
LEMMA Special ==
    /\ <<"ask">> \in Asking /\ <<"pick">> \in Asking /\ <<"mark">> \in Asking
    /\ <<"min">> \in Unread /\ <<"pair">> \in Unread /\ <<"number">> \in Unread
    /\ <<"read", "select", "update">> \in Unread
    /\ <<"default", "select", "update">> \in Unread
    /\ <<"read", "range", "select", "update", "clear">> \in Unread
    /\ <<"range", "select", "update", "clear">> \in Unmerged
    /\ <<"select", "update", "clear">> \in Unmerged /\ <<"select", "update">> \in Unmerged
    /\ <<"store">> \in Storing /\ <<"store", "hang up">> \in Storing
    /\ <<"store", "clear", "look", "ask">> \in Storing /\ <<"store", "look">> \in Storing
    /\ <<"store", "look", "clear", "ask">> \in Storing
    /\ <<"clear">> \in Closing /\ <<"clear", "ask">> \in Closing /\ <<"hang up">> \in Closing
    /\ <<"clear", "look", "ask">> \in Looking
BY Zenon DEF Asking, Unread, Unmerged, Storing, Closing, Looking

-----------------------------------------------------------------------------
(* The rest of a list, by the call it begins with. *)

LEMMA CheckRest ==
    ASSUME NEW t \in Lists, t # <<>>, Head(t) = "check"
    PROVE  Tail(t) \in Starting
<1>1. t \in Starting
  BY Kinds
<1> QED
  BY <1>1, StartingCalls, Zenon DEF Starting

LEMMA StoreRest ==
    ASSUME NEW t \in Lists, t # <<>>, Head(t) = "store"
    PROVE  \/ Tail(t) = <<>>
           \/ t = <<"store", "hang up">> /\ Tail(t) = <<"hang up">>
           \/ Tail(t) \in Looking
<1>1. t \in Storing
  BY Kinds
<1> QED
  BY <1>1, StoringCalls, Zenon DEF Storing, Looking

LEMMA ClearRest ==
    ASSUME NEW t \in Lists, t # <<>>, Head(t) = "clear"
    PROVE  \/ t \in Looking /\ Tail(t) \in Looking
           \/ t \notin Looking /\ Tail(t) \in {<<>>, <<"ask">>}
<1>1. CASE t \in Looking
  BY <1>1, LookingCalls, Zenon DEF Looking
<1>2. CASE t \notin Looking
  <2>1. t \in Closing
    BY <1>2, Kinds
  <2> QED
    BY <1>2, <2>1, ClosingCalls, Zenon DEF Closing
<1> QED
  BY <1>1, <1>2

LEMMA LookRest ==
    ASSUME NEW t \in Lists, t # <<>>, Head(t) \in {"look", "flag"}
    PROVE  Tail(t) \in Plain /\ <<"flag">> \o Tail(t) \in Looking
<1>1. t \in Looking
  BY Kinds
<1>2. Tail(t) \in {<<>>, <<"ask">>, <<"clear", "ask">>}
  BY <1>1, LookingCalls, Zenon DEF Looking
<1>3. /\ <<"flag">> \o <<>> = <<"flag">>
      /\ <<"flag">> \o <<"ask">> = <<"flag", "ask">>
      /\ <<"flag">> \o <<"clear", "ask">> = <<"flag", "clear", "ask">>
  <2>1. <<"flag">> \o <<>> = <<"flag">>
    OBVIOUS
  <2>2. <<"flag">> \o <<"ask">> = <<"flag", "ask">>
    BY TwoCalls, Zenon
  <2>3. <<"flag">> \o <<"clear", "ask">> = <<"flag", "clear", "ask">>
    BY ThreeCalls, Zenon
  <2> QED
    BY <2>1, <2>2, <2>3
<1> QED
  BY <1>2, <1>3, Zenon DEF Plain, Looking, Closing

LEMMA HangUpRest ==
    ASSUME NEW t \in Lists, t # <<>>, Head(t) = "hang up"
    PROVE  Tail(t) = <<>>
<1>1. t \in Closing
  BY Kinds
<1> QED
  BY <1>1, ClosingCalls, Zenon DEF Closing

LEMMA ReadRest ==
    ASSUME NEW t \in Lists, t # <<>>, Head(t) = "read"
    PROVE  \/ t = <<"read", "select", "update">> /\ Tail(t) = <<"select", "update">>
           \/ /\ t = <<"read", "range", "select", "update", "clear">>
              /\ Tail(t) = <<"range", "select", "update", "clear">>
<1>1. t \in Unread
  BY Kinds
<1> QED
  BY <1>1, UnreadCalls, Zenon DEF Unread

LEMMA DefaultRest ==
    ASSUME NEW t \in Lists, t # <<>>, Head(t) = "default"
    PROVE  Tail(t) = <<"select", "update">>
<1>1. t \in Unread
  BY Kinds
<1> QED
  BY <1>1, UnreadCalls, Zenon DEF Unread

LEMMA RangeRest ==
    ASSUME NEW t \in Lists, t # <<>>, Head(t) = "range"
    PROVE  /\ t = <<"range", "select", "update", "clear">>
           /\ Tail(t) = <<"select", "update", "clear">>
<1>1. t \in Unmerged
  BY Kinds
<1> QED
  BY <1>1, UnmergedCalls, Zenon DEF Unmerged

LEMMA SelectRest ==
    ASSUME NEW t \in Lists, t # <<>>, Head(t) = "select"
    PROVE  Tail(t) \in Merged
<1>1. t \in Unmerged
  BY Kinds
<1> QED
  BY <1>1, UnmergedCalls, Zenon DEF Unmerged, Merged

LEMMA UpdateRest ==
    ASSUME NEW t \in Lists, t # <<>>, Head(t) = "update"
    PROVE  Tail(t) = <<>> \/ Tail(t) = <<"clear">>
<1>1. t \in Merged
  BY Kinds
<1> QED
  BY <1>1, MergedCalls, Zenon DEF Merged

-----------------------------------------------------------------------------
(* Numbers and preferences. *)

\* The least number exists.
LEMMA YoungestIsLeast == Youngest \in Numbers /\ \A n \in Numbers : Youngest <= n
<1>1. Numbers \subseteq Nat /\ Numbers # {}
  BY ConstantsAssumption
<1>2. PICK n \in Numbers : \A m \in Numbers : ~(<<m, n>> \in OpToRel(<, Nat))
  BY <1>1, WFMin, NatLessThanWellFounded
<1>3. ASSUME NEW m \in Numbers PROVE n <= m
  <2>1. ~(m < n)
    BY <1>1, <1>2 DEF OpToRel
  <2> QED
    BY <2>1, <1>1
<1> QED
  BY <1>3 DEF Youngest

\* What the preferences hold.
LEMMA SettingsHeld ==
    ASSUME NEW f \in Preferences
    PROVE  /\ DOMAIN f \subseteq Settings
           /\ "ages" \in DOMAIN f => f.ages \in Ranges
           /\ "distance" \in DOMAIN f => f.distance \in Numbers
<1>1. DOMAIN f \subseteq Settings
  BY DEF Preferences, Settings
<1>2. "ages" \in DOMAIN f => f.ages \in Ranges
  BY DEF Preferences
<1>3. "distance" \in DOMAIN f => f.distance \in Numbers
  BY DEF Preferences
<1> QED
  BY <1>1, <1>2, <1>3

LEMMA PreferencesAre ==
    ASSUME NEW f, f = [s \in DOMAIN f |-> f[s]], DOMAIN f \subseteq Settings,
           "ages" \in DOMAIN f => f.ages \in Ranges,
           "distance" \in DOMAIN f => f.distance \in Numbers
    PROVE  f \in Preferences
<1>1. CASE DOMAIN f = {}
  BY <1>1 DEF Preferences
<1>2. CASE DOMAIN f = {"ages"}
  <2>1. f = [ages |-> f.ages]
    BY <1>2
  <2> QED
    BY <1>2, <2>1 DEF Preferences
<1>3. CASE DOMAIN f = {"distance"}
  <2>1. f = [distance |-> f.distance]
    BY <1>3
  <2> QED
    BY <1>3, <2>1 DEF Preferences
<1>4. CASE DOMAIN f = {"ages", "distance"}
  <2>1. f = [ages |-> f.ages, distance |-> f.distance]
    BY <1>4
  <2> QED
    BY <1>4, <2>1 DEF Preferences
<1> QED
  BY <1>1, <1>2, <1>3, <1>4 DEF Settings

\* Preferences merged are preferences: what is sent goes before what is stored.
LEMMA MergeIsPreferences ==
    ASSUME NEW f \in Preferences, NEW g \in Preferences
    PROVE  /\ Merge(f, g) \in Preferences
           /\ DOMAIN Merge(f, g) = DOMAIN f \cup DOMAIN g
           /\ \A s \in DOMAIN f : Merge(f, g)[s] = f[s]
           /\ \A s \in DOMAIN g \ DOMAIN f : Merge(f, g)[s] = g[s]
<1> DEFINE m == Merge(f, g)
<1>1. /\ DOMAIN m = DOMAIN f \cup DOMAIN g
      /\ \A s \in DOMAIN f \cup DOMAIN g : m[s] = IF s \in DOMAIN f THEN f[s] ELSE g[s]
      /\ m = [s \in DOMAIN f \cup DOMAIN g |-> m[s]]
  BY DEF Merge
<1> HIDE DEF m
<1>2. "ages" \in DOMAIN m => m.ages \in Ranges
  BY <1>1, SettingsHeld
<1>3. "distance" \in DOMAIN m => m.distance \in Numbers
  BY <1>1, SettingsHeld
<1>4. DOMAIN m \subseteq Settings
  BY <1>1, SettingsHeld
<1>5. m \in Preferences
  BY <1>1, <1>2, <1>3, <1>4, PreferencesAre
<1> QED
  BY <1>1, <1>5 DEF m

\* A minimum not above the maximum keeps a range a range.
LEMMA MinimumKept ==
    ASSUME NEW f \in Preferences, "ages" \in DOMAIN f, NEW n \in Numbers, n <= f.ages[2]
    PROVE  /\ [f EXCEPT !.ages[1] = n] \in Preferences
           /\ DOMAIN [f EXCEPT !.ages[1] = n] = DOMAIN f
           /\ \A s \in DOMAIN f \ {"ages"} : [f EXCEPT !.ages[1] = n][s] = f[s]
<1> DEFINE g == [f EXCEPT !.ages[1] = n]
<1>1. /\ DOMAIN g = DOMAIN f /\ g.ages = [f.ages EXCEPT ![1] = n]
      /\ \A s \in DOMAIN f \ {"ages"} : g[s] = f[s]
      /\ g = [s \in DOMAIN g |-> g[s]]
  OBVIOUS
<1>2. f.ages \in Ranges
  BY SettingsHeld
<1>3. g.ages \in Ranges
  BY <1>1, <1>2 DEF Ranges
<1>4. DOMAIN g \subseteq Settings
  BY <1>1, SettingsHeld
<1>5. "distance" \in DOMAIN g => g.distance \in Numbers
  BY <1>1, SettingsHeld
<1> HIDE DEF g
<1>6. g \in Preferences
  BY <1>1, <1>3, <1>4, <1>5, PreferencesAre
<1> QED
  BY <1>1, <1>6 DEF g

LEMMA AgesArePreferences ==
    ASSUME NEW n \in Numbers, NEW m \in Numbers, n <= m
    PROVE  [ages |-> <<n, m>>] \in Preferences
<1>1. <<n, m>> \in Ranges
  BY DEF Ranges
<1> QED
  BY <1>1 DEF Preferences

LEMMA DistanceIsPreferences ==
    ASSUME NEW n \in Numbers
    PROVE  [distance |-> n] \in Preferences
BY DEF Preferences

LEMMA DefaultsArePreferences == Defaults \in Preferences
<1>1. <<Youngest, Youngest>> \in Ranges
  BY YoungestIsLeast, ConstantsAssumption DEF Ranges
<1> QED
  BY <1>1, YoungestIsLeast DEF Preferences, Defaults

LEMMA NothingIsPreferences == <<>> \in Preferences /\ DOMAIN <<>> = {}
BY DEF Preferences

-----------------------------------------------------------------------------
(* What every step of a run has in common. *)

LEMMA IdleIsPlain == Idle \in Jobs /\ Idle.todo = <<>>
<1>1. <<>> \in Lists
  BY DEF Lists
<1>2. {} \in SUBSET Fields /\ {} \in SUBSET Settings /\ "none" \in Items
  BY DEF Items
<1>3. <<>> \in Preferences
  BY NothingIsPreferences
<1> QED
  BY <1>1, <1>2, <1>3, Zenon DEF Idle, Jobs

LEMMA Planned ==
    ASSUME NEW j \in Jobs, NEW t \in Lists
    PROVE  /\ [j EXCEPT !.todo = t] \in Jobs
           /\ [j EXCEPT !.todo = t].todo = t
           /\ [j EXCEPT !.todo = t].item = j.item
           /\ [j EXCEPT !.todo = t].user = j.user
           /\ [j EXCEPT !.todo = t].sent = j.sent
           /\ [j EXCEPT !.todo = t].during = j.during
BY DEF Jobs

\* Most lists ask nothing of what a run carries.
LEMMA PlainFits ==
    ASSUME NEW j, j.todo \in Plain
    PROVE  Fit(j) /\ Agrees(j)
<1>1. Fit(j)
  BY PlainIsPlain, Special DEF Fit
<1>2. Agrees(j)
  BY PlainIsPlain DEF Agrees
<1> QED
  BY <1>1, <1>2

\* Run r becomes j, which fits; nobody else's run and no setting changes, and
\* if a look at the profile is due now, it was before or j has it to do.
LEMMA Turn ==
    ASSUME Inv, NEW r \in Updates, NEW j \in Jobs, Become(r, j), Fit(j), Agrees(j),
           UNCHANGED <<half, prefs>>, has' \subseteq Fields, "name" \in has',
           flag' \in BOOLEAN, missed' \in BOOLEAN, seen' \subseteq Once,
           conv' \in [field : Items, min : Numbers],
           Complete(has') /\ ~missed' /\ ~flag'
               => \/ j.todo \in Looking
                  \/ Complete(has) /\ ~missed /\ ~flag /\ job[r].todo \notin Looking
    PROVE  Inv'
<1> DEFINE k == IF j.todo = <<>> THEN Idle ELSE j
<1>1. k \in Jobs /\ Fit(k) /\ Agrees(k) /\ (j.todo \in Looking => k.todo \in Looking)
  <2>1. CASE j.todo = <<>>
    <3>1. Idle.todo \in Plain
      BY IdleIsPlain DEF Plain
    <3> QED
      BY <2>1, <3>1, IdleIsPlain, PlainFits, NotEmpty
  <2> QED
    BY <2>1
<1>2. /\ job' \in [Updates -> Jobs] /\ job'[r] = k
      /\ \A q \in Updates \ {r} : job'[q] = job[q]
  BY <1>1 DEF Become, Inv, TypeOK
<1> HIDE DEF k
<1>3. TypeOK'
  BY <1>2 DEF Inv, TypeOK
<1>4. ASSUME NEW q \in Updates
      PROVE  Fit(job'[q]) /\ Agrees(job'[q])
  BY <1>1, <1>2 DEF Inv
<1>5. ASSUME NEW x, Agrees(x) PROVE Agrees(x)'
  BY <1>5 DEF Agrees
<1>6. LookIsDue'
  <2> SUFFICES ASSUME Complete(has'), ~missed', ~flag'
               PROVE  \E q \in Updates : job'[q].todo \in Looking
    BY DEF LookIsDue
  <2>1. CASE j.todo \in Looking
    BY <2>1, <1>1, <1>2
  <2>2. CASE Complete(has) /\ ~missed /\ ~flag /\ job[r].todo \notin Looking
    <3>1. PICK q \in Updates : job[q].todo \in Looking
      BY <2>2 DEF Inv, LookIsDue
    <3> QED
      BY <2>2, <3>1, <1>2
  <2> QED
    BY <2>1, <2>2
<1>7. \A q \in Updates : (Fit(job[q]) /\ Agrees(job[q]))'
  BY <1>4, <1>5 
<1> QED
  BY <1>3, <1>6, <1>7 DEF Inv

\* The same for a step that leaves the profile alone.
LEMMA QuietTurn ==
    ASSUME Inv, NEW r \in Updates, NEW j \in Jobs, Become(r, j), Fit(j), Agrees(j),
           UNCHANGED <<half, has, flag, seen, missed, prefs>>,
           conv' \in [field : Items, min : Numbers],
           job[r].todo \in Looking => j.todo \in Looking
    PROVE  Inv'
<1>1. /\ has' \subseteq Fields /\ "name" \in has' /\ flag' \in BOOLEAN /\ missed' \in BOOLEAN
      /\ seen' \subseteq Once
  BY DEF Inv, TypeOK
<1>2. Complete(has') /\ ~missed' /\ ~flag'
               => \/ j.todo \in Looking
                  \/ Complete(has) /\ ~missed /\ ~flag /\ job[r].todo \notin Looking
  OBVIOUS
<1> QED
  BY <1>1, <1>2, Turn

\* A run at one of these calls has no look at the profile ahead of it.
LEMMA NoLookAhead ==
    ASSUME Inv, NEW r \in Updates, Busy(r), Head(job[r].todo) \notin {"look", "flag", "clear"}
    PROVE  job[r].todo \notin Looking
BY Heads

LEMMA JobIsTyped ==
    ASSUME Inv, NEW r \in Updates
    PROVE  /\ job[r] \in Jobs /\ job[r].todo \in Lists /\ job[r].item \in Items
           /\ job[r].user \subseteq Fields /\ job[r].sent \in Preferences
           /\ job[r].during \subseteq Settings
           /\ Fit(job[r]) /\ Agrees(job[r])
BY DEF Inv, TypeOK, Jobs

\* A run that goes on with a list that makes no demands.
LEMMA PlainTurn ==
    ASSUME Inv, NEW r \in Updates, NEW t \in Plain, Plan(r, t),
           UNCHANGED <<half, has, flag, seen, missed, prefs>>,
           conv' \in [field : Items, min : Numbers],
           job[r].todo \in Looking => t \in Looking
    PROVE  Inv'
<1> DEFINE j == [job[r] EXCEPT !.todo = t]
<1>1. t \in Lists
  BY PlainIsPlain
<1>2. j \in Jobs /\ j.todo = t
  BY <1>1, JobIsTyped, Planned
<1>3. Become(r, j)
  BY DEF Plan
<1> HIDE DEF j
<1>4. Fit(j) /\ Agrees(j)
  BY <1>2, PlainFits
<1> QED
  BY <1>2, <1>3, <1>4, QuietTurn

-----------------------------------------------------------------------------
(* The actions, one by one. *)

LEMMA InitInv == Init => Inv
<1> SUFFICES ASSUME Init PROVE Inv
  OBVIOUS
<1>1. "name" \in Fields /\ Given \subseteq Fields /\ "name" \in Given
  BY ConstantsAssumption
<1>2. conv \in [field : Items, min : Numbers]
  <2>1. conv = [field |-> "none", min |-> Youngest]
    BY DEF Init, Closed, Open
  <2> QED
    BY <2>1, YoungestIsLeast DEF Items
<1>3. flag \in BOOLEAN
  BY DEF Init, Complete
<1>4. job \in [Updates -> Jobs]
  BY IdleIsPlain DEF Init
<1>5. TypeOK
  <2>1. half \in {"profile", "settings"} /\ has \subseteq Fields /\ missed \in BOOLEAN
    BY <1>1 DEF Init
  <2>2. seen \subseteq Once /\ prefs \in Preferences
    BY NothingIsPreferences DEF Init
  <2> QED
    BY <1>2, <1>3, <1>4, <2>1, <2>2 DEF TypeOK
<1>6. ASSUME NEW r \in Updates PROVE Fit(job[r]) /\ Agrees(job[r])
  BY IdleIsPlain, PlainFits DEF Init, Plain
<1>7. LookIsDue
  BY DEF LookIsDue, Init
<1> QED
  BY <1>1, <1>5, <1>6, <1>7 DEF Inv, Init

\* What arrives is set down with what the user sent; only the handlers of the
\* profile go through the check.
LEMMA Received ==
    ASSUME Inv, NEW r \in Updates, NEW todo \in Lists, NEW item \in Items, NEW sent \in Preferences,
           Receive(r, todo, item, sent), todo # <<>>,
           \/ half = "settings"
           \/ Head(todo) \in Unchecked
           \/ todo \in {<<"text">>, <<"edit">>, <<"photo">>, <<"gps">>, <<"delete">>},
           LET j == [Idle EXCEPT !.todo = todo, !.item = item, !.sent = sent]
           IN  Fit(j) /\ Agrees(j)
    PROVE  Inv'
<1> DEFINE t == IF conv # Closed \/ half = "settings" \/ Head(todo) \in Unchecked THEN todo
                ELSE <<"check">> \o todo
           j == [Idle EXCEPT !.todo = t, !.item = item, !.sent = sent]
<1>1. t = todo \/ t \in Starting
  <2>1. /\ <<"check">> \o <<"text">> = <<"check", "text">>
        /\ <<"check">> \o <<"edit">> = <<"check", "edit">>
        /\ <<"check">> \o <<"photo">> = <<"check", "photo">>
        /\ <<"check">> \o <<"gps">> = <<"check", "gps">>
        /\ <<"check">> \o <<"delete">> = <<"check", "delete">>
    BY TwoCalls, Zenon
  <2>2. ASSUME todo \in {<<"text">>, <<"edit">>, <<"photo">>, <<"gps">>, <<"delete">>}
        PROVE  <<"check">> \o todo \in Starting
    BY <2>1, <2>2, Zenon DEF Starting
  <2> QED
    BY <2>2
<1>2. t \in Lists
  BY <1>1 DEF Lists
<1> HIDE DEF t
<1>3. j \in Jobs /\ j.todo = t
  BY <1>2, IdleIsPlain DEF Idle, Jobs
<1>4. Fit(j) /\ Agrees(j)
  <2>1. CASE t = todo
    BY <2>1
  <2>2. CASE t \in Starting
    <3>1. j.todo \in Plain
      BY <2>2, <1>3 DEF Plain
    <3> QED
      BY <3>1, PlainFits
  <2> QED
    BY <1>1, <2>1, <2>2
<1>5. Become(r, j) /\ UNCHANGED <<half, has, flag, seen, missed, prefs, conv>>
  BY DEF Receive, t, profile
<1>6. job[r].todo \notin Looking
  BY NotEmpty DEF Receive, Busy
<1>7. conv' \in [field : Items, min : Numbers]
  BY <1>5 DEF Inv, TypeOK
<1> HIDE DEF j
<1> QED
  BY <1>3, <1>4, <1>5, <1>6, <1>7, QuietTurn

LEMMA FieldsAre ==
    /\ Len(Order) = 8
    /\ "name" \in Fields /\ "interests" \in Fields /\ "media" \in Fields /\ "phone" \in Fields
    /\ "location" \in Fields
    /\ "name" \in Required /\ "media" \in Required /\ "phone" \notin Required
    /\ Once \subseteq Fields
<1>1. /\ Len(Order) = 8 /\ Order[1] = "name" /\ Order[7] = "interests" /\ Order[6] = "media"
      /\ Order[8] = "phone" /\ Order[5] = "location"
  BY DEF Order
<1> QED
  BY <1>1 DEF Fields, Once, Required

\* What is demanded of a run by the kind of its list.
LEMMA StoringFits ==
    ASSUME NEW j, j.todo \in Storing, j.item \in Fields,
           j.todo = <<"store", "hang up">> => j.item = "phone"
    PROVE  Fit(j) /\ Agrees(j)
<1>1. Head(j.todo) = "store"
  BY Heads
<1>2. Fit(j)
  BY <1>1, AskingCalls, UnreadCalls, UnmergedCalls DEF Fit
<1>3. Agrees(j)
  BY <1>1, Heads DEF Agrees
<1> QED
  BY <1>2, <1>3

LEMMA UnreadFits ==
    ASSUME NEW j, j.todo \in Unread,
           j.todo = <<"min">> => DOMAIN j.sent = {"ages"},
           j.todo = <<"pair">> => DOMAIN j.sent = {"ages"} /\ j.item = "ages",
           j.todo = <<"number">> => DOMAIN j.sent = {"distance"},
           j.todo = <<"read", "select", "update">> => DOMAIN j.sent = {j.item},
           j.todo = <<"read", "range", "select", "update", "clear">>
               => DOMAIN j.sent = {"ages"} /\ j.item = "ages"
    PROVE  Fit(j) /\ Agrees(j)
<1>1. Head(j.todo) \in {"min", "number", "pair", "read", "default"}
  BY Heads
<1>2. Fit(j)
  BY <1>1, Heads, AskingCalls, UnmergedCalls, StoringCalls DEF Fit
<1>3. Agrees(j)
  BY <1>1, Heads DEF Agrees
<1> QED
  BY <1>2, <1>3

LEMMA UnmergedFits ==
    ASSUME NEW j, j.todo \in Unmerged,
           j.todo = <<"range", "select", "update", "clear">>
               => "ages" \in DOMAIN j.sent /\ j.item = "ages",
           \A s \in DOMAIN prefs \cap DOMAIN j.sent :
               s = j.item \/ s \in j.during \/ j.sent[s] = prefs[s]
    PROVE  Fit(j) /\ Agrees(j)
<1>1. Head(j.todo) \in {"range", "select"}
  BY Heads
<1>2. Fit(j)
  BY <1>1, Heads, AskingCalls, UnreadCalls, StoringCalls DEF Fit
<1>3. Agrees(j)
  BY <1>1, Heads DEF Agrees
<1> QED
  BY <1>2, <1>3

LEMMA MergedFits ==
    ASSUME NEW j, j.todo \in Merged,
           \A s \in DOMAIN prefs \cap DOMAIN j.sent :
               s = j.item \/ s \in j.during \/ j.sent[s] = prefs[s],
           DOMAIN prefs \subseteq DOMAIN j.sent \cup j.during
    PROVE  Fit(j) /\ Agrees(j)
<1>1. Head(j.todo) = "update"
  BY Heads
<1>2. Fit(j)
  BY <1>1, Heads, AskingCalls, UnreadCalls, UnmergedCalls, StoringCalls DEF Fit
<1>3. Agrees(j)
  BY DEF Agrees
<1> QED
  BY <1>2, <1>3

\* The lists a settings button starts differ from each other.
LEMMA UnreadDiffer ==
    ASSUME NEW t, NEW u, NEW v
    PROVE  /\ <<"read", t, u>> # <<"read", "range", t, u, v>>
           /\ <<"read", t, u>> # <<"min">> /\ <<"read", t, u>> # <<"pair">>
OBVIOUS

LEMMA ReceivedPlain ==
    ASSUME Inv, NEW r \in Updates, NEW todo \in Starting, NEW item \in Items, NEW sent \in Preferences,
           Receive(r, todo, item, sent),
           \/ Head(todo) \in Unchecked
           \/ half = "settings"
           \/ todo \in {<<"text">>, <<"edit">>, <<"photo">>, <<"gps">>, <<"delete">>}
    PROVE  Inv'
<1> DEFINE j == [Idle EXCEPT !.todo = todo, !.item = item, !.sent = sent]
<1>1. j.todo = todo
  BY DEF Idle
<1> HIDE DEF j
<1>2. Fit(j) /\ Agrees(j)
  BY <1>1, PlainFits DEF Plain
<1>3. todo \in Lists /\ todo # <<>>
  BY NotEmpty DEF Lists
<1> QED
  BY <1>2, <1>3, Received DEF j

LEMMA StartingAre ==
    /\ <<"text">> \in Starting /\ <<"edit">> \in Starting /\ <<"photo">> \in Starting
    /\ <<"gps">> \in Starting /\ <<"delete">> \in Starting
    /\ <<"language">> \in Starting /\ <<"feedback">> \in Starting
BY Zenon DEF Starting

LEMMA SayInv == ASSUME Inv, NEW r \in Updates, Say(r) PROVE Inv'
<1>1. PICK said \in {"answer", "cancel", "skip", "done"} : Receive(r, <<"text">>, said, <<>>)
  BY DEF Say
<1>2. said \in Items
  BY DEF Items
<1> QED
  BY <1>1, <1>2, StartingAre, NothingIsPreferences, ReceivedPlain

LEMMA TapInv == ASSUME Inv, NEW r \in Updates, Tap(r) PROVE Inv'
<1>1. CASE \E f \in Menu : Receive(r, <<"edit">>, f, <<>>)
  <2>1. PICK f \in Menu : Receive(r, <<"edit">>, f, <<>>)
    BY <1>1
  <2>2. f \in Items
    BY ConstantsAssumption DEF Items
  <2> QED
    BY <2>1, <2>2, StartingAre, NothingIsPreferences, ReceivedPlain
<1>2. CASE \E step \in {"photo", "gps", "delete", "language", "feedback"} :
                Receive(r, <<step>>, "none", <<>>)
  <2>1. PICK step \in {"photo", "gps", "delete", "language", "feedback"} :
                Receive(r, <<step>>, "none", <<>>)
    BY <1>2
  <2>2. "none" \in Items
    BY DEF Items
  <2>3. <<step>> \in Starting
    BY StartingAre
  <2>4. \/ Head(<<step>>) \in Unchecked
        \/ <<step>> \in {<<"text">>, <<"edit">>, <<"photo">>, <<"gps">>, <<"delete">>}
    BY StartingCalls DEF Unchecked
  <2> QED
    BY <2>1, <2>2, <2>3, <2>4, NothingIsPreferences, ReceivedPlain
<1> QED
  BY <1>1, <1>2 DEF Tap

LEMMA ShareContactInv == ASSUME Inv, NEW r \in Updates, ShareContact(r) PROVE Inv'
<1> DEFINE t == <<"store", "hang up">>
           j == [Idle EXCEPT !.todo = t, !.item = "phone", !.sent = <<>>]
<1>1. t \in Storing /\ t # <<>> /\ Head(t) \in Unchecked
  BY Special, StoringCalls, NotEmpty DEF Unchecked
<1>2. j.todo = t /\ j.item = "phone"
  BY DEF Idle
<1>3. Receive(r, t, "phone", <<>>)
  BY DEF ShareContact
<1>4. "phone" \in Items /\ "phone" \in Fields
  BY FieldsAre DEF Items
<1> HIDE DEF t, j
<1>5. Fit(j) /\ Agrees(j)
  BY <1>1, <1>2, <1>4, StoringFits
<1>6. t \in Lists
  BY <1>1 DEF Lists
<1> QED
  BY <1>1, <1>3, <1>4, <1>5, <1>6, NothingIsPreferences, Received DEF j

\* A settings button or a typed number, with what it is about and what it sends.
LEMMA ReceivedUnread ==
    ASSUME Inv, NEW r \in Updates, NEW todo \in Unread, NEW item \in Items, NEW sent \in Preferences,
           half = "settings", Receive(r, todo, item, sent),
           todo = <<"min">> => DOMAIN sent = {"ages"},
           todo = <<"pair">> => DOMAIN sent = {"ages"} /\ item = "ages",
           todo = <<"number">> => DOMAIN sent = {"distance"},
           todo = <<"read", "select", "update">> => DOMAIN sent = {item},
           todo = <<"read", "range", "select", "update", "clear">>
               => DOMAIN sent = {"ages"} /\ item = "ages"
    PROVE  Inv'
<1> DEFINE j == [Idle EXCEPT !.todo = todo, !.item = item, !.sent = sent]
<1>1. j.todo = todo /\ j.item = item /\ j.sent = sent
  BY DEF Idle
<1> HIDE DEF j
<1>2. Fit(j) /\ Agrees(j)
  BY <1>1, UnreadFits
<1>3. todo \in Lists /\ todo # <<>>
  BY NotEmpty DEF Lists
<1> QED
  BY <1>2, <1>3, Received DEF j

LEMMA SetInv == ASSUME Inv, NEW r \in Updates, Set(r) PROVE Inv'
<1>0. half = "settings" /\ "ages" \in Items /\ "distance" \in Items /\ "none" \in Items
      /\ "cancel" \in Items
  BY DEF Set, Items
<1>1. ASSUME NEW n \in Numbers, NEW m \in Numbers, n <= m
      PROVE  /\ [ages |-> <<n, m>>] \in Preferences
             /\ DOMAIN [ages |-> <<n, m>>] = {"ages"}
  BY <1>1, AgesArePreferences
<1>2. ASSUME NEW n \in Numbers
      PROVE  /\ n <= n /\ [distance |-> n] \in Preferences
             /\ DOMAIN [distance |-> n] = {"distance"}
  BY ConstantsAssumption, DistanceIsPreferences
<1>3. ASSUME NEW n \in Numbers, Receive(r, <<"min">>, "ages", [ages |-> <<n, n>>])
      PROVE  Inv'
  <2>1. /\ <<"min">> # <<"pair">> /\ <<"min">> # <<"number">>
        /\ <<"min">> # <<"read", "select", "update">>
        /\ <<"min">> # <<"read", "range", "select", "update", "clear">>
    BY UnreadCalls
  <2> QED
    BY <1>0, <1>1, <1>2, <1>3, <2>1, Special, ReceivedUnread
<1>4. ASSUME NEW n \in Numbers,
             Receive(r, <<"read", "range", "select", "update", "clear">>, "ages", [ages |-> <<n, n>>])
      PROVE  Inv'
  <2> DEFINE t == <<"read", "range", "select", "update", "clear">>
  <2>1. /\ t # <<"pair">> /\ t # <<"number">> /\ t # <<"min">>
        /\ t # <<"read", "select", "update">>
    BY UnreadCalls, UnreadDiffer
  <2>2. t \in Unread
    BY Special
  <2>3. Receive(r, t, "ages", [ages |-> <<n, n>>])
    BY <1>4
  <2> HIDE DEF t
  <2> QED
    BY <1>0, <1>1, <1>2, <2>1, <2>2, <2>3, ReceivedUnread
<1>5. ASSUME NEW n \in Numbers, Receive(r, <<"number">>, "none", [distance |-> n])
      PROVE  Inv'
  <2>1. /\ <<"number">> # <<"pair">> /\ <<"number">> # <<"min">>
        /\ <<"number">> # <<"read", "select", "update">>
        /\ <<"number">> # <<"read", "range", "select", "update", "clear">>
    BY UnreadCalls
  <2> QED
    BY <1>0, <1>2, <1>5, <2>1, Special, ReceivedUnread
<1>6. ASSUME NEW n \in Numbers,
             Receive(r, <<"read", "select", "update">>, "distance", [distance |-> n])
      PROVE  Inv'
  <2> DEFINE t == <<"read", "select", "update">>
  <2>1. /\ t # <<"pair">> /\ t # <<"number">> /\ t # <<"min">>
        /\ t # <<"read", "range", "select", "update", "clear">>
    BY UnreadCalls, UnreadDiffer
  <2>2. t \in Unread
    BY Special
  <2>3. Receive(r, t, "distance", [distance |-> n])
    BY <1>6
  <2> HIDE DEF t
  <2> QED
    BY <1>0, <1>2, <2>1, <2>2, <2>3, ReceivedUnread
<1>7. ASSUME NEW n \in Numbers, NEW m \in Numbers, n <= m,
             Receive(r, <<"pair">>, "ages", [ages |-> <<n, m>>])
      PROVE  Inv'
  <2>1. /\ <<"pair">> # <<"min">> /\ <<"pair">> # <<"number">>
        /\ <<"pair">> # <<"read", "select", "update">>
        /\ <<"pair">> # <<"read", "range", "select", "update", "clear">>
    BY UnreadCalls
  <2> QED
    BY <1>0, <1>1, <1>7, <2>1, Special, ReceivedUnread
<1>8. ASSUME NEW f \in {"age-range", "age-range max", "distance"},
             Receive(r, <<"edit">>, f, <<>>)
      PROVE  Inv'
  <2>1. f \in Items
    BY DEF Items
  <2> QED
    BY <1>0, <1>8, <2>1, StartingAre, NothingIsPreferences, ReceivedPlain
<1>9. ASSUME Receive(r, <<"text">>, "cancel", <<>>)
      PROVE  Inv'
  BY <1>0, <1>9, StartingAre, NothingIsPreferences, ReceivedPlain
<1>10. ASSUME Receive(r, <<"default", "select", "update">>, "none", Defaults)
       PROVE  Inv'
  <2> DEFINE t == <<"default", "select", "update">>
  <2>1. /\ t # <<"pair">> /\ t # <<"number">> /\ t # <<"min">>
        /\ t # <<"read", "select", "update">>
        /\ t # <<"read", "range", "select", "update", "clear">>
    BY UnreadCalls
  <2>2. t \in Unread
    BY Special
  <2>3. Receive(r, t, "none", Defaults)
    BY <1>10
  <2> HIDE DEF t
  <2> QED
    BY <1>0, <2>1, <2>2, <2>3, DefaultsArePreferences, ReceivedUnread
<1> QED
  BY <1>3, <1>4, <1>5, <1>6, <1>7, <1>8, <1>9, <1>10 DEF Set

\* The next step is a question that is not to be skipped, or there is none left.
LEMMA NextStepIs ==
    ASSUME NEW fields, NEW shown
    PROVE  \/ /\ NextStep(fields, shown) = "none"
              /\ \A f \in Fields : Skip(f, fields, shown)
           \/ /\ NextStep(fields, shown) \in Fields
              /\ NextStep(fields, shown) # "none"
              /\ ~Skip(NextStep(fields, shown), fields, shown)
<1> DEFINE left == {i \in 1..Len(Order) : ~Skip(Order[i], fields, shown)}
<1>1. NextStep(fields, shown) =
        IF left = {} THEN "none" ELSE Order[CHOOSE i \in left : \A k \in left : i <= k]
  BY DEF NextStep
<1>2. CASE left = {}
  BY <1>1, <1>2 DEF Fields
<1>3. CASE left # {}
  <2>1. left \subseteq Nat
    BY FieldsAre
  <2> HIDE DEF left
  <2>2. PICK i \in left : \A k \in left : ~(<<k, i>> \in OpToRel(<, Nat))
    BY <1>3, <2>1, WFMin, NatLessThanWellFounded
  <2>3. ASSUME NEW k \in left PROVE i <= k
    <3>1. ~(k < i)
      BY <2>1, <2>2 DEF OpToRel
    <3> QED
      BY <2>1, <3>1
  <2>4. PICK n \in left : NextStep(fields, shown) = Order[n]
    BY <1>1, <1>3, <2>3
  <2>5. n \in 1..Len(Order) /\ ~Skip(Order[n], fields, shown)
    BY <2>4 DEF left
  <2>6. Order[n] # "none"
    BY <2>5, FieldsAre DEF Order
  <2> QED
    BY <2>4, <2>5, <2>6 DEF Fields
<1> QED
  BY <1>2, <1>3

LEMMA ConvIsTyped == Inv => conv.field \in Items /\ conv.min \in Numbers
BY DEF Inv, TypeOK

LEMMA ConversationIsTyped ==
    ASSUME NEW f \in Items
    PROVE  Open(f) \in [field : Items, min : Numbers] /\ Closed \in [field : Items, min : Numbers]
BY YoungestIsLeast DEF Open, Closed, Items

LEMMA PlainAre ==
    /\ <<>> \in Plain /\ <<"ask">> \in Plain
    /\ <<"clear">> \in Plain /\ <<"clear", "ask">> \in Plain
    /\ <<"clear", "look", "ask">> \in Plain
BY Special DEF Plain

\* A run at call s is busy with a list that begins with it.
LEMMA AtIs ==
    ASSUME NEW r, NEW s, At(r, s)
    PROVE  Busy(r) /\ job[r].todo # <<>> /\ Head(job[r].todo) = s
BY DEF At, Busy

LEMMA CheckInv == ASSUME Inv, NEW r \in Updates, Check(r) PROVE Inv'
<1>1. /\ Busy(r) /\ job[r].todo # <<>> /\ Head(job[r].todo) = "check"
      /\ UNCHANGED <<half, has, flag, seen, missed, prefs, conv>>
  BY AtIs DEF Check, profile
<1>2. job[r].todo \notin Looking
  BY <1>1, NoLookAhead
<1>3. conv' \in [field : Items, min : Numbers]
  BY <1>1 DEF Inv, TypeOK
<1>4. Rest(r) \in Plain
  BY <1>1, JobIsTyped, CheckRest DEF Rest, Plain
<1>5. PICK t \in Plain : Plan(r, t)
  BY <1>4, PlainAre DEF Check, Proceed
<1> QED
  BY <1>1, <1>2, <1>3, <1>5, PlainTurn

LEMMA AskInv == ASSUME Inv, NEW r \in Updates, Ask(r) PROVE Inv'
<1>1. /\ Busy(r) /\ job[r].todo # <<>> /\ Head(job[r].todo) = "ask"
      /\ UNCHANGED <<half, has, flag, seen, missed, prefs, conv>>
  BY AtIs DEF Ask, profile
<1>2. job[r].todo \notin Looking
  BY <1>1, NoLookAhead
<1>3. conv' \in [field : Items, min : Numbers]
  BY <1>1 DEF Inv, TypeOK
<1>4. CASE Plan(r, <<>>)
  BY <1>1, <1>2, <1>3, <1>4, PlainAre, PlainTurn
<1>5. CASE Become(r, [job[r] EXCEPT !.todo = <<"pick">>, !.user = has])
  <2> DEFINE j == [job[r] EXCEPT !.todo = <<"pick">>, !.user = has]
  <2>1. <<"pick">> \in Lists
    BY Special DEF Lists
  <2>2. has \in SUBSET Fields /\ "name" \in has
    BY DEF Inv, TypeOK
  <2>3. j \in Jobs /\ j.todo = <<"pick">> /\ j.user = has
    BY <2>1, <2>2, JobIsTyped DEF Jobs
  <2>4. Become(r, j)
    BY <1>5
  <2> HIDE DEF j
  <2>5. Fit(j)
    BY <2>2, <2>3, Heads, AskingCalls, UnreadCalls, UnmergedCalls, StoringCalls DEF Fit
  <2>6. Agrees(j)
    BY <2>3, Heads, AskingCalls DEF Agrees
  <2> QED
    BY <1>1, <1>2, <1>3, <2>3, <2>4, <2>5, <2>6, QuietTurn
<1> QED
  BY <1>4, <1>5 DEF Ask

LEMMA PickInv == ASSUME Inv, NEW r \in Updates, Pick(r) PROVE Inv'
<1> DEFINE f == NextStep(job[r].user, seen)
<1>1. /\ Busy(r) /\ job[r].todo # <<>> /\ Head(job[r].todo) = "pick"
      /\ UNCHANGED <<half, has, flag, prefs, missed>>
  BY AtIs DEF Pick
<1>2. job[r].todo \notin Looking
  BY <1>1, NoLookAhead
<1>3. has' \subseteq Fields /\ "name" \in has' /\ flag' \in BOOLEAN /\ missed' \in BOOLEAN
  BY <1>1 DEF Inv, TypeOK
<1>4. Complete(has') /\ ~missed' /\ ~flag'
         => Complete(has) /\ ~missed /\ ~flag /\ job[r].todo \notin Looking
  BY <1>1, <1>2
<1>5. CASE f = "none"
  <2> DEFINE j == [job[r] EXCEPT !.todo = <<>>]
  <2>1. seen' = {} /\ Become(r, j) /\ conv' = conv
    BY <1>5 DEF Pick, Plan
  <2>2. j \in Jobs /\ j.todo = <<>>
    BY JobIsTyped, Planned DEF Lists
  <2> HIDE DEF j
  <2>3. Fit(j) /\ Agrees(j)
    BY <2>2, PlainFits, PlainAre
  <2>4. conv' \in [field : Items, min : Numbers] /\ seen' \subseteq Once
    BY <2>1 DEF Inv, TypeOK
  <2> QED
    BY <1>1, <1>3, <1>4, <2>1, <2>2, <2>3, <2>4, Turn
<1>6. CASE f # "none"
  <2> DEFINE t == IF f \in Once THEN <<"mark">> ELSE <<>>
             j == [job[r] EXCEPT !.todo = t, !.item = f]
  <2>1. conv' = Open(f) /\ Become(r, j) /\ seen' = seen
    BY <1>6 DEF Pick
  <2>2. f \in Fields /\ f \in Items
    BY <1>6, NextStepIs DEF Items
  <2>3. t \in Lists
    BY Special DEF Lists
  <2> HIDE DEF f, t
  <2>4. j \in Jobs /\ j.todo = t /\ j.item = f
    BY <2>2, <2>3, JobIsTyped DEF Jobs
  <2> HIDE DEF j
  <2>5. Fit(j) /\ Agrees(j)
    <3>1. CASE f \in Once
      <4>1. j.todo = <<"mark">>
        BY <2>4, <3>1 DEF t
      <4>2. Fit(j)
        BY <4>1, <2>4, <3>1, Heads, AskingCalls, UnreadCalls, UnmergedCalls, StoringCalls DEF Fit
      <4>3. Agrees(j)
        BY <4>1, Heads, AskingCalls DEF Agrees
      <4> QED
        BY <4>2, <4>3
    <3>2. CASE f \notin Once
      BY <2>4, <3>2, PlainFits, PlainAre DEF t
    <3> QED
      BY <3>1, <3>2
  <2>6. conv' \in [field : Items, min : Numbers] /\ seen' \subseteq Once
    BY <2>1, <2>2, ConversationIsTyped DEF Inv, TypeOK
  <2> QED
    BY <1>1, <1>3, <1>4, <2>1, <2>4, <2>5, <2>6, Turn
<1> QED
  BY <1>5, <1>6

LEMMA MarkInv == ASSUME Inv, NEW r \in Updates, Mark(r) PROVE Inv'
<1> DEFINE j == [job[r] EXCEPT !.todo = <<>>]
<1>1. /\ Busy(r) /\ job[r].todo # <<>> /\ Head(job[r].todo) = "mark"
      /\ UNCHANGED <<half, has, flag, conv, prefs, missed>>
      /\ seen' = seen \cup {job[r].item} /\ Become(r, j)
  BY AtIs DEF Mark, Plan
<1>2. job[r].todo \notin Looking
  BY <1>1, NoLookAhead
<1>3. job[r].todo = <<"mark">>
  <2>1. job[r].todo \in Asking
    BY <1>1, JobIsTyped, Kinds
  <2> QED
    BY <1>1, <2>1, AskingCalls, Zenon DEF Asking
<1>4. job[r].item \in Once
  BY <1>3, JobIsTyped DEF Fit
<1>5. /\ has' \subseteq Fields /\ "name" \in has' /\ flag' \in BOOLEAN /\ missed' \in BOOLEAN
      /\ seen' \subseteq Once /\ conv' \in [field : Items, min : Numbers]
  BY <1>1, <1>4 DEF Inv, TypeOK
<1>6. j \in Jobs /\ j.todo = <<>>
  BY JobIsTyped, Planned DEF Lists
<1> HIDE DEF j
<1>7. Fit(j) /\ Agrees(j)
  BY <1>6, PlainFits, PlainAre
<1> QED
  BY <1>1, <1>2, <1>5, <1>6, <1>7, Turn

LEMMA LanguageInv == ASSUME Inv, NEW r \in Updates, Language(r) PROVE Inv'
<1> DEFINE t == IF Complete(has) THEN <<>> ELSE <<"ask">>
           j == [job[r] EXCEPT !.todo = t]
<1>1. /\ Busy(r) /\ job[r].todo # <<>> /\ Head(job[r].todo) = "language"
      /\ UNCHANGED <<half, has, flag, conv, prefs, missed>>
      /\ (seen' = seen \/ seen' = {}) /\ Become(r, j)
  BY AtIs DEF Language, Plan
<1>2. job[r].todo \notin Looking
  BY <1>1, NoLookAhead
<1>3. /\ has' \subseteq Fields /\ "name" \in has' /\ flag' \in BOOLEAN /\ missed' \in BOOLEAN
      /\ seen' \subseteq Once /\ conv' \in [field : Items, min : Numbers]
  BY <1>1 DEF Inv, TypeOK
<1>4. t \in Plain
  BY PlainAre
<1> HIDE DEF t
<1>5. j \in Jobs /\ j.todo = t
  BY <1>4, PlainIsPlain, JobIsTyped, Planned
<1> HIDE DEF j
<1>6. Fit(j) /\ Agrees(j)
  BY <1>4, <1>5, PlainFits
<1> QED
  BY <1>1, <1>2, <1>3, <1>5, <1>6, Turn

\* A handler that finds out what an update is about and what to do for it.
LEMMA HandlerTurn ==
    ASSUME Inv, NEW r \in Updates, NEW t, NEW f \in Items,
           t \in Plain \/ (t \in Storing /\ t # <<"store", "hang up">> /\ f \in Fields),
           Become(r, [job[r] EXCEPT !.todo = t, !.item = f]),
           UNCHANGED <<half, has, flag, seen, missed, prefs, conv>>,
           job[r].todo \notin Looking
    PROVE  Inv'
<1> DEFINE j == [job[r] EXCEPT !.todo = t, !.item = f]
<1>1. t \in Lists
  BY PlainIsPlain DEF Lists
<1>2. j \in Jobs /\ j.todo = t /\ j.item = f
  BY <1>1, JobIsTyped DEF Jobs
<1> HIDE DEF j
<1>3. Fit(j) /\ Agrees(j)
  BY <1>2, PlainFits, StoringFits
<1>4. conv' \in [field : Items, min : Numbers]
  BY DEF Inv, TypeOK
<1> QED
  BY <1>2, <1>3, <1>4, QuietTurn DEF j

\* The lists an answer or an upload gives rise to.
LEMMA AnswersAre ==
    /\ Answer \in Storing /\ <<"store">> \in Storing /\ <<"store", "look">> \in Storing
    /\ <<"store", "look", "clear", "ask">> \in Storing
    /\ Answer # <<"store", "hang up">> /\ <<"store">> # <<"store", "hang up">>
    /\ <<"store", "look">> # <<"store", "hang up">>
    /\ <<"store", "look", "clear", "ask">> # <<"store", "hang up">>
<1>1. ASSUME NEW x, NEW y, NEW z, NEW u
      PROVE  <<x, y, z, u>> # <<x, "hang up">> /\ <<x>> # <<x, "hang up">>
  OBVIOUS
<1>2. ASSUME NEW x PROVE <<x, "look">> # <<x, "hang up">>
  OBVIOUS
<1> QED
  BY <1>1, <1>2, Special DEF Answer

LEMMA TextPlans ==
    ASSUME NEW f, NEW said
    PROVE  TextPlan(f, said) \in Plain \/ (TextPlan(f, said) = Answer /\ f \in Fields)
<1> DEFINE A1 == f = "none"
           A2 == f # "none" /\ said = "cancel"
           A3 == f = "interests" /\ said = "skip"
           A4 == f = "media" /\ said = "done"
           A5 == said = "answer" /\ f \in Fields \ {"media", "phone"}
           A6 == said = "answer" /\ f \in {"media", "phone", "feedback"}
<1>1. TextPlan(f, said) = CASE A1 -> <<>>
                            [] A2 -> <<"clear">>
                            [] A3 -> <<"clear", "ask">>
                            [] A4 -> <<"clear", "look", "ask">>
                            [] A5 -> Answer
                            [] A6 -> <<"clear">>
                            [] OTHER -> <<>>
  BY DEF TextPlan
<1> DEFINE S == Plain \cup {a \in {Answer} : f \in Fields}
<1>2. A5 => Answer \in S
  OBVIOUS
<1>3. Plain \subseteq S
  OBVIOUS
<1>4. \A a \in S : a \in Plain \/ (a = Answer /\ f \in Fields)
  OBVIOUS
<1> HIDE DEF A1, A2, A3, A4, A5, A6, S
<1>5. TextPlan(f, said) \in S
  <2>1. <<>> \in S /\ <<"clear">> \in S /\ <<"clear", "ask">> \in S
        /\ <<"clear", "look", "ask">> \in S
    BY <1>3, PlainAre, Zenon
  <2> QED
    BY <1>1, <1>2, <2>1, Zenon
<1> QED
  BY <1>4, <1>5

LEMMA TextInv == ASSUME Inv, NEW r \in Updates, Text(r) PROVE Inv'
<1> DEFINE t == TextPlan(conv.field, job[r].item)
<1>1. /\ Busy(r) /\ job[r].todo # <<>> /\ Head(job[r].todo) = "text"
      /\ UNCHANGED <<half, has, flag, seen, missed, prefs, conv>>
      /\ Become(r, [job[r] EXCEPT !.todo = t, !.item = conv.field])
  BY AtIs DEF Text, profile
<1>2. job[r].todo \notin Looking
  BY <1>1, NoLookAhead
<1>3. t \in Plain \/ (t = Answer /\ conv.field \in Fields)
  BY TextPlans
<1> HIDE DEF t
<1>4. t \in Plain \/ (t \in Storing /\ t # <<"store", "hang up">> /\ conv.field \in Fields)
  BY <1>3, AnswersAre
<1> QED
  BY <1>1, <1>2, <1>4, ConvIsTyped, HandlerTurn

LEMMA PhotoInv == ASSUME Inv, NEW r \in Updates, Photo(r) PROVE Inv'
<1>1. /\ Busy(r) /\ job[r].todo # <<>> /\ Head(job[r].todo) = "photo"
      /\ UNCHANGED <<half, has, flag, seen, missed, prefs, conv>>
  BY AtIs DEF Photo, profile
<1>2. PICK t \in {<<"store", "look">>, <<"store", "look", "clear", "ask">>, <<>>} :
          Become(r, [job[r] EXCEPT !.todo = t, !.item = "media"])
  BY DEF Photo
<1>3. job[r].todo \notin Looking
  BY <1>1, NoLookAhead
<1>4. "media" \in Items /\ "media" \in Fields
  BY FieldsAre DEF Items
<1> QED
  BY <1>1, <1>2, <1>3, <1>4, PlainAre, AnswersAre, HandlerTurn

LEMMA GpsInv == ASSUME Inv, NEW r \in Updates, Gps(r) PROVE Inv'
<1> DEFINE t == IF conv.field = "location" THEN Answer ELSE <<"store">>
<1>1. /\ Busy(r) /\ job[r].todo # <<>> /\ Head(job[r].todo) = "gps"
      /\ UNCHANGED <<half, has, flag, seen, missed, prefs, conv>>
      /\ Become(r, [job[r] EXCEPT !.todo = t, !.item = "location"])
  BY AtIs DEF Gps, profile
<1>2. job[r].todo \notin Looking
  BY <1>1, NoLookAhead
<1>3. "location" \in Items /\ "location" \in Fields
  BY FieldsAre DEF Items
<1>4. t \in Storing /\ t # <<"store", "hang up">>
  BY AnswersAre
<1> HIDE DEF t
<1> QED
  BY <1>1, <1>2, <1>3, <1>4, HandlerTurn

LEMMA EditInv == ASSUME Inv, NEW r \in Updates, Edit(r) PROVE Inv'
<1>1. /\ Busy(r) /\ job[r].todo # <<>> /\ Head(job[r].todo) = "edit"
      /\ UNCHANGED <<half, has, flag, seen, missed, prefs>> /\ Plan(r, <<>>)
  BY AtIs DEF Edit, profile
<1>2. job[r].todo \notin Looking
  BY <1>1, NoLookAhead
<1>3. conv' \in [field : Items, min : Numbers]
  <2>1. [conv EXCEPT !.field = "age-range max"] \in [field : Items, min : Numbers]
    BY DEF Inv, TypeOK, Items
  <2>2. Open(job[r].item) \in [field : Items, min : Numbers]
    BY JobIsTyped, ConversationIsTyped
  <2> QED
    BY <2>1, <2>2 DEF Edit
<1> QED
  BY <1>1, <1>2, <1>3, PlainAre, PlainTurn

LEMMA FeedbackInv == ASSUME Inv, NEW r \in Updates, Feedback(r) PROVE Inv'
<1>1. /\ Busy(r) /\ job[r].todo # <<>> /\ Head(job[r].todo) = "feedback"
      /\ UNCHANGED <<half, has, flag, seen, missed, prefs>> /\ Plan(r, <<>>)
      /\ conv' = Open("feedback")
  BY AtIs DEF Feedback, profile
<1>2. job[r].todo \notin Looking
  BY <1>1, NoLookAhead
<1>3. "feedback" \in Items
  BY DEF Items
<1>4. conv' \in [field : Items, min : Numbers]
  BY <1>1, <1>3, ConversationIsTyped
<1> QED
  BY <1>1, <1>2, <1>4, PlainAre, PlainTurn

\* A medium less does not complete a profile.
LEMMA DeleteInv == ASSUME Inv, NEW r \in Updates, Delete(r) PROVE Inv'
<1> DEFINE j == [job[r] EXCEPT !.todo = <<>>]
<1>1. /\ Busy(r) /\ job[r].todo # <<>> /\ Head(job[r].todo) = "delete"
      /\ UNCHANGED <<half, flag, seen, conv, prefs, missed>>
      /\ has' \in {has, has \ {"media"}} /\ Become(r, j)
  BY AtIs DEF Delete, Plan
<1>2. job[r].todo \notin Looking
  BY <1>1, NoLookAhead
<1>3. /\ has' \subseteq Fields /\ "name" \in has' /\ flag' \in BOOLEAN /\ missed' \in BOOLEAN
      /\ seen' \subseteq Once /\ conv' \in [field : Items, min : Numbers]
  BY <1>1 DEF Inv, TypeOK
<1>4. Complete(has') => Complete(has)
  BY <1>1 DEF Complete
<1>5. j \in Jobs /\ j.todo = <<>>
  BY JobIsTyped, Planned DEF Lists
<1> HIDE DEF j
<1>6. Fit(j) /\ Agrees(j)
  BY <1>5, PlainFits, PlainAre
<1> QED
  BY <1>1, <1>2, <1>3, <1>4, <1>5, <1>6, Turn

\* An answer stored is looked at later in the run, unless it is a verified phone,
\* which a complete profile does not ask for, or a place sent unasked.
LEMMA StoreInv == ASSUME Inv, NEW r \in Updates, Store(r) PROVE Inv'
<1>1. /\ Busy(r) /\ job[r].todo # <<>> /\ Head(job[r].todo) = "store"
      /\ UNCHANGED <<half, flag, seen, conv, prefs>>
  BY AtIs DEF Store
<1>2. job[r].todo \notin Looking
  BY <1>1, NoLookAhead
<1>3. job[r].todo \in Storing
  BY <1>1, JobIsTyped, Kinds
<1>4. job[r].item \in Fields /\ (job[r].todo = <<"store", "hang up">> => job[r].item = "phone")
  BY <1>3, JobIsTyped DEF Fit
<1>5. /\ flag' \in BOOLEAN /\ seen' \subseteq Once /\ conv' \in [field : Items, min : Numbers]
  BY <1>1 DEF Inv, TypeOK
<1>6. CASE /\ has' = has \cup {job[r].item}
           /\ missed' = (missed \/ Rest(r) = <<>>)
           /\ Become(r, [Idle EXCEPT !.todo = Rest(r)])
  <2> DEFINE j == [Idle EXCEPT !.todo = Rest(r)]
  <2>1. \/ Rest(r) = <<>>
        \/ job[r].todo = <<"store", "hang up">> /\ Rest(r) = <<"hang up">>
        \/ Rest(r) \in Looking
    BY <1>1, JobIsTyped, StoreRest DEF Rest
  <2>2. Rest(r) \in Plain
    BY <2>1, Special DEF Plain
  <2>3. j \in Jobs /\ j.todo = Rest(r)
    BY <2>2, PlainIsPlain, IdleIsPlain, Planned
  <2>0. Become(r, j)
    BY <1>6
  <2> HIDE DEF j
  <2>4. Fit(j) /\ Agrees(j)
    BY <2>2, <2>3, PlainFits
  <2>5. has' \subseteq Fields /\ "name" \in has'
    BY <1>4, <1>6 DEF Inv, TypeOK
  <2>6. missed' \in BOOLEAN
    BY <1>6 DEF Inv, TypeOK
  <2>7. Complete(has') /\ ~missed' /\ ~flag'
           => \/ j.todo \in Looking
              \/ Complete(has) /\ ~missed /\ ~flag /\ job[r].todo \notin Looking
    <3> SUFFICES ASSUME Complete(has'), ~missed', ~flag', j.todo \notin Looking
                 PROVE  Complete(has) /\ ~missed /\ ~flag
      BY <1>2
    <3>1. ~missed /\ Rest(r) # <<>> /\ ~flag
      BY <1>1, <1>6
    <3>2. job[r].item = "phone"
      BY <1>4, <2>1, <2>3, <3>1
    <3>3. Complete(has)
      BY <1>6, <3>2, FieldsAre DEF Complete
    <3> QED
      BY <3>1, <3>3
  <2> QED
    BY <1>1, <1>5, <2>0, <2>3, <2>4, <2>5, <2>6, <2>7, Turn
<1>7. CASE /\ Become(r, [Idle EXCEPT !.todo = IF Rest(r) # <<>> /\ Head(Rest(r)) = "clear"
                                              THEN <<"clear">> ELSE <<>>])
           /\ UNCHANGED <<has, missed>>
  <2> DEFINE t == IF Rest(r) # <<>> /\ Head(Rest(r)) = "clear" THEN <<"clear">> ELSE <<>>
             j == [Idle EXCEPT !.todo = t]
  <2>1. t \in Plain
    BY PlainAre
  <2>2. Become(r, j)
    BY <1>7
  <2> HIDE DEF t
  <2>3. j \in Jobs /\ j.todo = t
    BY <2>1, PlainIsPlain, IdleIsPlain, Planned
  <2> HIDE DEF j
  <2>4. Fit(j) /\ Agrees(j)
    BY <2>1, <2>3, PlainFits
  <2>5. has' \subseteq Fields /\ "name" \in has' /\ missed' \in BOOLEAN
    BY <1>7 DEF Inv, TypeOK
  <2> QED
    BY <1>1, <1>2, <1>5, <1>7, <2>2, <2>3, <2>4, <2>5, Turn
<1> QED
  BY <1>6, <1>7 DEF Store

LEMMA ClearInv == ASSUME Inv, NEW r \in Updates, Clear(r) PROVE Inv'
<1>1. /\ Busy(r) /\ job[r].todo # <<>> /\ Head(job[r].todo) = "clear"
      /\ UNCHANGED <<half, has, flag, seen, missed, prefs>> /\ conv' = Closed
      /\ Plan(r, Rest(r))
  BY AtIs DEF Clear, profile, Proceed
<1>2. /\ Rest(r) \in Plain
      /\ job[r].todo \in Looking => Rest(r) \in Looking
  BY <1>1, JobIsTyped, ClearRest, PlainAre DEF Rest, Plain
<1>3. "none" \in Items
  BY DEF Items
<1>4. conv' \in [field : Items, min : Numbers]
  BY <1>1, <1>3, ConversationIsTyped
<1> QED
  BY <1>1, <1>2, <1>4, PlainTurn

LEMMA HangUpInv == ASSUME Inv, NEW r \in Updates, HangUp(r) PROVE Inv'
<1>1. /\ Busy(r) /\ job[r].todo # <<>> /\ Head(job[r].todo) = "hang up"
      /\ UNCHANGED <<half, has, flag, seen, missed, prefs>>
      /\ (conv' = Closed \/ conv' = conv) /\ Plan(r, Rest(r))
  BY AtIs DEF HangUp, profile, Proceed
<1>2. Rest(r) \in Plain /\ job[r].todo \notin Looking
  BY <1>1, JobIsTyped, HangUpRest, PlainAre, NoLookAhead DEF Rest
<1>3. "none" \in Items
  BY DEF Items
<1>4. conv' \in [field : Items, min : Numbers]
  BY <1>1, <1>3, ConversationIsTyped DEF Inv, TypeOK
<1> QED
  BY <1>1, <1>2, <1>4, PlainTurn

\* A look that comes off sees the profile as it is; one that does not is missed.
LEMMA LookInv == ASSUME Inv, NEW r \in Updates, Look(r) PROVE Inv'
<1>1. /\ Busy(r) /\ job[r].todo # <<>> /\ Head(job[r].todo) = "look"
      /\ UNCHANGED <<half, has, flag, seen, conv, prefs>>
  BY AtIs DEF Look
<1>2. /\ has' \subseteq Fields /\ "name" \in has' /\ flag' \in BOOLEAN
      /\ seen' \subseteq Once /\ conv' \in [field : Items, min : Numbers]
  BY <1>1 DEF Inv, TypeOK
<1>3. Rest(r) \in Plain /\ <<"flag">> \o Rest(r) \in Looking
  BY <1>1, JobIsTyped, LookRest DEF Rest
<1>4. PICK t \in Plain : /\ Plan(r, t)
                         /\ missed' \in BOOLEAN
                         /\ \/ Complete(has) /\ ~flag => t \in Looking
                            \/ missed'
  <2>1. CASE /\ Plan(r, IF Complete(has) /\ ~flag THEN <<"flag">> \o Rest(r) ELSE Rest(r))
             /\ missed' = FALSE
    BY <1>3, <2>1 DEF Plain
  <2>2. CASE Proceed(r) /\ missed' = TRUE
    BY <1>3, <2>2 DEF Proceed
  <2> QED
    BY <2>1, <2>2 DEF Look
<1> DEFINE j == [job[r] EXCEPT !.todo = t]
<1>5. j \in Jobs /\ j.todo = t
  BY PlainIsPlain, JobIsTyped, Planned
<1>6. Become(r, j)
  BY <1>4 DEF Plan
<1> HIDE DEF j
<1>7. Fit(j) /\ Agrees(j)
  BY <1>5, PlainFits
<1>8. Complete(has') /\ ~missed' /\ ~flag' => j.todo \in Looking
  BY <1>1, <1>4, <1>5
<1> QED
  BY <1>1, <1>2, <1>4, <1>5, <1>6, <1>7, <1>8, Turn

LEMMA FlagInv == ASSUME Inv, NEW r \in Updates, Flag(r) PROVE Inv'
<1> DEFINE j == [job[r] EXCEPT !.todo = Rest(r)]
<1>1. /\ Busy(r) /\ job[r].todo # <<>> /\ Head(job[r].todo) = "flag"
      /\ UNCHANGED <<half, has, seen, conv, prefs>> /\ Become(r, j)
  BY AtIs DEF Flag, Proceed, Plan
<1>2. /\ has' \subseteq Fields /\ "name" \in has'
      /\ seen' \subseteq Once /\ conv' \in [field : Items, min : Numbers]
  BY <1>1 DEF Inv, TypeOK
<1>3. flag' \in BOOLEAN /\ missed' \in BOOLEAN
  <2>1. CASE flag' = TRUE /\ UNCHANGED missed
    BY <2>1 DEF Inv, TypeOK
  <2>2. CASE missed' = TRUE /\ UNCHANGED flag
    BY <2>2 DEF Inv, TypeOK
  <2> QED
    BY <2>1, <2>2 DEF Flag
<1>4. flag' \/ missed'
  BY DEF Flag
<1>5. Rest(r) \in Plain
  BY <1>1, JobIsTyped, LookRest DEF Rest
<1>6. j \in Jobs /\ j.todo = Rest(r)
  BY <1>5, PlainIsPlain, JobIsTyped, Planned
<1> HIDE DEF j
<1>7. Fit(j) /\ Agrees(j)
  BY <1>5, <1>6, PlainFits
<1> QED
  BY <1>1, <1>2, <1>3, <1>4, <1>6, <1>7, Turn

-----------------------------------------------------------------------------
(* The settings. *)

\* What a step of the settings shares: the profile and what is stored stay.
LEMMA SettingsTurn ==
    ASSUME Inv, NEW r \in Updates, NEW j \in Jobs, j.todo \in Unmerged \cup Merged,
           Become(r, j), UNCHANGED <<half, has, flag, seen, missed, prefs, conv>>,
           Busy(r), Head(job[r].todo) \notin {"look", "flag", "clear"},
           j.todo = <<"range", "select", "update", "clear">>
               => "ages" \in DOMAIN j.sent /\ j.item = "ages",
           \A s \in DOMAIN prefs \cap DOMAIN j.sent :
               s = j.item \/ s \in j.during \/ j.sent[s] = prefs[s],
           j.todo \in Merged => DOMAIN prefs \subseteq DOMAIN j.sent
    PROVE  Inv'
<1>1. Fit(j) /\ Agrees(j)
  BY UnmergedFits, MergedFits
<1>2. job[r].todo \notin Looking
  BY NoLookAhead
<1>3. conv' \in [field : Items, min : Numbers]
  BY DEF Inv, TypeOK
<1> QED
  BY <1>1, <1>2, <1>3, QuietTurn

LEMMA ReadInv == ASSUME Inv, NEW r \in Updates, Read(r) PROVE Inv'
<1>1. /\ Busy(r) /\ job[r].todo # <<>> /\ Head(job[r].todo) = "read"
      /\ UNCHANGED <<half, has, flag, seen, missed, prefs, conv>>
  BY AtIs DEF Read, profile
<1>2. \/ job[r].todo = <<"read", "select", "update">> /\ Rest(r) = <<"select", "update">>
      \/ /\ job[r].todo = <<"read", "range", "select", "update", "clear">>
         /\ Rest(r) = <<"range", "select", "update", "clear">>
  BY <1>1, JobIsTyped, ReadRest DEF Rest
<1>3. Rest(r) \in Unmerged /\ Rest(r) \in Lists
  BY <1>2, Special DEF Lists
<1>4. /\ DOMAIN job[r].sent = {job[r].item}
      /\ Rest(r) = <<"range", "select", "update", "clear">> => job[r].item = "ages"
  <2>1. CASE job[r].todo = <<"read", "select", "update">> /\ Rest(r) = <<"select", "update">>
    <3>1. Rest(r) # <<"range", "select", "update", "clear">>
      BY <2>1, UnmergedCalls
    <3> QED
      BY <2>1, <3>1, JobIsTyped DEF Fit
  <2>2. CASE job[r].todo = <<"read", "range", "select", "update", "clear">>
    BY <2>2, JobIsTyped DEF Fit
  <2> QED
    BY <1>2, <2>1, <2>2
<1>5. CASE Become(r, [job[r] EXCEPT !.todo = Rest(r), !.sent = Merge(@, prefs)])
  <2> DEFINE m == Merge(job[r].sent, prefs)
             j == [job[r] EXCEPT !.todo = Rest(r), !.sent = m]
  <2>1. /\ m \in Preferences /\ DOMAIN m = DOMAIN job[r].sent \cup DOMAIN prefs
        /\ \A s \in DOMAIN prefs \ DOMAIN job[r].sent : m[s] = prefs[s]
    BY JobIsTyped, MergeIsPreferences DEF Inv, TypeOK
  <2>2. Become(r, j)
    BY <1>5
  <2> HIDE DEF m
  <2>3. j \in Jobs /\ j.todo = Rest(r) /\ j.sent = m /\ j.item = job[r].item
    BY <1>3, <2>1, JobIsTyped DEF Jobs
  <2> HIDE DEF j
  <2>4. \A s \in DOMAIN prefs \cap DOMAIN j.sent : s = j.item \/ j.sent[s] = prefs[s]
    BY <1>4, <2>1, <2>3
  <2>5. j.todo = <<"range", "select", "update", "clear">>
           => "ages" \in DOMAIN j.sent /\ j.item = "ages"
    BY <1>4, <2>1, <2>3
  <2>6. j.todo \notin Merged
    BY <1>3, <2>3, Heads
  <2> QED
    BY <1>1, <1>3, <2>2, <2>3, <2>4, <2>5, <2>6, SettingsTurn
<1>6. CASE Proceed(r)
  <2> DEFINE j == [job[r] EXCEPT !.todo = Rest(r)]
  <2>1. Become(r, j)
    BY <1>6 DEF Proceed, Plan
  <2>2. j \in Jobs /\ j.todo = Rest(r) /\ j.sent = job[r].sent /\ j.item = job[r].item
    BY <1>3, JobIsTyped, Planned
  <2> HIDE DEF j
  <2>3. \A s \in DOMAIN prefs \cap DOMAIN j.sent : s = j.item
    BY <1>4, <2>2
  <2>4. j.todo = <<"range", "select", "update", "clear">>
           => "ages" \in DOMAIN j.sent /\ j.item = "ages"
    BY <1>4, <2>2
  <2>5. j.todo \notin Merged
    BY <1>3, <2>2, Heads
  <2> QED
    BY <1>1, <1>3, <2>1, <2>2, <2>3, <2>4, <2>5, SettingsTurn
<1> QED
  BY <1>5, <1>6 DEF Read

LEMMA DefaultInv == ASSUME Inv, NEW r \in Updates, Default(r) PROVE Inv'
<1>1. /\ Busy(r) /\ job[r].todo # <<>> /\ Head(job[r].todo) = "default"
      /\ UNCHANGED <<half, has, flag, seen, missed, prefs, conv>>
  BY AtIs DEF Default, profile
<1>2. CASE prefs = <<>>
  <2> DEFINE j == [job[r] EXCEPT !.todo = Rest(r)]
  <2>1. Become(r, j)
    BY <1>2 DEF Default, Proceed, Plan
  <2>2. Rest(r) = <<"select", "update">>
    BY <1>1, JobIsTyped, DefaultRest DEF Rest
  <2>3. Rest(r) \in Unmerged /\ Rest(r) \in Lists
    BY <2>2, Special DEF Lists
  <2>4. j \in Jobs /\ j.todo = Rest(r)
    BY <2>3, JobIsTyped, Planned
  <2> HIDE DEF j
  <2>5. DOMAIN prefs = {}
    BY <1>2, NothingIsPreferences
  <2>6. j.todo # <<"range", "select", "update", "clear">>
    BY <2>2, <2>4, UnmergedCalls
  <2> QED
    BY <1>1, <2>1, <2>3, <2>4, <2>5, <2>6, SettingsTurn
<1>3. CASE prefs # <<>>
  <2>1. Plan(r, <<>>)
    BY <1>3 DEF Default
  <2>2. job[r].todo \notin Looking
    BY <1>1, NoLookAhead
  <2>3. conv' \in [field : Items, min : Numbers]
    BY <1>1 DEF Inv, TypeOK
  <2> QED
    BY <1>1, <2>1, <2>2, <2>3, PlainAre, PlainTurn
<1> QED
  BY <1>2, <1>3

\* A minimum kept in the conversation.
LEMMA KeepTurn ==
    ASSUME Inv, NEW r \in Updates, NEW n \in Numbers, Keep(r, n),
           UNCHANGED <<half, has, flag, seen, missed, prefs>>, job[r].todo \notin Looking
    PROVE  Inv'
<1>1. "age-range max" \in Items
  BY DEF Items
<1>2. conv' \in [field : Items, min : Numbers] /\ Plan(r, <<>>)
  BY <1>1 DEF Keep
<1> QED
  BY <1>2, PlainAre, PlainTurn

LEMMA MinInv == ASSUME Inv, NEW r \in Updates, Min(r) PROVE Inv'
<1>1. /\ Busy(r) /\ job[r].todo # <<>> /\ Head(job[r].todo) = "min"
      /\ UNCHANGED <<half, has, flag, seen, missed, prefs>>
      /\ Keep(r, job[r].sent.ages[1])
  BY AtIs DEF Min, profile
<1>2. job[r].todo = <<"min">>
  <2>1. job[r].todo \in Unread
    BY <1>1, JobIsTyped, Kinds
  <2> QED
    BY <1>1, <2>1, UnreadCalls, Zenon DEF Unread
<1>3. job[r].sent.ages \in Ranges
  <2>1. "ages" \in DOMAIN job[r].sent
    BY <1>2, JobIsTyped DEF Fit
  <2> QED
    BY <2>1, JobIsTyped, SettingsHeld
<1>4. job[r].sent.ages[1] \in Numbers
  BY <1>3 DEF Ranges
<1>5. job[r].todo \notin Looking
  BY <1>1, NoLookAhead
<1> QED
  BY <1>1, <1>4, <1>5, KeepTurn

\* The maximum tapped goes with the minimum in the conversation.
LEMMA RangeInv == ASSUME Inv, NEW r \in Updates, Range(r) PROVE Inv'
<1>1. /\ Busy(r) /\ job[r].todo # <<>> /\ Head(job[r].todo) = "range"
      /\ UNCHANGED <<half, has, flag, seen, missed, prefs, conv>>
  BY AtIs DEF Range, profile
<1>2. /\ job[r].todo = <<"range", "select", "update", "clear">>
      /\ Rest(r) = <<"select", "update", "clear">>
  BY <1>1, JobIsTyped, RangeRest DEF Rest
<1>3. "ages" \in DOMAIN job[r].sent /\ job[r].item = "ages"
  BY <1>2, JobIsTyped DEF Fit
<1>4. CASE job[r].sent.ages[2] < conv.min
  <2>1. Plan(r, <<>>)
    BY <1>4 DEF Range
  <2>2. job[r].todo \notin Looking
    BY <1>1, NoLookAhead
  <2>3. conv' \in [field : Items, min : Numbers]
    BY <1>1 DEF Inv, TypeOK
  <2> QED
    BY <1>1, <2>1, <2>2, <2>3, PlainAre, PlainTurn
<1>5. CASE ~(job[r].sent.ages[2] < conv.min)
  <2> DEFINE m == [job[r].sent EXCEPT !.ages[1] = conv.min]
             j == [job[r] EXCEPT !.todo = Rest(r), !.sent.ages[1] = conv.min]
  <2>1. conv.min <= job[r].sent.ages[2]
    <3>1. job[r].sent.ages \in Ranges
      BY <1>3, JobIsTyped, SettingsHeld
    <3>2. job[r].sent.ages[2] \in Numbers
      BY <3>1 DEF Ranges
    <3>3. \A n \in Numbers : n \in Int
      BY ConstantsAssumption
    <3>4. conv.min \in Int /\ job[r].sent.ages[2] \in Int
      BY <3>2, <3>3, ConvIsTyped
    <3> QED
      BY <1>5, <3>4
  <2>2. /\ m \in Preferences /\ DOMAIN m = DOMAIN job[r].sent
        /\ \A s \in DOMAIN job[r].sent \ {"ages"} : m[s] = job[r].sent[s]
    BY <1>3, <2>1, JobIsTyped, ConvIsTyped, MinimumKept
  <2>3. Become(r, j)
    BY <1>5 DEF Range
  <2>4. Rest(r) \in Unmerged /\ Rest(r) \in Lists
    BY <1>2, Special DEF Lists
  <2>5. /\ j = [job[r] EXCEPT !.todo = Rest(r), !.sent = m]
        /\ j.todo = Rest(r) /\ j.item = job[r].item /\ j.during = job[r].during /\ j.sent = m
    BY JobIsTyped DEF Jobs
  <2> HIDE DEF m
  <2>6. j \in Jobs
    BY <2>2, <2>4, <2>5, JobIsTyped DEF Jobs
  <2> HIDE DEF j
  <2>7. \A s \in DOMAIN prefs \cap DOMAIN j.sent :
            s = j.item \/ s \in j.during \/ j.sent[s] = prefs[s]
    <3>1. job[r].todo \in Unmerged
      BY <1>2, Special
    <3>2. \A s \in DOMAIN prefs \cap DOMAIN job[r].sent :
              s = job[r].item \/ s \in job[r].during \/ job[r].sent[s] = prefs[s]
      BY <3>1, JobIsTyped DEF Agrees
    <3> QED
      BY <1>3, <2>2, <2>5, <3>2
  <2>8. j.todo # <<"range", "select", "update", "clear">>
    BY <1>2, <2>5, UnmergedCalls
  <2>9. j.todo \notin Merged
    BY <2>4, <2>5, Heads
  <2> QED
    BY <1>1, <2>3, <2>4, <2>5, <2>6, <2>7, <2>8, <2>9, SettingsTurn
<1> QED
  BY <1>4, <1>5

LEMMA NumberInv == ASSUME Inv, NEW r \in Updates, Number(r) PROVE Inv'
<1> DEFINE n == job[r].sent.distance
           j2 == [job[r] EXCEPT !.todo = Typed, !.item = "ages", !.sent = [ages |-> <<conv.min, n>>]]
           j3 == [job[r] EXCEPT !.todo = Typed, !.item = "distance"]
<1>1. /\ Busy(r) /\ job[r].todo # <<>> /\ Head(job[r].todo) = "number"
      /\ UNCHANGED <<half, has, flag, seen, missed, prefs>>
  BY AtIs DEF Number, profile
<1>2. job[r].todo = <<"number">>
  <2>1. job[r].todo \in Unread
    BY <1>1, JobIsTyped, Kinds
  <2> QED
    BY <1>1, <2>1, UnreadCalls, Zenon DEF Unread
<1>3. DOMAIN job[r].sent = {"distance"} /\ n \in Numbers
  <2>1. DOMAIN job[r].sent = {"distance"}
    BY <1>2, JobIsTyped DEF Fit
  <2> QED
    BY <2>1, JobIsTyped, SettingsHeld
<1>4. job[r].todo \notin Looking
  BY <1>1, NoLookAhead
<1>5. Typed \in Unmerged /\ Typed \in Lists /\ Typed # <<"range", "select", "update", "clear">>
      /\ Typed \notin Merged
  BY Special, UnmergedCalls, Heads DEF Typed, Lists
<1>6. \/ Keep(r, n)
      \/ conv.min <= n /\ Become(r, j2) /\ UNCHANGED conv
      \/ Become(r, j3) /\ UNCHANGED conv
      \/ Plan(r, <<>>) /\ UNCHANGED conv
  BY DEF Number
<1>7. CASE Keep(r, n)
  BY <1>1, <1>3, <1>4, <1>7, KeepTurn
<1>8. CASE conv.min <= n /\ Become(r, j2) /\ UNCHANGED conv
  <2>1. [ages |-> <<conv.min, n>>] \in Preferences /\ "ages" \in Items
    BY <1>3, <1>8, ConvIsTyped, AgesArePreferences DEF Items
  <2>2. j2 \in Jobs /\ j2.todo = Typed /\ j2.item = "ages" /\ DOMAIN j2.sent = {"ages"}
    BY <1>5, <2>1, JobIsTyped DEF Jobs
  <2> HIDE DEF j2
  <2> QED
    BY <1>1, <1>5, <1>8, <2>2, SettingsTurn
<1>9. CASE Become(r, j3) /\ UNCHANGED conv
  <2>1. "distance" \in Items
    BY DEF Items
  <2>2. j3 \in Jobs /\ j3.todo = Typed /\ j3.item = "distance" /\ DOMAIN j3.sent = {"distance"}
    BY <1>3, <1>5, <2>1, JobIsTyped DEF Jobs
  <2> HIDE DEF j3
  <2> QED
    BY <1>1, <1>5, <1>9, <2>2, SettingsTurn
<1>10. CASE Plan(r, <<>>) /\ UNCHANGED conv
  <2>1. conv' \in [field : Items, min : Numbers]
    BY <1>10 DEF Inv, TypeOK
  <2> QED
    BY <1>1, <1>4, <1>10, <2>1, PlainAre, PlainTurn
<1> QED
  BY <1>6, <1>7, <1>8, <1>9, <1>10

LEMMA PairInv == ASSUME Inv, NEW r \in Updates, Pair(r) PROVE Inv'
<1> DEFINE t == IF conv.field \in {"age-range", "age-range max"} THEN Typed ELSE <<>>
           j == [job[r] EXCEPT !.todo = t]
<1>1. /\ Busy(r) /\ job[r].todo # <<>> /\ Head(job[r].todo) = "pair"
      /\ UNCHANGED <<half, has, flag, seen, missed, prefs, conv>>
      /\ Become(r, j) /\ Plan(r, t)
  BY AtIs DEF Pair, profile, Plan
<1>2. job[r].todo = <<"pair">>
  <2>1. job[r].todo \in Unread
    BY <1>1, JobIsTyped, Kinds
  <2> QED
    BY <1>1, <2>1, UnreadCalls, Zenon DEF Unread
<1>3. DOMAIN job[r].sent = {"ages"} /\ job[r].item = "ages"
  BY <1>2, JobIsTyped DEF Fit
<1>4. CASE t = Typed
  <2>1. Typed \in Unmerged /\ Typed \in Lists /\ Typed # <<"range", "select", "update", "clear">>
        /\ Typed \notin Merged
    BY Special, UnmergedCalls, Heads DEF Typed, Lists
  <2> HIDE DEF t
  <2>2. j \in Jobs /\ j.todo = Typed /\ j.item = "ages" /\ DOMAIN j.sent = {"ages"}
    BY <1>3, <1>4, <2>1, JobIsTyped, Planned
  <2> HIDE DEF j
  <2> QED
    BY <1>1, <2>1, <2>2, SettingsTurn
<1>5. CASE t = <<>>
  <2>1. job[r].todo \notin Looking
    BY <1>1, NoLookAhead
  <2>2. conv' \in [field : Items, min : Numbers]
    BY <1>1 DEF Inv, TypeOK
  <2> QED
    BY <1>1, <1>5, <2>1, <2>2, PlainAre, PlainTurn
<1> QED
  BY <1>4, <1>5

\* The API merges what it is sent into the preferences it has just read.
LEMMA SelectInv == ASSUME Inv, NEW r \in Updates, Select(r) PROVE Inv'
<1> DEFINE m == Merge(job[r].sent, prefs)
           j == [job[r] EXCEPT !.todo = Rest(r), !.sent = m]
<1>1. /\ Busy(r) /\ job[r].todo # <<>> /\ Head(job[r].todo) = "select"
      /\ UNCHANGED <<half, has, flag, seen, missed, prefs, conv>> /\ Become(r, j)
  BY AtIs DEF Select, profile
<1>2. Rest(r) \in Merged /\ Rest(r) \in Lists
  BY <1>1, JobIsTyped, SelectRest DEF Rest, Lists
<1>3. job[r].todo \in Unmerged
  BY <1>1, JobIsTyped, Kinds
<1>4. /\ m \in Preferences /\ DOMAIN m = DOMAIN job[r].sent \cup DOMAIN prefs
      /\ \A s \in DOMAIN job[r].sent : m[s] = job[r].sent[s]
      /\ \A s \in DOMAIN prefs \ DOMAIN job[r].sent : m[s] = prefs[s]
  BY JobIsTyped, MergeIsPreferences DEF Inv, TypeOK
<1> HIDE DEF m
<1>5. /\ j \in Jobs /\ j.todo = Rest(r) /\ j.sent = m /\ j.item = job[r].item
      /\ j.during = job[r].during
  BY <1>2, <1>4, JobIsTyped DEF Jobs
<1> HIDE DEF j
<1>6. \A s \in DOMAIN prefs \cap DOMAIN job[r].sent :
          s = job[r].item \/ s \in job[r].during \/ job[r].sent[s] = prefs[s]
  BY <1>3, JobIsTyped DEF Agrees
<1>7. \A s \in DOMAIN prefs \cap DOMAIN j.sent :
          s = j.item \/ s \in j.during \/ j.sent[s] = prefs[s]
  BY <1>4, <1>5, <1>6
<1>8. j.todo # <<"range", "select", "update", "clear">>
  BY <1>2, <1>5, Heads, UnmergedCalls
<1>9. DOMAIN prefs \subseteq DOMAIN j.sent
  BY <1>4, <1>5
<1> QED
  BY <1>1, <1>2, <1>5, <1>7, <1>8, <1>9, SettingsTurn

\* A write leaves its mark on every run under way, and takes nothing from those
\* that will write later what they have not merged yet.
LEMMA UpdateInv == ASSUME Inv, NEW r \in Updates, Update(r) PROVE Inv'
<1> DEFINE done == IF Rest(r) = <<>> THEN Idle ELSE [Idle EXCEPT !.todo = Rest(r)]
           noted(q) == [job[q] EXCEPT !.during = @ \cup Changed(prefs, prefs')]
<1>1. /\ Busy(r) /\ job[r].todo # <<>> /\ Head(job[r].todo) = "update"
      /\ UNCHANGED <<half, has, flag, seen, missed, conv>>
  BY AtIs DEF Update, profile
<1>2. job[r].todo \notin Looking
  BY <1>1, NoLookAhead
<1>3. Rest(r) \in Plain
  BY <1>1, JobIsTyped, UpdateRest, PlainAre DEF Rest
<1>4. done \in Jobs /\ done.todo = Rest(r) /\ done.todo \in Plain
  BY <1>3, PlainIsPlain, IdleIsPlain, Planned
<1>5. CASE job' = [job EXCEPT ![r] = done] /\ UNCHANGED prefs
  <2> DEFINE j == [Idle EXCEPT !.todo = Rest(r)]
  <2>1. j \in Jobs /\ j.todo = Rest(r)
    BY <1>3, PlainIsPlain, IdleIsPlain, Planned
  <2>2. Become(r, j)
    BY <1>5, <2>1 DEF Become
  <2> HIDE DEF j
  <2>3. Fit(j) /\ Agrees(j)
    BY <1>3, <2>1, PlainFits
  <2>4. conv' \in [field : Items, min : Numbers]
    BY <1>1 DEF Inv, TypeOK
  <2> QED
    BY <1>1, <1>2, <1>5, <2>1, <2>2, <2>3, <2>4, QuietTurn
<1>6. CASE /\ prefs' = job[r].sent
           /\ job' = [q \in Updates |->
                  CASE q = r -> done
                    [] q # r /\ Busy(q) -> noted(q)
                    [] OTHER -> job[q]]
  <2>1. prefs' \in Preferences
    BY <1>6, JobIsTyped
  <2>2. Changed(prefs, prefs') \subseteq Settings
    <3>1. DOMAIN prefs \subseteq Settings
      BY SettingsHeld DEF Inv, TypeOK
    <3>2. DOMAIN prefs' \subseteq Settings
      BY <2>1, SettingsHeld
    <3> QED
      BY <3>1, <3>2 DEF Changed
  <2>3. ASSUME NEW q \in Updates
        PROVE  /\ noted(q) \in Jobs
               /\ noted(q).todo = job[q].todo /\ noted(q).item = job[q].item
               /\ noted(q).user = job[q].user /\ noted(q).sent = job[q].sent
               /\ noted(q).during = job[q].during \cup Changed(prefs, prefs')
    BY <2>2, <2>3, JobIsTyped DEF Jobs
  <2> HIDE DEF done, noted
  <2>4. job'[r] = done
    BY <1>6
  <2>5. ASSUME NEW q \in Updates, q # r, Busy(q)
        PROVE  job'[q] = noted(q)
    BY <1>6, <2>5
  <2>6. ASSUME NEW q \in Updates, q # r, ~Busy(q)
        PROVE  job'[q] = job[q]
    BY <1>6, <2>6
  <2>7. job' \in [Updates -> Jobs]
    <3>1. \A q \in Updates : job'[q] \in Jobs
      BY <1>4, <2>3, <2>4, <2>5, <2>6, JobIsTyped
    <3>2. job' = [q \in Updates |-> job'[q]]
      BY <1>6
    <3> QED
      BY <3>1, <3>2
  <2>8. TypeOK'
    BY <1>1, <2>1, <2>7 DEF Inv, TypeOK
  <2>9. \A s \in DOMAIN prefs' \ Changed(prefs, prefs') : s \in DOMAIN prefs /\ prefs'[s] = prefs[s]
    BY DEF Changed
  <2>10. ASSUME NEW q \in Updates
         PROVE  Fit(job'[q])
    <3>1. CASE q = r
      BY <1>4, <2>4, <3>1, PlainFits
    <3>2. CASE q # r /\ Busy(q)
      <4>1. Fit(job[q])
        BY JobIsTyped
      <4>2. job'[q] = noted(q)
        BY <2>5, <3>2
      <4>3. /\ job'[q].todo = job[q].todo /\ job'[q].item = job[q].item
            /\ job'[q].user = job[q].user /\ job'[q].sent = job[q].sent
        BY <2>3, <4>2
      <4> QED
        BY <4>1, <4>3 DEF Fit
    <3>3. CASE q # r /\ ~Busy(q)
      BY <2>6, <3>3, JobIsTyped
    <3> QED
      BY <3>1, <3>2, <3>3
  <2>11. ASSUME NEW q \in Updates
         PROVE  Agrees(job[q])'
    <3>1. CASE q = r
      <4>1. job'[q].todo \in Plain
        BY <1>4, <2>4, <3>1
      <4> QED
        BY <4>1, PlainIsPlain DEF Agrees
    <3>2. CASE q # r /\ Busy(q)
      <4> DEFINE k == job[q]
                 l == job'[q]
      <4>1. l = noted(q)
        BY <2>5, <3>2
      <4>2. /\ l.todo = k.todo /\ l.item = k.item /\ l.sent = k.sent
            /\ l.during = k.during \cup Changed(prefs, prefs')
        BY <2>3, <4>1
      <4>3. Agrees(k)
        BY JobIsTyped
      <4> HIDE DEF k, l
      <4>4. ASSUME l.todo \in Unmerged \cup Merged,
                   NEW s \in DOMAIN prefs' \cap DOMAIN l.sent
            PROVE  s = l.item \/ s \in l.during \/ l.sent[s] = prefs'[s]
        <5>1. CASE s \in Changed(prefs, prefs')
          BY <4>2, <5>1
        <5>2. CASE s \notin Changed(prefs, prefs')
          <6>1. s \in DOMAIN prefs /\ prefs'[s] = prefs[s]
            BY <2>9, <5>2
          <6> QED
            BY <4>2, <4>3, <4>4, <6>1 DEF Agrees
        <5> QED
          BY <5>1, <5>2
      <4>5. ASSUME l.todo \in Merged
            PROVE  DOMAIN prefs' \subseteq DOMAIN l.sent \cup l.during
        BY <2>9, <4>2, <4>3, <4>5 DEF Agrees
      <4> QED
        BY <4>4, <4>5 DEF Agrees, l
    <3>3. CASE q # r /\ ~Busy(q)
      <4>1. job'[q].todo = <<>>
        BY <2>6, <3>3 DEF Busy
      <4> QED
        BY <4>1, NotEmpty DEF Agrees
    <3> QED
      BY <3>1, <3>2, <3>3
  <2>12. LookIsDue'
    <3> SUFFICES ASSUME Complete(has'), ~missed', ~flag'
                 PROVE  \E q \in Updates : job'[q].todo \in Looking
      BY DEF LookIsDue
    <3>1. PICK q \in Updates : job[q].todo \in Looking
      BY <1>1 DEF Inv, LookIsDue
    <3>2. q # r /\ Busy(q)
      BY <1>2, <3>1, NotEmpty DEF Busy
    <3>3. job'[q].todo = job[q].todo
      BY <2>3, <2>5, <3>2
    <3> QED
      BY <3>1, <3>3
  <2>13. "name" \in has'
    BY <1>1 DEF Inv
  <2>14. \A q \in Updates : (Fit(job[q]) /\ Agrees(job[q]))'
    <3>1. ASSUME NEW x, Fit(x) PROVE Fit(x)'
      BY <3>1 DEF Fit
    <3> QED
      BY <2>10, <2>11, <3>1
  <2> QED
    BY <2>8, <2>12, <2>13, <2>14 DEF Inv
<1> QED
  BY <1>5, <1>6 DEF Update

\* A look that is lost is a look missed.
LEMMA LookAhead ==
    ASSUME NEW t \in Looking
    PROVE  \E i \in 1..Len(t) : t[i] \in {"look", "flag"}
<1>1. CASE t = <<"clear", "look", "ask">>
  <2>1. Len(t) = 3 /\ t[2] = "look"
    BY <1>1
  <2> QED
    BY <2>1
<1>2. CASE t # <<"clear", "look", "ask">>
  <2>1. /\ Len(<<"look">>) = 1 /\ <<"look">>[1] = "look"
        /\ Len(<<"look", "ask">>) = 2 /\ <<"look", "ask">>[1] = "look"
        /\ Len(<<"look", "clear", "ask">>) = 3 /\ <<"look", "clear", "ask">>[1] = "look"
    OBVIOUS
  <2>2. /\ Len(<<"flag">>) = 1 /\ <<"flag">>[1] = "flag"
        /\ Len(<<"flag", "ask">>) = 2 /\ <<"flag", "ask">>[1] = "flag"
        /\ Len(<<"flag", "clear", "ask">>) = 3 /\ <<"flag", "clear", "ask">>[1] = "flag"
    OBVIOUS
  <2>3. Len(t) \in {1, 2, 3} /\ t[1] \in {"look", "flag"}
    BY <1>2, <2>1, <2>2, Zenon DEF Looking
  <2> QED
    BY <2>3
<1> QED
  BY <1>1, <1>2

LEMMA BreakInv == ASSUME Inv, NEW r \in Updates, Break(r) PROVE Inv'
<1> DEFINE j == [job[r] EXCEPT !.todo = <<>>]
           lost == \E i \in 1..Len(job[r].todo) : job[r].todo[i] \in {"look", "flag"}
<1>1. /\ Become(r, j) /\ UNCHANGED <<half, has, flag, seen, conv, prefs>>
      /\ missed' = (missed \/ lost)
  BY DEF Break, Plan
<1>2. /\ has' \subseteq Fields /\ "name" \in has' /\ flag' \in BOOLEAN
      /\ seen' \subseteq Once /\ conv' \in [field : Items, min : Numbers]
  BY <1>1 DEF Inv, TypeOK
<1>3. missed' \in BOOLEAN
  BY <1>1
<1>4. ~missed' => ~missed /\ job[r].todo \notin Looking
  BY <1>1, LookAhead
<1>5. j \in Jobs /\ j.todo = <<>>
  BY JobIsTyped, Planned DEF Lists
<1> HIDE DEF j, lost
<1>6. Fit(j) /\ Agrees(j)
  BY <1>5, PlainFits, PlainAre
<1> QED
  BY <1>1, <1>2, <1>3, <1>4, <1>5, <1>6, Turn

\* Neither a key that runs out nor the cleanup makes a look due.
LEMMA QuietStep ==
    ASSUME Inv, TypeOK', "name" \in has', UNCHANGED <<prefs, job>>,
           Complete(has') /\ ~missed' /\ ~flag' => Complete(has) /\ ~missed /\ ~flag
    PROVE  Inv'
<1>1. ASSUME NEW r \in Updates PROVE (Fit(job[r]) /\ Agrees(job[r]))'
  <2>1. Fit(job[r]) /\ Agrees(job[r])
    BY JobIsTyped
  <2> QED
    BY <2>1 DEF Fit, Agrees
<1>2. LookIsDue'
  BY DEF Inv, LookIsDue
<1> QED
  BY <1>1, <1>2 DEF Inv

LEMMA ExpireInv == ASSUME Inv, Expire PROVE Inv'
<1>1. UNCHANGED <<half, has, flag, prefs, job, missed>>
  BY DEF Expire
<1>2. "none" \in Items
  BY DEF Items
<1>3. conv' \in [field : Items, min : Numbers] /\ seen' \subseteq Once
  BY <1>2, ConversationIsTyped DEF Inv, TypeOK, Expire
<1>4. TypeOK' /\ "name" \in has'
  BY <1>1, <1>3 DEF Inv, TypeOK
<1> QED
  BY <1>1, <1>4, QuietStep

LEMMA WipeInv == ASSUME Inv, Wipe PROVE Inv'
<1>1. UNCHANGED <<half, seen, conv, prefs, job, missed>> /\ has' = has \ {"media"}
  BY DEF Wipe
<1>2. TypeOK' /\ "name" \in has'
  BY <1>1 DEF Inv, TypeOK, Wipe
<1>3. ~Complete(has')
  BY <1>1, FieldsAre DEF Complete
<1> QED
  BY <1>1, <1>2, <1>3, QuietStep

LEMMA StutterInv == ASSUME Inv, UNCHANGED vars PROVE Inv'
<1>1. TypeOK' /\ "name" \in has' /\ UNCHANGED <<has, flag, missed, prefs, job>>
  BY DEF vars, Inv, TypeOK
<1> QED
  BY <1>1, QuietStep

LEMMA Inductive == Inv /\ [Next]_vars => Inv'
<1> SUFFICES ASSUME Inv, [Next]_vars PROVE Inv'
  OBVIOUS
<1>1. ASSUME NEW r \in Updates, Arrive(r) PROVE Inv'
  BY <1>1, SayInv, TapInv, ShareContactInv, SetInv DEF Arrive
<1>2. ASSUME NEW r \in Updates, Serve(r) PROVE Inv'
  BY <1>2, CheckInv, AskInv, PickInv, MarkInv, LanguageInv, TextInv, PhotoInv, GpsInv, EditInv,
     FeedbackInv, DeleteInv, StoreInv, ClearInv, HangUpInv, LookInv, FlagInv, ReadInv, DefaultInv,
     MinInv, RangeInv, NumberInv, PairInv, SelectInv, UpdateInv DEF Serve
<1> QED
  BY <1>1, <1>2, BreakInv, ExpireInv, WipeInv, StutterInv DEF Next

LEMMA Invariance == Spec => []Inv
<1>1. Init => Inv
  BY InitInv
<1>2. Inv /\ [Next]_vars => Inv'
  BY Inductive
<1> QED
  BY <1>1, <1>2, PTL DEF Spec

-----------------------------------------------------------------------------
(* The theorems. *)

\* What runs still have to do is always the rest of some handler, and what they
\* carry are fields and settings.
THEOREM DialogueTyped == Spec => []TypeOK
<1>1. Inv => TypeOK
  BY DEF Inv
<1> QED
  BY <1>1, Invariance, PTL

\* However many updates overlap and whatever fails: once everybody has finished,
\* a complete profile is marked so, unless the last look at it did not come off
\* or a place was sent unasked.
THEOREM CompleteProfilesAreFlagged == Spec => []CompleteIsFlagged
<1>1. Inv => CompleteIsFlagged
  <2> SUFFICES ASSUME Inv, Complete(has), ~missed, \A r \in Updates : ~Busy(r)
               PROVE  flag
    BY DEF CompleteIsFlagged
  <2>1. \A r \in Updates : job[r].todo \notin Looking
    BY NotEmpty DEF Busy
  <2> QED
    BY <2>1 DEF Inv, LookIsDue
<1> QED
  BY <1>1, Invariance, PTL

\* Nobody leaves the onboarding with a required field missing: of the steps that
\* are shown once a complete profile needs the name only, which everybody has.
THEOREM OnboardingAsksEverything == Spec => []AskedToTheEnd
<1>1. Inv => AskedToTheEnd
  <2> SUFFICES ASSUME Inv, NEW r \in Updates, At(r, "pick"), NextStep(job[r].user, seen) = "none"
               PROVE  Complete(job[r].user)
    BY DEF AskedToTheEnd
  <2>1. job[r].todo = <<"pick">>
    <3>1. job[r].todo \in Asking
      BY AtIs, JobIsTyped, Kinds
    <3> QED
      BY <3>1, AtIs, AskingCalls, Zenon DEF Asking
  <2>2. "name" \in job[r].user
    BY <2>1, JobIsTyped DEF Fit
  <2>3. \A f \in Fields : Skip(f, job[r].user, seen)
    BY NextStepIs
  <2>4. ASSUME NEW f \in Required PROVE f \in job[r].user
    <3>1. f \in Fields /\ f # "interests"
      BY DEF Required
    <3>2. CASE f \in Once
      BY <2>2, <3>1, <3>2 DEF Once
    <3>3. CASE f \notin Once
      BY <2>3, <3>1, <3>3 DEF Skip
    <3> QED
      BY <3>2, <3>3
  <2> QED
    BY <2>4 DEF Complete
<1> QED
  BY <1>1, Invariance, PTL

\* No order of buttons, typed numbers and keys that run out stores a maximum age
\* below the minimum.
THEOREM RangesAreOrdered == Spec => []RangeOrdered
<1>1. Inv => RangeOrdered
  BY SettingsHeld DEF Inv, TypeOK, RangeOrdered, Ranges
<1> QED
  BY <1>1, Invariance, PTL

\* Only the write of the settings changes them, and it writes what its run holds.
LEMMA OnlyUpdateWrites ==
    ASSUME Next, prefs' # prefs
    PROVE  \E r \in Updates : /\ At(r, "update") /\ prefs' = job[r].sent
                              /\ job'[r].todo = Rest(r)
<1>1. ASSUME NEW r \in Updates, Arrive(r) PROVE prefs' = prefs
  BY <1>1 DEF Arrive, Say, Tap, ShareContact, Set, Receive
<1>2. ASSUME NEW r \in Updates, Serve(r) PROVE Update(r)
  <2>1. ~Check(r) /\ ~Ask(r) /\ ~Pick(r) /\ ~Mark(r) /\ ~Language(r)
    BY DEF Check, Ask, Pick, Mark, Language
  <2>2. ~Text(r) /\ ~Photo(r) /\ ~Gps(r) /\ ~Edit(r) /\ ~Feedback(r) /\ ~Delete(r)
    BY DEF Text, Photo, Gps, Edit, Feedback, Delete
  <2>3. ~Store(r) /\ ~Clear(r) /\ ~HangUp(r) /\ ~Look(r) /\ ~Flag(r)
    BY DEF Store, Clear, HangUp, Look, Flag
  <2>4. ~Read(r) /\ ~Default(r) /\ ~Min(r) /\ ~Range(r) /\ ~Number(r) /\ ~Pair(r) /\ ~Select(r)
    BY DEF Read, Default, Min, Range, Number, Pair, Select
  <2> QED
    BY <1>2, <2>1, <2>2, <2>3, <2>4 DEF Serve
<1>3. ~Expire /\ ~Wipe /\ \A r \in Updates : ~Break(r)
  BY DEF Expire, Wipe, Break
<1>4. PICK r \in Updates : Update(r)
  BY <1>1, <1>2, <1>3 DEF Next
<1>5. /\ At(r, "update") /\ prefs' = job[r].sent
      /\ job'[r] = IF Rest(r) = <<>> THEN Idle ELSE [Idle EXCEPT !.todo = Rest(r)]
  BY <1>4 DEF Update
<1>6. job'[r].todo = Rest(r)
  BY <1>5 DEF Idle
<1> QED
  BY <1>5, <1>6

\* Whoever writes the settings leaves alone what is neither theirs nor was
\* changed by somebody else after they had begun.
THEOREM SettingsSurvive == Spec => NoLostSetting
<1>1. ASSUME Inv, Next, prefs' # prefs, NEW s \in DOMAIN prefs \cap Changed(prefs, prefs')
      PROVE  \E r \in Updates : job'[r] # job[r] /\ (s = job[r].item \/ s \in job[r].during)
  <2>1. PICK r \in Updates : /\ At(r, "update") /\ prefs' = job[r].sent
                             /\ job'[r].todo = Rest(r)
    BY <1>1, OnlyUpdateWrites
  <2>2. job[r].todo \in Merged
    BY <1>1, <2>1, AtIs, JobIsTyped, Kinds
  <2>3. job'[r] # job[r]
    <3>1. Rest(r) \in {<<>>, <<"clear">>}
      BY <1>1, <2>1, AtIs, JobIsTyped, UpdateRest DEF Rest
    <3>2. Rest(r) # job[r].todo
      BY <2>2, <3>1, NotEmpty, Heads, ClosingCalls
    <3> QED
      BY <2>1, <3>2
  <2>4. Agrees(job[r])
    BY <1>1, JobIsTyped
  <2>5. s = job[r].item \/ s \in job[r].during
    BY <1>1, <2>1, <2>2, <2>4 DEF Agrees, Changed
  <2> QED
    BY <2>3, <2>5
<1>2. Inv /\ [Next]_vars =>
        [\A s \in DOMAIN prefs \cap Changed(prefs, prefs') :
            \E r \in Updates : job'[r] # job[r] /\ (s = job[r].item \/ s \in job[r].during)]_prefs
  BY <1>1 DEF vars
<1> QED
  BY <1>2, Invariance, PTL DEF Spec, NoLostSetting

=============================================================================
