--------------------------- MODULE MediaList_proofs ---------------------------
(***************************************************************************)
(* The media list: types, the limit of the list, and what the list and the *)
(* bucket owe to each other, for any set of uploads, taps and failures.    *)
(***************************************************************************)
EXTENDS MediaList, FiniteSetTheorems, TLAPS

USE DEF Callers, Procs, job, history

Steps == {"new", "put", "quota", "space", "select", "update", "count", "undo",
          "owner", "object", "reread", "remove", "next", "notify", "done"}

(***************************************************************************)
(* Where the steps of a process stay: an upload never takes the steps of a *)
(* delete handler, and only the job is ever between two items.             *)
(***************************************************************************)
Lanes ==
    /\ \A u \in Items : pc[u] \in {"new", "put", "quota", "space", "select", "update",
                                   "count", "undo", "done"}
    /\ \A c \in Callers : pc[c] \in {"new", "owner", "object", "reread", "remove", "next",
                                     "notify", "done"}
    /\ \A c \in Callers : pc[c] \in {"owner", "object", "reread", "remove"} => target[c] \in Items
    /\ \A d \in Deletes : pc[d] \notin {"next", "notify"}

\* Every variable keeps its type, and every process its lane.
LEMMA InitTypes == Init => TypeOK /\ Lanes
  <1> SUFFICES ASSUME Init PROVE TypeOK /\ Lanes
    OBVIOUS
  <1>1. used \in 0..Daily
    BY ConstantsAssumption DEF Init
  <1> QED BY <1>1 DEF Init, TypeOK, Lanes

\* What the end of a delete handler does to the caller's step, target and verdict.
LEMMA ReturnTypes ==
    ASSUME TypeOK, Lanes, NEW c \in Callers, NEW ok \in BOOLEAN, Return(c, ok)
    PROVE /\ pc' \in [Procs -> Steps] /\ target' \in [Callers -> Items \cup {"none"}]
          /\ allDeleted' \in BOOLEAN /\ snap' \subseteq Items /\ todo' \subseteq Items
          /\ Lanes'
  <1>1. pc' = [pc EXCEPT ![c] = IF c = Job THEN "next" ELSE "done"]
        /\ target' = [target EXCEPT ![c] = "none"]
    BY DEF Return
  <1>2. allDeleted' \in BOOLEAN /\ UNCHANGED <<snap, todo>>
    BY DEF Return, TypeOK
  <1>3. /\ pc' \in [Procs -> Steps] /\ target' \in [Callers -> Items \cup {"none"}]
        /\ \A p \in Procs \ {c} : pc'[p] = pc[p]
        /\ \A k \in Callers \ {c} : target'[k] = target[k]
        /\ pc'[c] = IF c = Job THEN "next" ELSE "done"
    BY <1>1 DEF TypeOK, Steps
  <1>4. c \notin Items
    BY ConstantsAssumption
  <1>5. Lanes'
    BY <1>3, <1>4, ConstantsAssumption DEF Lanes
  <1> QED BY <1>2, <1>3, <1>5 DEF TypeOK

LEMMA NextTypes == TypeOK /\ Lanes /\ [Next]_vars => TypeOK' /\ Lanes'
  <1> SUFFICES ASSUME TypeOK, Lanes, [Next]_vars PROVE TypeOK' /\ Lanes'
    OBVIOUS
  <1> USE ConstantsAssumption DEF TypeOK, Lanes, Step, WriteList, Steps
  <1>1. ASSUME NEW u \in Items, Upload(u) PROVE TypeOK' /\ Lanes'
    <2>1. CASE CheckCount(u) BY <2>1 DEF CheckCount
    <2>2. CASE Put(u) BY <2>2 DEF Put
    <2>3. CASE CheckQuota(u) BY <2>3 DEF CheckQuota
    <2>4. CASE CheckSpace(u) BY <2>4 DEF CheckSpace
    <2>5. CASE SelectForAdd(u) BY <2>5 DEF SelectForAdd
    <2>6. CASE AddItem(u) BY <2>6 DEF AddItem
    <2>7. CASE Count(u) BY <2>7 DEF Count
    <2>8. CASE UploadFails(u)
      <3>1. PICK to \in {"undo", "done"} :
              \/ /\ pc' = [pc EXCEPT ![u] = to] /\ UNCHANGED <<list, seen, raced, added>>
              \/ /\ pc' = [pc EXCEPT ![u] = to]
                 /\ seen' = [seen EXCEPT ![u] = {}]
                 /\ list' = seen[u] \cup {u} \/ list' = list
                 /\ added' = added \cup {u} \/ added' = added
                 /\ raced' \in BOOLEAN
        BY <2>8 DEF UploadFails
      <3>2. failed' \subseteq Items /\ UNCHANGED <<bucket, used, marked, target, job, crowded>>
        BY <2>8 DEF UploadFails
      <3> QED BY <3>1, <3>2
    <2>9. CASE Undo(u) BY <2>9 DEF Undo
    <2> QED BY <1>1, <2>1, <2>2, <2>3, <2>4, <2>5, <2>6, <2>7, <2>8, <2>9 DEF Upload
  <1>2. ASSUME NEW d \in Deletes, Tap(d) PROVE TypeOK' /\ Lanes'
    BY <1>2 DEF Tap
  <1>3. ASSUME NEW c \in Callers, Remove(c) PROVE TypeOK' /\ Lanes'
    <2>1. CASE CheckOwner(c)
      <3>1. CASE target[c] \in list /\ Step(c, "owner", "object") /\ UNCHANGED <<target, job>>
        BY <2>1, <3>1 DEF CheckOwner
      <3>2. CASE Return(c, FALSE)
        BY <2>1, <3>2, ReturnTypes DEF CheckOwner
      <3> QED BY <2>1, <3>1, <3>2 DEF CheckOwner
    <2>2. CASE DeleteObject(c) BY <2>2 DEF DeleteObject
    <2>3. CASE SelectForRemove(c) BY <2>3 DEF SelectForRemove
    <2>4. CASE RemoveItem(c) BY <2>4, ReturnTypes DEF RemoveItem
    <2>5. CASE DeleteFails(c)
      <3>1. Return(c, FALSE) /\ UNCHANGED <<bucket, used, marked, added, crowded>>
        BY <2>5 DEF DeleteFails
      <3>2. failed' \subseteq Items
        BY <2>5 DEF DeleteFails
      <3>3. list' \subseteq Items /\ seen' \in [Procs -> SUBSET Items] /\ raced' \in BOOLEAN
        BY <2>5 DEF DeleteFails
      <3> QED BY <3>1, <3>2, <3>3, ReturnTypes
    <2> QED BY <1>3, <2>1, <2>2, <2>3, <2>4, <2>5 DEF Remove
  <1>4. CASE Clean
    <2>1. CASE JobSelect BY <2>1 DEF JobSelect
    <2>2. CASE JobNext
      <3>1. PICK i \in todo : todo' = todo \ {i} /\ target' = [target EXCEPT ![Job] = i]
        BY <2>2 DEF JobNext
      <3> QED BY <2>2, <3>1 DEF JobNext
    <2>3. CASE JobFinish
      <3>1. pc' = [pc EXCEPT ![Job] = "notify"] \/ pc' = [pc EXCEPT ![Job] = "new"]
        BY <2>3 DEF JobFinish
      <3>2. /\ list' \subseteq Items /\ marked' \in BOOLEAN
            /\ snap' \subseteq Items /\ todo' \subseteq Items /\ allDeleted' \in BOOLEAN
            /\ UNCHANGED <<bucket, used, target, seen, history>>
        BY <2>3 DEF JobFinish, JobOver
      <3> QED BY <3>1, <3>2
    <2>4. CASE JobNotify BY <2>4 DEF JobNotify, JobOver
    <2> QED BY <1>4, <2>1, <2>2, <2>3, <2>4 DEF Clean
  <1>5. CASE UNCHANGED vars
    BY <1>5 DEF vars
  <1> QED BY <1>1, <1>2, <1>3, <1>4, <1>5 DEF Next

\* Every variable keeps its type; the day's counter stays within its limit.
THEOREM TypeCorrect == Spec => []TypeOK
  <1>1. Spec => [](TypeOK /\ Lanes)
    BY InitTypes, NextTypes, PTL DEF Spec
  <1> QED BY <1>1, PTL

-----------------------------------------------------------------------------
(***************************************************************************)
(* The limit.  What an upload is about to write back was short enough when *)
(* it was read, and nobody writes more than that and its own item.         *)
(***************************************************************************)
Short ==
    /\ Cardinality(list) <= Limit
    /\ \A p \in Procs : Cardinality(seen[p]) <= Limit
    /\ \A u \in Items : pc[u] = "update" => Cardinality(seen[u]) + 1 <= Limit

\* Sets of items are finite; one more item is at most one more element.
LEMMA ItemSets ==
    ASSUME NEW S \in SUBSET Items
    PROVE /\ IsFiniteSet(S) /\ Cardinality(S) \in Nat
          /\ \A u \in Items : Cardinality(S \cup {u}) <= Cardinality(S) + 1
          /\ \A u \in Items : Cardinality(S \ {u}) <= Cardinality(S)
  <1>1. IsFiniteSet(S)
    BY ConstantsAssumption, FS_Subset
  <1>2. Cardinality(S) \in Nat
    BY <1>1, FS_CardinalityType
  <1>3. ASSUME NEW u \in Items PROVE Cardinality(S \cup {u}) <= Cardinality(S) + 1
    BY <1>1, <1>2, FS_AddElement
  <1>4. ASSUME NEW u \in Items PROVE Cardinality(S \ {u}) <= Cardinality(S)
    <2>1. S \ {u} \subseteq S
      OBVIOUS
    <2> QED BY <1>1, <2>1, FS_Subset
  <1> QED BY <1>1, <1>2, <1>3, <1>4

LEMMA NoneIsShort == Cardinality({}) = 0
  BY FS_EmptySet

LEMMA ShortInvariant == TypeOK /\ Lanes /\ Short /\ [Next]_vars => Short'
  <1> SUFFICES ASSUME TypeOK, Lanes, Short, [Next]_vars PROVE Short'
    OBVIOUS
  <1>t. TypeOK' /\ Lanes'
    BY NextTypes
  <1>l. Limit \in Nat /\ Limit >= 1
    BY ConstantsAssumption
  <1>s. \A p \in Procs : seen[p] \in SUBSET Items
    BY DEF TypeOK
  \* Steps that leave list and seen alone, and do not start an UPDATE.
  <1>a. ASSUME UNCHANGED <<list, seen>>,
               \A u \in Items : pc'[u] = "update" => pc[u] = "update"
        PROVE Short'
    BY <1>a DEF Short
  \* Writes of a list that is short enough.
  <1>b. ASSUME NEW p \in Procs,
               Cardinality(list') <= Limit,
               seen' = [seen EXCEPT ![p] = {}],
               \A u \in Items : pc'[u] = "update" => pc[u] = "update" /\ u # p
        PROVE Short'
    <2>1. \A q \in Procs : seen'[q] = {} \/ (q # p /\ seen'[q] = seen[q])
      BY <1>b DEF TypeOK
    <2> QED BY <1>b, <2>1, <1>l, NoneIsShort DEF Short
  \* Reads of the list.
  <1>c. ASSUME NEW p \in Procs, seen' = [seen EXCEPT ![p] = list], list' = list,
               \A u \in Items \ {p} : pc'[u] = pc[u],
               p \in Items => Cardinality(list) + 1 <= Limit
        PROVE Short'
    <2>1. \A q \in Procs \ {p} : seen'[q] = seen[q]
      BY <1>c DEF TypeOK
    <2>2. seen'[p] = list
      BY <1>c DEF TypeOK
    <2> QED BY <1>c, <2>1, <2>2 DEF Short
  <1>1. ASSUME NEW u \in Items, Upload(u) PROVE Short'
    <2>1. CASE CheckCount(u) \/ Put(u) \/ CheckQuota(u) \/ CheckSpace(u) \/ Count(u) \/ Undo(u)
      <3>1. UNCHANGED <<list, seen>>
        BY <2>1 DEF CheckCount, Put, CheckQuota, CheckSpace, Count, Undo
      <3>2. \E to \in {"put", "quota", "space", "select", "undo", "done"} : pc' = [pc EXCEPT ![u] = to]
        BY <2>1 DEF CheckCount, Put, CheckQuota, CheckSpace, Count, Undo, Step
      <3> QED BY <3>1, <3>2, <1>a DEF TypeOK
    <2>2. CASE SelectForAdd(u)
      <3>1. CASE /\ Cardinality(list) < Limit /\ Step(u, "select", "update")
                 /\ seen' = [seen EXCEPT ![u] = list]
        <4>1. Cardinality(list) + 1 <= Limit
          BY <3>1, <1>l, ItemSets DEF TypeOK
        <4> QED BY <2>2, <3>1, <4>1, <1>c DEF SelectForAdd, Step, TypeOK
      <3>2. CASE Step(u, "select", "undo") /\ UNCHANGED seen
        BY <2>2, <3>2, <1>a DEF SelectForAdd, Step, TypeOK
      <3> QED BY <2>2, <3>1, <3>2 DEF SelectForAdd
    <2>3. ASSUME pc[u] = "update" PROVE Cardinality(seen[u] \cup {u}) <= Limit
      <3>1. Cardinality(seen[u]) \in Nat /\ Cardinality(seen[u] \cup {u}) \in Nat
        <4>1. seen[u] \cup {u} \in SUBSET Items
          BY <1>s
        <4> QED BY <1>s, <4>1, ItemSets
      <3>2. Cardinality(seen[u] \cup {u}) <= Cardinality(seen[u]) + 1
        BY <1>s, ItemSets
      <3> QED BY <2>3, <3>1, <3>2, <1>l DEF Short
    <2>4. CASE AddItem(u)
      <3>1. /\ pc[u] = "update" /\ pc' = [pc EXCEPT ![u] = "count"]
            /\ list' = seen[u] \cup {u} /\ seen' = [seen EXCEPT ![u] = {}]
        BY <2>4 DEF AddItem, WriteList, Step
      <3> QED BY <3>1, <2>3, <1>b DEF TypeOK
    <2>5. CASE UploadFails(u)
      <3>1. PICK to \in {"undo", "done"} :
              \/ pc' = [pc EXCEPT ![u] = to] /\ UNCHANGED <<list, seen>>
              \/ /\ pc[u] = "update" /\ pc' = [pc EXCEPT ![u] = to]
                 /\ seen' = [seen EXCEPT ![u] = {}]
                 /\ list' = seen[u] \cup {u} \/ list' = list
        BY <2>5 DEF UploadFails, Step, WriteList
      <3>2. \A v \in Items : pc'[v] = "update" => pc[v] = "update" /\ v # u
        BY <3>1 DEF TypeOK
      <3> QED BY <3>1, <3>2, <2>3, <1>a, <1>b DEF Short
    <2> QED BY <1>1, <2>1, <2>2, <2>4, <2>5 DEF Upload
  <1>2. ASSUME NEW d \in Deletes, Tap(d) PROVE Short'
    BY <1>2, <1>a DEF Tap, Step, TypeOK
  <1>3. ASSUME NEW c \in Callers, Remove(c) PROVE Short'
    <2>0. c \notin Items
      BY ConstantsAssumption
    <2>1. \A u \in Items : pc'[u] = pc[u]
      BY <1>3, <2>0 DEF Remove, CheckOwner, DeleteObject, SelectForRemove, RemoveItem,
           DeleteFails, Return, Step, TypeOK
    <2>2. CASE CheckOwner(c) \/ DeleteObject(c)
      BY <2>1, <2>2, <1>a DEF CheckOwner, DeleteObject
    <2>3. CASE SelectForRemove(c)
      BY <2>0, <2>1, <2>3, <1>c DEF SelectForRemove
    <2>4. Cardinality(seen[c] \ {target[c]}) <= Limit
      <3>1. seen[c] \ {target[c]} \subseteq seen[c] /\ IsFiniteSet(seen[c])
        BY <1>s, ItemSets
      <3>2. Cardinality(seen[c] \ {target[c]}) <= Cardinality(seen[c])
        BY <3>1, FS_Subset
      <3>3. Cardinality(seen[c]) \in Nat /\ Cardinality(seen[c] \ {target[c]}) \in Nat
        BY <3>1, FS_Subset, FS_CardinalityType
      <3> QED BY <3>2, <3>3, <1>l DEF Short
    <2>5. CASE RemoveItem(c) \/ DeleteFails(c)
      <3>1. \/ UNCHANGED <<list, seen>>
            \/ /\ seen' = [seen EXCEPT ![c] = {}]
               /\ list' = seen[c] \ {target[c]} \/ list' = list
        BY <2>5 DEF RemoveItem, DeleteFails, WriteList
      <3> QED BY <2>0, <2>1, <2>4, <3>1, <1>a, <1>b DEF Short
    <2> QED BY <1>3, <2>2, <2>3, <2>5 DEF Remove
  <1>4. CASE Clean
    <2>0. Job \notin Items
      BY ConstantsAssumption
    <2>1. \A u \in Items : pc'[u] = pc[u]
      BY <1>4, <2>0 DEF Clean, JobSelect, JobNext, JobFinish, JobNotify, Step, TypeOK
    <2>2. seen' = seen /\ (list' = list \/ list' = {})
      BY <1>4 DEF Clean, JobSelect, JobNext, JobFinish, JobNotify
    <2> QED BY <2>1, <2>2, <1>a, <1>l, NoneIsShort DEF Short
  <1>5. CASE UNCHANGED vars
    BY <1>5, <1>a DEF vars
  <1> QED BY <1>1, <1>2, <1>3, <1>4, <1>5 DEF Next

\* The list never holds more than its limit, whatever overlaps or fails.
THEOREM NeverTooLong == Spec => []AtMostThree
  <1>1. Init => Short
    BY NoneIsShort, ConstantsAssumption DEF Init, Short
  <1>2. Short => AtMostThree
    BY DEF Short, AtMostThree
  <1> QED BY <1>1, <1>2, InitTypes, NextTypes, ShortInvariant, PTL DEF Spec

-----------------------------------------------------------------------------
(***************************************************************************)
(* Whatever is listed, was read as listed or is about to be deleted has    *)
(* been registered: its upload is past its UPDATE, and if it takes its     *)
(* object back it knows of a failure.                                      *)
(***************************************************************************)
Registered == {u \in Items : pc[u] \in {"count", "done"} \/ (pc[u] = "undo" /\ u \in failed)}

AtHand(c) == pc[c] \in {"owner", "object", "reread", "remove"}

Known ==
    /\ list \subseteq Registered /\ snap \subseteq Registered
    /\ todo \subseteq snap
    /\ \A p \in Procs : seen[p] \subseteq Registered
    /\ \A c \in Callers : AtHand(c) => target[c] \in Registered
    /\ AtHand(Job) => target[Job] \in snap

\* An upload that is past its UPDATE stays so.
LEMMA RegisteredGrows == TypeOK /\ Lanes /\ [Next]_vars => Registered \subseteq Registered'
  <1> SUFFICES ASSUME TypeOK, Lanes, [Next]_vars, NEW v \in Registered PROVE v \in Registered'
    OBVIOUS
  <1>v. v \in Items /\ (pc[v] \in {"count", "done"} \/ (pc[v] = "undo" /\ v \in failed))
    BY DEF Registered
  \* It is enough that it finishes or stays where it is.
  <1>a. ASSUME pc'[v] = pc[v], failed \subseteq failed' PROVE v \in Registered'
    BY <1>a, <1>v DEF Registered
  <1>b. ASSUME pc'[v] = "done" PROVE v \in Registered'
    BY <1>b, <1>v DEF Registered
  <1>1. ASSUME NEW u \in Items, Upload(u) PROVE v \in Registered'
    <2>1. failed \subseteq failed'
      BY <1>1 DEF Upload, CheckCount, Put, CheckQuota, CheckSpace, SelectForAdd, AddItem, Count,
           UploadFails, Undo, history
    <2>2. CASE u # v
      <3>1. pc'[v] = pc[v]
        BY <1>1, <1>v, <2>2 DEF Upload, CheckCount, Put, CheckQuota, CheckSpace, SelectForAdd,
             AddItem, Count, UploadFails, Undo, Step, TypeOK
      <3> QED BY <2>1, <3>1, <1>a
    <2>3. CASE u = v
      <3>1. CASE Count(u) \/ Undo(u)
        BY <1>v, <2>3, <3>1, <1>b DEF Count, Undo, Step, TypeOK
      <3>2. CASE UploadFails(u)
        <4>1. v \in failed' /\ \E to \in {"undo", "done"} : pc' = [pc EXCEPT ![u] = to]
          BY <2>3, <3>2 DEF UploadFails, Step
        <4> QED BY <1>v, <2>3, <4>1 DEF Registered, TypeOK
      <3>3. ~(CheckCount(u) \/ Put(u) \/ CheckQuota(u) \/ CheckSpace(u) \/ SelectForAdd(u)
              \/ AddItem(u))
        BY <1>v, <2>3 DEF CheckCount, Put, CheckQuota, CheckSpace, SelectForAdd, AddItem, Step
      <3> QED BY <1>1, <3>1, <3>2, <3>3 DEF Upload
    <2> QED BY <2>2, <2>3
  <1>2. ASSUME NEW d \in Deletes, Tap(d) PROVE v \in Registered'
    BY <1>2, <1>v, <1>a, ConstantsAssumption DEF Tap, Step, TypeOK
  <1>3. ASSUME NEW c \in Callers, Remove(c) PROVE v \in Registered'
    <2>1. c # v
      BY <1>v, ConstantsAssumption
    <2>2. pc'[v] = pc[v]
      BY <1>3, <1>v, <2>1 DEF Remove, CheckOwner, DeleteObject, SelectForRemove, RemoveItem,
           DeleteFails, Return, Step, TypeOK
    <2>3. failed \subseteq failed'
      BY <1>3 DEF Remove, CheckOwner, DeleteObject, SelectForRemove, RemoveItem, DeleteFails
    <2> QED BY <2>2, <2>3, <1>a
  <1>4. CASE Clean
    <2>1. Job # v
      BY <1>v, ConstantsAssumption
    <2>2. pc'[v] = pc[v] /\ failed' = failed
      BY <1>4, <1>v, <2>1 DEF Clean, JobSelect, JobNext, JobFinish, JobNotify, Step, TypeOK
    <2> QED BY <2>2, <1>a
  <1>5. CASE UNCHANGED vars
    BY <1>5, <1>a DEF vars
  <1> QED BY <1>1, <1>2, <1>3, <1>4, <1>5 DEF Next

LEMMA KnownInvariant == TypeOK /\ Lanes /\ Known /\ [Next]_vars => Known'
  <1> SUFFICES ASSUME TypeOK, Lanes, Known, [Next]_vars PROVE Known'
    OBVIOUS
  <1>r. Registered \subseteq Registered'
    BY RegisteredGrows
  <1>1. ASSUME NEW u \in Items, Upload(u) PROVE Known'
    <2>1. UNCHANGED <<target, snap, todo>> /\ \A c \in Callers : pc'[c] = pc[c]
      <3>1. \A c \in Callers : c # u
        BY ConstantsAssumption
      <3> QED BY <1>1, <3>1 DEF Upload, CheckCount, Put, CheckQuota, CheckSpace, SelectForAdd,
                AddItem, Count, UploadFails, Undo, Step, TypeOK
    <2>2. list' \subseteq Registered' /\ \A p \in Procs : seen'[p] \subseteq Registered'
      <3>1. CASE CheckCount(u) \/ Put(u) \/ CheckQuota(u) \/ CheckSpace(u) \/ Count(u) \/ Undo(u)
        BY <3>1, <1>r DEF CheckCount, Put, CheckQuota, CheckSpace, Count, Undo, Known
      <3>2. CASE SelectForAdd(u)
        BY <3>2, <1>r DEF SelectForAdd, Known, TypeOK
      <3>3. CASE AddItem(u)
        <4>1. pc'[u] = "count" /\ list' = seen[u] \cup {u} /\ seen' = [seen EXCEPT ![u] = {}]
          BY <3>3 DEF AddItem, WriteList, Step, TypeOK
        <4>2. u \in Registered'
          BY <4>1 DEF Registered
        <4> QED BY <4>1, <4>2, <1>r DEF Known, TypeOK
      <3>4. CASE UploadFails(u)
        <4>1. u \in failed' /\ \E to \in {"undo", "done"} : pc' = [pc EXCEPT ![u] = to]
          BY <3>4 DEF UploadFails, Step
        <4>2. u \in Registered'
          BY <4>1 DEF Registered, TypeOK
        <4>3. \/ UNCHANGED <<list, seen>>
              \/ /\ seen' = [seen EXCEPT ![u] = {}]
                 /\ list' = seen[u] \cup {u} \/ list' = list
          BY <3>4 DEF UploadFails, WriteList
        <4> QED BY <4>2, <4>3, <1>r DEF Known, TypeOK
      <3> QED BY <1>1, <3>1, <3>2, <3>3, <3>4 DEF Upload
    <2> QED BY <2>1, <2>2, <1>r DEF Known, AtHand
  <1>2. ASSUME NEW d \in Deletes, Tap(d) PROVE Known'
    <2>1. PICK i \in list : target' = [target EXCEPT ![d] = i]
      BY <1>2 DEF Tap
    <2>2. d # Job /\ UNCHANGED <<list, seen, snap, todo>> /\ pc' = [pc EXCEPT ![d] = "owner"]
      BY <1>2, ConstantsAssumption DEF Tap, Step
    <2> QED BY <2>1, <2>2, <1>r DEF Known, AtHand, TypeOK
  <1>3. ASSUME NEW c \in Callers, Remove(c) PROVE Known'
    <2>1. UNCHANGED <<snap, todo>>
      BY <1>3 DEF Remove, CheckOwner, DeleteObject, SelectForRemove, RemoveItem, DeleteFails, Return
    <2>2. \A k \in Callers : AtHand(k)' => AtHand(k) /\ target'[k] = target[k]
      BY <1>3 DEF Remove, CheckOwner, DeleteObject, SelectForRemove, RemoveItem, DeleteFails,
           Return, Step, AtHand, TypeOK
    <2>3. list' \subseteq Registered' /\ \A p \in Procs : seen'[p] \subseteq Registered'
      <3>1. CASE CheckOwner(c) \/ DeleteObject(c)
        BY <3>1, <1>r DEF CheckOwner, DeleteObject, Known
      <3>2. CASE SelectForRemove(c)
        BY <3>2, <1>r DEF SelectForRemove, Known, TypeOK
      <3>3. CASE RemoveItem(c) \/ DeleteFails(c)
        <4>1. \/ UNCHANGED <<list, seen>>
              \/ /\ seen' = [seen EXCEPT ![c] = {}]
                 /\ list' = seen[c] \ {target[c]} \/ list' = list
          BY <3>3 DEF RemoveItem, DeleteFails, WriteList
        <4> QED BY <4>1, <1>r DEF Known, TypeOK
      <3> QED BY <1>3, <3>1, <3>2, <3>3 DEF Remove
    <2> QED BY <2>1, <2>2, <2>3, <1>r DEF Known
  <1>4. CASE Clean
    <2>1. UNCHANGED seen
      BY <1>4 DEF Clean, JobSelect, JobNext, JobFinish, JobNotify
    <2>2. \A d \in Deletes : pc'[d] = pc[d] /\ target'[d] = target[d]
      <3>1. \A d \in Deletes : d # Job
        BY ConstantsAssumption
      <3> QED BY <1>4, <3>1 DEF Clean, JobSelect, JobNext, JobFinish, JobNotify, Step, TypeOK
    <2>3. CASE JobSelect
      BY <2>1, <2>2, <2>3, <1>r DEF JobSelect, Step, Known, AtHand, TypeOK
    <2>4. CASE JobNext
      <3>1. PICK i \in todo : todo' = todo \ {i} /\ target' = [target EXCEPT ![Job] = i]
        BY <2>4 DEF JobNext
      <3>2. target'[Job] = i /\ UNCHANGED <<list, snap>>
        BY <2>4, <3>1 DEF JobNext, TypeOK
      <3> QED BY <2>1, <2>2, <3>1, <3>2, <1>r DEF Known, AtHand
    <2>5. CASE JobFinish \/ JobNotify
      <3>1. /\ list' \subseteq list /\ snap' \subseteq snap /\ todo' \subseteq snap'
            /\ pc'[Job] \in {"notify", "new"}
        BY <2>5 DEF JobFinish, JobNotify, JobOver, Step, TypeOK, Known
      <3> QED BY <2>1, <2>2, <3>1, <1>r DEF Known, AtHand
    <2> QED BY <1>4, <2>3, <2>4, <2>5 DEF Clean
  <1>5. CASE UNCHANGED vars
    BY <1>5 DEF vars, Known, AtHand, Registered
  <1> QED BY <1>1, <1>2, <1>3, <1>4, <1>5 DEF Next

\* The job takes nothing from the list that it did not find there at first,
\* unless somebody writes back an outdated list.
THEOREM UploadsAreSpared == Spec => CleanupSparesUploads
  <1>1. Init => Known
    BY DEF Init, Known, AtHand
  <1>2. TypeOK /\ Lanes /\ Known /\ [Next]_vars
          => (~raced' /\ pc'[Job] # pc[Job] => list \ list' \subseteq snap)
    <2> SUFFICES ASSUME TypeOK, Lanes, Known, [Next]_vars, ~raced', pc'[Job] # pc[Job]
                 PROVE list \ list' \subseteq snap
      OBVIOUS
    <2>1. ASSUME NEW u \in Items, Upload(u) PROVE FALSE
      <3>1. u # Job
        BY ConstantsAssumption
      <3> QED BY <2>1, <3>1 DEF Upload, CheckCount, Put, CheckQuota, CheckSpace, SelectForAdd,
                AddItem, Count, UploadFails, Undo, Step, TypeOK
    <2>2. ASSUME NEW d \in Deletes, Tap(d) PROVE FALSE
      BY <2>2, ConstantsAssumption DEF Tap, Step, TypeOK
    <2>3. ASSUME NEW c \in Callers, Remove(c) PROVE list \ list' \subseteq snap
      <3>1. c = Job
        BY <2>3 DEF Remove, CheckOwner, DeleteObject, SelectForRemove, RemoveItem, DeleteFails,
             Return, Step, TypeOK
      <3>2. CASE CheckOwner(c) \/ DeleteObject(c) \/ SelectForRemove(c)
        BY <3>2 DEF CheckOwner, DeleteObject, SelectForRemove
      <3>3. CASE RemoveItem(c) \/ DeleteFails(c)
        <4>1. list' = list \/ (list' = seen[c] \ {target[c]} /\ seen[c] = list /\ pc[c] = "remove")
          BY <3>3 DEF RemoveItem, DeleteFails, WriteList
        <4> QED BY <3>1, <4>1 DEF Known, AtHand
      <3> QED BY <2>3, <3>2, <3>3 DEF Remove
    <2>4. CASE Clean
      BY <2>4 DEF Clean, JobSelect, JobNext, JobFinish, JobNotify
    <2>5. CASE UNCHANGED vars
      BY <2>5 DEF vars
    <2> QED BY <2>1, <2>2, <2>3, <2>4, <2>5 DEF Next
  <1> QED BY <1>1, <1>2, InitTypes, NextTypes, KnownInvariant, PTL DEF Spec, CleanupSparesUploads

-----------------------------------------------------------------------------
(***************************************************************************)
(* The bucket.  An upload stores its object before it is listed, and a     *)
(* delete handler gives its object up before the row.                      *)
(***************************************************************************)
Kept ==
    /\ \A u \in Items : pc[u] \in {"quota", "space", "select", "update"} => u \in bucket
    /\ \A c \in Callers : pc[c] \in {"reread", "remove"} => target[c] \notin bucket \ failed

(***************************************************************************)
(* The job.  What it has deleted is off the list, and stays off it; so a   *)
(* job without failures finds the list different from the one it selected. *)
(***************************************************************************)
Working == AtHand(Job) \/ pc[Job] = "next"

Emptied ==
    /\ Working => snap # {}
    /\ pc[Job] = "notify" => raced
    /\ ~raced /\ Working /\ allDeleted =>
        \A i \in snap \ todo : (AtHand(Job) /\ i = target[Job]) \/ i \notin list

\* Without an outdated write, a step adds its own upload or removes its own target.
LEMMA ListSteps ==
    ASSUME TypeOK, Lanes, [Next]_vars, ~raced'
    PROVE /\ ~raced
          /\ \A i \in list' \ list : i \in Items /\ pc[i] = "update"
          /\ \A i \in list \ list' :
                \/ \E c \in Callers : pc[c] = "remove" /\ target[c] = i /\ pc'[c] # "remove"
                                      /\ Remove(c)
                \/ JobFinish
  <1>1. ASSUME NEW u \in Items, Upload(u)
        PROVE ~raced /\ (list' = list \/ (list' = list \cup {u} /\ pc[u] = "update"))
    <2>1. CASE AddItem(u)
      BY <2>1 DEF AddItem, WriteList, Step
    <2>2. CASE UploadFails(u)
      <3>1. \/ UNCHANGED <<list, raced>>
            \/ pc[u] = "update" /\ list' = seen[u] \cup {u} /\ raced' = (raced \/ seen[u] # list)
        BY <2>2 DEF UploadFails, WriteList, Step
      <3>2. CASE UNCHANGED <<list, raced>>
        BY <3>2 DEF TypeOK
      <3>3. CASE pc[u] = "update" /\ list' = seen[u] \cup {u} /\ raced' = (raced \/ seen[u] # list)
        BY <3>3
      <3> QED BY <3>1, <3>2, <3>3
    <2>3. CASE UNCHANGED <<list, raced>>
      BY <2>3 DEF TypeOK
    <2>4. CheckCount(u) \/ Put(u) \/ CheckQuota(u) \/ CheckSpace(u) \/ SelectForAdd(u) \/ Count(u)
            \/ Undo(u) => UNCHANGED <<list, raced>>
      BY DEF CheckCount, Put, CheckQuota, CheckSpace, SelectForAdd, Count, Undo, history
    <2> QED BY <1>1, <2>1, <2>2, <2>3, <2>4 DEF Upload
  <1>2. ASSUME NEW d \in Deletes, Tap(d) PROVE ~raced /\ list' = list
    BY <1>2 DEF Tap, history
  <1>3. ASSUME NEW c \in Callers, Remove(c)
        PROVE /\ ~raced
              /\ \/ list' = list
                 \/ list' = list \ {target[c]} /\ pc[c] = "remove" /\ pc'[c] # "remove"
    <2>1. CASE CheckOwner(c) \/ DeleteObject(c) \/ SelectForRemove(c)
      <3>1. UNCHANGED <<list, raced>>
        BY <2>1 DEF CheckOwner, DeleteObject, SelectForRemove, history
      <3> QED BY <3>1 DEF TypeOK
    <2>2. CASE RemoveItem(c) \/ DeleteFails(c)
      <3>1. pc'[c] # "remove"
        BY <2>2 DEF RemoveItem, DeleteFails, Return, TypeOK
      <3>2. \/ UNCHANGED <<list, raced>>
            \/ /\ pc[c] = "remove"
               /\ list' = seen[c] \ {target[c]} /\ raced' = (raced \/ seen[c] # list)
        BY <2>2 DEF RemoveItem, DeleteFails, WriteList
      <3>3. CASE UNCHANGED <<list, raced>>
        BY <3>3 DEF TypeOK
      <3>4. CASE /\ pc[c] = "remove"
                 /\ list' = seen[c] \ {target[c]} /\ raced' = (raced \/ seen[c] # list)
        BY <3>1, <3>4
      <3> QED BY <3>2, <3>3, <3>4
    <2> QED BY <1>3, <2>1, <2>2 DEF Remove
  <1>4. CASE Clean
    BY <1>4 DEF Clean, JobSelect, JobNext, JobFinish, JobNotify, history
  <1>5. CASE UNCHANGED vars
    BY <1>5 DEF vars, history
  <1> QED BY <1>1, <1>2, <1>3, <1>4, <1>5 DEF Next

LEMMA EmptiedInvariant == TypeOK /\ Lanes /\ Known /\ Emptied /\ [Next]_vars => Emptied'
  <1> SUFFICES ASSUME TypeOK, Lanes, Known, Emptied, [Next]_vars PROVE Emptied'
    OBVIOUS
  \* A registered item that is off the list stays off it.
  <1>n. ASSUME ~raced', NEW i \in snap, i \notin list PROVE i \notin list'
    <2>1. pc[i] # "update"
      BY <1>n DEF Known, Registered
    <2> QED BY <1>n, <2>1, ListSteps
  <1>r. raced => raced'
    BY ListSteps DEF TypeOK
  <1>j. ASSUME pc'[Job] = pc[Job], target'[Job] = target[Job], UNCHANGED <<snap, todo, allDeleted>>
        PROVE Emptied'
    BY <1>j, <1>n, <1>r DEF Emptied, Working, AtHand
  <1>1. ASSUME NEW u \in Items, Upload(u) PROVE Emptied'
    <2>1. u # Job
      BY ConstantsAssumption
    <2>2. pc'[Job] = pc[Job] /\ UNCHANGED <<target, job>>
      BY <1>1, <2>1 DEF Upload, CheckCount, Put, CheckQuota, CheckSpace, SelectForAdd,
                AddItem, Count, UploadFails, Undo, Step, TypeOK
    <2> QED BY <2>2, <1>j
  <1>2. ASSUME NEW d \in Deletes, Tap(d) PROVE Emptied'
    BY <1>2, <1>j, ConstantsAssumption DEF Tap, Step, TypeOK
  <1>3. ASSUME NEW c \in Callers, Remove(c) PROVE Emptied'
    <2>1. CASE c # Job
      <3>1. pc'[Job] = pc[Job] /\ target'[Job] = target[Job]
        BY <1>3, <2>1 DEF Remove, CheckOwner, DeleteObject, SelectForRemove, RemoveItem,
             DeleteFails, Return, Step, TypeOK
      <3>2. UNCHANGED <<snap, todo>> /\ (allDeleted \in BOOLEAN => allDeleted' = allDeleted)
        BY <1>3, <2>1 DEF Remove, CheckOwner, DeleteObject, SelectForRemove, RemoveItem,
             DeleteFails, Return
      <3> QED BY <3>1, <3>2, <1>j DEF TypeOK
    <2>2. CASE c = Job
      <3>1. UNCHANGED <<snap, todo>> /\ Working /\ pc'[Job] # "notify"
        BY <1>3, <2>2 DEF Remove, CheckOwner, DeleteObject, SelectForRemove, RemoveItem,
             DeleteFails, Return, Step, Working, AtHand, TypeOK
      <3>2. CASE CheckOwner(c) /\ target[c] \in list
        <4>1. pc'[Job] = "object" /\ pc[Job] = "owner" /\ UNCHANGED <<target, allDeleted>>
          BY <2>2, <3>2 DEF CheckOwner, Step, TypeOK
        <4> QED BY <3>1, <4>1, <1>n, <1>r DEF Emptied, Working, AtHand
      <3>3. CASE DeleteObject(c) \/ SelectForRemove(c)
        BY <2>2, <3>1, <3>3, <1>n, <1>r DEF DeleteObject, SelectForRemove, Step, Emptied, Working,
             AtHand, TypeOK
      <3>4. CASE RemoveItem(c)
        <4>1. pc'[Job] = "next" /\ (allDeleted' => allDeleted) /\ pc[Job] = "remove"
          BY <2>2, <3>4 DEF RemoveItem, Return, TypeOK
        <4>2. ~raced' => list' = list \ {target[Job]}
          BY <2>2, <3>4 DEF RemoveItem, WriteList
        <4> QED BY <3>1, <4>1, <4>2, <1>n, <1>r DEF Emptied, Working, AtHand
      <3>5. CASE Return(c, FALSE)
        <4>1. ~allDeleted' /\ pc'[Job] = "next"
          BY <2>2, <3>5 DEF Return, TypeOK
        <4> QED BY <3>1, <4>1 DEF Emptied, Working, AtHand
      <3> QED BY <1>3, <3>2, <3>3, <3>4, <3>5 DEF Remove, CheckOwner, DeleteFails
    <2> QED BY <2>1, <2>2
  <1>4. CASE JobSelect
    BY <1>4 DEF JobSelect, Step, Emptied, Working, AtHand, TypeOK
  <1>5. CASE JobNext
    <2>1. PICK i \in todo : todo' = todo \ {i} /\ target' = [target EXCEPT ![Job] = i]
      BY <1>5 DEF JobNext
    <2>2. /\ target'[Job] = i /\ pc'[Job] = "owner" /\ pc[Job] = "next"
          /\ UNCHANGED <<list, snap, allDeleted, raced>>
      BY <1>5, <2>1 DEF JobNext, Step, history, TypeOK
    <2> QED BY <2>1, <2>2 DEF Emptied, Working, AtHand
  <1>6. CASE JobFinish
    <2>1. raced' = raced /\ pc[Job] = "next" /\ todo = {}
      BY <1>6 DEF JobFinish, history
    <2>2. CASE allDeleted /\ list = snap /\ pc' = [pc EXCEPT ![Job] = "notify"]
      <3>1. raced
        BY <2>1, <2>2 DEF Emptied, Working, AtHand
      <3> QED BY <2>1, <2>2, <3>1 DEF Emptied, Working, AtHand, TypeOK
    <2>3. CASE pc' = [pc EXCEPT ![Job] = "new"]
      BY <2>3 DEF Emptied, Working, AtHand, TypeOK
    <2> QED BY <1>6, <2>2, <2>3 DEF JobFinish
  <1>7. CASE JobNotify
    BY <1>7 DEF JobNotify, Step, Emptied, Working, AtHand, TypeOK
  <1>8. CASE UNCHANGED vars
    BY <1>8, <1>j DEF vars, job
  <1> QED BY <1>1, <1>2, <1>3, <1>4, <1>5, <1>6, <1>7, <1>8 DEF Next, Clean

\* The finding of the run media_cleanup, for every instance: the job notifies
\* nobody unless an outdated list was written back.
THEOREM NotifiedOnlyAfterRace == Spec => [](pc[Job] = "notify" => raced)
  <1>1. Init => Known /\ Emptied
    BY DEF Init, Known, AtHand, Emptied, Working
  <1>2. Emptied => (pc[Job] = "notify" => raced)
    BY DEF Emptied
  <1> QED BY <1>1, <1>2, InitTypes, NextTypes, KnownInvariant, EmptiedInvariant, PTL DEF Spec

-----------------------------------------------------------------------------
\* Who takes an object from the bucket and who puts one there; failures are remembered.
LEMMA BucketSteps ==
    ASSUME TypeOK, Lanes, [Next]_vars
    PROVE /\ failed \subseteq failed'
          /\ \A i \in bucket' \ bucket : i \in Items /\ pc[i] = "put" /\ (i \in failed' \/ pc'[i] = "quota")
          /\ \A i \in bucket \ bucket' :
                \/ i \in Items /\ pc[i] = "undo"
                \/ \E c \in Callers : AtHand(c) /\ target[c] = i /\ target'[c] = i /\ pc'[c] = "reread"
  <1>1. ASSUME NEW u \in Items, Upload(u)
        PROVE /\ failed \subseteq failed'
              /\ \/ bucket' = bucket
                 \/ /\ pc[u] = "put" /\ (u \in failed' \/ pc'[u] = "quota")
                    /\ bucket' = bucket \cup {u}
                 \/ bucket' = bucket \ {u} /\ pc[u] = "undo"
    BY <1>1 DEF Upload, CheckCount, Put, CheckQuota, CheckSpace, SelectForAdd, AddItem, Count,
         UploadFails, Undo, Step, TypeOK, history
  <1>2. ASSUME NEW d \in Deletes, Tap(d) PROVE failed' = failed /\ bucket' = bucket
    BY <1>2 DEF Tap, history
  <1>3. ASSUME NEW c \in Callers, Remove(c)
        PROVE /\ failed \subseteq failed'
              /\ \/ bucket' = bucket
                 \/ /\ bucket' = bucket \ {target[c]} /\ AtHand(c)
                    /\ target' = target /\ pc'[c] = "reread"
    BY <1>3 DEF Remove, CheckOwner, DeleteObject, SelectForRemove, RemoveItem, DeleteFails,
         Return, Step, AtHand, TypeOK, history
  <1>4. CASE Clean
    BY <1>4 DEF Clean, JobSelect, JobNext, JobFinish, JobNotify, history
  <1>5. CASE UNCHANGED vars
    BY <1>5 DEF vars, history
  <1> QED BY <1>1, <1>2, <1>3, <1>4, <1>5 DEF Next

\* Where an upload goes when it moves.
LEMMA UploadSteps ==
    ASSUME TypeOK, Lanes, [Next]_vars, NEW i \in Items, pc'[i] # pc[i]
    PROVE Upload(i)
  <1>1. ASSUME NEW u \in Items, Upload(u), u # i PROVE FALSE
    BY <1>1 DEF Upload, CheckCount, Put, CheckQuota, CheckSpace, SelectForAdd,
         AddItem, Count, UploadFails, Undo, Step, TypeOK
  <1>2. ASSUME NEW d \in Deletes, Tap(d) PROVE FALSE
    BY <1>2, ConstantsAssumption DEF Tap, Step, TypeOK
  <1>3. ASSUME NEW c \in Callers, Remove(c) PROVE FALSE
    <2>1. c # i
      BY ConstantsAssumption
    <2> QED BY <1>3, <2>1 DEF Remove, CheckOwner, DeleteObject, SelectForRemove, RemoveItem,
              DeleteFails, Return, Step, TypeOK
  <1>4. CASE Clean
    <2>1. Job # i
      BY ConstantsAssumption
    <2> QED BY <1>4, <2>1 DEF Clean, JobSelect, JobNext, JobFinish, JobNotify, Step, TypeOK
  <1>5. CASE UNCHANGED vars
    BY <1>5 DEF vars
  <1> QED BY <1>1, <1>2, <1>3, <1>4, <1>5 DEF Next

\* Which way a caller comes to, and goes from, the last two steps of the delete handler.
LEMMA RemoveSteps ==
    ASSUME TypeOK, Lanes, [Next]_vars, NEW c \in Callers
    PROVE /\ pc'[c] \in {"reread", "remove"} =>
                /\ AtHand(c) /\ target'[c] = target[c]
                /\ \/ pc[c] \in {"reread", "remove"}
                   \/ target[c] \notin bucket' \/ target[c] \in failed'
          /\ pc[c] \in {"reread", "remove"} /\ pc'[c] \notin {"reread", "remove"} =>
                target[c] \in failed' \/ RemoveItem(c)
  <1>a. CASE pc'[c] = pc[c] /\ target'[c] = target[c]
    BY <1>a DEF AtHand
  <1>1. ASSUME NEW u \in Items, Upload(u) PROVE pc'[c] = pc[c] /\ target'[c] = target[c]
    <2>1. u # c
      BY ConstantsAssumption
    <2> QED BY <1>1, <2>1 DEF Upload, CheckCount, Put, CheckQuota, CheckSpace, SelectForAdd,
              AddItem, Count, UploadFails, Undo, Step, TypeOK
  <1>2. ASSUME NEW d \in Deletes, Tap(d)
        PROVE (pc'[c] = pc[c] /\ target'[c] = target[c]) \/ (pc[c] = "new" /\ pc'[c] = "owner")
    BY <1>2 DEF Tap, Step, TypeOK
  <1>3. ASSUME NEW k \in Callers, Remove(k), k # c PROVE pc'[c] = pc[c] /\ target'[c] = target[c]
    BY <1>3 DEF Remove, CheckOwner, DeleteObject, SelectForRemove, RemoveItem, DeleteFails,
         Return, Step, TypeOK
  <1>4. CASE Remove(c)
    <2>1. CASE CheckOwner(c)
      BY <2>1 DEF CheckOwner, Return, Step, TypeOK
    <2>2. CASE DeleteObject(c)
      BY <2>2 DEF DeleteObject, Step, AtHand, TypeOK
    <2>3. CASE SelectForRemove(c)
      BY <2>3 DEF SelectForRemove, Step, AtHand, TypeOK
    <2>4. CASE RemoveItem(c)
      BY <2>4 DEF RemoveItem, Return, TypeOK
    <2>5. CASE DeleteFails(c)
      BY <2>5 DEF DeleteFails, Return, TypeOK
    <2> QED BY <1>4, <2>1, <2>2, <2>3, <2>4, <2>5 DEF Remove
  <1>5. CASE Clean
    <2>1. \/ pc'[c] = pc[c] /\ target'[c] = target[c]
          \/ pc[c] \in {"new", "next", "notify"} /\ pc'[c] \in {"new", "next", "notify", "owner"}
      BY <1>5 DEF Clean, JobSelect, JobNext, JobFinish, JobNotify, Step, TypeOK
    <2> QED BY <2>1, <1>a
  <1>6. CASE UNCHANGED vars
    BY <1>6, <1>a DEF vars
  <1> QED BY <1>a, <1>1, <1>2, <1>3, <1>4, <1>5, <1>6 DEF Next

LEMMA KeptInvariant == TypeOK /\ Lanes /\ Known /\ Kept /\ [Next]_vars => Kept'
  <1> SUFFICES ASSUME TypeOK, Lanes, Known, Kept, [Next]_vars PROVE Kept'
    OBVIOUS
  <1>1. ASSUME NEW u \in Items, pc'[u] \in {"quota", "space", "select", "update"}
        PROVE u \in bucket'
    <2>1. CASE pc[u] \in {"quota", "space", "select", "update"}
      <3>1. u \in bucket /\ u \notin Registered
        BY <2>1 DEF Kept, Registered
      <3>2. \A c \in Callers : AtHand(c) => target[c] # u
        BY <3>1 DEF Known
      <3> QED BY <2>1, <3>1, <3>2, BucketSteps
    <2>2. CASE pc[u] \notin {"quota", "space", "select", "update"}
      <3>1. Upload(u)
        BY <1>1, <2>2, UploadSteps
      <3> QED BY <1>1, <2>2, <3>1 DEF Upload, CheckCount, Put, CheckQuota, CheckSpace,
                SelectForAdd, AddItem, Count, UploadFails, Undo, Step, TypeOK
    <2> QED BY <2>1, <2>2
  <1>2. ASSUME NEW c \in Callers, pc'[c] \in {"reread", "remove"}
        PROVE target'[c] \notin bucket' \ failed'
    <2>1. AtHand(c) /\ target'[c] = target[c]
      BY <1>2, RemoveSteps
    <2>2. CASE pc[c] \in {"reread", "remove"}
      <3>1. target[c] \in Registered /\ target[c] \notin bucket \ failed
        BY <2>1, <2>2 DEF Known, Kept
      <3>2. target[c] \in Items /\ pc[target[c]] # "put"
        BY <3>1 DEF Registered
      <3> QED BY <2>1, <3>1, <3>2, BucketSteps
    <2>3. CASE pc[c] \notin {"reread", "remove"}
      BY <1>2, <2>1, <2>3, RemoveSteps
    <2> QED BY <2>2, <2>3
  <1> QED BY <1>1, <1>2 DEF Kept

LEMMA StoredStep ==
    TypeOK /\ Lanes /\ Known /\ Kept /\ ListedIsStored /\ [Next]_vars => ListedIsStored'
  <1> SUFFICES ASSUME TypeOK, Lanes, Known, Kept, ListedIsStored, [Next]_vars, ~raced',
                      NEW i \in list', i \notin failed'
               PROVE i \in bucket' \cup Leaving'
    BY DEF ListedIsStored
  <1>1. ~raced /\ i \notin failed
    BY ListSteps, BucketSteps
  <1>2. CASE i \notin list
    <2>1. i \in Items /\ pc[i] = "update"
      BY <1>2, ListSteps
    <2>2. i \in bucket /\ i \notin Registered
      BY <2>1 DEF Kept, Registered
    <2>3. \A c \in Callers : AtHand(c) => target[c] # i
      BY <2>2 DEF Known
    <2> QED BY <2>1, <2>2, <2>3, BucketSteps
  <1>3. CASE i \in list /\ i \in bucket
    <2>1. i \in Items /\ pc[i] # "undo"
      BY <1>1, <1>3 DEF Known, Registered
    <2> QED BY <1>3, <2>1, BucketSteps DEF Leaving
  <1>4. ASSUME NEW c \in Callers, pc[c] \in {"reread", "remove"}, i = target[c]
        PROVE i \in Leaving'
    <2>1. ~RemoveItem(c)
      BY <1>4 DEF RemoveItem, WriteList
    <2>2. pc'[c] \in {"reread", "remove"} /\ target'[c] = i
      BY <1>4, <2>1, RemoveSteps
    <2> QED BY <2>2 DEF Leaving
  <1> QED BY <1>1, <1>2, <1>3, <1>4 DEF ListedIsStored, Leaving

LEMMA ListedStep ==
    TypeOK /\ Lanes /\ Known /\ Emptied /\ Kept /\ StoredIsListed /\ [Next]_vars => StoredIsListed'
  <1> SUFFICES ASSUME TypeOK, Lanes, Known, Emptied, Kept, StoredIsListed, [Next]_vars, ~raced',
                      NEW i \in bucket', i \notin failed'
               PROVE i \in list' \cup Entering'
    BY DEF StoredIsListed
  <1>1. ~raced /\ i \notin failed
    BY ListSteps, BucketSteps
  <1>2. CASE i \notin bucket
    BY <1>2, BucketSteps DEF Entering
  <1>3. CASE i \in bucket /\ i \in list
    <2> SUFFICES ASSUME i \notin list' PROVE FALSE
      OBVIOUS
    <2>1. CASE JobFinish
      <3>1. pc[Job] = "next" /\ todo = {} /\ allDeleted /\ list = snap
        BY <1>3, <2>1 DEF JobFinish
      <3> QED BY <1>1, <1>3, <3>1 DEF Emptied, Working, AtHand
    <2>2. ASSUME NEW c \in Callers, pc[c] = "remove", target[c] = i PROVE FALSE
      BY <1>1, <1>3, <2>2 DEF Kept
    <2> QED BY <1>3, <2>1, <2>2, ListSteps
  <1>4. CASE i \in bucket /\ i \in Entering
    <2>1. i \in Items /\ pc[i] \in {"quota", "space", "select", "update", "undo"}
      BY <1>4 DEF Entering
    <2>2. CASE pc'[i] = pc[i]
      BY <2>1, <2>2 DEF Entering
    <2>3. CASE Upload(i)
      <3>1. CASE CheckQuota(i) \/ CheckSpace(i)
        BY <2>1, <3>1 DEF CheckQuota, CheckSpace, Step, Entering, TypeOK
      <3>2. CASE SelectForAdd(i)
        BY <2>1, <3>2 DEF SelectForAdd, Step, Entering, TypeOK
      <3>3. CASE AddItem(i)
        BY <3>3 DEF AddItem, WriteList
      <3>4. CASE UploadFails(i) \/ Undo(i)
        BY <3>4 DEF UploadFails, Undo
      <3>5. ~(CheckCount(i) \/ Put(i) \/ Count(i))
        BY <2>1 DEF CheckCount, Put, Count, Step
      <3> QED BY <2>3, <3>1, <3>2, <3>3, <3>4, <3>5 DEF Upload
    <2> QED BY <2>1, <2>2, <2>3, UploadSteps
  <1> QED BY <1>1, <1>2, <1>3, <1>4 DEF StoredIsListed

Storage == Known /\ Emptied /\ Kept /\ ListedIsStored /\ StoredIsListed

LEMMA InitStorage == Init => Storage
  BY DEF Init, Storage, Known, AtHand, Emptied, Working, Kept, ListedIsStored, StoredIsListed

LEMMA StorageInvariant == TypeOK /\ Lanes /\ Storage /\ [Next]_vars => Storage'
  BY KnownInvariant, EmptiedInvariant, KeptInvariant, StoredStep, ListedStep DEF Storage

\* Every listed item has its object, until an outdated list is written or a
\* call about the item fails.
THEOREM ListedHasObject == Spec => []ListedIsStored
  <1>1. Storage => ListedIsStored
    BY DEF Storage
  <1> QED BY <1>1, InitTypes, NextTypes, InitStorage, StorageInvariant, PTL DEF Spec

\* No object is forgotten, with the same exceptions.
THEOREM ObjectIsListed == Spec => []StoredIsListed
  <1>1. Storage => StoredIsListed
    BY DEF Storage
  <1> QED BY <1>1, InitTypes, NextTypes, InitStorage, StorageInvariant, PTL DEF Spec

-----------------------------------------------------------------------------
(***************************************************************************)
(* The day's limit.  Unless two uploads are between check and count at     *)
(* once, the counter covers every item but the one being added, which      *)
(* passed its check with the counter as it still is.                       *)
(***************************************************************************)
Settled == {u \in added \ failed : pc[u] # "count"}

Covered ==
    crowded \/ /\ \A u, v \in Adding : u = v
               /\ Adding # {} => used < Daily
               /\ Cardinality(Settled) <= used

\* Subsets of sets of items are no larger.
LEMMA FewerItems ==
    ASSUME NEW S \in SUBSET Items, NEW R, R \subseteq S
    PROVE Cardinality(R) <= Cardinality(S) /\ Cardinality(R) \in Nat /\ Cardinality(S) \in Nat
  <1>1. IsFiniteSet(S)
    BY ItemSets
  <1> QED BY <1>1, FS_Subset, FS_CardinalityType

LEMMA CoveredInvariant == TypeOK /\ Lanes /\ Covered /\ [Next]_vars => Covered'
  <1> SUFFICES ASSUME TypeOK, Lanes, Covered, [Next]_vars, ~crowded' PROVE Covered'
    BY DEF Covered
  <1>t. Settled \in SUBSET Items /\ Cardinality(Settled) \in Nat /\ used \in Nat /\ Daily \in Nat
    <2>1. Settled \in SUBSET Items
      BY DEF Settled, TypeOK
    <2> QED BY <2>1, ItemSets, ConstantsAssumption DEF TypeOK
  \* Steps that start no upload and count nothing.
  <1>a. ASSUME ~crowded, used' = used, Adding' \subseteq Adding, Settled' \subseteq Settled
        PROVE Covered'
    <2>1. Cardinality(Settled') <= Cardinality(Settled) /\ Cardinality(Settled') \in Nat
      BY <1>a, <1>t, FewerItems
    <2> QED BY <1>a, <1>t, <2>1 DEF Covered
  <1>b. ASSUME ~crowded, used' = used, failed \subseteq failed', added' = added,
               \A u \in Items : pc'[u] = pc[u]
        PROVE Covered'
    <2>1. Adding' \subseteq Adding
      BY <1>b DEF Adding
    <2>2. Settled' \subseteq Settled
      BY <1>b DEF Settled, TypeOK
    <2> QED BY <1>a, <1>b, <2>1, <2>2
  <1>1. ASSUME NEW u \in Items, Upload(u) PROVE Covered'
    <2>0. \A v \in Items \ {u} : pc'[v] = pc[v]
      BY <1>1 DEF Upload, CheckCount, Put, CheckQuota, CheckSpace, SelectForAdd,
         AddItem, Count, UploadFails, Undo, Step, TypeOK
    <2>1. CASE CheckCount(u) \/ Put(u) \/ CheckSpace(u) \/ SelectForAdd(u) \/ Undo(u)
      <3>1. /\ ~crowded /\ used' = used /\ added' = added /\ failed \subseteq failed'
            /\ pc[u] # "count"
            /\ pc'[u] \in {"space", "select", "update", "count"} => u \in Adding
        BY <2>1 DEF CheckCount, Put, CheckSpace, SelectForAdd, Undo, Step, history, Adding, TypeOK
      <3>2. Adding' \subseteq Adding
        BY <2>0, <3>1 DEF Adding
      <3>3. Settled' \subseteq Settled
        BY <2>0, <3>1 DEF Settled, TypeOK
      <3> QED BY <3>1, <3>2, <3>3, <1>a
    <2>2. CASE CheckQuota(u)
      <3>1. /\ ~crowded /\ Adding = {} /\ used' = used /\ added' = added /\ failed' = failed
            /\ pc[u] = "quota" /\ (pc'[u] = "undo" \/ used < Daily)
            /\ pc'[u] \in {"space", "undo"}
        BY <2>2 DEF CheckQuota, Step, TypeOK
      <3>2. Adding' \subseteq {u} /\ (Adding' # {} => used < Daily)
        BY <2>0, <3>1 DEF Adding
      <3>3. Settled' = Settled
        BY <2>0, <3>1 DEF Settled, TypeOK
      <3> QED BY <3>1, <3>2, <3>3 DEF Covered
    <2>3. CASE AddItem(u)
      <3>1. /\ ~crowded /\ used' = used /\ added' = added \cup {u} /\ failed' = failed
            /\ pc[u] = "update" /\ pc'[u] = "count"
        BY <2>3 DEF AddItem, Step, TypeOK
      <3>2. Adding' \subseteq Adding
        BY <2>0, <3>1 DEF Adding
      <3>3. Settled' \subseteq Settled
        BY <2>0, <3>1 DEF Settled, TypeOK
      <3> QED BY <3>1, <3>2, <3>3, <1>a
    <2>4. CASE Count(u)
      <3>1. /\ ~crowded /\ added' = added /\ failed' = failed
            /\ pc[u] = "count" /\ pc'[u] = "done"
        BY <2>4 DEF Count, Step, history, TypeOK
      <3>2. used < Daily /\ Adding' = {}
        BY <2>0, <3>1 DEF Covered, Adding
      <3>3. used' = used + 1
        BY <2>4, <3>2 DEF Count
      <3>4. Settled' \subseteq Settled \cup {u}
        BY <2>0, <3>1 DEF Settled, TypeOK
      <3>5. Cardinality(Settled') <= used + 1
        <4>1. Settled \cup {u} \in SUBSET Items
          BY <1>t
        <4>2. /\ Cardinality(Settled') <= Cardinality(Settled \cup {u})
              /\ Cardinality(Settled') \in Nat /\ Cardinality(Settled \cup {u}) \in Nat
          BY <3>4, <4>1, FewerItems
        <4>3. Cardinality(Settled \cup {u}) <= Cardinality(Settled) + 1
          BY <1>t, ItemSets
        <4> QED BY <3>1, <4>2, <4>3, <1>t DEF Covered
      <3> QED BY <3>2, <3>3, <3>5 DEF Covered
    <2>5. CASE UploadFails(u)
      <3>1. /\ ~crowded /\ used' = used /\ added' \subseteq added \cup {u}
            /\ failed' = failed \cup {u}
        BY <2>5 DEF UploadFails
      <3>2. pc'[u] \in {"undo", "done"}
        BY <2>5 DEF UploadFails, Step, TypeOK
      <3>3. Adding' \subseteq Adding
        BY <2>0, <3>2 DEF Adding
      <3>4. Settled' \subseteq Settled
        BY <2>0, <3>1 DEF Settled, TypeOK
      <3> QED BY <3>1, <3>3, <3>4, <1>a
    <2> QED BY <1>1, <2>1, <2>2, <2>3, <2>4, <2>5 DEF Upload
  <1>2. ASSUME NEW d \in Deletes, Tap(d) PROVE Covered'
    BY <1>2, <1>b, ConstantsAssumption DEF Tap, Step, history, TypeOK
  <1>3. ASSUME NEW c \in Callers, Remove(c) PROVE Covered'
    <2>1. c \notin Items
      BY ConstantsAssumption
    <2>2. \A u \in Items : pc'[u] = pc[u]
      BY <1>3, <2>1 DEF Remove, CheckOwner, DeleteObject, SelectForRemove, RemoveItem,
           DeleteFails, Return, Step, TypeOK
    <2>3. crowded' = crowded /\ used' = used /\ added' = added
      BY <1>3 DEF Remove, CheckOwner, DeleteObject, SelectForRemove, RemoveItem, DeleteFails, history
    <2>4. failed \subseteq failed'
      BY BucketSteps
    <2> QED BY <2>2, <2>3, <2>4, <1>b DEF TypeOK
  <1>4. CASE Clean
    <2>1. Job \notin Items
      BY ConstantsAssumption
    <2>2. \A u \in Items : pc'[u] = pc[u]
      BY <1>4, <2>1 DEF Clean, JobSelect, JobNext, JobFinish, JobNotify, Step, TypeOK
    <2>3. ~crowded /\ used' = used /\ added' = added /\ failed' = failed
      BY <1>4 DEF Clean, JobSelect, JobNext, JobFinish, JobNotify, history
    <2> QED BY <2>2, <2>3, <1>b
  <1>5. CASE UNCHANGED vars
    BY <1>5, <1>b DEF vars, history
  <1> QED BY <1>1, <1>2, <1>3, <1>4, <1>5 DEF Next

LEMMA CoveredIsLimited == TypeOK /\ Covered => DailyLimitHolds
  <1> SUFFICES ASSUME TypeOK, Covered, ~crowded PROVE Cardinality(added \ failed) <= Daily
    BY DEF DailyLimitHolds
  <1>1. /\ Settled \in SUBSET Items /\ Cardinality(Settled) \in Nat
        /\ used \in Nat /\ Daily \in Nat /\ used <= Daily
    <2>1. Settled \in SUBSET Items
      BY DEF Settled, TypeOK
    <2> QED BY <2>1, ItemSets, ConstantsAssumption DEF TypeOK
  <1>2. CASE added \ failed = Settled
    BY <1>1, <1>2 DEF Covered
  <1>3. CASE added \ failed # Settled
    <2>1. PICK u \in added \ failed : pc[u] = "count"
      BY <1>3 DEF Settled
    <2>2. u \in Adding /\ u \in Items
      BY <2>1 DEF Adding, TypeOK
    <2>3. added \ failed = Settled \cup {u}
      BY <2>1, <2>2 DEF Covered, Settled, Adding, TypeOK
    <2>4. Cardinality(Settled \cup {u}) <= Cardinality(Settled) + 1
      BY <1>1, <2>2, ItemSets
    <2>5. Cardinality(Settled \cup {u}) \in Nat
      <3>1. Settled \cup {u} \in SUBSET Items
        BY <1>1, <2>2
      <3> QED BY <3>1, ItemSets
    <2> QED BY <1>1, <2>2, <2>3, <2>4, <2>5 DEF Covered
  <1> QED BY <1>2, <1>3

\* No more items are added on a day than the limit allows, unless two uploads
\* pass their check together or a call about an item fails.
THEOREM DailyLimitKept == Spec => []DailyLimitHolds
  <1>1. Init => Covered
    <2> SUFFICES ASSUME Init PROVE Covered
      OBVIOUS
    <2>1. Settled = {} /\ Adding = {} /\ used = 0
      BY DEF Init, Settled, Adding
    <2> QED BY <2>1, NoneIsShort DEF Covered
  <1> QED BY <1>1, InitTypes, NextTypes, CoveredInvariant, CoveredIsLimited, PTL DEF Spec

=============================================================================
