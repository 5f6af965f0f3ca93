--------------------------- MODULE RiskTags_proofs ---------------------------
(***************************************************************************)
(* Proofs about RiskTags: the history of a tag is its life, for any number *)
(* of editors, tags and labels.                                            *)
(***************************************************************************)
EXTENDS RiskTags, TLAPS

\* An editor past its first statement knows what it works on.
Knows ==
  \A e \in Editor :
    /\ ed[e].pc \notin {"idle", "done"} => ed[e].key \in TagKey
    /\ ed[e].pc \in {"looking", "inserting", "updating", "inserted", "updated"}
         => ed[e].want \in Content
    /\ ed[e].pc \in {"updating", "updated"} => ed[e].seen \in Content
    /\ ed[e].pc \in {"updating", "updated", "removing"} => ed[e].row \in Editor

\* An INSERT that has been flushed holds the lock of a key that is free.
Reserved ==
  \A e \in Editor :
    ed[e].pc = "inserted" =>
      /\ tagLock[ed[e].key] = e
      /\ tags[ed[e].key] = None

\* A row has the name of an editor that is done, and only one key.
Named ==
  /\ \A k \in TagKey : tags[k] # None => ed[tags[k].id].pc = "done"
  /\ \A j, k \in TagKey :
       tags[j] # None /\ tags[k] # None /\ tags[j].id = tags[k].id => j = k

\* A history belongs to a row, and tells its life unless updates overlapped.
Owned ==
  \A e \in Editor :
    history[e] # <<>> => \E k \in TagKey : tags[k] # None /\ tags[k].id = e

Told ==
  \A k \in TagKey :
    tags[k] # None /\ Undisturbed(history[tags[k].id])
      => Tells(history[tags[k].id], tags[k].content)

TagsInv == TagsTypeOK /\ Knows /\ Reserved /\ Named /\ Owned /\ Told

-----------------------------------------------------------------------------
(***************************************************************************)
(* Operators.                                                              *)
(***************************************************************************)
\* A history that tells the life of a row tells it with one more event, if
\* that starts from what the row had.
LEMMA TellsMore ==
  ASSUME NEW h \in Seq(Event), NEW c, NEW x \in Event,
         Tells(h, c), x.action = "update", x.prev = c
  PROVE  Tells(Append(h, x), x.new)
<1>1. Len(h) \in Nat /\ Len(h) # 0
  BY DEF Tells
<1>2. /\ Append(h, x) # <<>>
      /\ Append(h, x)[1] = h[1]
      /\ Len(Append(h, x)) = Len(h) + 1
      /\ Append(h, x)[Len(h) + 1] = x
      /\ \A i \in 1 .. Len(h) : Append(h, x)[i] = h[i]
  BY <1>1
<1>3. ASSUME NEW i \in 2 .. Len(h) + 1
      PROVE  /\ Append(h, x)[i].action = "update"
             /\ Append(h, x)[i].prev = Append(h, x)[i - 1].new
  <2>1. CASE i = Len(h) + 1
    BY <1>1, <1>2, <2>1 DEF Tells
  <2>2. CASE i \in 2 .. Len(h)
    BY <1>1, <1>2, <2>2 DEF Tells
  <2> QED BY <1>1, <2>1, <2>2
<1> QED BY <1>1, <1>2, <1>3 DEF Tells

\* The same of the absence of overlaps.
LEMMA UndisturbedMore ==
  ASSUME NEW h \in Seq(Event), NEW x \in Event, Undisturbed(Append(h, x))
  PROVE  Undisturbed(h) /\ ~x.raced
<1>1. /\ Len(Append(h, x)) = Len(h) + 1
      /\ Len(h) \in Nat
      /\ Append(h, x)[Len(h) + 1] = x
      /\ \A i \in 1 .. Len(h) : Append(h, x)[i] = h[i]
  OBVIOUS
<1> QED BY <1>1 DEF Undisturbed

\* What an update leaves in a row that nobody else has changed.
LEMMA MergedAlone ==
  ASSUME NEW e \in Editor, ed[e].want \in Content, ed[e].seen \in Content,
         tags[ed[e].key].content = ed[e].seen
  PROVE  Merged(e) = ed[e].want
<1>1. Merged(e).label = ed[e].want.label /\ Merged(e).active = ed[e].want.active
  BY DEF Merged
<1>2. Merged(e) = [label |-> Merged(e).label, active |-> Merged(e).active]
  BY DEF Merged
<1>3. ed[e].want = [label |-> ed[e].want.label, active |-> ed[e].want.active]
  BY DEF Content
<1> QED BY <1>1, <1>2, <1>3

\* What an update leaves is a content in any case.
LEMMA MergedType ==
  ASSUME NEW e \in Editor, ed[e].want \in Content, ed[e].seen \in Content,
         tags[ed[e].key].content \in Content
  PROVE  Merged(e) \in Content
BY DEF Merged, Content

\* Setting the program counter.
LEMMA ToType ==
  ASSUME NEW e \in Editor, NEW p \in {"idle", "looking", "inserting", "updating",
           "inserted", "updated", "removing", "done"},
         ed \in [Editor -> EditorState], To(e, p)
  PROVE  /\ ed' \in [Editor -> EditorState]
         /\ ed'[e].pc = p
         /\ ed'[e].key = ed[e].key /\ ed'[e].want = ed[e].want
         /\ ed'[e].row = ed[e].row /\ ed'[e].seen = ed[e].seen
         /\ \A d \in Editor : d # e => ed'[d] = ed[d]
BY DEF To, EditorState

\* The end of a request.
LEMMA CloseType ==
  ASSUME NEW e \in Editor, ed \in [Editor -> EditorState],
         tagLock \in [TagKey -> Editor \cup {None}], Close(e)
  PROVE  /\ ed' \in [Editor -> EditorState]
         /\ tagLock' \in [TagKey -> Editor \cup {None}]
         /\ ed'[e].pc = "done"
         /\ \A d \in Editor : d # e => ed'[d] = ed[d]
         /\ \A k \in TagKey : tagLock[k] # e => tagLock'[k] = tagLock[k]
BY DEF Close, Closed, EditorState

-----------------------------------------------------------------------------
(***************************************************************************)
(* Steps that leave the tables alone: one editor moves, and may end.       *)
(***************************************************************************)
\* The parts of the invariant about the tables, when only editors move and
\* none that has inserted a row starts again.
LEMMA Tables ==
  ASSUME TagsInv, UNCHANGED <<tags, history>>,
         \A d \in Editor : ed[d].pc = "done" => ed'[d].pc = "done"
  PROVE  Named' /\ Owned' /\ Told'
<1>1. tags' = tags /\ history' = history
  OBVIOUS
<1>2. \A k \in TagKey : tags[k] # None => tags[k].id \in Editor
  BY TagsAssumption DEF TagsInv, TagsTypeOK, Row
<1>3. Named'
  BY <1>1, <1>2 DEF TagsInv, Named
<1>4. Owned' /\ Told'
  BY <1>1 DEF TagsInv, Owned, Told
<1> QED BY <1>3, <1>4

LEMMA AskUpsertInv ==
  ASSUME TagsInv, NEW e \in Editor, NEW k \in TagKey, NEW c \in Content,
         AskUpsert(e, k, c)
  PROVE  TagsInv'
<1>1. tags' = tags /\ history' = history /\ tagLock' = tagLock
  BY DEF AskUpsert
<1>2. /\ ed' \in [Editor -> EditorState]
      /\ ed[e].pc = "idle" /\ ed'[e].pc = "looking" /\ ed'[e].key = k
      /\ ed'[e].want = c
      /\ \A d \in Editor : d # e => ed'[d] = ed[d]
  BY DEF TagsInv, TagsTypeOK, AskUpsert, EditorState
<1>3. TagsTypeOK'
  BY <1>1, <1>2 DEF TagsInv, TagsTypeOK
<1>4. Knows' /\ Reserved'
  BY <1>1, <1>2 DEF TagsInv, Knows, Reserved
<1>5. Named' /\ Owned' /\ Told'
  BY <1>1, <1>2, Tables
<1> QED BY <1>3, <1>4, <1>5 DEF TagsInv

LEMMA LookInv ==
  ASSUME TagsInv, NEW e \in Editor, Look(e)
  PROVE  TagsInv'
<1> DEFINE r == tags[ed[e].key]
<1>1. tags' = tags /\ history' = history /\ tagLock' = tagLock
  BY DEF Look
<1>2. /\ ed[e].pc = "looking" /\ ed[e].key \in TagKey /\ ed[e].want \in Content
      /\ r = None \/ (r.id \in Editor /\ r.content \in Content /\ r # None)
  BY DEF TagsInv, TagsTypeOK, Knows, Look, Row
<1>3. /\ ed' \in [Editor -> EditorState]
      /\ ed'[e].pc = IF r = None THEN "inserting" ELSE "updating"
      /\ ed'[e].key = ed[e].key /\ ed'[e].want = ed[e].want
      /\ r # None => ed'[e].row = r.id /\ ed'[e].seen = r.content
      /\ \A d \in Editor : d # e => ed'[d] = ed[d]
  BY <1>2 DEF TagsInv, TagsTypeOK, Look, EditorState
<1>4. TagsTypeOK'
  BY <1>1, <1>3 DEF TagsInv, TagsTypeOK
<1>5. Knows' /\ Reserved'
  BY <1>1, <1>2, <1>3 DEF TagsInv, Knows, Reserved
<1>6. Named' /\ Owned' /\ Told'
  BY <1>1, <1>2, <1>3, Tables
<1> QED BY <1>4, <1>5, <1>6 DEF TagsInv

LEMMA FlushInsertInv ==
  ASSUME TagsInv, NEW e \in Editor, FlushInsert(e)
  PROVE  TagsInv'
<1>1. /\ tags' = tags /\ history' = history
      /\ ed[e].pc = "inserting" /\ ed[e].key \in TagKey
      /\ tagLock[ed[e].key] = None /\ tags[ed[e].key] = None
      /\ To(e, "inserted")
      /\ tagLock' = [tagLock EXCEPT ![ed[e].key] = e]
  BY DEF TagsInv, Knows, FlushInsert, Take
<1>2. /\ ed' \in [Editor -> EditorState]
      /\ ed'[e].pc = "inserted" /\ ed'[e].key = ed[e].key
      /\ ed'[e].want = ed[e].want
      /\ \A d \in Editor : d # e => ed'[d] = ed[d]
  BY <1>1, ToType DEF TagsInv, TagsTypeOK
<1>3. TagsTypeOK'
  BY <1>1, <1>2 DEF TagsInv, TagsTypeOK
<1>4. Knows'
  BY <1>1, <1>2 DEF TagsInv, Knows
<1>5. Reserved'
  <2>1. /\ tagLock'[ed[e].key] = e
        /\ \A k \in TagKey : tagLock[k] # None => tagLock'[k] = tagLock[k]
    BY <1>1 DEF TagsInv, TagsTypeOK
  <2>2. ASSUME NEW d \in Editor, d # e, ed'[d].pc = "inserted"
        PROVE  tagLock'[ed'[d].key] = d /\ tags'[ed'[d].key] = None
    <3>1. ed'[d] = ed[d] /\ tagLock[ed[d].key] = d /\ tags[ed[d].key] = None
      BY <1>2, <2>2 DEF TagsInv, Reserved
    <3>2. ed[d].key \in TagKey /\ d # None
      BY <3>1, <2>2, TagsAssumption DEF TagsInv, Knows
    <3> QED BY <3>1, <3>2, <2>1, <1>1
  <2> QED BY <2>1, <2>2, <1>1, <1>2 DEF Reserved
<1>6. Named' /\ Owned' /\ Told'
  BY <1>1, <1>2, Tables
<1> QED BY <1>3, <1>4, <1>5, <1>6 DEF TagsInv

LEMMA FlushUpdateInv ==
  ASSUME TagsInv, NEW e \in Editor, FlushUpdate(e)
  PROVE  TagsInv'
<1>1. /\ tags' = tags /\ history' = history
      /\ ed[e].pc = "updating" /\ ed[e].key \in TagKey
      /\ tagLock[ed[e].key] = None
      /\ To(e, "updated")
      /\ tagLock' = [tagLock EXCEPT ![ed[e].key] = e]
  BY DEF TagsInv, Knows, FlushUpdate, Take
<1>2. /\ ed' \in [Editor -> EditorState]
      /\ ed'[e].pc = "updated" /\ ed'[e].key = ed[e].key
      /\ ed'[e].want = ed[e].want
      /\ ed'[e].row = ed[e].row /\ ed'[e].seen = ed[e].seen
      /\ \A d \in Editor : d # e => ed'[d] = ed[d]
  BY <1>1, ToType DEF TagsInv, TagsTypeOK
<1>3. TagsTypeOK'
  BY <1>1, <1>2 DEF TagsInv, TagsTypeOK
<1>4. Knows'
  BY <1>1, <1>2 DEF TagsInv, Knows
<1>5. Reserved'
  <2>1. /\ tagLock'[ed[e].key] = e
        /\ \A k \in TagKey : tagLock[k] # None => tagLock'[k] = tagLock[k]
    BY <1>1 DEF TagsInv, TagsTypeOK
  <2>2. ASSUME NEW d \in Editor, d # e, ed'[d].pc = "inserted"
        PROVE  tagLock'[ed'[d].key] = d /\ tags'[ed'[d].key] = None
    <3>1. ed'[d] = ed[d] /\ tagLock[ed[d].key] = d /\ tags[ed[d].key] = None
      BY <1>2, <2>2 DEF TagsInv, Reserved
    <3>2. ed[d].key \in TagKey /\ d # None
      BY <3>1, <2>2, TagsAssumption DEF TagsInv, Knows
    <3> QED BY <3>1, <3>2, <2>1, <1>1
  <2> QED BY <2>1, <2>2, <1>1, <1>2 DEF Reserved
<1>6. Named' /\ Owned' /\ Told'
  BY <1>1, <1>2, Tables
<1> QED BY <1>3, <1>4, <1>5, <1>6 DEF TagsInv

LEMMA FlushNothingInv ==
  ASSUME TagsInv, NEW e \in Editor, FlushNothing(e)
  PROVE  TagsInv'
<1>1. /\ tags' = tags /\ history' = history /\ tagLock' = tagLock
      /\ ed[e].pc = "updating" /\ To(e, "updated")
  BY DEF FlushNothing
<1>2. /\ ed' \in [Editor -> EditorState]
      /\ ed'[e].pc = "updated" /\ ed'[e].key = ed[e].key
      /\ ed'[e].want = ed[e].want
      /\ ed'[e].row = ed[e].row /\ ed'[e].seen = ed[e].seen
      /\ \A d \in Editor : d # e => ed'[d] = ed[d]
  BY <1>1, ToType DEF TagsInv, TagsTypeOK
<1>3. TagsTypeOK'
  BY <1>1, <1>2 DEF TagsInv, TagsTypeOK
<1>4. Knows' /\ Reserved'
  BY <1>1, <1>2 DEF TagsInv, Knows, Reserved
<1>5. Named' /\ Owned' /\ Told'
  BY <1>1, <1>2, Tables
<1> QED BY <1>3, <1>4, <1>5 DEF TagsInv

\* A request that ends without a commit.
LEMMA EndInv ==
  ASSUME TagsInv, NEW e \in Editor, Close(e), UNCHANGED <<tags, history>>
  PROVE  TagsInv'
<1>1. tags' = tags /\ history' = history
  OBVIOUS
<1>2. /\ ed' \in [Editor -> EditorState]
      /\ tagLock' \in [TagKey -> Editor \cup {None}]
      /\ ed'[e].pc = "done"
      /\ \A d \in Editor : d # e => ed'[d] = ed[d]
      /\ \A k \in TagKey : tagLock[k] # e => tagLock'[k] = tagLock[k]
  BY CloseType DEF TagsInv, TagsTypeOK
<1>3. TagsTypeOK'
  BY <1>1, <1>2 DEF TagsInv, TagsTypeOK
<1>4. Knows' /\ Reserved'
  BY <1>1, <1>2 DEF TagsInv, Knows, Reserved
<1>5. Named' /\ Owned' /\ Told'
  BY <1>1, <1>2, Tables
<1> QED BY <1>3, <1>4, <1>5 DEF TagsInv

LEMMA AskRemovalInv ==
  ASSUME TagsInv, NEW e \in Editor, NEW k \in TagKey, AskRemoval(e, k)
  PROVE  TagsInv'
<1> DEFINE r == tags[k]
<1>1. tags' = tags /\ history' = history /\ tagLock' = tagLock
  BY DEF AskRemoval
<1>2. ed[e].pc = "idle" /\ (r = None \/ (r # None /\ r.id \in Editor))
  BY DEF TagsInv, TagsTypeOK, AskRemoval, Row
<1>3. /\ ed' \in [Editor -> EditorState]
      /\ \/ ed'[e].pc = "done"
         \/ ed'[e].pc = "removing" /\ ed'[e].key = k /\ ed'[e].row \in Editor
      /\ \A d \in Editor : d # e => ed'[d] = ed[d]
  BY <1>2 DEF TagsInv, TagsTypeOK, AskRemoval, EditorState, Closed
<1>4. TagsTypeOK'
  BY <1>1, <1>3 DEF TagsInv, TagsTypeOK
<1>5. Knows' /\ Reserved'
  BY <1>1, <1>3 DEF TagsInv, Knows, Reserved
<1>6. Named' /\ Owned' /\ Told'
  BY <1>1, <1>2, <1>3, Tables
<1> QED BY <1>4, <1>5, <1>6 DEF TagsInv

-----------------------------------------------------------------------------
(***************************************************************************)
(* Commits.                                                                *)
(***************************************************************************)
LEMMA CommitInsertInv ==
  ASSUME TagsInv, NEW e \in Editor, CommitInsert(e)
  PROVE  TagsInv'
<1> DEFINE k   == ed[e].key
           new == [id |-> e, content |-> ed[e].want]
           x   == [action |-> "create", prev |-> None, new |-> ed[e].want,
                   raced |-> FALSE]
<1>1. /\ ed[e].pc = "inserted" /\ k \in TagKey /\ ed[e].want \in Content
      /\ tagLock[k] = e /\ tags[k] = None
      /\ Close(e)
      /\ tags' = [tags EXCEPT ![k] = new]
      /\ history' = [history EXCEPT ![e] = <<x>>]
  BY DEF TagsInv, Knows, Reserved, CommitInsert
<1>2. /\ ed' \in [Editor -> EditorState]
      /\ tagLock' \in [TagKey -> Editor \cup {None}]
      /\ ed'[e].pc = "done"
      /\ \A d \in Editor : d # e => ed'[d] = ed[d]
      /\ \A j \in TagKey : tagLock[j] # e => tagLock'[j] = tagLock[j]
  BY <1>1, CloseType DEF TagsInv, TagsTypeOK
<1>3. new \in Row /\ new.id = e /\ new.content = ed[e].want /\ new # None
  BY <1>1, TagsAssumption DEF Row
<1>4. x \in Event /\ x.action = "create" /\ x.new = ed[e].want
  BY <1>1 DEF Event
<1> HIDE DEF new, x
<1>5. /\ tags'[k] = new
      /\ \A j \in TagKey : j # k => tags'[j] = tags[j]
      /\ history'[e] = <<x>>
      /\ \A d \in Editor : d # e => history'[d] = history[d]
  BY <1>1 DEF TagsInv, TagsTypeOK
<1>6. \A j \in TagKey : tags[j] # None => tags[j].id \in Editor /\ tags[j].id # e
  BY <1>1 DEF TagsInv, TagsTypeOK, Named, Row
<1>7. TagsTypeOK'
  <2>1. tags' \in [TagKey -> Row \cup {None}]
    BY <1>1, <1>3 DEF TagsInv, TagsTypeOK
  <2>2. history' \in [Editor -> Seq(Event)]
    BY <1>1, <1>4 DEF TagsInv, TagsTypeOK
  <2> QED BY <2>1, <2>2, <1>2 DEF TagsTypeOK
<1>8. Knows'
  BY <1>2 DEF TagsInv, Knows
<1>9. Reserved'
  <2> SUFFICES ASSUME NEW d \in Editor, ed'[d].pc = "inserted"
               PROVE  tagLock'[ed'[d].key] = d /\ tags'[ed'[d].key] = None
    BY DEF Reserved
  <2>1. d # e /\ ed'[d] = ed[d] /\ ed[d].pc = "inserted"
    BY <1>2
  <2>2. tagLock[ed[d].key] = d /\ tags[ed[d].key] = None /\ ed[d].key \in TagKey
    BY <2>1 DEF TagsInv, Reserved, Knows
  <2>3. ed[d].key # k
    BY <1>1, <2>1, <2>2
  <2> QED BY <2>1, <2>2, <2>3, <1>2, <1>5
<1>10. Named'
  <2>1. ASSUME NEW j \in TagKey, tags'[j] # None
        PROVE  ed'[tags'[j].id].pc = "done"
    BY <2>1, <1>2, <1>3, <1>5, <1>6 DEF TagsInv, Named
  <2>2. ASSUME NEW i \in TagKey, NEW j \in TagKey, tags'[i] # None,
               tags'[j] # None, tags'[i].id = tags'[j].id
        PROVE  i = j
    BY <2>2, <1>3, <1>5, <1>6 DEF TagsInv, Named
  <2> QED BY <2>1, <2>2 DEF Named
<1>11. Owned'
  <2> SUFFICES ASSUME NEW d \in Editor, history'[d] # <<>>
               PROVE  \E j \in TagKey : tags'[j] # None /\ tags'[j].id = d
    BY DEF Owned
  <2>1. CASE d = e
    BY <2>1, <1>1, <1>3, <1>5
  <2>2. CASE d # e
    <3>1. PICK j \in TagKey : tags[j] # None /\ tags[j].id = d
      BY <2>2, <1>5 DEF TagsInv, Owned
    <3>2. j # k
      BY <3>1, <1>1
    <3> QED BY <3>1, <3>2, <1>5
  <2> QED BY <2>1, <2>2
<1>12. Told'
  <2> SUFFICES ASSUME NEW j \in TagKey, tags'[j] # None,
                      Undisturbed(history'[tags'[j].id])
               PROVE  Tells(history'[tags'[j].id], tags'[j].content)
    BY DEF Told
  <2>1. CASE j = k
    <3>1. Tells(<<x>>, ed[e].want)
      BY <1>4 DEF Tells
    <3> QED BY <3>1, <2>1, <1>3, <1>5
  <2>2. CASE j # k
    BY <2>2, <1>5, <1>6 DEF TagsInv, Told
  <2> QED BY <2>1, <2>2
<1> QED BY <1>7, <1>8, <1>9, <1>10, <1>11, <1>12 DEF TagsInv

LEMMA CommitUpdateInv ==
  ASSUME TagsInv, NEW e \in Editor, CommitUpdate(e)
  PROVE  TagsInv'
<1> DEFINE k   == ed[e].key
           r   == ed[e].row
           new == [id |-> r, content |-> Merged(e)]
           x   == UpdateEvent(e)
<1>1. /\ ed[e].pc = "updated" /\ k \in TagKey /\ r \in Editor
      /\ ed[e].want \in Content /\ ed[e].seen \in Content
      /\ tags[k] # None /\ tags[k].id = r
      /\ Close(e)
      /\ tags' = [tags EXCEPT ![k] = new]
      /\ history' = [history EXCEPT ![r] = Append(history[r], x)]
  BY DEF TagsInv, Knows, CommitUpdate, Found
<1>2. /\ ed' \in [Editor -> EditorState]
      /\ tagLock' \in [TagKey -> Editor \cup {None}]
      /\ ed'[e].pc = "done"
      /\ \A d \in Editor : d # e => ed'[d] = ed[d]
      /\ \A j \in TagKey : tagLock[j] # e => tagLock'[j] = tagLock[j]
  BY <1>1, CloseType DEF TagsInv, TagsTypeOK
<1>3. tags[k].content \in Content
  BY <1>1 DEF TagsInv, TagsTypeOK, Row
<1>4. new \in Row /\ new.id = r /\ new.content = Merged(e) /\ new # None
  BY <1>1, <1>3, MergedType, TagsAssumption DEF Row
<1>5. /\ x \in Event /\ x.action = "update"
      /\ x.prev = ed[e].seen /\ x.new = ed[e].want
      /\ x.raced <=> tags[k].content # ed[e].seen
  BY <1>1 DEF UpdateEvent, Event
<1> HIDE DEF new, x
<1>6. /\ tags'[k] = new
      /\ \A j \in TagKey : j # k => tags'[j] = tags[j]
      /\ history'[r] = Append(history[r], x)
      /\ \A d \in Editor : d # r => history'[d] = history[d]
      /\ history[r] \in Seq(Event)
  BY <1>1 DEF TagsInv, TagsTypeOK
<1>7. \A j \in TagKey :
        tags[j] # None => tags[j].id \in Editor /\ (j # k => tags[j].id # r)
  BY <1>1 DEF TagsInv, TagsTypeOK, Named, Row
<1>8. TagsTypeOK'
  <2>1. tags' \in [TagKey -> Row \cup {None}]
    BY <1>1, <1>4 DEF TagsInv, TagsTypeOK
  <2>2. Append(history[r], x) \in Seq(Event)
    BY <1>5, <1>6
  <2>3. history' \in [Editor -> Seq(Event)]
    BY <2>2, <1>1 DEF TagsInv, TagsTypeOK
  <2> QED BY <2>1, <2>3, <1>2 DEF TagsTypeOK
<1>9. Knows'
  BY <1>2 DEF TagsInv, Knows
<1>10. Reserved'
  <2> SUFFICES ASSUME NEW d \in Editor, ed'[d].pc = "inserted"
               PROVE  tagLock'[ed'[d].key] = d /\ tags'[ed'[d].key] = None
    BY DEF Reserved
  <2>1. d # e /\ ed'[d] = ed[d] /\ ed[d].pc = "inserted"
    BY <1>2
  <2>2. tagLock[ed[d].key] = d /\ tags[ed[d].key] = None /\ ed[d].key \in TagKey
    BY <2>1 DEF TagsInv, Reserved, Knows
  <2>3. ed[d].key # k
    BY <1>1, <2>2
  <2> QED BY <2>1, <2>2, <2>3, <1>2, <1>6
<1>11. Named'
  <2>1. ASSUME NEW j \in TagKey, tags'[j] # None
        PROVE  ed'[tags'[j].id].pc = "done"
    BY <2>1, <1>1, <1>2, <1>4, <1>6, <1>7 DEF TagsInv, Named
  <2>2. ASSUME NEW i \in TagKey, NEW j \in TagKey, tags'[i] # None,
               tags'[j] # None, tags'[i].id = tags'[j].id
        PROVE  i = j
    BY <2>2, <1>4, <1>6, <1>7 DEF TagsInv, Named
  <2> QED BY <2>1, <2>2 DEF Named
<1>12. Owned'
  <2> SUFFICES ASSUME NEW d \in Editor, history'[d] # <<>>
               PROVE  \E j \in TagKey : tags'[j] # None /\ tags'[j].id = d
    BY DEF Owned
  <2>1. CASE d = r
    BY <2>1, <1>1, <1>4, <1>6
  <2>2. CASE d # r
    <3>1. PICK j \in TagKey : tags[j] # None /\ tags[j].id = d
      BY <2>2, <1>6 DEF TagsInv, Owned
    <3>2. j # k
      BY <3>1, <2>2, <1>1
    <3> QED BY <3>1, <3>2, <1>6
  <2> QED BY <2>1, <2>2
<1>13. Told'
  <2> SUFFICES ASSUME NEW j \in TagKey, tags'[j] # None,
                      Undisturbed(history'[tags'[j].id])
               PROVE  Tells(history'[tags'[j].id], tags'[j].content)
    BY DEF Told
  <2>1. CASE j = k
    <3>1. Undisturbed(Append(history[r], x))
      BY <2>1, <1>4, <1>6
    <3>2. Undisturbed(history[r]) /\ tags[k].content = ed[e].seen
      BY <3>1, <1>5, <1>6, UndisturbedMore
    <3>3. Tells(history[r], ed[e].seen)
      BY <3>2, <1>1 DEF TagsInv, Told
    <3>4. Tells(Append(history[r], x), ed[e].want)
      BY <3>3, <1>5, <1>6, TellsMore
    <3>5. Merged(e) = ed[e].want
      BY <3>2, <1>1, MergedAlone
    <3> QED BY <3>4, <3>5, <2>1, <1>4, <1>6
  <2>2. CASE j # k
    BY <2>2, <1>6, <1>7 DEF TagsInv, Told
  <2> QED BY <2>1, <2>2
<1> QED BY <1>8, <1>9, <1>10, <1>11, <1>12, <1>13 DEF TagsInv

LEMMA RemoveInv ==
  ASSUME TagsInv, NEW e \in Editor, Remove(e)
  PROVE  TagsInv'
<1> DEFINE k == ed[e].key
           r == ed[e].row
<1>1. ed[e].pc = "removing" /\ k \in TagKey /\ r \in Editor /\ Close(e)
  BY DEF TagsInv, Knows, Remove
<1>2. CASE ~Found(e)
  <2>1. UNCHANGED <<tags, history>>
    BY <1>2 DEF Remove
  <2> QED BY <2>1, <1>1, EndInv
<1>3. CASE Found(e)
  <2>1. /\ tags[k] # None /\ tags[k].id = r
        /\ tags' = [tags EXCEPT ![k] = None]
        /\ history' = [history EXCEPT ![r] = <<>>]
    BY <1>3 DEF Remove, Found
  <2>2. /\ ed' \in [Editor -> EditorState]
        /\ tagLock' \in [TagKey -> Editor \cup {None}]
        /\ ed'[e].pc = "done"
        /\ \A d \in Editor : d # e => ed'[d] = ed[d]
        /\ \A j \in TagKey : tagLock[j] # e => tagLock'[j] = tagLock[j]
    BY <1>1, CloseType DEF TagsInv, TagsTypeOK
  <2>3. /\ tags'[k] = None
        /\ \A j \in TagKey : j # k => tags'[j] = tags[j]
        /\ history'[r] = <<>>
        /\ \A d \in Editor : d # r => history'[d] = history[d]
    BY <1>1, <2>1 DEF TagsInv, TagsTypeOK
  <2>4. \A j \in TagKey :
          tags[j] # None => tags[j].id \in Editor /\ (j # k => tags[j].id # r)
    BY <1>1, <2>1 DEF TagsInv, TagsTypeOK, Named, Row
  <2>5. TagsTypeOK'
    <3>1. tags' \in [TagKey -> Row \cup {None}]
      BY <2>1 DEF TagsInv, TagsTypeOK
    <3>2. history' \in [Editor -> Seq(Event)]
      <4>1. <<>> \in Seq(Event)
        OBVIOUS
      <4>2. history \in [Editor -> Seq(Event)]
        BY DEF TagsInv, TagsTypeOK
      <4> HIDE DEF r
      <4> QED BY <4>1, <4>2, <2>1, Zenon
    <3> QED BY <3>1, <3>2, <2>2 DEF TagsTypeOK
  <2>6. Knows'
    BY <2>2 DEF TagsInv, Knows
  <2>7. Reserved'
    <3> SUFFICES ASSUME NEW d \in Editor, ed'[d].pc = "inserted"
                 PROVE  tagLock'[ed'[d].key] = d /\ tags'[ed'[d].key] = None
      BY DEF Reserved
    <3>1. d # e /\ ed'[d] = ed[d] /\ ed[d].pc = "inserted"
      BY <2>2
    <3>2. tagLock[ed[d].key] = d /\ tags[ed[d].key] = None /\ ed[d].key \in TagKey
      BY <3>1 DEF TagsInv, Reserved, Knows
    <3> QED BY <3>1, <3>2, <2>2, <2>3
  <2>8. Named'
    <3>1. ASSUME NEW j \in TagKey, tags'[j] # None
          PROVE  ed'[tags'[j].id].pc = "done"
      BY <3>1, <2>2, <2>3, <2>4 DEF TagsInv, Named
    <3>2. ASSUME NEW i \in TagKey, NEW j \in TagKey, tags'[i] # None,
                 tags'[j] # None, tags'[i].id = tags'[j].id
          PROVE  i = j
      BY <3>2, <2>3 DEF TagsInv, Named
    <3> QED BY <3>1, <3>2 DEF Named
  <2>9. Owned'
    <3> SUFFICES ASSUME NEW d \in Editor, history'[d] # <<>>
                 PROVE  \E j \in TagKey : tags'[j] # None /\ tags'[j].id = d
      BY DEF Owned
    <3>1. d # r
      BY <2>3
    <3>2. PICK j \in TagKey : tags[j] # None /\ tags[j].id = d
      BY <3>1, <2>3 DEF TagsInv, Owned
    <3>3. j # k
      BY <3>1, <3>2, <2>1
    <3> QED BY <3>2, <3>3, <2>3
  <2>10. Told'
    <3> SUFFICES ASSUME NEW j \in TagKey, tags'[j] # None,
                        Undisturbed(history'[tags'[j].id])
                 PROVE  Tells(history'[tags'[j].id], tags'[j].content)
      BY DEF Told
    <3>1. j # k
      BY <2>3
    <3> QED BY <3>1, <2>3, <2>4 DEF TagsInv, Told
  <2> QED BY <2>5, <2>6, <2>7, <2>8, <2>9, <2>10 DEF TagsInv
<1> QED BY <1>2, <1>3

-----------------------------------------------------------------------------
LEMMA TagsStepInv ==
  TagsInv /\ [TagsNext]_tagVars => TagsInv'
<1> SUFFICES ASSUME TagsInv, [TagsNext]_tagVars
             PROVE  TagsInv'
  OBVIOUS
<1>1. ASSUME NEW e \in Editor, NEW k \in TagKey, AskRemoval(e, k)
      PROVE  TagsInv'
  BY <1>1, AskRemovalInv
<1>2. ASSUME NEW e \in Editor, NEW k \in TagKey, NEW c \in Content,
             AskUpsert(e, k, c)
      PROVE  TagsInv'
  BY <1>2, AskUpsertInv
<1>3. ASSUME NEW e \in Editor, EditStep(e)
      PROVE  TagsInv'
  <2>1. CASE FlushRefused(e) \/ CommitRefused(e)
    <3>1. Close(e) /\ UNCHANGED <<tags, history>>
      BY <2>1 DEF FlushRefused, CommitRefused
    <3> QED BY <3>1, EndInv
  <2>2. CASE Look(e)
    BY <2>2, LookInv
  <2>3. CASE FlushInsert(e)
    BY <2>3, FlushInsertInv
  <2>4. CASE FlushUpdate(e)
    BY <2>4, FlushUpdateInv
  <2>5. CASE FlushNothing(e)
    BY <2>5, FlushNothingInv
  <2>6. CASE CommitInsert(e)
    BY <2>6, CommitInsertInv
  <2>7. CASE CommitUpdate(e)
    BY <2>7, CommitUpdateInv
  <2>8. CASE Remove(e)
    BY <2>8, RemoveInv
  <2> QED BY <1>3, <2>1, <2>2, <2>3, <2>4, <2>5, <2>6, <2>7, <2>8 DEF EditStep
<1>4. ASSUME NEW e \in Editor, AbandonEdit(e)
      PROVE  TagsInv'
  <2>1. Close(e) /\ UNCHANGED <<tags, history>>
    BY <1>4 DEF AbandonEdit
  <2> QED BY <2>1, EndInv
<1>5. CASE UNCHANGED tagVars
  <2>1. tags' = tags /\ history' = history /\ tagLock' = tagLock /\ ed' = ed
    BY <1>5 DEF tagVars
  <2> QED BY <2>1 DEF TagsInv, TagsTypeOK, Knows, Reserved, Named, Owned, Told
<1> QED BY <1>1, <1>2, <1>3, <1>4, <1>5 DEF TagsNext

LEMMA TagsInitInv ==
  TagsInit => TagsInv
<1> SUFFICES ASSUME TagsInit
             PROVE  TagsInv
  OBVIOUS
<1>1. Fresh \in EditorState /\ Fresh.pc = "idle"
  BY DEF Fresh, EditorState
<1>2. /\ \A e \in Editor : ed[e] = Fresh /\ history[e] = <<>>
      /\ \A k \in TagKey : tags[k] = None
  BY DEF TagsInit
<1>3. TagsTypeOK
  BY <1>1 DEF TagsInit, TagsTypeOK
<1>4. Knows /\ Reserved /\ Named /\ Owned /\ Told
  BY <1>1, <1>2 DEF Knows, Reserved, Named, Owned, Told
<1> QED BY <1>3, <1>4 DEF TagsInv

\* The tables and the editors keep their types (upsert_address_risk_tag,
\* delete_address_risk_tag).
THEOREM TagsTypeCorrect == TagsSpec => []TagsTypeOK
<1>1. TagsInv => TagsTypeOK
  BY DEF TagsInv
<1> QED BY <1>1, TagsInitInv, TagsStepInv, PTL DEF TagsSpec

\* The events of a tag that no two overlapping updates have met tell its whole
\* life, and no event outlives its tag (service.py:952-1024, models.py:503).
THEOREM HistoryCorrect == TagsSpec => []HistoryIsLife
<1>1. TagsInv => HistoryIsLife
  BY DEF TagsInv, Owned, Told, HistoryIsLife
<1> QED BY <1>1, TagsInitInv, TagsStepInv, PTL DEF TagsSpec
=============================================================================
