------------------------------ MODULE RiskTags ------------------------------
(***************************************************************************)
(* The risk tags of addresses and their history: upsert_address_risk_tag   *)
(* and delete_address_risk_tag of app/application/risk/service.py over the *)
(* tables address_risk_tags and address_risk_tag_events of app/models.py.  *)
(*                                                                         *)
(* An editor is one HTTP request with its database transaction.  As in     *)
(* KytCache, the module follows the statements and the row locks at READ   *)
(* COMMITTED; writes take effect at the commit.                            *)
(***************************************************************************)
EXTENDS Naturals, Sequences

CONSTANTS
  Editor,   \* the requests; each runs once
  TagKey,   \* (network, normalised address, tag, source)
  Label,    \* values of the columns other than is_active
  None      \* "no value"

\* The columns an upsert sets, reduced to two.
Content == [label : Label, active : BOOLEAN]

\* A row is named by the editor that inserted it.
Row   == [id : Editor, content : Content]
Event == [action : {"create", "update"},
          prev   : Content \cup {None},
          new    : Content,
          raced  : BOOLEAN]   \* auxiliary: the row was not what had been read

ASSUME TagsAssumption ==
  /\ None \notin Editor \cup Row \cup Content \cup TagKey
  /\ Label # {}

VARIABLES
  tags,     \* per key, the committed row, or None
  history,  \* per row, its committed events, in the order of their ids
  tagLock,  \* per key, the editor holding the lock of the row
  ed        \* the local state of each editor

tagVars == <<tags, history, tagLock, ed>>

(***************************************************************************)
(* pc names the statement the editor stands before:                        *)
(*   looking    the SELECT by the four columns of the key                  *)
(*   inserting  the flush of a new row (line 998)                          *)
(*   updating   the flush of the row found (line 971)                      *)
(*   inserted, updated  the INSERT of the event and the commit             *)
(*   removing   a removal: the DELETE and the commit                       *)
(***************************************************************************)
EditorState ==
  [pc   : {"idle", "looking", "inserting", "updating", "inserted", "updated",
           "removing", "done"},
   key  : TagKey \cup {None},
   want : Content \cup {None},
   row  : Editor \cup {None},    \* id of the row the SELECT returned
   seen : Content \cup {None}]   \* its columns then

Fresh == [pc |-> "idle", key |-> None, want |-> None, row |-> None,
          seen |-> None]
Closed == [pc |-> "done", key |-> None, want |-> None, row |-> None,
           seen |-> None]

TagsTypeOK ==
  /\ tags \in [TagKey -> Row \cup {None}]
  /\ history \in [Editor -> Seq(Event)]
  /\ tagLock \in [TagKey -> Editor \cup {None}]
  /\ ed \in [Editor -> EditorState]

TagsInit ==
  /\ tags = [k \in TagKey |-> None]
  /\ history = [e \in Editor |-> <<>>]
  /\ tagLock = [k \in TagKey |-> None]
  /\ ed = [e \in Editor |-> Fresh]

\* The request has been answered and its session closed: commit or rollback
\* frees its lock.
Close(e) ==
  /\ ed' = [ed EXCEPT ![e] = Closed]
  /\ tagLock' = [k \in TagKey |-> IF tagLock[k] = e THEN None ELSE tagLock[k]]

-----------------------------------------------------------------------------
AskUpsert(e, k, c) ==
  /\ ed[e].pc = "idle"
  /\ ed' = [ed EXCEPT ![e] = [pc |-> "looking", key |-> k, want |-> c,
                              row |-> None, seen |-> None]]
  /\ UNCHANGED <<tags, history, tagLock>>

Look(e) ==
  LET r == tags[ed[e].key]
  IN /\ ed[e].pc = "looking"
     /\ ed' = [ed EXCEPT ![e] =
                 [pc   |-> IF r = None THEN "inserting" ELSE "updating",
                  key  |-> ed[e].key,
                  want |-> ed[e].want,
                  row  |-> IF r = None THEN None ELSE r.id,
                  seen |-> IF r = None THEN None ELSE r.content]]
     /\ UNCHANGED <<tags, history, tagLock>>

\* Is the row the editor read still there?
Found(e) ==
  LET r == tags[ed[e].key] IN r # None /\ r.id = ed[e].row

To(e, pc) == ed' = [ed EXCEPT ![e].pc = pc]

Take(e) == tagLock' = [tagLock EXCEPT ![ed[e].key] = e]

\* uq_address_risk_tag_source: the key has to be free, and an INSERT waits
\* for an uncommitted one of the same key.
FlushInsert(e) ==
  /\ ed[e].pc = "inserting"
  /\ tagLock[ed[e].key] = None
  /\ tags[ed[e].key] = None
  /\ Take(e)
  /\ To(e, "inserted")
  /\ UNCHANGED <<tags, history>>

FlushUpdate(e) ==
  /\ ed[e].pc = "updating"
  /\ ed[e].want # ed[e].seen
  /\ tagLock[ed[e].key] = None
  /\ Found(e)
  /\ Take(e)
  /\ To(e, "updated")
  /\ UNCHANGED <<tags, history>>

\* No column differs from what was read: no UPDATE is sent, no lock taken.
FlushNothing(e) ==
  /\ ed[e].pc = "updating"
  /\ ed[e].want = ed[e].seen
  /\ To(e, "updated")
  /\ UNCHANGED <<tags, history, tagLock>>

\* The INSERT meets the unique key, the UPDATE no row (StaleDataError).
FlushRefused(e) ==
  /\ \/ ed[e].pc = "inserting" /\ tags[ed[e].key] # None
     \/ ed[e].pc = "updating" /\ ed[e].want # ed[e].seen /\ ~Found(e)
  /\ tagLock[ed[e].key] = None
  /\ Close(e)
  /\ UNCHANGED <<tags, history>>

-----------------------------------------------------------------------------
CommitInsert(e) ==
  /\ ed[e].pc = "inserted"
  /\ tags' = [tags EXCEPT ![ed[e].key] = [id |-> e, content |-> ed[e].want]]
  /\ history' = [history EXCEPT ![e] =
       <<[action |-> "create", prev |-> None, new |-> ed[e].want,
          raced |-> FALSE]>>]
  /\ Close(e)

\* The ORM writes the columns that differ from what was read; the others keep
\* what has been committed meanwhile.
Merged(e) ==
  LET old == tags[ed[e].key].content
      col(now, seen, want) == IF want = seen THEN now ELSE want
  IN [label  |-> col(old.label, ed[e].seen.label, ed[e].want.label),
      active |-> col(old.active, ed[e].seen.active, ed[e].want.active)]

\* Mutant: the event is written from the row as it is after the flush only.
UpdateEventBlind(e) ==
  [action |-> "update", prev |-> ed[e].want, new |-> ed[e].want,
   raced |-> tags[ed[e].key].content # ed[e].seen]

\* Both payloads of the event are those of the object in memory.
UpdateEvent(e) ==
  [action |-> "update", prev |-> ed[e].seen, new |-> ed[e].want,
   raced |-> tags[ed[e].key].content # ed[e].seen]

CommitUpdate(e) ==
  /\ ed[e].pc = "updated"
  /\ Found(e)
  /\ tags' = [tags EXCEPT ![ed[e].key] =
                [id |-> ed[e].row, content |-> Merged(e)]]
  /\ history' = [history EXCEPT ![ed[e].row] = Append(@, UpdateEvent(e))]
  /\ Close(e)

\* An event without its tag violates the foreign key.
CommitRefused(e) ==
  /\ ed[e].pc = "updated"
  /\ ~Found(e)
  /\ Close(e)
  /\ UNCHANGED <<tags, history>>

-----------------------------------------------------------------------------
AskRemoval(e, k) ==
  LET r == tags[k]
  IN /\ ed[e].pc = "idle"
     /\ ed' = [ed EXCEPT ![e] =
                 IF r = None THEN Closed
                 ELSE [pc |-> "removing", key |-> k, want |-> None,
                       row |-> r.id, seen |-> None]]
     /\ UNCHANGED <<tags, history, tagLock>>

\* The events go with the tag.  A tag that is gone already is no error.
Remove(e) ==
  /\ ed[e].pc = "removing"
  /\ IF Found(e)
       THEN /\ tagLock[ed[e].key] = None
            /\ tags' = [tags EXCEPT ![ed[e].key] = None]
            /\ history' = [history EXCEPT ![ed[e].row] = <<>>]
       ELSE UNCHANGED <<tags, history>>
  /\ Close(e)

\* The client or the process goes away, or the database fails.
AbandonEdit(e) ==
  /\ ed[e].pc \notin {"idle", "done"}
  /\ Close(e)
  /\ UNCHANGED <<tags, history>>

-----------------------------------------------------------------------------
EditStep(e) ==
  \/ Look(e)
  \/ FlushInsert(e)
  \/ FlushUpdate(e)
  \/ FlushNothing(e)
  \/ FlushRefused(e)
  \/ CommitInsert(e)
  \/ CommitUpdate(e)
  \/ CommitRefused(e)
  \/ Remove(e)

TagsNext ==
  \E e \in Editor :
    \/ \E k \in TagKey : AskRemoval(e, k) \/ \E c \in Content : AskUpsert(e, k, c)
    \/ EditStep(e)
    \/ AbandonEdit(e)

TagsSpec == TagsInit /\ [][TagsNext]_tagVars

-----------------------------------------------------------------------------
\* The events of a row tell its whole life: they begin with its creation,
\* each starts from what the one before had left, and the last one left what
\* the row holds.
Tells(h, content) ==
  /\ h # <<>>
  /\ h[1].action = "create"
  /\ \A i \in 2 .. Len(h) : h[i].action = "update" /\ h[i].prev = h[i - 1].new
  /\ h[Len(h)].new = content

Undisturbed(h) == \A i \in 1 .. Len(h) : ~h[i].raced

\* The history of every tag in the table is its life, unless an update was
\* committed between the SELECT and the flush of another (line 964 reads
\* what it had before line 971 waits for the lock); no event outlives its tag.
HistoryIsLife ==
  /\ \A k \in TagKey :
       tags[k] # None /\ Undisturbed(history[tags[k].id])
         => Tells(history[tags[k].id], tags[k].content)
  /\ \A e \in Editor :
       history[e] # <<>> => \E k \in TagKey : tags[k] # None /\ tags[k].id = e
=============================================================================
