---------------------- MODULE SanctionsRegistry_proofs ----------------------
(***************************************************************************)
(* Machine-checked facts about SanctionsRegistry, for any number of runs   *)
(* of the import tool, of screenings and of designations.                  *)
(***************************************************************************)
EXTENDS SanctionsRegistry, FiniteSetTheorems, TLAPS

-----------------------------------------------------------------------------
(***************************************************************************)
(* The inductive invariant, as predicates of the tables and of the states  *)
(* of transactions.                                                        *)
(***************************************************************************)
Published(l, imp) ==
  /\ l \in Import \cup {None}
  /\ l # None => imp[l].pc = "completed"

\* What a run has deleted is still in the table; while it deletes, what it has
\* deleted or is to delete is the list in force or, when that was replaced
\* since, nothing of it; and afterwards it has deleted all of it or nothing.
Transaction(o, sub, imp) ==
  /\ o \in ImportState
  /\ o.deleted \subseteq sub
  /\ o.pc \notin {"deleting", "insert", "inserted"} => o.deleted = {}
  /\ o.pc # "deleting" => o.row = None
  /\ o.pc = "deleting" =>
       /\ \A x \in o.snapshot : x \in Row /\ imp[x.list].pc = "completed"
       /\ o.row \in o.snapshot \cup {None}
       /\ \/ sub \subseteq o.snapshot \cup o.deleted
          \/ o.snapshot \cap sub = {} /\ o.deleted = {}
  /\ o.pc \in {"insert", "inserted"} => o.deleted = sub \/ o.deleted = {}

\* No subject is deleted by two runs, and the one run that has inserted its
\* rows has deleted all others.
Registry(sub, lat, imp) ==
  /\ Published(lat, imp)
  /\ sub = ListOf(lat)
  /\ \A i \in Import : Transaction(imp[i], sub, imp)
  /\ \A i, j \in Import : i # j => imp[i].deleted \cap imp[j].deleted = {}
  /\ \A i \in Import : imp[i].pc = "inserted" => sub \subseteq imp[i].deleted
  /\ \A i, j \in Import : imp[i].pc = "inserted" /\ imp[j].pc = "inserted" => i = j

\* The foreign key of sanctions_matches, committed and under way.
Linked(sub, mat, imp, scr) ==
  /\ \A m \in mat : m.row \in sub
  /\ \A i \in Import : imp[i].pc \in {"insert", "inserted"} =>
       \A m \in mat \ imp[i].dropped : m.row \notin imp[i].deleted
  /\ \A s \in Screening : \A x \in scr[s].held :
       x \in sub /\ \A i \in Import : x \notin imp[i].deleted

\* A row the candidate queries may have returned under one of the lists.
Candidate(s, x, lists) ==
  /\ x \in Row
  /\ x.list \in lists
  /\ x \in RowsOf(x.list)
  /\ Found[s][x.record] # {}

Explained(s, h, lists) ==
  /\ h.row.list \in lists
  /\ h.level = "confirmed" => h \in HitsIn(s, h.row.list)

Loading == {"subject_names", "subject_documents", "subject_addresses"}

\* What a screening has gathered comes from lists in force since it began.
Probe(s, o, lat) ==
  /\ o \in ScreenState
  /\ o.pc \notin Ended \cup {"idle"} => lat \in o.lists
  /\ \A x \in o.todo : Candidate(s, x, o.lists)
  /\ o.pc \in Loading =>
       /\ Candidate(s, o.row, o.lists)
       /\ o.fields \subseteq Agrees[s][o.row.record]
  /\ \A h \in o.hits : Explained(s, h, o.lists)

\* While a screening records, it holds subjects of its hits and waits for
\* another; only one that held a subject and waited can be a victim.
Recording(o) ==
  LET rows == {h.row : h \in o.hits}
  IN /\ o.pc # "persist" => o.held = {}
     /\ o.pc \notin Loading \cup {"persist"} => o.row = None
     /\ o.pc = "persist" => /\ o.persist
                            /\ o.held \subseteq rows
                            /\ o.row \in (rows \ o.held) \cup {None}
     /\ o.pc = "deadlocked" => o.persist /\ \E g, h \in o.hits : g # h

IInv ==
  /\ matches \subseteq Match
  /\ import \in [Import -> ImportState]
  /\ screen \in [Screening -> ScreenState]
  /\ Registry(subjects, latest, import)
  /\ Linked(subjects, matches, import, screen)
  /\ \A s \in Screening : Probe(s, screen[s], latest)
  /\ \A s \in Screening : Recording(screen[s])

-----------------------------------------------------------------------------
(***************************************************************************)
(* Lists.                                                                  *)
(***************************************************************************)
LEMMA RowsOfARun ==
  ASSUME NEW i \in Import
  PROVE  /\ RowsOf(i) \subseteq Row
         /\ \A x \in RowsOf(i) : x.list = i /\ x.record \in File[i]
         /\ ListOf(i) = RowsOf(i)
  BY RegistryAssumption DEF RowsOf, Row, ListOf

LEMMA ListsAreRows ==
  ASSUME NEW l \in Import \cup {None}
  PROVE  /\ ListOf(l) \subseteq Row
         /\ \A x \in ListOf(l) : x.list = l /\ x \in RowsOf(l) /\ l \in Import
  BY RowsOfARun, RegistryAssumption DEF ListOf

\* Two lists have a row in common only if they are the same.
LEMMA ListsAreApart ==
  ASSUME NEW k \in Import \cup {None}, NEW l \in Import \cup {None},
         NEW x \in ListOf(k), x \in ListOf(l)
  PROVE  k = l
  BY ListsAreRows

\* Any two files have a designation in common.
LEMMA ListsOverlap ==
  ASSUME NEW i \in Import, NEW l \in Import
  PROVE  \E x \in RowsOf(l), r \in File[i] : Uid[x.record] = Uid[r]
<1>1. PICK q \in File[l], r \in File[i] : Uid[q] = Uid[r]
  BY FilesAssumption
<1>2. [list |-> l, record |-> q] \in RowsOf(l)
  BY DEF RowsOf
<1> QED BY <1>1, <1>2

LEMMA InvImplies ==
  ASSUME IInv
  PROVE  TypeOK /\ OneListInForce /\ MatchesAreListed /\ HitsAreListed
<1>1. subjects \subseteq Row /\ latest \in Import \cup {None} /\ OneListInForce
  BY ListsAreRows DEF IInv, Registry, Published, OneListInForce
<1>2. MatchesAreListed
  BY DEF IInv, Linked, MatchesAreListed
<1>3. HitsAreListed
  BY DEF IInv, Probe, Explained, HitsAreListed
<1> QED BY <1>1, <1>2, <1>3 DEF IInv, TypeOK

-----------------------------------------------------------------------------
(***************************************************************************)
(* The states of a run that actions write, and their fields.               *)
(***************************************************************************)
LEMMA NoImportState ==
  /\ NoImport \in ImportState
  /\ NoImport.pc = "idle" /\ NoImport.deleted = {} /\ NoImport.row = None
  BY DEF NoImport, ImportState

Over(outcome) == [NoImport EXCEPT !.pc = outcome]

LEMMA OverState ==
  ASSUME NEW o \in {"completed", "failed"}
  PROVE  /\ Over(o) \in ImportState
         /\ Over(o).pc = o /\ Over(o).deleted = {} /\ Over(o).row = None
  BY NoImportState DEF Over, ImportState

Opened(o) == [o EXCEPT !.pc = "matches"]

LEMMA OpenedState ==
  ASSUME NEW o \in ImportState
  PROVE  /\ Opened(o) \in ImportState
         /\ Opened(o).pc = "matches" /\ Opened(o).deleted = o.deleted
         /\ Opened(o).row = o.row
  BY DEF Opened, ImportState

Waiting(o, V) == [o EXCEPT !.waiting = TRUE, !.snapshot = V]

LEMMA WaitingState ==
  ASSUME NEW o \in ImportState, NEW V \in SUBSET (Row \cup Match)
  PROVE  /\ Waiting(o, V) \in ImportState
         /\ Waiting(o, V).pc = o.pc /\ Waiting(o, V).deleted = o.deleted
         /\ Waiting(o, V).row = o.row
  BY DEF Waiting, ImportState

Dropped(o, T) ==
  [o EXCEPT !.pc = "children", !.dropped = T, !.waiting = FALSE, !.snapshot = {}]

LEMMA DroppedState ==
  ASSUME NEW o \in ImportState, NEW T \in SUBSET Match
  PROVE  /\ Dropped(o, T) \in ImportState
         /\ Dropped(o, T).pc = "children" /\ Dropped(o, T).deleted = o.deleted
         /\ Dropped(o, T).row = o.row
  BY DEF Dropped, ImportState

Claimed(o, next, T) ==
  [o EXCEPT !.pc = next, !.claims = o.claims \cup T, !.waiting = FALSE,
            !.snapshot = {}]

LEMMA ClaimedState ==
  ASSUME NEW o \in ImportState, NEW next \in {"children", "subjects"},
         NEW T \in SUBSET Row
  PROVE  /\ Claimed(o, next, T) \in ImportState
         /\ Claimed(o, next, T).pc = next /\ Claimed(o, next, T).deleted = o.deleted
         /\ Claimed(o, next, T).row = o.row
  BY DEF Claimed, ImportState

Begun(o, V) == [o EXCEPT !.pc = "deleting", !.snapshot = V]

LEMMA BegunState ==
  ASSUME NEW o \in ImportState, NEW V \in SUBSET Row
  PROVE  /\ Begun(o, V) \in ImportState
         /\ Begun(o, V).pc = "deleting" /\ Begun(o, V).snapshot = V
         /\ Begun(o, V).deleted = o.deleted /\ Begun(o, V).row = o.row
  BY DEF Begun, ImportState

Stopped(o, y) == [o EXCEPT !.row = y]

LEMMA StoppedState ==
  ASSUME NEW o \in ImportState, NEW y \in Row
  PROVE  /\ Stopped(o, y) \in ImportState
         /\ Stopped(o, y).pc = o.pc /\ Stopped(o, y).snapshot = o.snapshot
         /\ Stopped(o, y).deleted = o.deleted /\ Stopped(o, y).row = y
  BY DEF Stopped, ImportState

Removed(o, V, T) ==
  [o EXCEPT !.snapshot = V, !.row = None, !.deleted = o.deleted \cup T]

LEMMA RemovedState ==
  ASSUME NEW o \in ImportState, NEW V \in SUBSET Row, NEW T \in SUBSET Row
  PROVE  /\ Removed(o, V, T) \in ImportState
         /\ Removed(o, V, T).pc = o.pc /\ Removed(o, V, T).snapshot = V
         /\ Removed(o, V, T).deleted = o.deleted \cup T
         /\ Removed(o, V, T).row = None
  BY DEF Removed, ImportState

Cascaded(o) == [o EXCEPT !.pc = "insert", !.claims = o.claims \cup o.deleted]

LEMMA CascadedState ==
  ASSUME NEW o \in ImportState
  PROVE  /\ Cascaded(o) \in ImportState
         /\ Cascaded(o).pc = "insert" /\ Cascaded(o).deleted = o.deleted
         /\ Cascaded(o).dropped = o.dropped /\ Cascaded(o).row = o.row
  BY DEF Cascaded, ImportState

Inserted1(o) == [o EXCEPT !.pc = "inserted"]

LEMMA InsertedState ==
  ASSUME NEW o \in ImportState
  PROVE  /\ Inserted1(o) \in ImportState
         /\ Inserted1(o).pc = "inserted" /\ Inserted1(o).deleted = o.deleted
         /\ Inserted1(o).dropped = o.dropped /\ Inserted1(o).row = o.row
  BY DEF Inserted1, ImportState

-----------------------------------------------------------------------------
(***************************************************************************)
(* Locks.                                                                  *)
(***************************************************************************)
\* A subject a transaction may lock is deleted by no run, nor referred to, when
\* it is a run that locks it, by a screening.
LEMMA FreeSubject ==
  ASSUME NEW p \in Party, NEW x, Free(p, {"subject"} \X {x})
  PROVE  /\ \A j \in Import \ {p} : x \notin import[j].deleted
         /\ p \in Import => \A s \in Screening : x \notin screen[s].held
<1>1. ASSUME NEW j \in Import \ {p}, x \in import[j].deleted PROVE FALSE
  <2>1. j \notin Screening /\ j \in Party
    BY RegistryAssumption DEF Party
  <2>2. {"subject"} \X import[j].deleted \subseteq Locks(j)
    BY <2>1 DEF Locks
  <2>3. <<"subject", x>> \in Locks(j)
    BY <1>1, <2>2
  <2>4. <<"subject", x>> \in ({"subject"} \X {x}) \cap Locks(j)
    BY <2>3
  <2>5. Blocks(j, p, {"subject"} \X {x})
    BY <2>1, <2>4 DEF Blocks
  <2> QED BY <2>1, <2>5 DEF Free
<1>2. ASSUME p \in Import, NEW s \in Screening, x \in screen[s].held PROVE FALSE
  <2>1. p \notin Screening /\ s # p /\ s \in Party
    BY <1>2, RegistryAssumption DEF Party
  <2>2. <<"subject", x>> \in ({"subject"} \X {x}) \cap Locks(s)
    BY <1>2 DEF Locks
  <2>3. Blocks(s, p, {"subject"} \X {x})
    BY <2>1, <2>2 DEF Blocks
  <2> QED BY <2>1, <2>3 DEF Free
<1> QED BY <1>1, <1>2

\* Any two files have a unique_id in common.
LEMMA FreeKeys ==
  ASSUME NEW i \in Import, Free(i, {"key"} \X KeysOf(File[i]))
  PROVE  \A j \in Import \ {i} : import[j].pc # "inserted"
<1> SUFFICES ASSUME NEW j \in Import \ {i}, import[j].pc = "inserted" PROVE FALSE
  OBVIOUS
<1> DEFINE mine == KeysOf(File[i])
           theirs == KeysOf(File[j])
<1>1. j \notin Screening /\ j \in Party /\ i \in Party
  BY RegistryAssumption DEF Party
<1>2. PICK u : u \in mine /\ u \in theirs
  BY FilesAssumption DEF KeysOf
<1> HIDE DEF mine, theirs
<1>3. <<"key", u>> \in Locks(j)
  <2> DEFINE keys == KeysOf({x.record : x \in import[j].deleted})
                       \cup (IF import[j].pc = "inserted" THEN theirs ELSE {})
  <2>1. {"key"} \X keys \subseteq Locks(j)
    BY <1>1 DEF Locks, theirs
  <2>2. u \in keys
    BY <1>2
  <2> HIDE DEF keys
  <2> QED BY <2>1, <2>2
<1>4. <<"key", u>> \in ({"key"} \X mine) \cap Locks(j)
  BY <1>2, <1>3
<1>5. Blocks(j, i, {"key"} \X mine)
  BY <1>1, <1>4 DEF Blocks
<1> QED BY <1>1, <1>5 DEF Free, mine

-----------------------------------------------------------------------------
(***************************************************************************)
(* A step of a run that commits nothing keeps the invariant when its new   *)
(* state x fits those of the others.                                       *)
(***************************************************************************)
LEMMA RunStep ==
  ASSUME IInv,
         NEW i \in Import,
         NEW x,
         import' = [import EXCEPT ![i] = x],
         UNCHANGED <<subjects, matches, latest, screen>>,
         import[i].pc # "completed",
         Transaction(x, subjects, import),
         \A j \in Import \ {i} : x.deleted \cap import[j].deleted = {},
         x.pc = "inserted" => /\ subjects \subseteq x.deleted
                              /\ \A j \in Import \ {i} : import[j].pc # "inserted",
         x.pc \in {"insert", "inserted"} =>
           \A m \in matches \ x.dropped : m.row \notin x.deleted,
         \A s \in Screening : \A y \in screen[s].held : y \notin x.deleted
  PROVE  IInv'
<1>1. /\ import' \in [Import -> ImportState]
      /\ import'[i] = x
      /\ \A j \in Import \ {i} : import'[j] = import[j]
  BY DEF IInv, Transaction
<1>2. \A l : Published(l, import) => Published(l, import')
  BY <1>1 DEF Published
<1>3. \A o : Transaction(o, subjects, import) => Transaction(o, subjects, import')
  <2>1. \A y \in Row : import[y.list].pc = "completed" => import'[y.list].pc = "completed"
    BY <1>1 DEF Row
  <2> QED BY <2>1 DEF Transaction
<1>4. Registry(subjects, latest, import')
  <2>1. Published(latest, import') /\ subjects = ListOf(latest)
    BY <1>2 DEF IInv, Registry
  <2>2. \A j \in Import : Transaction(import'[j], subjects, import')
    BY <1>1, <1>3 DEF IInv, Registry
  <2>3. \A j, k \in Import : j # k => import'[j].deleted \cap import'[k].deleted = {}
    BY <1>1 DEF IInv, Registry
  <2>4. \A j \in Import : import'[j].pc = "inserted" => subjects \subseteq import'[j].deleted
    BY <1>1 DEF IInv, Registry
  <2>5. \A j, k \in Import : import'[j].pc = "inserted" /\ import'[k].pc = "inserted" => j = k
    BY <1>1 DEF IInv, Registry
  <2> QED BY <2>1, <2>2, <2>3, <2>4, <2>5 DEF Registry
<1>5. Linked(subjects, matches, import', screen)
  BY <1>1 DEF IInv, Linked
<1> QED BY <1>1, <1>4, <1>5 DEF IInv

LEMMA RollbackKeeps ==
  ASSUME IInv, NEW i \in Import, import[i].pc # "completed", Rollback(i)
  PROVE  IInv'
<1>1. import' = [import EXCEPT ![i] = Over("failed")]
  BY DEF Rollback, End, Over
<1>2. Transaction(Over("failed"), subjects, import)
  BY OverState DEF Transaction
<1> QED BY <1>1, <1>2, OverState, RunStep DEF Rollback

\* A run that has not yet deleted its subjects.
LEMMA EarlyStep ==
  ASSUME IInv,
         NEW i \in Import,
         NEW x,
         import' = [import EXCEPT ![i] = x],
         UNCHANGED <<subjects, matches, latest, screen>>,
         import[i].pc # "completed",
         Transaction(x, subjects, import),
         x.pc \notin {"deleting", "insert", "inserted"}
  PROVE  IInv'
<1>1. x.deleted = {}
  BY DEF Transaction
<1> QED BY <1>1, RunStep

-----------------------------------------------------------------------------
LEMMA OpenKeeps ==
  ASSUME IInv, NEW i \in Import, Open(i)
  PROVE  IInv'
<1>1. /\ import[i] \in ImportState /\ import[i].deleted = {}
      /\ import[i].pc = "idle" /\ import[i].row = None
  BY DEF IInv, Registry, Transaction, Open
<1>2. import' = [import EXCEPT ![i] = Opened(import[i])]
  BY DEF Open, Becomes, Opened
<1>3. Transaction(Opened(import[i]), subjects, import)
  BY <1>1, OpenedState DEF Transaction
<1> QED BY <1>1, <1>2, <1>3, OpenedState, EarlyStep DEF Open, Becomes

LEMMA WaitKeeps ==
  ASSUME IInv, NEW i \in Import, Wait(i)
  PROVE  IInv'
<1> DEFINE V == Visible(i)
           x == Waiting(import[i], V)
<1>1. /\ import[i] \in ImportState /\ import[i].pc \in {"matches", "children"}
      /\ import[i].deleted = {} /\ import[i].row = None
  BY DEF IInv, Registry, Transaction, Wait
<1>2. V \in SUBSET (Row \cup Match)
  BY InvImplies DEF Visible, TypeOK
<1>3. import' = [import EXCEPT ![i] = x] /\ UNCHANGED <<subjects, matches, latest, screen>>
  BY DEF Wait, Becomes, Waiting
<1> HIDE DEF V
<1>4. /\ x \in ImportState /\ x.pc = import[i].pc
      /\ x.deleted = {} /\ x.row = None
  BY <1>1, <1>2, WaitingState
<1> HIDE DEF x
<1>5. Transaction(x, subjects, import)
  BY <1>1, <1>4 DEF Transaction
<1> QED BY <1>1, <1>3, <1>4, <1>5, EarlyStep

LEMMA DeleteMatchesKeeps ==
  ASSUME IInv, NEW i \in Import, DeleteMatches(i)
  PROVE  IInv'
<1> DEFINE T == Target(i)
           x == Dropped(import[i], T)
<1>1. /\ import[i] \in ImportState /\ import[i].pc = "matches"
      /\ import[i].deleted = {} /\ import[i].row = None
  BY DEF IInv, Registry, Transaction, DeleteMatches
<1>2. T \in SUBSET Match
  BY <1>1 DEF Target, Visible, IInv
<1>3. import' = [import EXCEPT ![i] = x] /\ UNCHANGED <<subjects, matches, latest, screen>>
  BY DEF DeleteMatches, Becomes, Dropped
<1> HIDE DEF T
<1>4. x \in ImportState /\ x.pc = "children" /\ x.deleted = {} /\ x.row = None
  BY <1>1, <1>2, DroppedState
<1> HIDE DEF x
<1>5. Transaction(x, subjects, import)
  BY <1>4 DEF Transaction
<1> QED BY <1>1, <1>3, <1>4, <1>5, EarlyStep

LEMMA DeleteChildrenKeeps ==
  ASSUME IInv, NEW i \in Import, DeleteChildren(i)
  PROVE  IInv'
<1> DEFINE T == Target(i)
<1>1. /\ import[i] \in ImportState /\ import[i].pc = "children"
      /\ import[i].deleted = {} /\ import[i].row = None
  BY DEF IInv, Registry, Transaction, DeleteChildren
<1>2. T \in SUBSET Row
  BY <1>1, InvImplies DEF Target, Visible, TypeOK
<1>3. PICK next \in {"children", "subjects"} :
        /\ import' = [import EXCEPT ![i] = Claimed(import[i], next, T)]
        /\ UNCHANGED <<subjects, matches, latest, screen>>
  BY DEF DeleteChildren, Becomes, Claimed
<1> HIDE DEF T
<1> DEFINE x == Claimed(import[i], next, T)
<1>4. x \in ImportState /\ x.pc = next /\ x.deleted = {} /\ x.row = None
  BY <1>1, <1>2, ClaimedState
<1>5. import' = [import EXCEPT ![i] = x]
  BY <1>3
<1> HIDE DEF x
<1>6. Transaction(x, subjects, import)
  BY <1>4 DEF Transaction
<1> QED BY <1>1, <1>3, <1>4, <1>5, <1>6, EarlyStep

\* The snapshot of the DELETE is the list in force.
LEMMA BeginSubjectsKeeps ==
  ASSUME IInv, NEW i \in Import, BeginSubjects(i)
  PROVE  IInv'
<1> DEFINE x == Begun(import[i], subjects)
<1>1. /\ import[i] \in ImportState /\ import[i].pc = "subjects"
      /\ import[i].deleted = {} /\ import[i].row = None
  BY DEF IInv, Registry, Transaction, BeginSubjects
<1>2. \A y \in subjects : y \in Row /\ import[y.list].pc = "completed"
  BY ListsAreRows, RegistryAssumption DEF IInv, Registry, Published
<1>3. import' = [import EXCEPT ![i] = x] /\ UNCHANGED <<subjects, matches, latest, screen>>
  BY DEF BeginSubjects, Becomes, Begun
<1>4. /\ x \in ImportState /\ x.pc = "deleting" /\ x.deleted = {}
      /\ x.row = None /\ x.snapshot = subjects
  BY <1>1, <1>2, BegunState
<1> HIDE DEF x
<1>5. Transaction(x, subjects, import)
  BY <1>2, <1>4 DEF Transaction
<1> QED BY <1>1, <1>3, <1>4, <1>5, RunStep

LEMMA DeletingOf ==
  ASSUME IInv, NEW i \in Import, import[i].pc = "deleting"
  PROVE  /\ import[i] \in ImportState /\ Transaction(import[i], subjects, import)
         /\ \A y \in import[i].snapshot : y \in Row
         /\ import[i].deleted \subseteq subjects /\ subjects \subseteq Row
         /\ \A j \in Import \ {i} : import[i].deleted \cap import[j].deleted = {}
         /\ \A s \in Screening : \A y \in screen[s].held : y \notin import[i].deleted
  BY InvImplies DEF IInv, Registry, Transaction, Linked, TypeOK

LEMMA WaitForSubjectKeeps ==
  ASSUME IInv, NEW i \in Import, WaitForSubject(i)
  PROVE  IInv'
<1>1. import[i].pc = "deleting"
  BY DEF WaitForSubject
<1>2. PICK y \in import[i].snapshot :
        /\ import' = [import EXCEPT ![i] = Stopped(import[i], y)]
        /\ UNCHANGED <<subjects, matches, latest, screen>>
  BY DEF WaitForSubject, Becomes, Stopped
<1> DEFINE x == Stopped(import[i], y)
<1>3. /\ x \in ImportState /\ x.pc = "deleting" /\ x.row = y
      /\ x.snapshot = import[i].snapshot /\ x.deleted = import[i].deleted
  BY <1>1, DeletingOf, StoppedState
<1>4. import' = [import EXCEPT ![i] = x]
  BY <1>2
<1> HIDE DEF x
<1>5. Transaction(x, subjects, import)
  BY <1>1, <1>3, DeletingOf DEF Transaction
<1>6. /\ \A j \in Import \ {i} : x.deleted \cap import[j].deleted = {}
      /\ \A s \in Screening : \A z \in screen[s].held : z \notin x.deleted
  BY <1>1, <1>3, DeletingOf
<1> QED BY <1>1, <1>2, <1>3, <1>4, <1>5, <1>6, RunStep

LEMMA DeleteSubjectKeeps ==
  ASSUME IInv, NEW i \in Import, DeleteSubject(i)
  PROVE  IInv'
<1> DEFINE o == import[i]
<1>1. o.pc = "deleting" /\ Transaction(o, subjects, import)
  BY DeletingOf DEF DeleteSubject
<1>2. PICK y \in Turns(o.row, o.snapshot) :
        /\ Free(i, {"subject"} \X {y})
        /\ import' = [import EXCEPT ![i] =
                        Removed(o, o.snapshot \ {y}, {y} \cap subjects)]
        /\ UNCHANGED <<subjects, matches, latest, screen>>
  BY DEF DeleteSubject, Becomes, Removed
<1>3. y \in o.snapshot
  BY <1>1, <1>2 DEF Turns, Transaction
<1> DEFINE V == o.snapshot \ {y}
           T == {y} \cap subjects
           x == Removed(o, V, T)
<1>4. V \in SUBSET Row /\ T \in SUBSET Row /\ o \in ImportState
  BY <1>1, DeletingOf
<1>5. import' = [import EXCEPT ![i] = x]
  BY <1>2
<1> HIDE DEF V, T
<1>6. /\ x \in ImportState /\ x.pc = "deleting" /\ x.row = None
      /\ x.snapshot = V /\ x.deleted = o.deleted \cup T
  BY <1>1, <1>4, RemovedState
<1> HIDE DEF x
<1>7. Transaction(x, subjects, import)
  <2>1. x.deleted \subseteq subjects
    BY <1>1, <1>6 DEF Transaction, T
  <2>2. \A z \in V : z \in Row /\ import[z.list].pc = "completed"
    BY <1>1 DEF Transaction, V
  <2>3. CASE subjects \subseteq o.snapshot \cup o.deleted
    <3>1. subjects \subseteq x.snapshot \cup x.deleted
      BY <1>6, <2>3 DEF V, T
    <3> QED BY <1>6, <2>1, <2>2, <3>1 DEF Transaction
  <2>4. CASE o.snapshot \cap subjects = {} /\ o.deleted = {}
    <3>1. x.snapshot \cap subjects = {} /\ x.deleted = {}
      BY <1>3, <1>6, <2>4 DEF V, T
    <3> QED BY <1>6, <2>1, <2>2, <3>1 DEF Transaction
  <2> QED BY <1>1, <2>3, <2>4 DEF Transaction
<1>8. i \in Party
  BY DEF Party
<1>9. /\ \A j \in Import \ {i} : x.deleted \cap import[j].deleted = {}
      /\ \A s \in Screening : \A z \in screen[s].held : z \notin x.deleted
  BY <1>1, <1>2, <1>6, <1>8, DeletingOf, FreeSubject DEF T
<1> QED BY <1>1, <1>2, <1>5, <1>6, <1>7, <1>9, RunStep

LEMMA EndSubjectsKeeps ==
  ASSUME IInv, NEW i \in Import, EndSubjects(i)
  PROVE  IInv'
<1> DEFINE o == import[i]
<1>1. /\ o.pc = "deleting" /\ o.snapshot = {}
      /\ o \in ImportState /\ Transaction(o, subjects, import)
  BY DeletingOf DEF EndSubjects
<1>2. CASE Rollback(i)
  BY <1>1, <1>2, RollbackKeeps
<1>3. CASE ~Rollback(i)
  <2> DEFINE x == Cascaded(o)
  <2>1. /\ ~Refused(i)
        /\ import' = [import EXCEPT ![i] = x]
        /\ UNCHANGED <<subjects, matches, latest, screen>>
    BY <1>3 DEF EndSubjects, Becomes, Cascaded
  <2>2. /\ x \in ImportState /\ x.pc = "insert" /\ x.deleted = o.deleted
        /\ x.dropped = o.dropped /\ x.row = o.row
    BY <1>1, CascadedState
  <2> HIDE DEF x
  <2>3. Transaction(x, subjects, import)
    BY <1>1, <2>2 DEF Transaction
  <2>4. \A m \in matches \ x.dropped : m.row \notin x.deleted
    BY <2>1, <2>2 DEF Refused
  <2>5. /\ \A j \in Import \ {i} : x.deleted \cap import[j].deleted = {}
        /\ \A s \in Screening : \A z \in screen[s].held : z \notin x.deleted
    BY <1>1, <2>2, DeletingOf
  <2> QED BY <1>1, <2>1, <2>2, <2>3, <2>4, <2>5, RunStep
<1> QED BY <1>2, <1>3

\* Any two files overlap: a run meets no rival only when it has deleted the
\* whole list in force.
LEMMA NoRivalsMeansAllDeleted ==
  ASSUME IInv, NEW i \in Import, import[i].pc = "insert", Rivals(i) = {}
  PROVE  subjects \subseteq import[i].deleted
<1>1. subjects = ListOf(latest) /\ latest \in Import \cup {None}
  BY DEF IInv, Registry, Published
<1>2. import[i].deleted = subjects \/ import[i].deleted = {}
  BY DEF IInv, Registry, Transaction
<1>3. CASE latest = None
  BY <1>1, <1>3 DEF ListOf
<1>4. CASE latest # None /\ import[i].deleted = {}
  <2>1. latest \in Import /\ subjects = RowsOf(latest)
    BY <1>1, <1>4, RowsOfARun
  <2>2. PICK y \in subjects, r \in File[i] : Uid[y.record] = Uid[r]
    BY <2>1, ListsOverlap
  <2>3. y \in Rivals(i)
    BY <1>4, <2>2 DEF Rivals, KeysOf
  <2> QED BY <2>3
<1> QED BY <1>2, <1>3, <1>4

LEMMA InsertSubjectsKeeps ==
  ASSUME IInv, NEW i \in Import, InsertSubjects(i)
  PROVE  IInv'
<1>1. import[i] \in ImportState /\ import[i].pc = "insert"
  BY DEF IInv, InsertSubjects
<1>2. CASE Rollback(i)
  BY <1>1, <1>2, RollbackKeeps
<1>3. CASE ~Rollback(i)
  <2> DEFINE x == Inserted1(import[i])
  <2>1. /\ Rivals(i) = {}
        /\ \A j \in Import \ {i} : import[j].pc # "inserted"
        /\ import' = [import EXCEPT ![i] = x]
        /\ UNCHANGED <<subjects, matches, latest, screen>>
    BY <1>3, FreeKeys DEF InsertSubjects, Becomes, Inserted1
  <2>2. /\ x \in ImportState /\ x.pc = "inserted" /\ x.row = import[i].row
        /\ x.deleted = import[i].deleted /\ x.dropped = import[i].dropped
    BY <1>1, InsertedState
  <2>3. subjects \subseteq x.deleted
    BY <1>1, <2>1, <2>2, NoRivalsMeansAllDeleted
  <2> HIDE DEF x
  <2>4. Transaction(x, subjects, import)
    BY <1>1, <2>2 DEF IInv, Registry, Transaction
  <2>5. \A j \in Import \ {i} : x.deleted \cap import[j].deleted = {}
    BY <2>2 DEF IInv, Registry
  <2>6. \A m \in matches \ x.dropped : m.row \notin x.deleted
    BY <1>1, <2>2 DEF IInv, Linked
  <2>7. \A s \in Screening : \A y \in screen[s].held : y \notin x.deleted
    BY <2>2 DEF IInv, Linked
  <2> QED BY <1>1, <2>1, <2>2, <2>3, <2>4, <2>5, <2>6, <2>7, RunStep
<1> QED BY <1>2, <1>3

-----------------------------------------------------------------------------
(***************************************************************************)
(* The commit of a run.                                                    *)
(***************************************************************************)
Met(o, i) == [o EXCEPT !.lists = o.lists \cup {i}]

LEMMA MetState ==
  ASSUME NEW o \in ScreenState, NEW i \in Import
  PROVE  /\ Met(o, i) \in ScreenState
         /\ Met(o, i).pc = o.pc /\ Met(o, i).todo = o.todo /\ Met(o, i).row = o.row
         /\ Met(o, i).fields = o.fields /\ Met(o, i).hits = o.hits
         /\ Met(o, i).seen = o.seen
         /\ Met(o, i).lists = o.lists \cup {i} /\ Met(o, i).held = o.held
         /\ Met(o, i).persist = o.persist
  BY DEF Met, ScreenState

LEMMA MoreLists ==
  ASSUME NEW s \in Screening, NEW o \in ScreenState, NEW i \in Import, NEW l,
         Probe(s, o, l)
  PROVE  Probe(s, Met(o, i), i)
<1> DEFINE x == Met(o, i)
<1>1. /\ x \in ScreenState
      /\ x.pc = o.pc /\ x.todo = o.todo /\ x.row = o.row
      /\ x.fields = o.fields /\ x.hits = o.hits
      /\ x.lists = o.lists \cup {i}
  BY MetState
<1> HIDE DEF x
<1>2. \A y : Candidate(s, y, o.lists) => Candidate(s, y, x.lists)
  BY <1>1 DEF Candidate
<1>3. \A h : Explained(s, h, o.lists) => Explained(s, h, x.lists)
  BY <1>1 DEF Explained
<1>4. Probe(s, x, i)
  BY <1>1, <1>2, <1>3 DEF Probe
<1> QED BY <1>4 DEF x

LEMMA CommitImportKeeps ==
  ASSUME IInv, NEW i \in Import, CommitImport(i)
  PROVE  IInv'
<1>1. /\ import[i] \in ImportState /\ import[i].pc = "inserted"
      /\ subjects \subseteq import[i].deleted
  BY DEF IInv, Registry, CommitImport
<1>2. /\ import' = [import EXCEPT ![i] = Over("completed")]
      /\ latest' = i
      /\ matches' = matches \ import[i].dropped
      /\ subjects' = (subjects \ import[i].deleted) \cup RowsOf(i)
  BY DEF CommitImport, End, Over
<1>3. subjects' = RowsOf(i) /\ subjects' = ListOf(i)
  BY <1>1, <1>2, RowsOfARun
<1>4. /\ import' \in [Import -> ImportState]
      /\ import'[i] = Over("completed")
      /\ \A j \in Import \ {i} : import'[j] = import[j]
  BY <1>2, OverState DEF IInv
<1>5. \A l : Published(l, import) => Published(l, import')
  BY <1>1, <1>4, OverState DEF Published
<1>6. \A j \in Import \ {i} : import[j].deleted = {}
  BY <1>1 DEF IInv, Registry, Transaction
<1>7. Registry(subjects', latest', import')
  <2>1. Published(latest', import')
    BY <1>2, <1>4, OverState DEF Published
  <2>2. \A j \in Import \ {i} : import[j].pc # "inserted"
    BY <1>1 DEF IInv, Registry
  <2>3. ASSUME NEW j \in Import PROVE Transaction(import'[j], subjects', import')
    <3>1. CASE j = i
      BY <3>1, <1>4, OverState DEF Transaction
    <3>2. CASE j # i
      <4>1. /\ Transaction(import[j], subjects, import) /\ import[j].deleted = {}
            /\ import'[j] = import[j] /\ import[j].pc # "inserted"
        BY <1>4, <1>6, <2>2, <3>2 DEF IInv, Registry
      <4>2. CASE import[j].pc = "deleting"
        <5>1. \A y \in import[j].snapshot :
                /\ y \in Row /\ import[y.list].pc = "completed"
                /\ import'[y.list].pc = "completed" /\ y.list # i
          BY <1>1, <1>4, <4>1, <4>2, OverState DEF Transaction, Row
        <5>2. import[j].snapshot \cap subjects' = {}
          BY <1>3, <5>1, RowsOfARun
        <5> QED BY <4>1, <4>2, <5>1, <5>2 DEF Transaction
      <4>3. CASE import[j].pc # "deleting"
        BY <4>1, <4>3 DEF Transaction
      <4> QED BY <4>2, <4>3
    <3> QED BY <3>1, <3>2
  <2>4. \A j, k \in Import : j # k => import'[j].deleted \cap import'[k].deleted = {}
    BY <1>4, <1>6, OverState
  <2>5. \A j \in Import : import'[j].pc # "inserted"
    BY <1>4, <2>2, OverState
  <2> QED BY <1>2, <1>3, <2>1, <2>3, <2>4, <2>5 DEF Registry
<1>8. matches' = {}
  BY <1>1, <1>2 DEF IInv, Linked
<1>9. \A s \in Screening :
        screen'[s] = IF screen[s].pc \in Ended \cup {"idle"} THEN screen[s]
                     ELSE Met(screen[s], i)
  BY DEF CommitImport, Met
<1>10. \A s \in Screening : screen[s] \in ScreenState /\ Probe(s, screen[s], latest)
  BY DEF IInv
<1>11. screen' \in [Screening -> ScreenState]
  <2>1. \A s \in Screening : screen'[s] \in ScreenState
    BY <1>9, <1>10, MetState
  <2> QED BY <2>1 DEF CommitImport
<1>12. \A s \in Screening :
         /\ screen'[s].pc = screen[s].pc /\ screen'[s].hits = screen[s].hits
         /\ screen'[s].row = screen[s].row /\ screen'[s].held = screen[s].held
         /\ screen'[s].persist = screen[s].persist
  BY <1>9, <1>10, MetState
<1>13. Linked(subjects', matches', import', screen')
  <2>1. \A s \in Screening : screen[s].held = {}
    BY <1>1 DEF IInv, Linked
  <2> QED BY <1>8, <1>12, <2>1 DEF Linked
<1>15. \A s \in Screening : Recording(screen'[s])
  BY <1>12 DEF IInv, Recording
<1>14. \A s \in Screening : Probe(s, screen'[s], latest')
  <2> SUFFICES ASSUME NEW s \in Screening
               PROVE  Probe(s, screen'[s], i)
    BY <1>2
  <2>1. CASE screen[s].pc \in Ended \cup {"idle"}
    BY <2>1, <1>9, <1>10 DEF Probe, Ended, Loading
  <2>2. CASE screen[s].pc \notin Ended \cup {"idle"}
    BY <2>2, <1>9, <1>10, MoreLists
  <2> QED BY <2>1, <2>2
<1> QED BY <1>4, <1>7, <1>8, <1>11, <1>13, <1>14, <1>15 DEF IInv

-----------------------------------------------------------------------------
(***************************************************************************)
(* The states of a screening that actions write, and their fields.         *)
(***************************************************************************)
LEMMA NoScreenState ==
  /\ NoScreen \in ScreenState
  /\ NoScreen.pc = "idle" /\ NoScreen.todo = {} /\ NoScreen.hits = {}
  /\ NoScreen.seen = {} /\ NoScreen.lists = {} /\ NoScreen.held = {}
  /\ NoScreen.row = None
  BY DEF NoScreen, ScreenState, Query

Started(persist, l) ==
  [NoScreen EXCEPT !.pc = "identifiers", !.persist = persist, !.lists = {l}]

LEMMA StartedState ==
  ASSUME NEW persist \in BOOLEAN, NEW l \in Import \cup {None}
  PROVE  /\ Started(persist, l) \in ScreenState
         /\ Started(persist, l).pc = "identifiers"
         /\ Started(persist, l).todo = {} /\ Started(persist, l).hits = {}
         /\ Started(persist, l).lists = {l} /\ Started(persist, l).seen = {}
         /\ Started(persist, l).held = {} /\ Started(persist, l).row = None
  BY NoScreenState DEF Started, ScreenState, Query

At(o, pc) == [o EXCEPT !.pc = pc]

LEMMA AtState ==
  ASSUME NEW o \in ScreenState, NEW pc \in {"persist", "done", "failed"}
  PROVE  /\ At(o, pc) \in ScreenState
         /\ At(o, pc).pc = pc /\ At(o, pc).todo = o.todo
         /\ At(o, pc).hits = o.hits /\ At(o, pc).lists = o.lists
         /\ At(o, pc).seen = o.seen /\ At(o, pc).held = o.held
         /\ At(o, pc).row = o.row /\ At(o, pc).persist = o.persist
  BY DEF At, ScreenState, Ended

\* Recording: a match more, a wait, and the ends.
Holding(o, row, H) == [o EXCEPT !.row = row, !.held = H]

LEMMA HoldingState ==
  ASSUME NEW o \in ScreenState, NEW row \in Row \cup {None}, NEW H \in SUBSET Row
  PROVE  /\ Holding(o, row, H) \in ScreenState
         /\ Holding(o, row, H).pc = o.pc /\ Holding(o, row, H).todo = o.todo
         /\ Holding(o, row, H).hits = o.hits /\ Holding(o, row, H).lists = o.lists
         /\ Holding(o, row, H).seen = o.seen /\ Holding(o, row, H).held = H
         /\ Holding(o, row, H).row = row /\ Holding(o, row, H).persist = o.persist
  BY DEF Holding, ScreenState

Closed(o, pc) == [o EXCEPT !.pc = pc, !.row = None, !.held = {}]

LEMMA ClosedState ==
  ASSUME NEW o \in ScreenState, NEW pc \in Ended
  PROVE  /\ Closed(o, pc) \in ScreenState
         /\ Closed(o, pc).pc = pc /\ Closed(o, pc).todo = o.todo
         /\ Closed(o, pc).hits = o.hits /\ Closed(o, pc).lists = o.lists
         /\ Closed(o, pc).seen = o.seen /\ Closed(o, pc).held = {}
         /\ Closed(o, pc).row = None /\ Closed(o, pc).persist = o.persist
  BY DEF Closed, ScreenState, Ended

Committed(o) == [o EXCEPT !.pc = "done", !.held = {}]

LEMMA CommittedState ==
  ASSUME NEW o \in ScreenState
  PROVE  /\ Committed(o) \in ScreenState
         /\ Committed(o).pc = "done" /\ Committed(o).todo = o.todo
         /\ Committed(o).hits = o.hits /\ Committed(o).lists = o.lists
         /\ Committed(o).seen = o.seen /\ Committed(o).held = {}
         /\ Committed(o).row = o.row
  BY DEF Committed, ScreenState, Ended

Selected(o, pc, N) == [o EXCEPT !.pc = pc, !.seen = o.seen \cup N, !.todo = o.todo \cup N]

LEMMA SelectedState ==
  ASSUME NEW o \in ScreenState, NEW pc \in {"names", "prefixes", "subject"},
         NEW N \in SUBSET Row
  PROVE  /\ Selected(o, pc, N) \in ScreenState
         /\ Selected(o, pc, N).pc = pc /\ Selected(o, pc, N).todo = o.todo \cup N
         /\ Selected(o, pc, N).hits = o.hits /\ Selected(o, pc, N).lists = o.lists
         /\ Selected(o, pc, N).seen = o.seen \cup N
         /\ Selected(o, pc, N).held = o.held /\ Selected(o, pc, N).persist = o.persist
         /\ Selected(o, pc, N).row = o.row
  BY DEF Selected, ScreenState, Query

Loaded(o, x, F) ==
  [o EXCEPT !.pc = "subject_names", !.row = x, !.todo = o.todo \ {x}, !.fields = F]

LEMMA LoadedState ==
  ASSUME NEW o \in ScreenState, NEW x \in Row, NEW F \in SUBSET Field
  PROVE  /\ Loaded(o, x, F) \in ScreenState
         /\ Loaded(o, x, F).pc = "subject_names" /\ Loaded(o, x, F).row = x
         /\ Loaded(o, x, F).todo = o.todo \ {x} /\ Loaded(o, x, F).fields = F
         /\ Loaded(o, x, F).hits = o.hits /\ Loaded(o, x, F).lists = o.lists
         /\ Loaded(o, x, F).seen = o.seen
         /\ Loaded(o, x, F).held = o.held /\ Loaded(o, x, F).persist = o.persist
  BY DEF Loaded, ScreenState

Further(o, pc, F) == [o EXCEPT !.pc = pc, !.fields = o.fields \cup F]

LEMMA FurtherState ==
  ASSUME NEW o \in ScreenState, NEW pc \in {"subject_documents", "subject_addresses"},
         NEW F \in SUBSET Field
  PROVE  /\ Further(o, pc, F) \in ScreenState
         /\ Further(o, pc, F).pc = pc /\ Further(o, pc, F).row = o.row
         /\ Further(o, pc, F).todo = o.todo /\ Further(o, pc, F).fields = o.fields \cup F
         /\ Further(o, pc, F).hits = o.hits /\ Further(o, pc, F).lists = o.lists
         /\ Further(o, pc, F).seen = o.seen
         /\ Further(o, pc, F).held = o.held /\ Further(o, pc, F).persist = o.persist
  BY DEF Further, ScreenState

Decided(o, H) ==
  [o EXCEPT !.pc = "subject", !.row = None, !.fields = {}, !.hits = o.hits \cup H]

LEMMA DecidedState ==
  ASSUME NEW o \in ScreenState, NEW H \in SUBSET Hit
  PROVE  /\ Decided(o, H) \in ScreenState
         /\ Decided(o, H).pc = "subject" /\ Decided(o, H).todo = o.todo
         /\ Decided(o, H).hits = o.hits \cup H /\ Decided(o, H).lists = o.lists
         /\ Decided(o, H).seen = o.seen
         /\ Decided(o, H).held = o.held /\ Decided(o, H).persist = o.persist
         /\ Decided(o, H).row = None
  BY DEF Decided, ScreenState

-----------------------------------------------------------------------------
(***************************************************************************)
(* What decide_match finds.                                                *)
(***************************************************************************)
\* decide_match is monotone: more that agrees confirms no less.
LEMMA ConfirmsIsMonotone ==
  ASSUME NEW f, NEW g, f \subseteq g, Confirms(f)
  PROVE  Confirms(g)
  BY DEF Confirms, Supported

\* What was read of a candidate explains the hit decided on it.
LEMMA DecideExplained ==
  ASSUME NEW s \in Screening, NEW x, NEW f, NEW lists,
         Candidate(s, x, lists), f \subseteq Agrees[s][x.record]
  PROVE  \A h \in Decide(x, f) : h \in Hit /\ Explained(s, h, lists)
<1> DEFINE g == Agrees[s][x.record]
<1> SUFFICES ASSUME NEW h \in Decide(x, f)
             PROVE  h \in Hit /\ Explained(s, h, lists)
  OBVIOUS
<1>1. x \in Row /\ x.list \in Import /\ x.list \in lists
  BY DEF Candidate, Row
<1>2. /\ f # {}
      /\ h = [row |-> x, level |-> IF Confirms(f) THEN "confirmed" ELSE "review"]
  BY DEF Decide
<1>3. h \in Hit /\ h.row = x
  BY <1>1, <1>2 DEF Hit, Levels
<1>4. ASSUME h.level = "confirmed"
      PROVE  h \in HitsIn(s, x.list)
  <2>1. Confirms(f)
    BY <1>2, <1>4
  <2>2. Confirms(g) /\ g # {}
    BY <1>2, <2>1, ConfirmsIsMonotone
  <2>3. h \in Decide(x, g)
    BY <1>2, <2>1, <2>2 DEF Decide
  <2>4. x \in Candidates(s, x.list)
    BY <1>1, RowsOfARun DEF Candidates, Candidate
  <2> QED BY <2>3, <2>4 DEF HitsIn
<1> QED BY <1>1, <1>3, <1>4 DEF Explained

LEMMA ReadAgrees ==
  ASSUME NEW s \in Screening, NEW x \in Row, NEW kind \in SUBSET Field
  PROVE  Read(s, x, kind) \subseteq Agrees[s][x.record] /\ Read(s, x, kind) \in SUBSET Field
  BY DEF Read

\* What is in the table is a row of a list the screening has met.
LEMMA FoundIsCandidate ==
  ASSUME IInv, NEW s \in Screening, NEW lists, latest \in lists,
         NEW x \in subjects, Found[s][x.record] # {}
  PROVE  Candidate(s, x, lists)
<1>1. x \in ListOf(latest) /\ latest \in Import \cup {None}
  BY DEF IInv, Registry, Published
<1> QED BY <1>1, ListsAreRows DEF Candidate

-----------------------------------------------------------------------------
(***************************************************************************)
(* A step of a screening that writes no table keeps the invariant when its *)
(* new state x is explained, and its matches refer to rows that stay.      *)
(***************************************************************************)
LEMMA ProbeStep ==
  ASSUME IInv,
         NEW s \in Screening,
         NEW x,
         screen' = [screen EXCEPT ![s] = x],
         UNCHANGED <<subjects, matches, latest, import>>,
         Probe(s, x, latest),
         Recording(x),
         \A y \in x.held : y \in subjects /\ \A i \in Import : y \notin import[i].deleted
  PROVE  IInv'
<1>1. /\ screen' \in [Screening -> ScreenState]
      /\ screen'[s] = x
      /\ \A r \in Screening \ {s} : screen'[r] = screen[r]
  BY DEF IInv, Probe
<1>2. Linked(subjects, matches, import, screen')
  BY <1>1 DEF IInv, Linked
<1>3. \A r \in Screening : Probe(r, screen'[r], latest) /\ Recording(screen'[r])
  BY <1>1 DEF IInv
<1> QED BY <1>1, <1>2, <1>3 DEF IInv

LEMMA ProbeOf ==
  ASSUME IInv, NEW s \in Screening
  PROVE  /\ screen[s] \in ScreenState /\ Probe(s, screen[s], latest)
         /\ Recording(screen[s])
         /\ \A y \in screen[s].held :
              y \in subjects /\ \A i \in Import : y \notin import[i].deleted
  BY DEF IInv, Linked

\* A step before the matches are recorded.
LEMMA ReadStep ==
  ASSUME IInv,
         NEW s \in Screening,
         NEW x,
         screen' = [screen EXCEPT ![s] = x],
         UNCHANGED <<subjects, matches, latest, import>>,
         Probe(s, x, latest),
         screen[s].pc # "persist",
         x.held = screen[s].held,
         x.pc \notin Loading => x.row = None,
         x.pc = "persist" => x.persist,
         x.pc # "deadlocked"
  PROVE  IInv'
<1>1. x.held = {}
  BY ProbeOf DEF Recording
<1>2. Recording(x)
  BY <1>1 DEF Recording, Loading
<1> QED BY <1>1, <1>2, ProbeStep

LEMMA StartKeeps ==
  ASSUME IInv, NEW s \in Screening, NEW persist \in BOOLEAN, Start(s, persist)
  PROVE  IInv'
<1> DEFINE x == Started(persist, latest)
<1>1. screen' = [screen EXCEPT ![s] = x]
  BY DEF Start, Started
<1>2. /\ x \in ScreenState /\ x.pc = "identifiers"
      /\ x.todo = {} /\ x.hits = {} /\ x.lists = {latest}
      /\ x.held = {} /\ x.row = None
  BY StartedState DEF IInv, Registry, Published
<1> HIDE DEF x
<1>3. Probe(s, x, latest)
  BY <1>2 DEF Probe, Loading
<1>4. screen[s].pc # "persist" /\ screen[s].held = {}
  BY ProbeOf DEF Start, Recording
<1> QED BY <1>1, <1>2, <1>3, <1>4, ReadStep DEF Start

LEMMA SelectCandidatesKeeps ==
  ASSUME IInv, NEW s \in Screening, SelectCandidates(s)
  PROVE  IInv'
<1>1. /\ screen[s] \in ScreenState /\ screen[s].pc \in Query
      /\ Probe(s, screen[s], latest)
  BY ProbeOf DEF SelectCandidates
<1>2. latest \in screen[s].lists
  BY <1>1 DEF Probe, Query, Ended
<1> DEFINE Hits == {y \in subjects : Found[s][y.record] # {}}
           room == Limit - Cardinality(screen[s].seen)
           n == IF screen[s].pc = "prefixes" THEN room ELSE Limit
<1>3. Selections(s, n) \subseteq SUBSET Hits
  <2> SUFFICES ASSUME NEW N \in Selections(s, n), NEW y \in N
               PROVE  y \in Hits
    OBVIOUS
  <2>1. PICK T \in Limited(Joined(s, screen[s].pc, subjects), n) :
          N \in Limited({t[1] : t \in T} \ screen[s].seen, room)
    BY DEF Selections
  <2>2. N \subseteq {t[1] : t \in T} /\ T \subseteq Joined(s, screen[s].pc, subjects)
    BY <2>1 DEF Limited
  <2>3. PICK t \in Joined(s, screen[s].pc, subjects) : y = t[1]
    BY <2>2
  <2>4. t[1] \in subjects /\ Found[s][t[1].record] # {}
    BY DEF Joined
  <2> QED BY <2>3, <2>4
<1>4. PICK N \in IF room > 0 THEN Selections(s, n) ELSE {{}} :
        screen' = [screen EXCEPT ![s].pc = Then(screen[s].pc),
                     ![s].seen = @ \cup N, ![s].todo = @ \cup N]
  BY Zenon DEF SelectCandidates
<1>5. screen' = [screen EXCEPT ![s] = Selected(screen[s], Then(screen[s].pc), N)]
  BY <1>4 DEF Selected
<1>6. N \subseteq Hits
  <2> HIDE DEF Hits, room, n
  <2> QED BY <1>3, <1>4
<1>7. \A y \in N : Candidate(s, y, screen[s].lists)
  BY <1>2, <1>6, FoundIsCandidate
<1>8. N \in SUBSET Row /\ Then(screen[s].pc) \in {"names", "prefixes", "subject"}
  BY <1>7 DEF Candidate, Then
<1> DEFINE x == Selected(screen[s], Then(screen[s].pc), N)
<1>9. /\ x \in ScreenState /\ x.pc \in {"names", "prefixes", "subject"}
      /\ x.todo = screen[s].todo \cup N
      /\ x.hits = screen[s].hits /\ x.lists = screen[s].lists
      /\ x.held = screen[s].held /\ x.row = screen[s].row
  BY <1>1, <1>8, SelectedState
<1>10. screen' = [screen EXCEPT ![s] = x]
  BY <1>5
<1> HIDE DEF x
<1>11. Probe(s, x, latest)
  BY <1>1, <1>2, <1>7, <1>9 DEF Probe, Loading
<1>12. screen[s].pc # "persist" /\ screen[s].row = None
  BY <1>1, ProbeOf DEF Recording, Query, Loading
<1> QED BY <1>9, <1>10, <1>11, <1>12, ReadStep DEF SelectCandidates

LEMMA LoadSubjectKeeps ==
  ASSUME IInv, NEW s \in Screening, LoadSubject(s)
  PROVE  IInv'
<1>1. /\ screen[s] \in ScreenState /\ screen[s].pc = "subject"
      /\ Probe(s, screen[s], latest)
  BY ProbeOf DEF LoadSubject
<1>2. PICK y \in screen[s].todo :
        screen' = [screen EXCEPT ![s] = Loaded(screen[s], y, Read(s, y, RowField))]
  BY DEF LoadSubject, Loaded
<1>3. Candidate(s, y, screen[s].lists) /\ y \in Row
  BY <1>1 DEF Probe, Candidate
<1> DEFINE F == Read(s, y, RowField)
           x == Loaded(screen[s], y, F)
<1>4. F \subseteq Agrees[s][y.record] /\ F \in SUBSET Field
  BY <1>3, ReadAgrees DEF Field
<1>5. screen' = [screen EXCEPT ![s] = x]
  BY <1>2
<1> HIDE DEF F
<1>6. /\ x \in ScreenState /\ x.pc = "subject_names" /\ x.row = y
      /\ x.todo = screen[s].todo \ {y} /\ x.fields = F
      /\ x.hits = screen[s].hits /\ x.lists = screen[s].lists
      /\ x.held = screen[s].held
  BY <1>1, <1>3, <1>4, LoadedState
<1> HIDE DEF x
<1>7. Probe(s, x, latest)
  BY <1>1, <1>3, <1>4, <1>6 DEF Probe, Ended
<1> QED BY <1>1, <1>5, <1>6, <1>7, ReadStep DEF LoadSubject, Loading

\* The end of a screening, or its decision to record its matches.
LEMMA AtKeeps ==
  ASSUME IInv, NEW s \in Screening, NEW pc \in {"persist", "done", "failed"},
         screen[s].pc = "subject",
         pc = "persist" => screen[s].persist,
         screen' = [screen EXCEPT ![s].pc = pc],
         UNCHANGED <<subjects, matches, latest, import>>
  PROVE  IInv'
<1> DEFINE x == At(screen[s], pc)
<1>1. /\ screen[s] \in ScreenState /\ Probe(s, screen[s], latest)
      /\ screen[s].row = None
  BY ProbeOf DEF Recording, Loading
<1>2. /\ x \in ScreenState /\ x.pc = pc /\ x.todo = screen[s].todo
      /\ x.hits = screen[s].hits /\ x.lists = screen[s].lists
      /\ x.held = screen[s].held /\ x.row = None /\ x.persist = screen[s].persist
  BY <1>1, AtState
<1>3. screen' = [screen EXCEPT ![s] = x]
  BY DEF At
<1> HIDE DEF x
<1>4. Probe(s, x, latest)
  BY <1>1, <1>2 DEF Probe, Loading, Ended
<1> QED BY <1>2, <1>3, <1>4, ReadStep

LEMMA SubjectGoneKeeps ==
  ASSUME IInv, NEW s \in Screening, SubjectGone(s)
  PROVE  IInv'
  BY AtKeeps DEF SubjectGone

LEMMA LoadChildrenKeeps ==
  ASSUME IInv, NEW s \in Screening, LoadChildren(s)
  PROVE  IInv'
<1>1. /\ screen[s] \in ScreenState
      /\ screen[s].pc \in {"subject_names", "subject_documents"}
      /\ Probe(s, screen[s], latest)
  BY ProbeOf DEF LoadChildren
<1>2. PICK pc \in {"subject_documents", "subject_addresses"},
           kind \in {NameField, DocumentField} :
        screen' = [screen EXCEPT ![s] =
                     Further(screen[s], pc, Read(s, screen[s].row, kind))]
  BY DEF LoadChildren, Further
<1>3. /\ Candidate(s, screen[s].row, screen[s].lists) /\ screen[s].row \in Row
      /\ screen[s].fields \subseteq Agrees[s][screen[s].row.record]
  BY <1>1 DEF Probe, Loading, Candidate
<1> DEFINE F == Read(s, screen[s].row, kind)
           x == Further(screen[s], pc, F)
<1>4. F \subseteq Agrees[s][screen[s].row.record] /\ F \in SUBSET Field
  BY <1>3, ReadAgrees DEF Field
<1>5. screen' = [screen EXCEPT ![s] = x]
  BY <1>2
<1> HIDE DEF F
<1>6. /\ x \in ScreenState /\ x.pc = pc /\ x.row = screen[s].row
      /\ x.todo = screen[s].todo /\ x.fields = screen[s].fields \cup F
      /\ x.hits = screen[s].hits /\ x.lists = screen[s].lists
      /\ x.held = screen[s].held
  BY <1>1, <1>4, FurtherState
<1> HIDE DEF x
<1>7. Probe(s, x, latest)
  BY <1>1, <1>3, <1>4, <1>6 DEF Probe, Ended
<1> QED BY <1>1, <1>5, <1>6, <1>7, ReadStep DEF LoadChildren, Loading

LEMMA LoadAddressesAndDecideKeeps ==
  ASSUME IInv, NEW s \in Screening, LoadAddressesAndDecide(s)
  PROVE  IInv'
<1> DEFINE y == screen[s].row
           f == screen[s].fields \cup Read(s, y, AddressField)
           H == Decide(y, f)
           x == Decided(screen[s], H)
<1>1. /\ screen[s] \in ScreenState /\ screen[s].pc = "subject_addresses"
      /\ Probe(s, screen[s], latest)
  BY ProbeOf DEF LoadAddressesAndDecide
<1>2. screen' = [screen EXCEPT ![s] = x]
  BY DEF LoadAddressesAndDecide, Decided
<1>3. Candidate(s, y, screen[s].lists) /\ y \in Row /\ f \subseteq Agrees[s][y.record]
  <2>1. /\ Candidate(s, y, screen[s].lists) /\ y \in Row
        /\ screen[s].fields \subseteq Agrees[s][y.record]
    BY <1>1 DEF Probe, Loading, Candidate
  <2>2. Read(s, y, AddressField) \subseteq Agrees[s][y.record]
    BY <2>1, ReadAgrees DEF Field
  <2> QED BY <2>1, <2>2
<1> HIDE DEF f, y
<1>4. \A h \in H : h \in Hit /\ Explained(s, h, screen[s].lists)
  BY <1>3, DecideExplained
<1> HIDE DEF H
<1>5. /\ x \in ScreenState /\ x.pc = "subject" /\ x.todo = screen[s].todo
      /\ x.hits = screen[s].hits \cup H /\ x.lists = screen[s].lists
      /\ x.held = screen[s].held /\ x.row = None
  BY <1>1, <1>4, DecidedState
<1> HIDE DEF x
<1>6. Probe(s, x, latest)
  BY <1>1, <1>4, <1>5 DEF Probe, Ended, Loading
<1> QED BY <1>1, <1>2, <1>5, <1>6, ReadStep DEF LoadAddressesAndDecide

LEMMA ConcludeKeeps ==
  ASSUME IInv, NEW s \in Screening, Conclude(s)
  PROVE  IInv'
<1>1. PICK pc \in {"persist", "done"} :
        /\ screen' = [screen EXCEPT ![s].pc = pc]
        /\ pc = "persist" => screen[s].persist
  BY DEF Conclude
<1> QED BY <1>1, AtKeeps DEF Conclude

-----------------------------------------------------------------------------
(***************************************************************************)
(* Recording the matches.                                                  *)
(***************************************************************************)
LEMMA RecordingOf ==
  ASSUME IInv, NEW s \in Screening, screen[s].pc = "persist"
  PROVE  /\ screen[s] \in ScreenState /\ Probe(s, screen[s], latest)
         /\ HitRows(s) \subseteq Row
         /\ screen[s].persist /\ screen[s].held \subseteq HitRows(s)
         /\ screen[s].row \in (HitRows(s) \ screen[s].held) \cup {None}
  BY ProbeOf DEF Recording, HitRows, ScreenState, Hit

\* The hits of a screening are explained as long as it knows of no others.
LEMMA ProbeSame ==
  ASSUME NEW s \in Screening, NEW o, Probe(s, o, latest), o.pc = "persist",
         NEW x \in ScreenState, x.pc \in Ended \cup {"persist"},
         x.todo = o.todo, x.hits = o.hits, x.lists = o.lists
  PROVE  Probe(s, x, latest)
  BY DEF Probe, Loading, Ended

LEMMA WaitForMatchKeeps ==
  ASSUME IInv, NEW s \in Screening, WaitForMatch(s)
  PROVE  IInv'
<1> DEFINE o == screen[s]
<1>1. o.pc = "persist" /\ UNCHANGED <<subjects, matches, latest, import>>
  BY DEF WaitForMatch
<1>2. PICK y \in HitRows(s) \ o.held : screen' = [screen EXCEPT ![s].row = y]
  BY DEF WaitForMatch
<1> DEFINE x == Stopped(o, y)
<1>3. /\ x \in ScreenState /\ x.pc = o.pc /\ x.todo = o.todo /\ x.hits = o.hits
      /\ x.lists = o.lists /\ x.held = o.held /\ x.row = y /\ x.persist = o.persist
  BY <1>1, <1>2, RecordingOf DEF Stopped, ScreenState
<1>4. screen' = [screen EXCEPT ![s] = x]
  BY <1>2 DEF Stopped
<1> HIDE DEF x
<1>5. Probe(s, x, latest)
  BY <1>1, <1>3, RecordingOf, ProbeSame
<1>6. Recording(x)
  BY <1>1, <1>2, <1>3, RecordingOf DEF Recording, HitRows
<1> QED BY <1>1, <1>3, <1>4, <1>5, <1>6, ProbeOf, ProbeStep

\* The end of a screening that gives up its matches.
LEMMA ClosedKeeps ==
  ASSUME IInv, NEW s \in Screening, NEW pc \in Ended, screen[s].pc = "persist",
         screen' = [screen EXCEPT ![s] = Closed(screen[s], pc)],
         UNCHANGED <<subjects, matches, latest, import>>,
         pc = "deadlocked" => \E g, h \in screen[s].hits : g # h
  PROVE  IInv'
<1> DEFINE o == screen[s]
           x == Closed(o, pc)
<1>1. /\ x \in ScreenState /\ x.pc = pc /\ x.todo = o.todo /\ x.hits = o.hits
      /\ x.lists = o.lists /\ x.held = {} /\ x.row = None /\ x.persist = o.persist
  BY ProbeOf, ClosedState
<1>2. screen' = [screen EXCEPT ![s] = x]
  OBVIOUS
<1> HIDE DEF x
<1>3. Probe(s, x, latest)
  BY <1>1, ProbeOf, ProbeSame
<1>4. Recording(x)
  BY <1>1, RecordingOf DEF Recording, Ended
<1> QED BY <1>1, <1>2, <1>3, <1>4, ProbeStep

LEMMA InsertMatchKeeps ==
  ASSUME IInv, NEW s \in Screening, InsertMatch(s)
  PROVE  IInv'
<1> DEFINE o == screen[s]
<1>1. o.pc = "persist" /\ UNCHANGED <<subjects, matches, latest, import>>
  BY DEF InsertMatch
<1>2. PICK y \in Turns(o.row, HitRows(s) \ o.held) :
        /\ Free(s, {"subject"} \X {y})
        /\ screen' = [screen EXCEPT ![s] = Inserted(o, y)]
  BY DEF InsertMatch
<1>3. y \in HitRows(s) \ o.held /\ y \in Row
  BY <1>1, <1>2, RecordingOf DEF Turns
<1>4. CASE y \notin subjects
  <2>1. screen' = [screen EXCEPT ![s] = Closed(o, "failed")]
    BY <1>2, <1>4 DEF Inserted, Closed
  <2> QED BY <1>1, <2>1, ClosedKeeps DEF Ended
<1>5. CASE y \in subjects
  <2> DEFINE H == o.held \cup {y}
             x == Holding(o, None, H)
  <2>1. H \in SUBSET Row
    BY <1>1, <1>3, RecordingOf
  <2>2. screen' = [screen EXCEPT ![s] = x]
    BY <1>2, <1>5 DEF Inserted, Holding
  <2>3. \A z \in H : z \in subjects /\ \A i \in Import : z \notin import[i].deleted
    <3>1. s \in Party /\ s \notin Import
      BY RegistryAssumption DEF Party
    <3>2. \A i \in Import : y \notin import[i].deleted
      BY <1>2, <3>1, FreeSubject
    <3> QED BY <1>5, <3>2, ProbeOf
  <2>4. H \subseteq HitRows(s)
    BY <1>1, <1>3, RecordingOf
  <2> HIDE DEF H
  <2>5. /\ x \in ScreenState /\ x.pc = o.pc /\ x.todo = o.todo /\ x.hits = o.hits
        /\ x.lists = o.lists /\ x.held = H /\ x.row = None /\ x.persist = o.persist
    BY <2>1, ProbeOf, HoldingState
  <2> HIDE DEF x
  <2>6. Probe(s, x, latest)
    BY <1>1, <2>5, RecordingOf, ProbeSame
  <2>7. Recording(x)
    BY <1>1, <2>4, <2>5, RecordingOf DEF Recording, HitRows
  <2> QED BY <1>1, <2>2, <2>3, <2>5, <2>6, <2>7, ProbeStep
<1> QED BY <1>4, <1>5

\* Only a screening that holds a subject and waits for another can be the
\* victim of a deadlock.
LEMMA Victim ==
  ASSUME IInv, NEW s \in Screening, Deadlocked(s)
  PROVE  screen[s].pc = "persist" /\ \E g, h \in screen[s].hits : g # h
<1> DEFINE o == screen[s]
<1>1. PICK q \in Party : Blocks(q, s, Wants(s))
  BY DEF Deadlocked, Blockers
<1>2. o.pc = "persist" /\ Wants(s) = {"subject"} \X {o.row}
  BY <1>1 DEF Wants, Blocks
<1>3. q \in Import /\ q \notin Screening /\ <<"subject", o.row>> \in Locks(q)
  <2>1. q \notin Screening /\ q \in Import
    BY <1>1 DEF Blocks, Party
  <2>2. PICK k \in {"subject"} \X {o.row} : k \in Locks(q)
    BY <1>1, <1>2 DEF Blocks
  <2>3. k = <<"subject", o.row>>
    BY <2>2
  <2> QED BY <2>1, <2>2, <2>3
<1>4. o.row \in import[q].deleted
  <2> DEFINE keys == KeysOf({x.record : x \in import[q].deleted})
                       \cup (IF import[q].pc = "inserted" THEN KeysOf(File[q]) ELSE {})
  <2>1. Locks(q) = ({"match"} \X import[q].dropped) \cup ({"child"} \X import[q].claims)
                     \cup ({"subject"} \X import[q].deleted) \cup ({"key"} \X keys)
    BY <1>3 DEF Locks
  <2> HIDE DEF keys
  <2> QED BY <1>3, <2>1
<1>5. o.row \in Row /\ o.row # None
  BY <1>3, <1>4, InvImplies, RegistryAssumption DEF IInv, Registry, Transaction, TypeOK, Row
<1>6. o.row \in HitRows(s) \ o.held /\ o.held \subseteq HitRows(s)
  BY <1>2, <1>5, RecordingOf
<1>7. o.held # {}
  <2> SUFFICES ASSUME o.held = {} PROVE FALSE
    OBVIOUS
  <2> DEFINE T == Party \ {s}
  <2>1. Locks(s) = {}
    BY DEF Locks
  <2>2. \A p \in Party : Blockers(p) \subseteq T
    BY <2>1 DEF Blockers, Blocks
  <2>3. s \in Party /\ T \in SUBSET Party
    BY DEF Party
  <2>4. [p \in Party |-> Blockers(p)][s] \subseteq T
    BY <2>2, <2>3
  <2>5. \A p \in T : [r \in Party |-> Blockers(r)][p] \subseteq T
    BY <2>2
  <2>6. s \in T
    BY <2>3, <2>4, <2>5 DEF Deadlocked
  <2> QED BY <2>6
<1> QED BY <1>2, <1>6, <1>7 DEF HitRows

LEMMA EndScreeningKeeps ==
  ASSUME IInv, NEW s \in Screening, EndScreening(s)
  PROVE  IInv'
<1>1. screen' = [screen EXCEPT ![s] = Closed(screen[s], "deadlocked")]
  BY DEF EndScreening, Closed
<1> QED BY <1>1, Victim, ClosedKeeps DEF EndScreening, Ended

LEMMA CommitMatchesKeeps ==
  ASSUME IInv, NEW s \in Screening, CommitMatches(s)
  PROVE  IInv'
<1> DEFINE o == screen[s]
           x == Committed(o)
           M == [row : HitRows(s), by : {s}]
<1>1. /\ o \in ScreenState /\ o.pc = "persist" /\ Probe(s, o, latest)
      /\ o.row = None /\ o.held = HitRows(s) /\ HitRows(s) \subseteq Row
  BY RecordingOf DEF CommitMatches
<1>2. /\ x \in ScreenState /\ x.pc = "done" /\ x.todo = o.todo
      /\ x.hits = o.hits /\ x.lists = o.lists /\ x.held = {} /\ x.row = None
  BY <1>1, CommittedState
<1>3. /\ screen' = [screen EXCEPT ![s] = x]
      /\ matches' = matches \cup M
      /\ UNCHANGED <<subjects, latest, import>>
  BY DEF CommitMatches, Committed
<1> HIDE DEF x
<1>4. Probe(s, x, latest) /\ Recording(x)
  <2>1. Probe(s, x, latest)
    BY <1>1, <1>2, ProbeSame DEF Ended
  <2> QED BY <1>2, <2>1 DEF Recording
<1>5. /\ screen' \in [Screening -> ScreenState]
      /\ screen'[s] = x
      /\ \A r \in Screening \ {s} : screen'[r] = screen[r]
  BY <1>2, <1>3 DEF IInv
<1>6. \A m \in M : /\ m \in Match
                   /\ m.row \in subjects
                   /\ \A i \in Import : m.row \notin import[i].deleted
  BY <1>1, ProbeOf DEF Match
<1> HIDE DEF M
<1>7. matches' \subseteq Match
  BY <1>3, <1>6 DEF IInv
<1>8. Linked(subjects, matches', import, screen')
  BY <1>2, <1>3, <1>5, <1>6 DEF IInv, Linked
<1>9. \A r \in Screening : Probe(r, screen'[r], latest) /\ Recording(screen'[r])
  BY <1>4, <1>5 DEF IInv
<1> QED BY <1>3, <1>5, <1>7, <1>8, <1>9 DEF IInv

-----------------------------------------------------------------------------
LEMMA InitEstablishes == Init => IInv
<1> SUFFICES ASSUME Init PROVE IInv
  OBVIOUS
<1>1. \A i \in Import : import[i] = NoImport
  BY DEF Init
<1>2. \A s \in Screening : screen[s] = NoScreen
  BY DEF Init
<1>3. import \in [Import -> ImportState] /\ screen \in [Screening -> ScreenState]
  BY NoImportState, NoScreenState DEF Init
<1>4. Registry(subjects, latest, import)
  <2>1. Published(latest, import) /\ subjects = ListOf(latest)
    BY DEF Init, Published, ListOf
  <2>2. \A i \in Import : Transaction(import[i], subjects, import)
    BY <1>1, NoImportState DEF Transaction
  <2> QED BY <1>1, <2>1, <2>2, NoImportState DEF Registry
<1>5. Linked(subjects, matches, import, screen)
  BY <1>1, <1>2, NoImportState, NoScreenState DEF Init, Linked
<1>6. \A s \in Screening : Probe(s, screen[s], latest)
  BY <1>2, NoScreenState DEF Probe, Ended, Loading
<1>7. \A s \in Screening : Recording(screen[s])
  BY <1>2, NoScreenState DEF Recording
<1> QED BY <1>3, <1>4, <1>5, <1>6, <1>7 DEF Init, IInv

\* A run that has committed waits for nothing.
LEMMA EndImportKeeps ==
  ASSUME IInv, NEW i \in Import, EndImport(i)
  PROVE  IInv'
<1>1. import[i].pc # "completed"
  <2> SUFFICES ASSUME import[i].pc = "completed" PROVE FALSE
    OBVIOUS
  <2>1. i \notin Screening
    BY RegistryAssumption
  <2>2. Wants(i) = {}
    BY <2>1 DEF Wants
  <2> QED BY <2>2 DEF EndImport, Deadlocked, Blockers, Blocks
<1> QED BY <1>1, RollbackKeeps DEF EndImport

LEMMA ImportStepKeeps ==
  ASSUME IInv, NEW i \in Import, ImportStep(i)
  PROVE  IInv'
  BY WaitKeeps, DeleteMatchesKeeps, DeleteChildrenKeeps, BeginSubjectsKeeps,
     WaitForSubjectKeeps, DeleteSubjectKeeps, EndSubjectsKeeps,
     InsertSubjectsKeeps, CommitImportKeeps, EndImportKeeps DEF ImportStep

LEMMA ScreenStepKeeps ==
  ASSUME IInv, NEW s \in Screening, ScreenStep(s)
  PROVE  IInv'
  BY SelectCandidatesKeeps, LoadSubjectKeeps, SubjectGoneKeeps, LoadChildrenKeeps,
     LoadAddressesAndDecideKeeps, ConcludeKeeps, WaitForMatchKeeps,
     InsertMatchKeeps, EndScreeningKeeps, CommitMatchesKeeps DEF ScreenStep

LEMMA NextKeeps == IInv /\ [Next]_vars => IInv'
<1> SUFFICES ASSUME IInv, [Next]_vars PROVE IInv'
  OBVIOUS
<1>1. ASSUME UNCHANGED vars PROVE IInv'
  BY <1>1 DEF vars, IInv
<1>2. ASSUME NEW i \in Import, Open(i) PROVE IInv'
  BY <1>2, OpenKeeps
<1>3. ASSUME NEW i \in Import, ImportStep(i) PROVE IInv'
  BY <1>3, ImportStepKeeps
<1>4. ASSUME NEW i \in Import, AbortImport(i) PROVE IInv'
  BY <1>4, RollbackKeeps DEF AbortImport
<1>5. ASSUME NEW s \in Screening, NEW persist \in BOOLEAN, Start(s, persist) PROVE IInv'
  BY <1>5, StartKeeps
<1>6. ASSUME NEW s \in Screening, ScreenStep(s) PROVE IInv'
  BY <1>6, ScreenStepKeeps
<1> QED BY <1>1, <1>2, <1>3, <1>4, <1>5, <1>6 DEF Next, AllDone

\* The strengthened invariant holds in every state of every behaviour of the
\* registry.
THEOREM Inductive == Spec => []IInv
  BY InitEstablishes, NextKeeps, PTL DEF Spec

\* Tables, transactions and screenings keep their types.
THEOREM TypeCorrect == Spec => []TypeOK
<1>1. IInv => TypeOK
  BY InvImplies
<1> QED BY <1>1, Inductive, PTL

\* However many runs of the import tool overlap, wait for each other and roll
\* back, the registry is exactly the list of the last run to commit.
THEOREM ListInForce == Spec => []OneListInForce
<1>1. IInv => OneListInForce
  BY InvImplies
<1> QED BY <1>1, Inductive, PTL

\* A recorded match always points at a subject of the list in force.
THEOREM MatchesListed == Spec => []MatchesAreListed
<1>1. IInv => MatchesAreListed
  BY InvImplies
<1> QED BY <1>1, Inductive, PTL

\* A screening never makes up a confirmed hit from parts of two lists.
THEOREM HitsListed == Spec => []HitsAreListed
<1>1. IInv => HitsAreListed
  BY InvImplies
<1> QED BY <1>1, Inductive, PTL

-----------------------------------------------------------------------------
(***************************************************************************)
(* A screening nobody disturbs.                                            *)
(***************************************************************************)
\* The candidate queries a screening has made, and the tables it has read of
\* the candidate it loads.
Asked(pc) ==
  IF pc = "identifiers" THEN {}
  ELSE IF pc = "names" THEN {"identifiers"}
  ELSE IF pc = "prefixes" THEN {"identifiers", "names"} ELSE Query

ReadBefore(pc) ==
  IF pc = "subject_names" THEN RowField
  ELSE IF pc = "subject_documents" THEN RowField \cup NameField
  ELSE RowField \cup NameField \cup DocumentField

FoundBy(s, queries, l) ==
  {x \in ListOf(l) : \E f \in Found[s][x.record] : f[1] \in queries}

Verdicts(s, S) == UNION {Decide(x, Agrees[s][x.record]) : x \in S}

\* A screening that has met one list only, and whose queries fit their limits,
\* knows exactly who the queries find, and has decided on all of them but those
\* to come and the one in hand.
Exact(s, o, l) ==
  /\ o.seen = FoundBy(s, Asked(o.pc), l)
  /\ o.todo \subseteq o.seen
  /\ o.pc \in Query => o.todo = o.seen /\ o.hits = {}
  /\ o.pc \in Loading =>
       /\ o.row \in o.seen \ o.todo
       /\ o.fields = Agrees[s][o.row.record] \cap ReadBefore(o.pc)
       /\ o.hits = Verdicts(s, o.seen \ (o.todo \cup {o.row}))
  /\ o.pc \notin Query \cup Loading => o.hits = Verdicts(s, o.seen \ o.todo)
  /\ o.pc \in {"persist", "done", "deadlocked"} => o.todo = {}
  /\ o.pc # "failed"

Undisturbed ==
  \A s \in Screening : \A l \in Import \cup {None} :
    screen[s].lists = {l} /\ Fits(s, l) => Exact(s, screen[s], l)

LEMMA ListsAreFinite ==
  ASSUME NEW l \in Import \cup {None}
  PROVE  IsFiniteSet(ListOf(l))
<1>1. CASE l = None
  BY <1>1, FS_EmptySet DEF ListOf
<1>2. CASE l # None
  <2> DEFINE f == [r \in File[l] |-> [list |-> l, record |-> r]]
  <2>1. ListOf(l) = RowsOf(l) /\ IsFiniteSet(File[l])
    BY <1>2, FinitenessAssumption DEF ListOf
  <2>2. f \in Surjection(File[l], RowsOf(l))
    BY DEF Surjection, RowsOf
  <2> HIDE DEF f
  <2> QED BY <2>1, <2>2, FS_Surjection
<1> QED BY <1>1, <1>2

\* The subjects of joined rows: no more than there are rows.
LEMMA Firsts ==
  ASSUME NEW J, IsFiniteSet(J)
  PROVE  /\ IsFiniteSet({t[1] : t \in J})
         /\ Cardinality({t[1] : t \in J}) <= Cardinality(J)
<1> DEFINE f == [t \in J |-> t[1]]
<1>1. f \in Surjection(J, {t[1] : t \in J})
  BY DEF Surjection
<1> HIDE DEF f
<1> QED BY <1>1, FS_Surjection

LEMMA JoinedSubjects ==
  ASSUME NEW s \in Screening, NEW l \in Import \cup {None}, NEW query \in Query
  PROVE  /\ IsFiniteSet(Joined(s, query, ListOf(l)))
         /\ {t[1] : t \in Joined(s, query, ListOf(l))} = FoundBy(s, {query}, l)
<1>1. IsFiniteSet(Joined(s, query, ListOf(l)))
  <2>1. IsFiniteSet(ListOf(l) \X Child)
    BY ListsAreFinite, FinitenessAssumption, FS_Product
  <2>2. Joined(s, query, ListOf(l)) \in SUBSET (ListOf(l) \X Child)
    BY DEF Joined
  <2> QED BY <2>1, <2>2, FS_Subset
<1>2. ASSUME NEW t \in Joined(s, query, ListOf(l))
      PROVE  t[1] \in FoundBy(s, {query}, l)
  <2>1. t[1] \in ListOf(l) /\ <<query, t[2]>> \in Found[s][t[1].record]
    BY DEF Joined
  <2> QED BY <2>1 DEF FoundBy
<1>3. ASSUME NEW x \in FoundBy(s, {query}, l)
      PROVE  \E t \in Joined(s, query, ListOf(l)) : t[1] = x
  <2>1. x \in ListOf(l) /\ \E f \in Found[s][x.record] : f[1] = query
    BY DEF FoundBy
  <2>2. PICK f \in Found[s][x.record] : f[1] = query
    BY <2>1
  <2>3. x.record \in Record
    BY <2>1, ListsAreRows DEF Row
  <2>4. f \in Query \X Child
    BY <2>2, <2>3, RegistryAssumption
  <2>5. f = <<query, f[2]>> /\ f[2] \in Child
    BY <2>2, <2>4
  <2>6. <<x, f[2]>> \in Joined(s, query, ListOf(l))
    BY <2>1, <2>2, <2>5 DEF Joined
  <2> QED BY <2>6
<1> QED BY <1>1, <1>2, <1>3

\* A limit that is not reached takes nothing away.
LEMMA NotLimited ==
  ASSUME NEW S, IsFiniteSet(S), NEW n, Cardinality(S) <= n, NEW T \in Limited(S, n), n \in Int
  PROVE  T = S
<1>1. Cardinality(S) \in Nat
  BY FS_CardinalityType
<1>2. T \in SUBSET S /\ Cardinality(T) = Cardinality(S)
  BY <1>1 DEF Limited
<1> QED BY <1>2, FS_Subset

LEMMA FoundIsFinite ==
  ASSUME NEW s \in Screening, NEW l \in Import \cup {None}, NEW queries
  PROVE  /\ IsFiniteSet(FoundBy(s, queries, l))
         /\ Cardinality(FoundBy(s, queries, l)) \in Nat
         /\ FoundBy(s, queries, l) \subseteq ListOf(l)
<1>1. FoundBy(s, queries, l) \in SUBSET ListOf(l)
  BY DEF FoundBy
<1>2. IsFiniteSet(FoundBy(s, queries, l))
  BY <1>1, ListsAreFinite, FS_Subset
<1> QED BY <1>1, <1>2, FS_CardinalityType

\* What the queries have found before, with what the next one finds.
LEMMA FoundTogether ==
  ASSUME NEW s, NEW l, NEW query \in Query
  PROVE  /\ FoundBy(s, Asked(query), l) \cup FoundBy(s, {query}, l) =
              FoundBy(s, Asked(Then(query)), l)
         /\ Then(query) \in {"names", "prefixes", "subject"}
<1>1. /\ Asked(Then(query)) = Asked(query) \cup {query}
      /\ Then(query) \in {"names", "prefixes", "subject"}
  BY DEF Asked, Then, Query
<1> QED BY <1>1 DEF FoundBy

\* The room left is enough, and the LIMIT of the query too.
LEMMA RoomIsLeft ==
  ASSUME NEW s \in Screening, NEW l \in Import \cup {None}, NEW query \in Query, Fits(s, l)
  PROVE  LET known == FoundBy(s, Asked(query), l)
             room  == Limit - Cardinality(known)
         IN /\ room \in Int
            /\ Cardinality(Joined(s, query, ListOf(l)))
                 <= (IF query = "prefixes" THEN room ELSE Limit)
            /\ Cardinality(FoundBy(s, {query}, l) \ known) <= room
<1> DEFINE known == FoundBy(s, Asked(query), l)
           room  == Limit - Cardinality(known)
           new   == FoundBy(s, {query}, l) \ known
           J(q)  == Joined(s, q, ListOf(l))
           both  == FoundBy(s, {"identifiers", "names"}, l)
<1> SUFFICES /\ room \in Int
             /\ Cardinality(J(query)) <= (IF query = "prefixes" THEN room ELSE Limit)
             /\ Cardinality(new) <= room
  OBVIOUS
<1>1. Limit \in Nat /\ room \in Int
  BY RegistryAssumption, FoundIsFinite
<1>2. \A q \in Query : /\ IsFiniteSet(J(q)) /\ {t[1] : t \in J(q)} = FoundBy(s, {q}, l)
                       /\ Cardinality(J(q)) \in Nat
                       /\ Cardinality(FoundBy(s, {q}, l)) <= Cardinality(J(q))
  <2> SUFFICES ASSUME NEW q \in Query
               PROVE  /\ IsFiniteSet(J(q)) /\ {t[1] : t \in J(q)} = FoundBy(s, {q}, l)
                      /\ Cardinality(J(q)) \in Nat
                      /\ Cardinality(FoundBy(s, {q}, l)) <= Cardinality(J(q))
    OBVIOUS
  <2>1. IsFiniteSet(J(q)) /\ {t[1] : t \in J(q)} = FoundBy(s, {q}, l)
    BY JoinedSubjects
  <2> HIDE DEF J
  <2> QED BY <2>1, Firsts, FS_CardinalityType
<1>3. both = {t[1] : t \in J("identifiers") \cup J("names")}
  <2>1. {t[1] : t \in J("identifiers")} = FoundBy(s, {"identifiers"}, l)
    BY <1>2 DEF Query
  <2>2. {t[1] : t \in J("names")} = FoundBy(s, {"names"}, l)
    BY <1>2 DEF Query
  <2>3. both = FoundBy(s, {"identifiers"}, l) \cup FoundBy(s, {"names"}, l)
    BY DEF FoundBy
  <2> HIDE DEF J, both
  <2> QED BY <2>1, <2>2, <2>3
<1>4. /\ Cardinality(J("identifiers")) <= Limit
      /\ Cardinality(J("names")) <= Limit
      /\ Cardinality(both) + Cardinality(J("prefixes")) <= Limit
  BY <1>3 DEF Fits
<1>5. /\ IsFiniteSet(known) /\ Cardinality(known) \in Nat
      /\ IsFiniteSet(FoundBy(s, {query}, l)) /\ Cardinality(FoundBy(s, {query}, l)) \in Nat
      /\ IsFiniteSet(both) /\ Cardinality(both) \in Nat
  BY FoundIsFinite
<1>6. /\ IsFiniteSet(new) /\ Cardinality(new) \in Nat
      /\ Cardinality(new) <= Cardinality(FoundBy(s, {query}, l))
  <2>1. new \in SUBSET FoundBy(s, {query}, l)
    OBVIOUS
  <2> HIDE DEF new
  <2> QED BY <1>5, <2>1, FS_Subset, FS_CardinalityType
<1>7. CASE query = "identifiers"
  <2>1. known = {}
    BY <1>7 DEF Asked, FoundBy
  <2>2. Cardinality(known) = 0
    BY <2>1, FS_EmptySet
  <2> HIDE DEF known, new, J, both
  <2> QED BY <1>1, <1>2, <1>4, <1>5, <1>6, <1>7, <2>2 DEF Query
<1>8. CASE query = "names"
  <2>1. both = known \cup new /\ known \cap new = {}
    BY <1>8 DEF Asked, FoundBy
  <2> HIDE DEF known, new, both
  <2>2. Cardinality(known \cup new) = Cardinality(known) + Cardinality(new) - Cardinality({})
    BY <1>5, <1>6, <2>1, FS_Union
  <2>3. Cardinality(both) = Cardinality(known) + Cardinality(new)
    BY <1>5, <1>6, <2>1, <2>2, FS_EmptySet
  <2>4. Cardinality(J("prefixes")) \in Nat
    BY <1>2 DEF Query
  <2> HIDE DEF J
  <2> QED BY <1>1, <1>4, <1>5, <1>6, <1>8, <2>3, <2>4
<1>9. CASE query = "prefixes"
  <2>1. known = both
    BY <1>9 DEF Asked
  <2>2. /\ Cardinality(FoundBy(s, {query}, l)) <= Cardinality(J(query))
        /\ Cardinality(J(query)) \in Nat
    BY <1>2
  <2> HIDE DEF known, new, both, J
  <2> QED BY <1>1, <1>4, <1>5, <1>6, <1>9, <2>1, <2>2
<1> QED BY <1>1, <1>7, <1>8, <1>9 DEF Query

\* A screening under way that has met one list reads that list.
LEMMA ReadsItsList ==
  ASSUME IInv, NEW s \in Screening, screen[s].pc \notin Ended \cup {"idle"},
         NEW l, screen[s].lists = {l}
  PROVE  subjects = ListOf(l)
<1>1. latest \in screen[s].lists /\ subjects = ListOf(latest)
  BY DEF IInv, Probe, Registry
<1> QED BY <1>1

\* A step of one screening.
LEMMA ExactStep ==
  ASSUME IInv, Undisturbed, NEW s \in Screening, NEW x,
         screen' = [screen EXCEPT ![s] = x],
         \A l \in Import \cup {None} : x.lists = {l} /\ Fits(s, l) => Exact(s, x, l)
  PROVE  Undisturbed'
<1>1. screen'[s] = x /\ \A r \in Screening \ {s} : screen'[r] = screen[r]
  BY DEF IInv
<1> SUFFICES ASSUME NEW r \in Screening, NEW l \in Import \cup {None},
                    screen'[r].lists = {l}, Fits(r, l)
             PROVE  Exact(r, screen'[r], l)
  BY DEF Undisturbed, Fits, Joined, ListOf, RowsOf, Exact, FoundBy, Verdicts, Decide
<1>2. CASE r = s
  BY <1>1, <1>2
<1>3. CASE r # s
  BY <1>1, <1>3 DEF Undisturbed
<1> QED BY <1>2, <1>3

LEMMA StartExact ==
  ASSUME IInv, Undisturbed, NEW s \in Screening, NEW persist \in BOOLEAN, Start(s, persist)
  PROVE  Undisturbed'
<1> DEFINE x == Started(persist, latest)
<1>1. screen' = [screen EXCEPT ![s] = x]
  BY DEF Start, Started
<1>2. /\ x.pc = "identifiers" /\ x.seen = {} /\ x.todo = {} /\ x.hits = {}
  BY StartedState DEF IInv, Registry, Published
<1> HIDE DEF x
<1>3. \A l \in Import \cup {None} : Exact(s, x, l)
  BY <1>2 DEF Exact, FoundBy, Asked, Query, Loading
<1> QED BY <1>1, <1>3, ExactStep

LEMMA SelectCandidatesExact ==
  ASSUME IInv, Undisturbed, NEW s \in Screening, SelectCandidates(s)
  PROVE  Undisturbed'
<1> DEFINE o == screen[s]
           room == Limit - Cardinality(o.seen)
           n == IF o.pc = "prefixes" THEN room ELSE Limit
<1>1. o \in ScreenState /\ o.pc \in Query /\ o.pc \notin Ended \cup {"idle"}
  BY ProbeOf DEF SelectCandidates, Query, Ended
<1>2. PICK N \in IF room > 0 THEN Selections(s, n) ELSE {{}} :
        screen' = [screen EXCEPT ![s].pc = Then(screen[s].pc),
                     ![s].seen = @ \cup N, ![s].todo = @ \cup N]
  BY Zenon DEF SelectCandidates
<1> DEFINE x == Selected(o, Then(o.pc), N)
<1>3. screen' = [screen EXCEPT ![s] = x]
  BY <1>2 DEF Selected
<1>4. x.lists = o.lists /\ x.pc = Then(o.pc) /\ x.hits = o.hits
      /\ x.seen = o.seen \cup N /\ x.todo = o.todo \cup N
  BY <1>1 DEF Selected, ScreenState
<1> HIDE DEF x
<1>5. ASSUME NEW l \in Import \cup {None}, x.lists = {l}, Fits(s, l)
      PROVE  Exact(s, x, l)
  <2>1. Exact(s, o, l)
    BY <1>4, <1>5 DEF Undisturbed
  <2>2. o.seen = FoundBy(s, Asked(o.pc), l) /\ o.todo = o.seen /\ o.hits = {}
    BY <1>1, <2>1 DEF Exact
  <2>3. subjects = ListOf(l)
    BY <1>1, <1>4, <1>5, ReadsItsList
  <2> DEFINE J   == Joined(s, o.pc, subjects)
             new == FoundBy(s, {o.pc}, l) \ o.seen
  <2>4. IsFiniteSet(J) /\ {t[1] : t \in J} = FoundBy(s, {o.pc}, l)
    BY <1>1, <2>3, JoinedSubjects
  <2>5. room \in Int /\ Cardinality(J) <= n /\ Cardinality(new) <= room
    BY <1>1, <1>5, <2>2, <2>3, RoomIsLeft
  <2>6. n \in Int
    BY <2>5, RegistryAssumption
  <2>7. IsFiniteSet(new)
    <3>1. IsFiniteSet(FoundBy(s, {o.pc}, l))
      BY FoundIsFinite
    <3> QED BY <3>1, FS_Difference
  <2>8. N = new
    <3>1. CASE room > 0
      <4>1. N \in Selections(s, n)
        BY <1>2, <3>1
      <4>2. PICK T \in Limited(J, n) : N \in Limited({t[1] : t \in T} \ o.seen, room)
        BY <4>1 DEF Selections
      <4> HIDE DEF J, n, room
      <4>3. T = J
        BY <2>4, <2>5, <2>6, NotLimited
      <4>4. N \in Limited(new, room)
        BY <2>4, <4>2, <4>3
      <4> HIDE DEF new
      <4> QED BY <2>5, <2>7, <4>4, NotLimited
    <3>2. CASE ~(room > 0)
      <4>1. N = {}
        BY <1>2, <3>2
      <4>2. Cardinality(new) \in Nat
        BY <2>7, FS_CardinalityType
      <4> HIDE DEF new, room
      <4>3. Cardinality(new) = 0
        BY <2>5, <3>2, <4>2
      <4> QED BY <2>7, <4>1, <4>3, FS_EmptySet
    <3> QED BY <3>1, <3>2
  <2>9. /\ x.seen = FoundBy(s, Asked(x.pc), l) /\ x.pc \in {"names", "prefixes", "subject"}
        /\ x.todo = x.seen /\ x.hits = {}
    BY <1>1, <1>4, <2>2, <2>8, FoundTogether
  <2>10. Verdicts(s, x.seen \ x.todo) = {}
    BY <2>9 DEF Verdicts
  <2> QED BY <2>9, <2>10 DEF Exact, Loading
<1> QED BY <1>3, <1>5, ExactStep

\* What is known of the screening that has met list l only.
LEMMA ExactNow ==
  ASSUME IInv, Undisturbed, NEW s \in Screening, screen[s].pc \notin Ended \cup {"idle"},
         NEW l \in Import \cup {None}, screen[s].lists = {l}, Fits(s, l)
  PROVE  /\ Exact(s, screen[s], l) /\ subjects = ListOf(l)
         /\ screen[s].seen \subseteq subjects
<1>1. Exact(s, screen[s], l) /\ subjects = ListOf(l)
  BY ReadsItsList DEF Undisturbed
<1> QED BY <1>1, FoundIsFinite DEF Exact

LEMMA LoadSubjectExact ==
  ASSUME IInv, Undisturbed, NEW s \in Screening, LoadSubject(s)
  PROVE  Undisturbed'
<1> DEFINE o == screen[s]
<1>1. o \in ScreenState /\ o.pc = "subject" /\ o.pc \notin Ended \cup {"idle"}
      /\ Probe(s, o, latest)
  BY ProbeOf DEF LoadSubject, Ended
<1>2. PICK y \in o.todo :
        /\ y \in subjects
        /\ screen' = [screen EXCEPT ![s] = Loaded(o, y, Read(s, y, RowField))]
  BY DEF LoadSubject, Loaded
<1> DEFINE F == Read(s, y, RowField)
           x == Loaded(o, y, F)
<1>3. F = Agrees[s][y.record] \cap RowField
  BY <1>2 DEF Read
<1>4. screen' = [screen EXCEPT ![s] = x]
  BY <1>2
<1>5. y \in Row /\ F \in SUBSET Field
  BY <1>1, <1>3 DEF Probe, Candidate, Field
<1> HIDE DEF F
<1>6. /\ x.pc = "subject_names" /\ x.row = y /\ x.seen = o.seen
      /\ x.todo = o.todo \ {y} /\ x.fields = F
      /\ x.hits = o.hits /\ x.lists = o.lists
  BY <1>1, <1>5, LoadedState
<1> HIDE DEF x
<1>7. ASSUME NEW l \in Import \cup {None}, x.lists = {l}, Fits(s, l)
      PROVE  Exact(s, x, l)
  <2>1. Exact(s, o, l)
    BY <1>1, <1>6, <1>7, ExactNow
  <2>2. /\ o.seen = FoundBy(s, Query, l) /\ o.todo \subseteq o.seen
        /\ o.hits = Verdicts(s, o.seen \ o.todo)
    BY <1>1, <2>1 DEF Exact, Asked, Query, Loading
  <2>3. o.seen \ o.todo = x.seen \ (x.todo \cup {y})
    BY <1>2, <1>6
  <2>4. Asked(x.pc) = Query /\ ReadBefore(x.pc) = RowField
    BY <1>6 DEF Asked, ReadBefore
  <2> QED BY <1>2, <1>3, <1>6, <2>2, <2>3, <2>4 DEF Exact, Query, Loading
<1> QED BY <1>4, <1>7, ExactStep

LEMMA SubjectGoneExact ==
  ASSUME IInv, Undisturbed, NEW s \in Screening, SubjectGone(s)
  PROVE  Undisturbed'
<1> DEFINE o == screen[s]
           x == At(o, "failed")
<1>1. o \in ScreenState /\ o.pc = "subject" /\ o.pc \notin Ended \cup {"idle"}
  BY ProbeOf DEF SubjectGone, Ended
<1>2. screen' = [screen EXCEPT ![s] = x]
  BY DEF SubjectGone, At
<1>3. x.lists = o.lists
  BY <1>1, AtState
<1> HIDE DEF x
<1>4. ASSUME NEW l \in Import \cup {None}, x.lists = {l}, Fits(s, l)
      PROVE  FALSE
  <2>1. Exact(s, o, l) /\ o.seen \subseteq subjects
    BY <1>1, <1>3, <1>4, ExactNow
  <2>2. o.todo \subseteq subjects
    BY <2>1 DEF Exact
  <2> QED BY <2>2 DEF SubjectGone
<1> QED BY <1>2, <1>4, ExactStep

LEMMA LoadChildrenExact ==
  ASSUME IInv, Undisturbed, NEW s \in Screening, LoadChildren(s)
  PROVE  Undisturbed'
<1> DEFINE o == screen[s]
<1>1. o \in ScreenState /\ o.pc \in Loading /\ o.pc \notin Ended \cup {"idle"}
      /\ Probe(s, o, latest)
  BY ProbeOf DEF LoadChildren, Ended, Loading
<1>2. \E pc \in {"subject_documents", "subject_addresses"}, kind \in {NameField, DocumentField} :
        /\ \/ /\ o.pc = "subject_names" /\ pc = "subject_documents" /\ kind = NameField
           \/ /\ o.pc = "subject_documents" /\ pc = "subject_addresses"
              /\ kind = DocumentField
        /\ screen' = [screen EXCEPT ![s] = Further(o, pc, Read(s, o.row, kind))]
  <2>1. CASE o.pc = "subject_names"
    <3>1. screen' = [screen EXCEPT
                       ![s] = Further(o, "subject_documents", Read(s, o.row, NameField))]
      BY <2>1 DEF LoadChildren, Further
    <3> QED BY <2>1, <3>1
  <2>2. CASE o.pc = "subject_documents"
    <3>1. screen' = [screen EXCEPT
                       ![s] = Further(o, "subject_addresses", Read(s, o.row, DocumentField))]
      BY <2>2 DEF LoadChildren, Further
    <3> QED BY <2>2, <3>1
  <2> QED BY <2>1, <2>2 DEF LoadChildren
<1>3. PICK pc \in {"subject_documents", "subject_addresses"}, kind \in {NameField, DocumentField} :
        /\ \/ /\ o.pc = "subject_names" /\ pc = "subject_documents" /\ kind = NameField
           \/ /\ o.pc = "subject_documents" /\ pc = "subject_addresses"
              /\ kind = DocumentField
        /\ screen' = [screen EXCEPT ![s] = Further(o, pc, Read(s, o.row, kind))]
  BY <1>2
<1> DEFINE F == Read(s, o.row, kind)
           x == Further(o, pc, F)
<1>4. o.row \in Row /\ kind \in SUBSET Field
  BY <1>1, <1>3 DEF Probe, Candidate, Field
<1>5. screen' = [screen EXCEPT ![s] = x]
  BY <1>3
<1>6. F \in SUBSET Field /\ pc \in {"subject_documents", "subject_addresses"}
  BY <1>3, <1>4, ReadAgrees
<1>7. o.row \in subjects => F = Agrees[s][o.row.record] \cap kind
  BY DEF Read
<1> HIDE DEF F
<1>8. /\ x.pc = pc /\ x.row = o.row /\ x.seen = o.seen
      /\ x.todo = o.todo /\ x.fields = o.fields \cup F
      /\ x.hits = o.hits /\ x.lists = o.lists
  BY <1>1, <1>6, FurtherState
<1> HIDE DEF x
<1>9. ASSUME NEW l \in Import \cup {None}, x.lists = {l}, Fits(s, l)
      PROVE  Exact(s, x, l)
  <2>1. Exact(s, o, l) /\ o.seen \subseteq subjects
    BY <1>1, <1>8, <1>9, ExactNow
  <2>2. /\ o.seen = FoundBy(s, Query, l) /\ o.todo \subseteq o.seen
        /\ o.row \in o.seen \ o.todo
        /\ o.fields = Agrees[s][o.row.record] \cap ReadBefore(o.pc)
        /\ o.hits = Verdicts(s, o.seen \ (o.todo \cup {o.row}))
    BY <1>1, <2>1 DEF Exact, Asked, Query, Loading
  <2>3. ReadBefore(x.pc) = ReadBefore(o.pc) \cup kind
    BY <1>3, <1>8 DEF ReadBefore
  <2>4. x.fields = Agrees[s][o.row.record] \cap ReadBefore(x.pc)
    BY <1>7, <1>8, <2>1, <2>2, <2>3
  <2>5. Asked(x.pc) = Query /\ x.pc \in Loading
    BY <1>6, <1>8 DEF Asked, Loading
  <2> QED BY <1>8, <2>2, <2>4, <2>5 DEF Exact, Query, Loading
<1> QED BY <1>5, <1>9, ExactStep

LEMMA LoadAddressesAndDecideExact ==
  ASSUME IInv, Undisturbed, NEW s \in Screening, LoadAddressesAndDecide(s)
  PROVE  Undisturbed'
<1> DEFINE o == screen[s]
           y == o.row
           f == o.fields \cup Read(s, y, AddressField)
           H == Decide(y, f)
           x == Decided(o, H)
<1>1. o \in ScreenState /\ o.pc = "subject_addresses" /\ o.pc \notin Ended \cup {"idle"}
      /\ Probe(s, o, latest)
  BY ProbeOf DEF LoadAddressesAndDecide, Ended
<1>2. screen' = [screen EXCEPT ![s] = x]
  BY DEF LoadAddressesAndDecide, Decided
<1>3. Candidate(s, y, o.lists) /\ y \in Row /\ f \subseteq Agrees[s][y.record]
  <2>1. /\ Candidate(s, y, o.lists) /\ y \in Row
        /\ o.fields \subseteq Agrees[s][y.record]
    BY <1>1 DEF Probe, Loading, Candidate
  <2>2. Read(s, y, AddressField) \subseteq Agrees[s][y.record]
    BY <2>1, ReadAgrees DEF Field
  <2> QED BY <2>1, <2>2
<1>4. H \in SUBSET Hit
  <2> HIDE DEF f, y
  <2> QED BY <1>3, DecideExplained
<1>5. /\ x.pc = "subject" /\ x.seen = o.seen /\ x.todo = o.todo
      /\ x.hits = o.hits \cup H /\ x.lists = o.lists
  <2> HIDE DEF H
  <2> QED BY <1>1, <1>4, DecidedState
<1> HIDE DEF x
<1>6. ASSUME NEW l \in Import \cup {None}, x.lists = {l}, Fits(s, l)
      PROVE  Exact(s, x, l)
  <2>1. Exact(s, o, l) /\ o.seen \subseteq subjects
    BY <1>1, <1>5, <1>6, ExactNow
  <2>2. /\ o.seen = FoundBy(s, Query, l) /\ o.todo \subseteq o.seen
        /\ y \in o.seen \ o.todo
        /\ o.fields = Agrees[s][y.record] \cap ReadBefore("subject_addresses")
        /\ o.hits = Verdicts(s, o.seen \ (o.todo \cup {y}))
    BY <1>1, <2>1 DEF Exact, Asked, Query, Loading
  <2>3. f = Agrees[s][y.record]
    <3>1. Agrees[s][y.record] \subseteq Field
      BY <1>3, RegistryAssumption DEF Row
    <3>2. Read(s, y, AddressField) = Agrees[s][y.record] \cap AddressField
      BY <2>1, <2>2 DEF Read
    <3>3. ReadBefore("subject_addresses") \cup AddressField = Field
      BY DEF ReadBefore, Field
    <3> HIDE DEF y, o
    <3> QED BY <2>2, <3>1, <3>2, <3>3
  <2>4. x.hits = Verdicts(s, x.seen \ x.todo)
    <3>1. x.seen \ x.todo = (o.seen \ (o.todo \cup {y})) \cup {y}
      BY <1>5, <2>2
    <3>2. H = Decide(y, Agrees[s][y.record])
      BY <2>3
    <3> HIDE DEF y, o, H
    <3>3. Verdicts(s, (o.seen \ (o.todo \cup {y})) \cup {y}) =
            Verdicts(s, o.seen \ (o.todo \cup {y})) \cup Decide(y, Agrees[s][y.record])
      BY DEF Verdicts
    <3> QED BY <1>5, <2>2, <3>1, <3>2, <3>3
  <2>5. Asked(x.pc) = Query
    BY <1>5 DEF Asked
  <2> QED BY <1>5, <2>2, <2>4, <2>5 DEF Exact, Query, Loading
<1> QED BY <1>2, <1>6, ExactStep

LEMMA ConcludeExact ==
  ASSUME IInv, Undisturbed, NEW s \in Screening, Conclude(s)
  PROVE  Undisturbed'
<1> DEFINE o == screen[s]
<1>1. o \in ScreenState /\ o.pc = "subject" /\ o.pc \notin Ended \cup {"idle"} /\ o.todo = {}
  BY ProbeOf DEF Conclude, Ended
<1>2. PICK pc \in {"persist", "done"} : screen' = [screen EXCEPT ![s] = At(o, pc)]
  BY DEF Conclude, At
<1> DEFINE x == At(o, pc)
<1>3. x.pc = pc /\ x.seen = o.seen /\ x.todo = o.todo /\ x.hits = o.hits /\ x.lists = o.lists
  BY <1>1, AtState
<1>4. screen' = [screen EXCEPT ![s] = x]
  BY <1>2
<1> HIDE DEF x
<1>5. ASSUME NEW l \in Import \cup {None}, x.lists = {l}, Fits(s, l)
      PROVE  Exact(s, x, l)
  <2>1. Exact(s, o, l)
    BY <1>1, <1>3, <1>5, ExactNow
  <2>2. o.seen = FoundBy(s, Query, l) /\ o.hits = Verdicts(s, o.seen \ o.todo)
    BY <1>1, <2>1 DEF Exact, Asked, Query, Loading
  <2>3. Asked(x.pc) = Query
    BY <1>3 DEF Asked
  <2> QED BY <1>1, <1>3, <2>2, <2>3 DEF Exact, Query, Loading
<1> QED BY <1>4, <1>5, ExactStep

\* What a screening that records its matches knows stays as it was.
LEMMA RecordingExact ==
  ASSUME IInv, Undisturbed, NEW s \in Screening, screen[s].pc = "persist",
         NEW x, screen' = [screen EXCEPT ![s] = x],
         x.seen = screen[s].seen, x.todo = screen[s].todo,
         x.hits = screen[s].hits, x.lists = screen[s].lists,
         HitRows(s) \subseteq subjects => x.pc \in {"persist", "done", "deadlocked"}
  PROVE  Undisturbed'
<1> DEFINE o == screen[s]
<1>1. ASSUME NEW l \in Import \cup {None}, x.lists = {l}, Fits(s, l)
      PROVE  Exact(s, x, l)
  <2>1. Exact(s, o, l) /\ o.seen \subseteq subjects
    BY <1>1, ExactNow DEF Ended
  <2>2. /\ o.seen = FoundBy(s, Query, l) /\ o.todo = {}
        /\ o.hits = Verdicts(s, o.seen \ o.todo)
    BY <2>1 DEF Exact, Asked, Query, Loading
  <2>3. HitRows(s) \subseteq subjects
    <3> SUFFICES ASSUME NEW h \in o.hits PROVE h.row \in subjects
      BY DEF HitRows
    <3>1. PICK y \in o.seen : h \in Decide(y, Agrees[s][y.record])
      BY <2>2 DEF Verdicts
    <3>2. h.row = y
      BY <3>1 DEF Decide
    <3> QED BY <2>1, <3>2
  <2>4. x.pc \in {"persist", "done", "deadlocked"}
    BY <1>1, <2>3
  <2>5. Asked(x.pc) = Query
    BY <2>4 DEF Asked
  <2> QED BY <2>2, <2>4, <2>5 DEF Exact, Query, Loading
<1> QED BY <1>1, ExactStep

LEMMA WaitForMatchExact ==
  ASSUME IInv, Undisturbed, NEW s \in Screening, WaitForMatch(s)
  PROVE  Undisturbed'
<1> DEFINE o == screen[s]
<1>1. o.pc = "persist" /\ o \in ScreenState
  BY ProbeOf DEF WaitForMatch
<1>2. PICK y \in HitRows(s) : screen' = [screen EXCEPT ![s] = Stopped(o, y)]
  BY DEF WaitForMatch, Stopped
<1> DEFINE x == Stopped(o, y)
<1>3. /\ x.pc = "persist" /\ x.seen = o.seen /\ x.todo = o.todo
      /\ x.hits = o.hits /\ x.lists = o.lists
  BY <1>1 DEF Stopped, ScreenState
<1>4. screen' = [screen EXCEPT ![s] = x]
  BY <1>2
<1> HIDE DEF x
<1> QED BY <1>1, <1>3, <1>4, RecordingExact

LEMMA InsertMatchExact ==
  ASSUME IInv, Undisturbed, NEW s \in Screening, InsertMatch(s)
  PROVE  Undisturbed'
<1> DEFINE o == screen[s]
<1>1. o.pc = "persist" /\ o \in ScreenState
  BY ProbeOf DEF InsertMatch
<1>2. PICK y \in Turns(o.row, HitRows(s) \ o.held) :
        screen' = [screen EXCEPT ![s] = Inserted(o, y)]
  BY DEF InsertMatch
<1>3. y \in HitRows(s)
  BY <1>1, <1>2, RecordingOf DEF Turns
<1> DEFINE x == Inserted(o, y)
<1>4. /\ x.seen = o.seen /\ x.todo = o.todo /\ x.hits = o.hits /\ x.lists = o.lists
      /\ x.pc = IF y \in subjects THEN "persist" ELSE "failed"
  <2>1. CASE y \in subjects
    BY <1>1, <2>1 DEF Inserted, ScreenState
  <2>2. CASE y \notin subjects
    BY <1>1, <2>2 DEF Inserted, ScreenState
  <2> QED BY <2>1, <2>2
<1>5. screen' = [screen EXCEPT ![s] = x]
  BY <1>2
<1> HIDE DEF x
<1> QED BY <1>1, <1>3, <1>4, <1>5, RecordingExact

LEMMA EndScreeningExact ==
  ASSUME IInv, Undisturbed, NEW s \in Screening, EndScreening(s)
  PROVE  Undisturbed'
<1> DEFINE o == screen[s]
           x == Closed(o, "deadlocked")
<1>1. o.pc = "persist" /\ o \in ScreenState
  BY ProbeOf, Victim DEF EndScreening
<1>2. /\ x.pc = "deadlocked" /\ x.seen = o.seen /\ x.todo = o.todo
      /\ x.hits = o.hits /\ x.lists = o.lists
  BY <1>1, ClosedState DEF Ended
<1>3. screen' = [screen EXCEPT ![s] = x]
  BY DEF EndScreening, Closed
<1> HIDE DEF x
<1> QED BY <1>1, <1>2, <1>3, RecordingExact

LEMMA CommitMatchesExact ==
  ASSUME IInv, Undisturbed, NEW s \in Screening, CommitMatches(s)
  PROVE  Undisturbed'
<1> DEFINE o == screen[s]
           x == Committed(o)
<1>1. o.pc = "persist" /\ o \in ScreenState
  BY ProbeOf DEF CommitMatches
<1>2. /\ x.pc = "done" /\ x.seen = o.seen /\ x.todo = o.todo
      /\ x.hits = o.hits /\ x.lists = o.lists
  BY <1>1, CommittedState
<1>3. screen' = [screen EXCEPT ![s] = x]
  BY DEF CommitMatches, Committed
<1> HIDE DEF x
<1> QED BY <1>1, <1>2, <1>3, RecordingExact

\* A screening under way that meets another list has met two.
LEMMA CommitImportExact ==
  ASSUME IInv, Undisturbed, NEW i \in Import, CommitImport(i)
  PROVE  Undisturbed'
<1> SUFFICES ASSUME NEW s \in Screening, NEW l \in Import \cup {None},
                    screen'[s].lists = {l}, Fits(s, l)
             PROVE  Exact(s, screen'[s], l)
  BY DEF Undisturbed, Fits, Joined, ListOf, RowsOf, Exact, FoundBy, Verdicts, Decide
<1>1. screen[s] \in ScreenState /\ Probe(s, screen[s], latest)
  BY ProbeOf
<1>2. CASE screen[s].pc \in Ended \cup {"idle"}
  <2>1. screen'[s] = screen[s]
    BY <1>2 DEF CommitImport, Ended
  <2> QED BY <2>1 DEF Undisturbed
<1>3. CASE screen[s].pc \notin Ended \cup {"idle"}
  <2>1. screen'[s] = Met(screen[s], i)
    BY <1>3 DEF CommitImport, Met, Ended
  <2>2. latest \in screen[s].lists /\ screen'[s].lists = screen[s].lists \cup {i}
    <3>1. latest \in screen[s].lists
      BY <1>1, <1>3 DEF Probe
    <3>2. Met(screen[s], i).lists = screen[s].lists \cup {i}
      BY <1>1, MetState
    <3> QED BY <2>1, <3>1, <3>2
  <2>3. latest = i
    BY <2>2
  <2>4. latest # None
    BY <2>3, RegistryAssumption
  <2>5. import[i].pc = "completed"
    BY <2>3, <2>4 DEF IInv, Registry, Published
  <2> QED BY <2>5 DEF CommitImport
<1> QED BY <1>2, <1>3

LEMMA InitExact == Init => Undisturbed
<1> SUFFICES ASSUME Init, NEW s \in Screening, NEW l PROVE screen[s].lists # {l}
  BY DEF Undisturbed
<1>1. screen[s] = NoScreen
  BY DEF Init
<1> QED BY <1>1, NoScreenState

LEMMA NextExact == IInv /\ Undisturbed /\ [Next]_vars => Undisturbed'
<1> SUFFICES ASSUME IInv, Undisturbed, [Next]_vars PROVE Undisturbed'
  OBVIOUS
<1>1. ASSUME screen' = screen PROVE Undisturbed'
  BY <1>1, Zenon DEF Undisturbed
<1>2. ASSUME NEW i \in Import, Open(i) \/ ImportStep(i) \/ AbortImport(i), ~CommitImport(i)
      PROVE  Undisturbed'
  <2>1. screen' = screen
    BY <1>2 DEF Open, ImportStep, AbortImport, Wait, DeleteMatches, DeleteChildren,
                BeginSubjects, WaitForSubject, DeleteSubject, EndSubjects,
                InsertSubjects, EndImport, Becomes, Rollback
  <2> QED BY <1>1, <2>1
<1>3. ASSUME NEW s \in Screening, ScreenStep(s) PROVE Undisturbed'
  BY <1>3, SelectCandidatesExact, LoadSubjectExact, SubjectGoneExact, LoadChildrenExact,
     LoadAddressesAndDecideExact, ConcludeExact, WaitForMatchExact, InsertMatchExact,
     EndScreeningExact, CommitMatchesExact DEF ScreenStep
<1>4. ASSUME UNCHANGED vars PROVE Undisturbed'
  BY <1>1, <1>4 DEF vars
<1> QED BY <1>2, <1>3, <1>4, CommitImportExact, StartExact DEF Next, AllDone

\* A screening during which the list was not replaced finds exactly what the
\* list says, for every list whose candidates the limits of its queries do not
\* cut, and answers it, unless it recorded at least two matches when a deadlock
\* with a run of the import tool ended it.
THEOREM UndisturbedCorrect == Spec => []UndisturbedIsExact
<1>1. IInv /\ Undisturbed => UndisturbedIsExact
  <2> SUFFICES ASSUME IInv, Undisturbed, NEW s \in Screening, NEW l \in Import \cup {None},
                      screen[s].lists = {l}, screen[s].pc \in Ended, Fits(s, l)
               PROVE  /\ screen[s].hits = HitsIn(s, l)
                      /\ \/ screen[s].pc = "done"
                         \/ /\ screen[s].pc = "deadlocked"
                            /\ screen[s].persist
                            /\ \E g, h \in screen[s].hits : g # h
    BY DEF UndisturbedIsExact
  <2>1. Exact(s, screen[s], l)
    BY DEF Undisturbed
  <2>2. /\ screen[s].pc \in {"done", "deadlocked"} /\ screen[s].todo = {}
        /\ screen[s].seen = FoundBy(s, Query, l)
        /\ screen[s].hits = Verdicts(s, screen[s].seen \ screen[s].todo)
    BY <2>1 DEF Exact, Asked, Query, Loading, Ended
  <2>3. FoundBy(s, Query, l) = Candidates(s, l)
    <3>1. \A y \in ListOf(l) : Found[s][y.record] \in SUBSET (Query \X Child)
      BY ListsAreRows, RegistryAssumption DEF Row
    <3>2. \A y \in ListOf(l) : Found[s][y.record] # {} <=>
                                 \E f \in Found[s][y.record] : f[1] \in Query
      BY <3>1
    <3> QED BY <3>2 DEF FoundBy, Candidates
  <2>4. screen[s].hits = HitsIn(s, l)
    BY <2>2, <2>3 DEF Verdicts, HitsIn
  <2> QED BY <2>2, <2>4, ProbeOf DEF Recording
<1> QED BY <1>1, InitExact, NextExact, InitEstablishes, NextKeeps, PTL DEF Spec
=============================================================================
