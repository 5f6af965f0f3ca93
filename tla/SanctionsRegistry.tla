-------------------------- MODULE SanctionsRegistry --------------------------
(***************************************************************************)
(* The sanctions list in PostgreSQL: its replacement by                    *)
(* replace_uk_sanctions_from_xml (app/application/sanctions/               *)
(* import_service.py, one transaction per run of the command-line tool)    *)
(* and the screening of a person against it by screen_subject              *)
(* (screening_service.py, several SELECTs at READ COMMITTED).              *)
(*                                                                         *)
(* A subject row stands for the row and its names, documents and           *)
(* addresses: they are inserted and deleted in the same transaction, and   *)
(* the foreign keys of the child tables cascade.  A statement that finds a *)
(* row locked waits and then works on the rows of its own snapshot that    *)
(* are still there.  Runs and screenings lock subjects one by one; the     *)
(* other locks, which only runs contend for, are taken by whole tables.    *)
(***************************************************************************)
EXTENDS Naturals, FiniteSets

CONSTANTS
  Import,     \* runs of the import tool; each runs once
  Screening,  \* calls of screen_subject; each runs once
  Record,     \* designations: the versions of a designation are distinct
  UniqueId,
  Uid,        \* [Record -> UniqueId]
  File,       \* [Import -> SUBSET Record]: the parsed file of each run
  Agrees,     \* per screening and record, the fields found to agree
  Child,      \* the names and documents a designation may have, "no document"
              \* of the outer join among them
  Found,      \* per screening and record, the candidate queries that find it,
              \* each with a child it finds it by
  Limit,      \* the limit of a screening
  None        \* "no value"; as a list, the empty registry

\* What decide_match compares, by the table it is read from.  "name" is a name
\* score of at least 92, "similar" one from 82, "alias" an exact alias.
RowField      == {"identifier", "date_of_birth", "nationality"}
NameField     == {"name", "alias", "similar"}
DocumentField == {"document"}
AddressField  == {"address"}
Field == RowField \cup NameField \cup DocumentField \cup AddressField

\* The three SELECTs of _candidate_subject_ids.
Query == {"identifiers", "names", "prefixes"}

ASSUME RegistryAssumption ==
  /\ Uid \in [Record -> UniqueId]
  /\ File \in [Import -> SUBSET Record]
  /\ Agrees \in [Screening -> [Record -> SUBSET Field]]
  /\ Found \in [Screening -> [Record -> SUBSET (Query \X Child)]]
  /\ Limit \in Nat \ {0}
  /\ None \notin Import \cup [list : Import, record : Record]
  /\ Import \cap Screening = {}

ASSUME FinitenessAssumption ==
  /\ IsFiniteSet(Child)
  /\ \A i \in Import : IsFiniteSet(File[i])

\* A file names a designation once, and any two files have one in common.
ASSUME FilesAssumption ==
  /\ \A i \in Import : \A q, r \in File[i] : Uid[q] = Uid[r] => q = r
  /\ \A i, j \in Import : \E q \in File[i], r \in File[j] : Uid[q] = Uid[r]

VARIABLES
  subjects,  \* committed rows of sanctions_subjects
  matches,   \* committed rows of sanctions_matches
  latest,    \* the last run to commit a sanctions_import_runs row, or None
  import,    \* the transaction of each run
  screen     \* the local state of each screening

vars == <<subjects, matches, latest, import, screen>>

\* A subject's id is new with every import: the run that inserted it and its
\* record.
Row   == [list : Import, record : Record]
Match == [row : Row, by : Screening]

Levels == {"confirmed", "review"}
Hit    == [row : Row, level : Levels]

(***************************************************************************)
(* pc of a run: the statement it stands before.  The DELETEs of addresses, *)
(* documents and names are the statement "children"; "deleting" stands     *)
(* inside the DELETE of the subjects.                                      *)
(***************************************************************************)
ImportState ==
  [pc       : {"idle", "matches", "children", "subjects", "deleting",
               "insert", "inserted", "completed", "failed"},
   waiting  : BOOLEAN,       \* "matches" or "children" waits for a lock
   snapshot : SUBSET (Row \cup Match), \* what it saw when it began to wait;
                             \* "deleting": the subjects it has still to lock
   row      : Row \cup {None}, \* "deleting": the subject it waits for
   dropped  : SUBSET Match,  \* matches it has deleted
   claims   : SUBSET Row,    \* subjects whose children it has deleted
   deleted  : SUBSET Row]    \* subjects it has deleted

(***************************************************************************)
(* pc of a screening: the SELECT or write it stands before, or how it has  *)
(* ended: with an answer, an error, or as the victim of a deadlock.        *)
(***************************************************************************)
Ended == {"done", "failed", "deadlocked"}

ScreenState ==
  [pc      : Query \cup Ended
               \cup {"idle", "subject", "subject_names", "subject_documents",
                     "subject_addresses", "persist"},
   persist : BOOLEAN,           \* persist_matches
   todo    : SUBSET Row,        \* candidate ids not yet loaded
   seen    : SUBSET Row,        \* candidate ids so far
   row     : Row \cup {None},   \* the candidate being loaded; "persist":
                                \* the subject an INSERT waits for
   fields  : SUBSET Field,      \* what agrees in the rows read of it
   hits    : SUBSET Hit,
   held    : SUBSET Row,        \* subjects of the matches inserted so far
   lists   : SUBSET (Import \cup {None})] \* auxiliary: the lists in force so far

NoImport == [pc |-> "idle", waiting |-> FALSE, snapshot |-> {}, row |-> None,
             dropped |-> {}, claims |-> {}, deleted |-> {}]

NoScreen == [pc |-> "idle", persist |-> FALSE, todo |-> {}, seen |-> {},
             row |-> None, fields |-> {}, hits |-> {}, held |-> {},
             lists |-> {}]

TypeOK ==
  /\ subjects \subseteq Row
  /\ matches \subseteq Match
  /\ latest \in Import \cup {None}
  /\ import \in [Import -> ImportState]
  /\ screen \in [Screening -> ScreenState]

Init ==
  /\ subjects = {}
  /\ matches = {}
  /\ latest = None
  /\ import = [i \in Import |-> NoImport]
  /\ screen = [s \in Screening |-> NoScreen]

\* The rows a run inserts: each with an id of its own.
RowsOf(i) == [list : {i}, record : File[i]]

\* The list in force after run l committed.
ListOf(l) == IF l = None THEN {} ELSE RowsOf(l)

-----------------------------------------------------------------------------
(***************************************************************************)
(* Locks of PostgreSQL: a table, and a row or a key in it.                 *)
(***************************************************************************)
Party == Import \cup Screening

KeysOf(records) == {Uid[r] : r \in records}

\* Mutant: the matches are looked up among the subjects.
VisibleSubjects(i) == subjects

\* The rows the statement of run i would delete, as committed now.
Visible(i) == IF import[i].pc = "matches" THEN matches ELSE subjects

\* A statement that waited deletes what it saw then and is still there.
Target(i) ==
  IF import[i].waiting THEN import[i].snapshot \cap Visible(i) ELSE Visible(i)

\* What a transaction has locked: a screening the subjects its matches refer to
\* (FOR KEY SHARE), a run what it has deleted and the unique_ids it has freed
\* or inserted.
Locks(p) ==
  IF p \in Screening THEN {"subject"} \X screen[p].held
  ELSE LET o == import[p]
           keys == KeysOf({x.record : x \in o.deleted})
                     \cup (IF o.pc = "inserted" THEN KeysOf(File[p]) ELSE {})
       IN ({"match"} \X o.dropped) \cup ({"child"} \X o.claims)
            \cup ({"subject"} \X o.deleted) \cup ({"key"} \X keys)

\* Screenings do not exclude each other.
Blocks(q, p, locks) ==
  /\ q # p
  /\ ~({p, q} \subseteq Screening)
  /\ locks \cap Locks(q) # {}

Free(p, locks) == \A q \in Party : ~Blocks(q, p, locks)

\* What a statement under way waits for.
Wants(p) ==
  IF p \in Screening
  THEN IF screen[p].pc = "persist" THEN {"subject"} \X {screen[p].row} ELSE {}
  ELSE LET o == import[p]
       IN CASE o.pc = "matches" /\ o.waiting -> {"match"} \X Target(p)
            [] o.pc = "children" /\ o.waiting -> {"child"} \X Target(p)
            [] o.pc = "deleting" /\ o.snapshot # {} -> {"subject"} \X {o.row}
            [] o.pc = "deleting" /\ o.snapshot = {} -> {"child"} \X o.deleted
            [] o.pc = "insert" -> {"key"} \X KeysOf(File[p])
            [] OTHER -> {}

Blockers(p) == {q \in Party : Blocks(q, p, Wants(p))}

\* A transaction that waits for itself in the end: every set of transactions
\* that holds those it waits for, and those these wait for, holds it.
Deadlocked(p) ==
  LET blockers == [q \in Party |-> Blockers(q)]
      Closed(T) == \A q \in T : blockers[q] \subseteq T
  IN /\ Blockers(p) # {}
     /\ \A T \in SUBSET Party : blockers[p] \subseteq T /\ Closed(T) => p \in T

-----------------------------------------------------------------------------
(***************************************************************************)
(* replace_uk_sanctions_from_xml.                                          *)
(***************************************************************************)
End(i, outcome) == import' = [import EXCEPT ![i] = [NoImport EXCEPT !.pc = outcome]]

Rollback(i) == End(i, "failed") /\ UNCHANGED <<subjects, matches, latest, screen>>

\* A step inside the transaction of a run.
Becomes(i, i1) ==
  /\ import' = [import EXCEPT ![i] = i1]
  /\ UNCHANGED <<subjects, matches, latest, screen>>

Open(i) ==
  /\ import[i].pc = "idle"
  /\ Becomes(i, [import[i] EXCEPT !.pc = "matches"])

Wait(i) ==
  LET table == IF import[i].pc = "matches" THEN "match" ELSE "child"
  IN /\ import[i].pc \in {"matches", "children"}
     /\ ~import[i].waiting
     /\ ~Free(i, {table} \X Visible(i))
     /\ Becomes(i, [import[i] EXCEPT !.waiting = TRUE, !.snapshot = Visible(i)])

DeleteMatches(i) ==
  /\ import[i].pc = "matches"
  /\ Free(i, {"match"} \X Target(i))
  /\ Becomes(i, [import[i] EXCEPT !.pc = "children", !.dropped = Target(i),
                                  !.waiting = FALSE, !.snapshot = {}])

\* After a wait a further child table may follow, with a new snapshot.
DeleteChildren(i) ==
  /\ import[i].pc = "children"
  /\ Free(i, {"child"} \X Target(i))
  /\ \E next \in {"subjects"} \cup (IF import[i].waiting THEN {"children"} ELSE {}) :
       Becomes(i, [import[i] EXCEPT !.pc = next, !.claims = @ \cup Target(i),
                                    !.waiting = FALSE, !.snapshot = {}])

\* The DELETE of the subjects takes its snapshot.
BeginSubjects(i) ==
  /\ import[i].pc = "subjects"
  /\ Becomes(i, [import[i] EXCEPT !.pc = "deleting", !.snapshot = subjects])

\* The rows a statement may turn to: any of those left, in no order the code
\* knows of, but the one it waits for if it waits.
Turns(row, left) == IF row = None THEN left ELSE {row}

WaitForSubject(i) ==
  /\ import[i].pc = "deleting"
  /\ import[i].row = None
  /\ \E x \in import[i].snapshot :
       /\ ~Free(i, {"subject"} \X {x})
       /\ Becomes(i, [import[i] EXCEPT !.row = x])

\* A row that is gone by then is passed over.
DeleteSubject(i) ==
  /\ import[i].pc = "deleting"
  /\ \E x \in Turns(import[i].row, import[i].snapshot) :
       /\ Free(i, {"subject"} \X {x})
       /\ Becomes(i, [import[i] EXCEPT !.snapshot = @ \ {x}, !.row = None,
                                       !.deleted = @ \cup ({x} \cap subjects)])

\* Mutant: the foreign key of sanctions_matches is not enforced.
RefusedNever(i) == FALSE

\* sanctions_matches does not cascade: a match not yet deleted refuses the
\* DELETE of its subject.
Refused(i) == \E m \in matches \ import[i].dropped : m.row \in import[i].deleted

\* The end of the DELETE: the foreign keys are checked, and the children that
\* are still there are deleted with their subjects.
EndSubjects(i) ==
  /\ import[i].pc = "deleting"
  /\ import[i].snapshot = {}
  /\ \/ Refused(i) /\ Rollback(i)
     \/ /\ ~Refused(i)
        /\ Free(i, {"child"} \X import[i].deleted)
        /\ Becomes(i, [import[i] EXCEPT !.pc = "insert",
                                        !.claims = @ \cup import[i].deleted])

\* Mutant: no unique constraint on (source, unique_id).
RivalsUnseen(i) == {}

\* Rows run i has not deleted that bear a unique_id of its file.
Rivals(i) ==
  {x \in subjects \ import[i].deleted : Uid[x.record] \in KeysOf(File[i])}

\* uq_sanctions_subject_source_unique: a rival that stays refuses the INSERTs,
\* one whose transaction is open makes them wait.
InsertSubjects(i) ==
  LET Leaving == UNION {import[j].deleted : j \in Import \ {i}}
  IN /\ import[i].pc = "insert"
     /\ \/ Rivals(i) \ Leaving # {} /\ Rollback(i)
        \/ /\ Rivals(i) = {}
           /\ Free(i, {"key"} \X KeysOf(File[i]))
           /\ Becomes(i, [import[i] EXCEPT !.pc = "inserted"])

\* Every screening under way has now met one more list.
CommitImport(i) ==
  /\ import[i].pc = "inserted"
  /\ subjects' = (subjects \ import[i].deleted) \cup RowsOf(i)
  /\ matches' = matches \ import[i].dropped
  /\ latest' = i
  /\ End(i, "completed")
  /\ screen' = [s \in Screening |->
                  IF screen[s].pc \in Ended \cup {"idle"} THEN screen[s]
                  ELSE [screen[s] EXCEPT !.lists = @ \cup {i}]]

\* PostgreSQL ends a transaction of a deadlock, whichever it finds first.
EndImport(i) == Deadlocked(i) /\ Rollback(i)

\* The process dies.
AbortImport(i) ==
  /\ import[i].pc \notin {"idle", "completed", "failed"}
  /\ Rollback(i)

-----------------------------------------------------------------------------
(***************************************************************************)
(* decide_match and build_screening_result.                                *)
(***************************************************************************)
\* A date of birth, an address or a document supports a name; a nationality
\* does so only together with an exact alias.
Supported(f) ==
  \/ f \cap {"document", "date_of_birth", "address"} # {}
  \/ {"nationality", "alias"} \subseteq f

Confirms(f) == "identifier" \in f \/ ("name" \in f /\ Supported(f))

\* The hits of a candidate whose rows agree in the fields f: none or one.
\* Anything that agrees calls for a review at least.
Decide(x, f) ==
  IF f = {} THEN {}
  ELSE {[row |-> x, level |-> IF Confirms(f) THEN "confirmed" ELSE "review"]}

Zone(hits) ==
  IF \E h \in hits : h.level = "confirmed" THEN "RED"
  ELSE IF hits # {} THEN "MANUAL_REVIEW" ELSE "NO_MATCH"

-----------------------------------------------------------------------------
(***************************************************************************)
(* screen_subject.                                                         *)
(***************************************************************************)
Start(s, persist) ==
  /\ screen[s].pc = "idle"
  /\ screen' = [screen EXCEPT ![s] =
                  [NoScreen EXCEPT !.pc = "identifiers", !.persist = persist,
                                   !.lists = {latest}]]
  /\ UNCHANGED <<subjects, matches, latest, import>>

\* The rows a candidate query joins of the subjects S, one per child.
Joined(s, query, S) == {t \in S \X Child : <<query, t[2]>> \in Found[s][t[1].record]}

\* Any n elements of a set, or all when there are fewer.
Limited(S, n) ==
  {T \in SUBSET S : Cardinality(T) = IF Cardinality(S) > n THEN n ELSE Cardinality(S)}

\* What a candidate query returns: its LIMIT n counts joined rows, those of
\* known subjects included; what is new is cut to the room left.
Selections(s, n) ==
  LET room == Limit - Cardinality(screen[s].seen)
  IN UNION {Limited({t[1] : t \in T} \ screen[s].seen, room) :
              T \in Limited(Joined(s, screen[s].pc, subjects), n)}

\* Mutant: the search by prefix is left out.
ThenWithoutPrefixes(pc) == IF pc = "identifiers" THEN "names" ELSE "subject"

Then(pc) == IF pc = "identifiers" THEN "names"
            ELSE IF pc = "names" THEN "prefixes" ELSE "subject"

\* The names are searched only while there is room.
SelectCandidates(s) ==
  LET pc   == screen[s].pc
      room == Limit - Cardinality(screen[s].seen)
      n    == IF pc = "prefixes" THEN room ELSE Limit
  IN /\ pc \in Query
     /\ \E N \in IF room > 0 THEN Selections(s, n) ELSE {{}} :
          screen' = [screen EXCEPT ![s].pc = Then(pc), ![s].seen = @ \cup N,
                                   ![s].todo = @ \cup N]
     /\ UNCHANGED <<subjects, matches, latest, import>>

\* Mutant: the children are read by unique_id.
ReadByUniqueId(s, x, kind) ==
  UNION {Agrees[s][y.record] \cap kind :
           y \in {z \in subjects : Uid[z.record] = Uid[x.record]}}

\* The fields among kind that agree in rows which are still there.
Read(s, x, kind) ==
  IF x \in subjects THEN Agrees[s][x.record] \cap kind ELSE {}

LoadSubject(s) ==
  /\ screen[s].pc = "subject"
  /\ \E x \in screen[s].todo :
       /\ x \in subjects
       /\ screen' = [screen EXCEPT ![s].pc = "subject_names", ![s].row = x,
                       ![s].todo = @ \ {x}, ![s].fields = Read(s, x, RowField)]
  /\ UNCHANGED <<subjects, matches, latest, import>>

\* LookupError: the candidate was replaced since.
SubjectGone(s) ==
  /\ screen[s].pc = "subject"
  /\ \E x \in screen[s].todo : x \notin subjects
  /\ screen' = [screen EXCEPT ![s].pc = "failed"]
  /\ UNCHANGED <<subjects, matches, latest, import>>

LoadChildren(s) ==
  LET load(kind, next) ==
        screen' = [screen EXCEPT ![s].pc = next,
                     ![s].fields = @ \cup Read(s, screen[s].row, kind)]
  IN /\ \/ screen[s].pc = "subject_names" /\ load(NameField, "subject_documents")
        \/ screen[s].pc = "subject_documents" /\ load(DocumentField, "subject_addresses")
     /\ UNCHANGED <<subjects, matches, latest, import>>

\* The last SELECT of a candidate, and decide_match.
LoadAddressesAndDecide(s) ==
  /\ screen[s].pc = "subject_addresses"
  /\ LET x == screen[s].row
         f == screen[s].fields \cup Read(s, x, AddressField)
     IN screen' = [screen EXCEPT ![s].pc = "subject", ![s].row = None,
                     ![s].fields = {}, ![s].hits = @ \cup Decide(x, f)]
  /\ UNCHANGED <<subjects, matches, latest, import>>

Conclude(s) ==
  /\ screen[s].pc = "subject"
  /\ screen[s].todo = {}
  /\ screen' = [screen EXCEPT ![s].pc =
                  IF screen[s].persist /\ screen[s].hits # {} THEN "persist" ELSE "done"]
  /\ UNCHANGED <<subjects, matches, latest, import>>

HitRows(s) == {h.row : h \in screen[s].hits}

\* The flush inserts the matches one after another.  The foreign key of each
\* waits for a run that has deleted its subject.
WaitForMatch(s) ==
  /\ screen[s].pc = "persist"
  /\ screen[s].row = None
  /\ \E x \in HitRows(s) \ screen[s].held :
       /\ ~Free(s, {"subject"} \X {x})
       /\ screen' = [screen EXCEPT ![s].row = x]
  /\ UNCHANGED <<subjects, matches, latest, import>>

\* Mutant: the INSERT is retried until its subject is there.
InsertedRetried(o, x) ==
  IF x \in subjects THEN [o EXCEPT !.row = None, !.held = @ \cup {x}] ELSE o

\* The foreign key refuses a match whose subject is gone.
Inserted(o, x) ==
  IF x \in subjects THEN [o EXCEPT !.row = None, !.held = @ \cup {x}]
  ELSE [o EXCEPT !.pc = "failed", !.row = None, !.held = {}]

InsertMatch(s) ==
  /\ screen[s].pc = "persist"
  /\ \E x \in Turns(screen[s].row, HitRows(s) \ screen[s].held) :
       /\ Free(s, {"subject"} \X {x})
       /\ screen' = [screen EXCEPT ![s] = Inserted(@, x)]
  /\ UNCHANGED <<subjects, matches, latest, import>>

EndScreening(s) ==
  /\ Deadlocked(s)
  /\ screen' = [screen EXCEPT ![s].pc = "deadlocked", ![s].row = None,
                              ![s].held = {}]
  /\ UNCHANGED <<subjects, matches, latest, import>>

CommitMatches(s) ==
  /\ screen[s].pc = "persist"
  /\ screen[s].held = HitRows(s)
  /\ matches' = matches \cup [row : HitRows(s), by : {s}]
  /\ screen' = [screen EXCEPT ![s].pc = "done", ![s].held = {}]
  /\ UNCHANGED <<subjects, latest, import>>

-----------------------------------------------------------------------------
ImportStep(i) ==
  \/ Wait(i)
  \/ DeleteMatches(i)
  \/ DeleteChildren(i)
  \/ BeginSubjects(i)
  \/ WaitForSubject(i)
  \/ DeleteSubject(i)
  \/ EndSubjects(i)
  \/ InsertSubjects(i)
  \/ CommitImport(i)
  \/ EndImport(i)

ScreenStep(s) ==
  \/ SelectCandidates(s)
  \/ LoadSubject(s)
  \/ SubjectGone(s)
  \/ LoadChildren(s)
  \/ LoadAddressesAndDecide(s)
  \/ Conclude(s)
  \/ WaitForMatch(s)
  \/ InsertMatch(s)
  \/ EndScreening(s)
  \/ CommitMatches(s)

AllDone ==
  /\ \A i \in Import : import[i].pc \in {"completed", "failed"}
  /\ \A s \in Screening : screen[s].pc \in Ended
  /\ UNCHANGED vars

Next ==
  \/ \E i \in Import : Open(i) \/ ImportStep(i) \/ AbortImport(i)
  \/ \E s \in Screening :
       \/ \E persist \in BOOLEAN : Start(s, persist)
       \/ ScreenStep(s)
  \/ AllDone

Spec == Init /\ [][Next]_vars

\* PostgreSQL answers some statement that need not wait, or ends a deadlock,
\* and the tool or the event loop goes on with the answer: as long as anything
\* can be done at all, something is.
FairSpec ==
  Spec /\ WF_vars((\E i \in Import : ImportStep(i)) \/ (\E s \in Screening : ScreenStep(s)))
-----------------------------------------------------------------------------
\* The registry is always exactly one published list, the last one committed:
\* runs of the tool that overlap neither mix their lists nor lose part of one
\* (import_service.py:96-160 runs its DELETEs and INSERTs without a lock of its
\* own).
OneListInForce == subjects = ListOf(latest)

Candidates(s, l) == {x \in ListOf(l) : Found[s][x.record] # {}}

\* The hits of a screening that reads list l only.
HitsIn(s, l) == UNION {Decide(x, Agrees[s][x.record]) : x \in Candidates(s, l)}

\* A hit is never made up from parts of two lists: what was found of a
\* candidate is at most what the list it belongs to, which was in force during
\* the screening, says of it.
HitsAreListed ==
  \A s \in Screening : \A h \in screen[s].hits :
    /\ h.row.list \in screen[s].lists
    /\ h.level = "confirmed" => h \in HitsIn(s, h.row.list)

\* The rows of the candidate queries fit their limits: two have the limit of
\* the screening, the last what the subjects found before leave of it.
Fits(s, l) ==
  LET joined(query) == Joined(s, query, ListOf(l))
      known == {t[1] : t \in joined("identifiers") \cup joined("names")}
  IN /\ Cardinality(joined("identifiers")) <= Limit
     /\ Cardinality(joined("names")) <= Limit
     /\ Cardinality(known) + Cardinality(joined("prefixes")) <= Limit

\* A screening during which the list was not replaced, and whose queries fit
\* their limits, finds exactly what that list says, and answers it, unless it
\* records several matches (screening_service.py:165-184) in a deadlock with a
\* run that deletes their subjects (import_service.py:101).  No other error
\* reaches it, and none at all a screening with one hit or without recording.
UndisturbedIsExact ==
  \A s \in Screening : \A l \in Import \cup {None} :
    (/\ screen[s].lists = {l}
     /\ screen[s].pc \in Ended
     /\ Fits(s, l))
    => /\ screen[s].hits = HitsIn(s, l)
       /\ \/ screen[s].pc = "done"
          \/ /\ screen[s].pc = "deadlocked"
             /\ screen[s].persist
             /\ \E g, h \in screen[s].hits : g # h

\* A recorded match points at a subject of the list in force, whether it was
\* written before, during or after a replacement.
MatchesAreListed == {m.row : m \in matches} \subseteq subjects

\* Every run of the tool and every screening ends, although runs wait for each
\* other and for the screenings that record matches, and these for them: no
\* wait is outside PostgreSQL's sight (the event loop holds no lock of its own
\* across the INSERTs), so that a deadlock ends one of them.
EveryoneFinishes ==
  <>[](/\ \A i \in Import : import[i].pc \in {"idle", "completed", "failed"}
       /\ \A s \in Screening : screen[s].pc \in Ended \cup {"idle"})

\* README.md:78-79: a confirmed match by Unique ID, OFSI Group ID, document or
\* name and secondary field gives override_hit: a person whom every list in
\* force during the screening confirms is reported so.
ListedIsReported ==
  \A s \in Screening :
    (/\ screen[s].pc = "done"
     /\ \A l \in screen[s].lists : Zone(HitsIn(s, l)) = "RED")
    => Zone(screen[s].hits) = "RED"
=============================================================================
