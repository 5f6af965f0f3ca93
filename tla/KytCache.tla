------------------------------ MODULE KytCache ------------------------------
(***************************************************************************)
(* The cache of external KYT screenings: load_external_kyt_context,        *)
(* load_fresh_kyt_provider_report, save_kyt_provider_report and            *)
(* delete_kyt_provider_report of app/application/risk/service.py, over     *)
(* the tables kyt_provider_reports and kyt_exposures of app/models.py.     *)
(*                                                                         *)
(* A session is one HTTP request with its database transaction.  The       *)
(* module follows the statements of the transaction and the row locks      *)
(* PostgreSQL takes for them at READ COMMITTED; writes take effect at the  *)
(* commit.  What an assessment does between its statements on the cache    *)
(* and its commit is not modelled, except that it may raise.               *)
(***************************************************************************)
EXTENDS Naturals

CONSTANTS
  Session,   \* the requests; each runs once
  Key,       \* (provider, network, normalised address)
  Response,  \* what a provider can answer for a key
  None       \* "no value"

\* A report is named by the session that inserted it: a session inserts at
\* most one.  fresh stands for expires_at > now.
Report   == [id : Session, payload : Response, fresh : BOOLEAN]
Exposure == [report : Session, of : Response, by : Session]

ASSUME KytAssumption == None \notin Session \cup Response \cup Report

VARIABLES
  reports,    \* per key, the committed row of kyt_provider_reports, or None
  exposures,  \* committed rows of kyt_exposures; one element stands for the
              \* rows that one save derived from one response
  rowLock,    \* per key, the session holding the lock of its report row
  expLock,    \* per key, the session holding the locks of its exposure rows
  req         \* the local state of each request

vars == <<reports, exposures, rowLock, expLock, req>>

(***************************************************************************)
(* pc names the statement the session stands before:                       *)
(*   loading   the SELECT of a fresh report                                *)
(*   calling   the answer of the provider                                  *)
(*   fetched   the SELECT of the row to update                             *)
(*   selected  the flush of the row (line 524)                             *)
(*   flushed   the DELETE and INSERTs of the exposures (lines 526-550)     *)
(*   written   the commit                                                  *)
(*   found     a removal: the DELETE of the exposures                      *)
(*   unlinked  a removal: the DELETE of the report, and the commit         *)
(***************************************************************************)
Calls == 0 .. 2

Request ==
  [pc     : {"idle", "loading", "calling", "fetched", "selected", "flushed",
             "written", "found", "unlinked", "done"},
   key    : Key \cup {None},
   force  : BOOLEAN,                 \* force_kyt_refresh
   calls  : Calls,                   \* calls of load_external_kyt_context left
   got    : Response \cup {None},    \* the screening the provider returned
   row    : Session \cup {None},     \* id of the report the SELECT returned
   seen   : Response \cup {None}]    \* its payload then

Idle == [pc |-> "idle", key |-> None, force |-> FALSE, calls |-> 0,
         got |-> None, row |-> None, seen |-> None]

TypeOK ==
  /\ reports \in [Key -> Report \cup {None}]
  /\ exposures \subseteq Exposure
  /\ rowLock \in [Key -> Session \cup {None}]
  /\ expLock \in [Key -> Session \cup {None}]
  /\ req \in [Session -> Request]

Init ==
  /\ reports = [k \in Key |-> None]
  /\ exposures = {}
  /\ rowLock = [k \in Key |-> None]
  /\ expLock = [k \in Key |-> None]
  /\ req = [s \in Session |-> Idle]

\* The request has been answered; its local state is gone.
End(s) == req' = [req EXCEPT ![s] = [Idle EXCEPT !.pc = "done"]]

Tables == <<reports, exposures>>
Locks  == <<rowLock, expLock>>

-----------------------------------------------------------------------------
(***************************************************************************)
(* An assessment asks for a screening.  With skip_wallet_collection it     *)
(* asks twice: the second call returns at once when the first succeeded    *)
(* (lines 853, 901 and 586).                                               *)
(***************************************************************************)
Ask(s, k, force, calls) ==
  /\ req[s].pc = "idle"
  /\ req' = [req EXCEPT ![s] = [Idle EXCEPT !.pc = "loading", !.key = k,
                                  !.force = force, !.calls = calls]]
  /\ UNCHANGED <<Tables, Locks>>

\* The row load_fresh_kyt_provider_report finds.
Served(s) ==
  LET r == reports[req[s].key]
  IN ~req[s].force /\ r # None /\ r.fresh

CacheHit(s) ==
  /\ req[s].pc = "loading"
  /\ Served(s)
  /\ End(s)
  /\ UNCHANGED <<Tables, Locks>>

CacheMiss(s) ==
  /\ req[s].pc = "loading"
  /\ ~Served(s)
  /\ req' = [req EXCEPT ![s].pc = "calling"]
  /\ UNCHANGED <<Tables, Locks>>

ProviderAnswers(s, r) ==
  /\ req[s].pc = "calling"
  /\ req' = [req EXCEPT ![s].pc = "fetched", ![s].got = r]
  /\ UNCHANGED <<Tables, Locks>>

\* Either the error ends the request (external_kyt_required, or no call left)
\* or the assessment goes on and asks again.
ProviderFails(s) ==
  /\ req[s].pc = "calling"
  /\ \/ End(s)
     \/ /\ req[s].calls = 2
        /\ req' = [req EXCEPT ![s].pc = "loading", ![s].calls = 1]
  /\ UNCHANGED <<Tables, Locks>>

-----------------------------------------------------------------------------
(***************************************************************************)
(* save_kyt_provider_report.                                               *)
(***************************************************************************)
SelectReport(s) ==
  LET r == reports[req[s].key]
  IN /\ req[s].pc = "fetched"
     /\ req' = [req EXCEPT ![s].pc = "selected",
                  ![s].row = IF r = None THEN None ELSE r.id,
                  ![s].seen = IF r = None THEN None ELSE r.payload]
     /\ UNCHANGED <<Tables, Locks>>

\* Is the row the session read, or none, still what is committed?
Present(s) ==
  LET r == reports[req[s].key]
  IN r # None /\ r.id = req[s].row

\* The INSERT needs the key to be free (uq_kyt_provider_report_subject), the
\* UPDATE needs its row to be there (StaleDataError otherwise).
Flushable(s) ==
  IF req[s].row = None THEN reports[req[s].key] = None ELSE Present(s)

Flush(s) ==
  /\ req[s].pc = "selected"
  /\ rowLock[req[s].key] = None
  /\ Flushable(s)
  /\ rowLock' = [rowLock EXCEPT ![req[s].key] = s]
  /\ req' = [req EXCEPT ![s].pc = "flushed"]
  /\ UNCHANGED <<Tables, expLock>>

ReplaceExposures(s) ==
  /\ req[s].pc = "flushed"
  /\ expLock[req[s].key] = None
  /\ expLock' = [expLock EXCEPT ![req[s].key] = s]
  /\ req' = [req EXCEPT ![s].pc = "written"]
  /\ UNCHANGED <<Tables, rowLock>>

\* The end of the session, by commit or rollback, frees its locks.
Unlocked(lock, s) == [k \in Key |-> IF lock[k] = s THEN None ELSE lock[k]]

Release(s) ==
  /\ rowLock' = Unlocked(rowLock, s)
  /\ expLock' = Unlocked(expLock, s)

\* Mutant: a save of a new report never learns the id of its row.
ReportIdSelected(s) == req[s].row

ReportId(s) == IF req[s].row = None THEN s ELSE req[s].row

\* The UPDATE names the columns whose value differs from the one read: the
\* others keep what has been committed meanwhile.  The timestamps always
\* differ.
WrittenPayload(s) ==
  IF req[s].row # None /\ req[s].got = req[s].seen
    THEN reports[req[s].key].payload
    ELSE req[s].got

Except(id) == {e \in exposures : e.report # id}

\* Mutant: the new exposures are added to the old ones.
ExposuresAfterKept(s) ==
  exposures \cup {[report |-> ReportId(s), of |-> req[s].got, by |-> s]}

ExposuresAfter(s) ==
  Except(ReportId(s)) \cup
    {[report |-> ReportId(s), of |-> req[s].got, by |-> s]}

Commit(s) ==
  /\ req[s].pc = "written"
  /\ reports' = [reports EXCEPT ![req[s].key] =
                   [id |-> ReportId(s), payload |-> WrittenPayload(s),
                    fresh |-> TRUE]]
  /\ exposures' = ExposuresAfter(s)
  /\ End(s)
  /\ Release(s)

-----------------------------------------------------------------------------
(***************************************************************************)
(* delete_kyt_provider_report.                                             *)
(***************************************************************************)
Find(s, k) ==
  LET r == reports[k]
  IN /\ req[s].pc = "idle"
     /\ IF r = None
          THEN End(s)
          ELSE req' = [req EXCEPT ![s] = [Idle EXCEPT !.pc = "found",
                                            !.key = k, !.row = r.id]]
     /\ UNCHANGED <<Tables, Locks>>

\* The ORM deletes the exposures it has loaded first.
Unlink(s) ==
  /\ req[s].pc = "found"
  /\ IF Present(s)
       THEN /\ expLock[req[s].key] = None
            /\ expLock' = [expLock EXCEPT ![req[s].key] = s]
       ELSE UNCHANGED expLock
  /\ req' = [req EXCEPT ![s].pc = "unlinked"]
  /\ UNCHANGED <<Tables, rowLock>>

\* Exposures saved in between go with the report (ON DELETE CASCADE).
Remove(s) ==
  /\ req[s].pc = "unlinked"
  /\ IF Present(s)
       THEN /\ rowLock[req[s].key] = None
            /\ reports' = [reports EXCEPT ![req[s].key] = None]
            /\ exposures' = Except(req[s].row)
       ELSE UNCHANGED Tables
  /\ End(s)
  /\ Release(s)

-----------------------------------------------------------------------------
(***************************************************************************)
(* Ends without effect.                                                    *)
(***************************************************************************)
\* Mutant: a session that failed is not closed.
FailUnclosed(s) ==
  /\ End(s)
  /\ UNCHANGED <<Tables, Locks>>

Fail(s) ==
  /\ End(s)
  /\ Release(s)
  /\ UNCHANGED Tables

\* The INSERT lost a race, or the row to update was deleted.
FlushFails(s) ==
  /\ req[s].pc = "selected"
  /\ rowLock[req[s].key] = None
  /\ ~Flushable(s)
  /\ Fail(s)

\* The rest of the assessment raises, the client or the process goes away.
Abandon(s) ==
  /\ req[s].pc \notin {"idle", "done"}
  /\ Fail(s)

\* A save locks the report and then its exposures, a removal the other way
\* round: PostgreSQL ends one of two sessions that wait for each other.
Deadlocked(s, t) ==
  /\ req[s].pc = "flushed"
  /\ req[t].pc = "unlinked"
  /\ Present(t)
  /\ rowLock[req[t].key] = s
  /\ expLock[req[s].key] = t

DeadlockDetected(s) ==
  /\ \E t \in Session : Deadlocked(s, t) \/ Deadlocked(t, s)
  /\ Fail(s)

\* expires_at passes.
Expire(k) ==
  /\ reports[k] # None
  /\ reports[k].fresh
  /\ reports' = [reports EXCEPT ![k].fresh = FALSE]
  /\ UNCHANGED <<exposures, Locks, req>>

-----------------------------------------------------------------------------
Step(s) ==
  \/ CacheHit(s)
  \/ CacheMiss(s)
  \/ \E r \in Response : ProviderAnswers(s, r)
  \/ ProviderFails(s)
  \/ SelectReport(s)
  \/ Flush(s)
  \/ FlushFails(s)
  \/ ReplaceExposures(s)
  \/ Commit(s)
  \/ Unlink(s)
  \/ Remove(s)
  \/ DeadlockDetected(s)

\* Every request has run.
AllDone ==
  /\ \A s \in Session : req[s].pc = "done"
  /\ UNCHANGED vars

Next ==
  \/ \E s \in Session :
       \/ \E k \in Key :
            \/ \E force \in BOOLEAN, calls \in 1 .. 2 : Ask(s, k, force, calls)
            \/ Find(s, k)
       \/ Step(s)
       \/ Abandon(s)
  \/ \E k \in Key : Expire(k)
  \/ AllDone

Spec == Init /\ [][Next]_vars

\* The event loop runs every started request, the HTTP client of a provider
\* has a timeout, and PostgreSQL looks for deadlocks.
FairSpec == Spec /\ \A s \in Session : WF_vars(Step(s))
-----------------------------------------------------------------------------
ExposuresOf(id) == {e \in exposures : e.report = id}

\* A committed report has the exposures of exactly one save, and no exposure
\* is without its report, however saves, rollbacks and removals of the same
\* address interleave (flush at line 524 before the DELETE at line 526).
ExposuresOfOneSave ==
  /\ \A k \in Key : reports[k] # None =>
       /\ ExposuresOf(reports[k].id) # {}
       /\ \A e, f \in ExposuresOf(reports[k].id) : e = f
  /\ \A e \in exposures : \E k \in Key : reports[k] # None /\ reports[k].id = e.report

\* Every request that was started ends, although requests wait for each
\* other's row locks, in opposite orders.
RequestsFinish ==
  \A s \in Session : req[s].pc = "loading" \/ req[s].pc = "found" ~> req[s].pc = "done"
=============================================================================
