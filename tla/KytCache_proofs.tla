--------------------------- MODULE KytCache_proofs ---------------------------
(***************************************************************************)
(* Machine-checked facts about KytCache, for any number of requests, keys  *)
(* and provider responses.                                                 *)
(***************************************************************************)
EXTENDS KytCache, TLAPS

-----------------------------------------------------------------------------
(***************************************************************************)
(* The inductive invariant.                                                *)
(***************************************************************************)
\* What holds of the local state r of session s, given the committed reports
\* and the row locks.  The last conjunct is what makes a save atomic for its
\* key: from the flush on, the session holds the lock of the row and what it
\* read of the row is still so.
Sound(r, s, rep, lock) ==
  /\ r \in Request
  /\ r.pc \notin {"idle", "done"} => r.key \in Key
  /\ r.pc \in {"fetched", "selected", "flushed", "written"} => r.got \in Response
  /\ r.pc \in {"flushed", "written"} =>
       /\ lock[r.key] = s
       /\ IF r.row = None
            THEN rep[r.key] = None
            ELSE rep[r.key] # None /\ rep[r.key].id = r.row

\* Ids are not used twice: the session that named a report is over, and no
\* two keys hold the same id.
Named(rep, rq) ==
  /\ \A k \in Key : rep[k] # None => rq[rep[k].id].pc = "done"
  /\ \A j, k \in Key : rep[j] # None /\ rep[k] # None /\ rep[j].id = rep[k].id => j = k

\* ExposuresOfOneSave, as a predicate of the two tables.
Paired(rep, exp) ==
  /\ \A k \in Key : rep[k] # None => \E e \in exp : e.report = rep[k].id
  /\ \A e, f \in exp : e.report = f.report => e = f
  /\ \A e \in exp : \E k \in Key : rep[k] # None /\ rep[k].id = e.report

IInv ==
  /\ reports \in [Key -> Report \cup {None}]
  /\ exposures \subseteq Exposure
  /\ rowLock \in [Key -> Session \cup {None}]
  /\ expLock \in [Key -> Session \cup {None}]
  /\ req \in [Session -> Request]
  /\ \A s \in Session : Sound(req[s], s, reports, rowLock)
  /\ Named(reports, req)
  /\ Paired(reports, exposures)

LEMMA IInvImplies == IInv => TypeOK /\ ExposuresOfOneSave
  BY DEF IInv, TypeOK, ExposuresOfOneSave, ExposuresOf, Paired

-----------------------------------------------------------------------------
(***************************************************************************)
(* The local states that actions write, and their fields.                  *)
(***************************************************************************)
LEMMA CallsNumbers == 0 \in Calls /\ 1 \in Calls /\ \A n \in 1 .. 2 : n \in Calls
  BY DEF Calls

LEMMA IdleRequest == Idle \in Request /\ Idle.pc = "idle"
  BY CallsNumbers DEF Idle, Request

Ended == [Idle EXCEPT !.pc = "done"]

LEMMA EndedRequest == Ended \in Request /\ Ended.pc = "done"
  BY IdleRequest DEF Ended, Request

Asking(k, force, calls) ==
  [Idle EXCEPT !.pc = "loading", !.key = k, !.force = force, !.calls = calls]

LEMMA AskingRequest ==
  ASSUME NEW k \in Key, NEW force \in BOOLEAN, NEW calls \in 1 .. 2
  PROVE  /\ Asking(k, force, calls) \in Request
         /\ Asking(k, force, calls).pc = "loading"
         /\ Asking(k, force, calls).key = k
  BY IdleRequest, CallsNumbers DEF Asking, Request

Removing(k, id) == [Idle EXCEPT !.pc = "found", !.key = k, !.row = id]

LEMMA RemovingRequest ==
  ASSUME NEW k \in Key, NEW id \in Session
  PROVE  /\ Removing(k, id) \in Request
         /\ Removing(k, id).pc = "found"
         /\ Removing(k, id).key = k
  BY IdleRequest DEF Removing, Request

At(o, p) == [o EXCEPT !.pc = p]

LEMMA AtRequest ==
  ASSUME NEW o \in Request,
         NEW p \in {"calling", "flushed", "written", "unlinked"}
  PROVE  /\ At(o, p) \in Request
         /\ At(o, p).pc = p
         /\ At(o, p).key = o.key /\ At(o, p).got = o.got /\ At(o, p).row = o.row
  BY DEF At, Request

Retrying(o) == [o EXCEPT !.pc = "loading", !.calls = 1]

LEMMA RetryingRequest ==
  ASSUME NEW o \in Request
  PROVE  /\ Retrying(o) \in Request
         /\ Retrying(o).pc = "loading"
         /\ Retrying(o).key = o.key
  BY CallsNumbers DEF Retrying, Request

Fetched(o, r) == [o EXCEPT !.pc = "fetched", !.got = r]

LEMMA FetchedRequest ==
  ASSUME NEW o \in Request, NEW r \in Response
  PROVE  /\ Fetched(o, r) \in Request
         /\ Fetched(o, r).pc = "fetched"
         /\ Fetched(o, r).key = o.key /\ Fetched(o, r).got = r
  BY DEF Fetched, Request

Reading(o, id, p) == [o EXCEPT !.pc = "selected", !.row = id, !.seen = p]

LEMMA ReadingRequest ==
  ASSUME NEW o \in Request,
         NEW id \in Session \cup {None},
         NEW p \in Response \cup {None}
  PROVE  /\ Reading(o, id, p) \in Request
         /\ Reading(o, id, p).pc = "selected"
         /\ Reading(o, id, p).key = o.key /\ Reading(o, id, p).got = o.got
  BY DEF Reading, Request

Filed(id, p) == [id |-> id, payload |-> p, fresh |-> TRUE]

LEMMA FiledReport ==
  ASSUME NEW id \in Session, NEW p \in Response
  PROVE  Filed(id, p) \in Report /\ Filed(id, p).id = id
  BY DEF Filed, Report

Expired(r) == [r EXCEPT !.fresh = FALSE]

LEMMA ExpiredReport ==
  ASSUME NEW r \in Report
  PROVE  Expired(r) \in Report /\ Expired(r).id = r.id
  BY DEF Expired, Report

\* None is no report, so a report and its absence are told apart.
LEMMA NoneIsNoReport ==
  ASSUME IInv, NEW k \in Key, reports[k] # None
  PROVE  reports[k] \in Report /\ reports[k].id \in Session /\ reports[k].payload \in Response
  BY DEF IInv, Report

-----------------------------------------------------------------------------
(***************************************************************************)
(* A step of one session that leaves the tables alone keeps the invariant  *)
(* when its new local state is sound and the locks of others stay.         *)
(***************************************************************************)
LEMMA LocalStep ==
  ASSUME IInv,
         NEW s \in Session,
         NEW x,
         req' = [req EXCEPT ![s] = x],
         req[s].pc # "done",
         UNCHANGED Tables,
         rowLock' \in [Key -> Session \cup {None}],
         expLock' \in [Key -> Session \cup {None}],
         \A t \in Session \ {s}, k \in Key : rowLock[k] = t => rowLock'[k] = t,
         Sound(x, s, reports, rowLock')
  PROVE  IInv'
<1>1. /\ reports' = reports
      /\ exposures' = exposures
  BY DEF Tables
<1>2. /\ req' \in [Session -> Request]
      /\ req'[s] = x
      /\ \A t \in Session \ {s} : req'[t] = req[t]
  BY DEF IInv, Sound
<1>3. \A t \in Session : Sound(req'[t], t, reports', rowLock')
  <2> SUFFICES ASSUME NEW t \in Session, t # s
               PROVE  Sound(req[t], t, reports, rowLock')
    BY <1>1, <1>2
  <2>1. Sound(req[t], t, reports, rowLock)
    BY DEF IInv
  <2> QED BY <2>1 DEF Sound
<1>4. Named(reports', req')
  <2>1. \A k \in Key : reports[k] # None => reports[k].id \in Session \ {s}
    BY NoneIsNoReport DEF IInv, Named
  <2> QED BY <1>1, <1>2, <2>1 DEF IInv, Named
<1> QED BY <1>1, <1>2, <1>3, <1>4 DEF IInv

\* The same for a step that also leaves the locks alone.
LEMMA QuietStep ==
  ASSUME IInv,
         NEW s \in Session,
         NEW x,
         req' = [req EXCEPT ![s] = x],
         req[s].pc # "done",
         UNCHANGED <<Tables, Locks>>,
         Sound(x, s, reports, rowLock)
  PROVE  IInv'
<1>1. UNCHANGED Tables /\ rowLock' = rowLock /\ expLock' = expLock
  BY DEF Locks
<1> QED BY <1>1, LocalStep DEF IInv

LEMMA EndedIsSound ==
  ASSUME NEW s, NEW rep, NEW lock
  PROVE  Sound(Ended, s, rep, lock)
  BY EndedRequest DEF Sound

LEMMA ReleaseKeepsOthers ==
  ASSUME IInv, NEW s \in Session, Release(s)
  PROVE  /\ rowLock' \in [Key -> Session \cup {None}]
         /\ expLock' \in [Key -> Session \cup {None}]
         /\ \A t \in Session \ {s}, k \in Key : rowLock[k] = t => rowLock'[k] = t
  BY DEF IInv, Release, Unlocked

LEMMA FailKeeps ==
  ASSUME IInv, NEW s \in Session, req[s].pc # "done", Fail(s)
  PROVE  IInv'
<1>1. req' = [req EXCEPT ![s] = Ended]
  BY DEF Fail, End, Ended
<1> QED BY <1>1, LocalStep, EndedIsSound, ReleaseKeepsOthers DEF Fail

-----------------------------------------------------------------------------
(***************************************************************************)
(* One lemma per action, or per group of actions alike.                    *)
(***************************************************************************)
LEMMA AskKeeps ==
  ASSUME IInv, NEW s \in Session, NEW k \in Key, NEW force \in BOOLEAN,
         NEW calls \in 1 .. 2, Ask(s, k, force, calls)
  PROVE  IInv'
<1>1. req' = [req EXCEPT ![s] = Asking(k, force, calls)]
  BY DEF Ask, Asking
<1>2. Sound(Asking(k, force, calls), s, reports, rowLock)
  BY AskingRequest DEF Sound
<1> QED BY <1>1, <1>2, QuietStep DEF Ask

LEMMA CacheHitKeeps ==
  ASSUME IInv, NEW s \in Session, CacheHit(s)
  PROVE  IInv'
<1>1. req' = [req EXCEPT ![s] = Ended]
  BY DEF CacheHit, End, Ended
<1> QED BY <1>1, EndedIsSound, QuietStep DEF CacheHit

LEMMA CacheMissKeeps ==
  ASSUME IInv, NEW s \in Session, CacheMiss(s)
  PROVE  IInv'
<1>1. req' = [req EXCEPT ![s] = At(req[s], "calling")]
  BY DEF CacheMiss, At
<1>2. Sound(At(req[s], "calling"), s, reports, rowLock)
  BY AtRequest DEF Sound, IInv, CacheMiss
<1> QED BY <1>1, <1>2, QuietStep DEF CacheMiss

LEMMA ProviderAnswersKeeps ==
  ASSUME IInv, NEW s \in Session, NEW r \in Response, ProviderAnswers(s, r)
  PROVE  IInv'
<1>1. req' = [req EXCEPT ![s] = Fetched(req[s], r)]
  BY DEF ProviderAnswers, Fetched, IInv
<1>2. Sound(Fetched(req[s], r), s, reports, rowLock)
  BY FetchedRequest DEF Sound, IInv, ProviderAnswers
<1> QED BY <1>1, <1>2, QuietStep DEF ProviderAnswers

LEMMA ProviderFailsKeeps ==
  ASSUME IInv, NEW s \in Session, ProviderFails(s)
  PROVE  IInv'
<1>1. CASE End(s)
  <2>1. req' = [req EXCEPT ![s] = Ended]
    BY <1>1 DEF End, Ended
  <2> QED BY <2>1, EndedIsSound, QuietStep DEF ProviderFails
<1>2. CASE req' = [req EXCEPT ![s].pc = "loading", ![s].calls = 1]
  <2>1. req' = [req EXCEPT ![s] = Retrying(req[s])]
    BY <1>2 DEF Retrying, IInv
  <2>2. Sound(Retrying(req[s]), s, reports, rowLock)
    BY RetryingRequest DEF Sound, IInv, ProviderFails
  <2> QED BY <2>1, <2>2, QuietStep DEF ProviderFails
<1> QED BY <1>1, <1>2 DEF ProviderFails

LEMMA SelectReportKeeps ==
  ASSUME IInv, NEW s \in Session, SelectReport(s)
  PROVE  IInv'
<1> DEFINE r == reports[req[s].key]
           id == IF r = None THEN None ELSE r.id
           p == IF r = None THEN None ELSE r.payload
<1>1. req[s] \in Request /\ req[s].key \in Key
  BY DEF IInv, Sound, SelectReport
<1>2. id \in Session \cup {None} /\ p \in Response \cup {None}
  BY <1>1, NoneIsNoReport
<1>3. req' = [req EXCEPT ![s] = Reading(req[s], id, p)]
  BY DEF SelectReport, Reading, IInv
<1>4. req[s].got \in Response
  BY DEF IInv, Sound, SelectReport
<1> HIDE DEF id, p
<1>5. Sound(Reading(req[s], id, p), s, reports, rowLock)
  BY <1>1, <1>2, <1>4, ReadingRequest DEF Sound
<1> QED BY <1>3, <1>5, QuietStep DEF SelectReport

LEMMA FlushKeeps ==
  ASSUME IInv, NEW s \in Session, Flush(s)
  PROVE  IInv'
<1> DEFINE k == req[s].key
<1>1. req[s] \in Request /\ k \in Key /\ req[s].got \in Response
  BY DEF IInv, Sound, Flush
<1>2. req' = [req EXCEPT ![s] = At(req[s], "flushed")]
  BY DEF Flush, At, IInv
<1>3. /\ rowLock' \in [Key -> Session \cup {None}]
      /\ rowLock'[k] = s
      /\ \A j \in Key \ {k} : rowLock'[j] = rowLock[j]
  BY <1>1 DEF Flush, IInv
<1>4. \A t \in Session \ {s}, j \in Key : rowLock[j] = t => rowLock'[j] = t
  BY <1>3, KytAssumption DEF Flush
<1>5. Sound(At(req[s], "flushed"), s, reports, rowLock')
  BY <1>1, <1>3, AtRequest DEF Sound, Flush, Flushable, Present
<1> QED BY <1>2, <1>3, <1>4, <1>5, LocalStep DEF Flush, IInv

LEMMA ReplaceExposuresKeeps ==
  ASSUME IInv, NEW s \in Session, ReplaceExposures(s)
  PROVE  IInv'
<1>1. req' = [req EXCEPT ![s] = At(req[s], "written")]
  BY DEF ReplaceExposures, At, IInv
<1>2. /\ expLock' \in [Key -> Session \cup {None}]
      /\ rowLock' = rowLock
  BY DEF ReplaceExposures, IInv
<1>3. Sound(At(req[s], "written"), s, reports, rowLock)
  <2>1. Sound(req[s], s, reports, rowLock) /\ req[s].pc = "flushed"
    BY DEF IInv, ReplaceExposures
  <2> QED BY <2>1, AtRequest DEF Sound
<1>4. /\ UNCHANGED Tables
      /\ req[s].pc # "done"
      /\ rowLock' \in [Key -> Session \cup {None}]
  BY <1>2 DEF ReplaceExposures, IInv
<1> QED BY <1>1, <1>2, <1>3, <1>4, LocalStep

LEMMA FindKeeps ==
  ASSUME IInv, NEW s \in Session, NEW k \in Key, Find(s, k)
  PROVE  IInv'
<1>1. CASE reports[k] = None
  <2>1. req' = [req EXCEPT ![s] = Ended]
    BY <1>1 DEF Find, End, Ended
  <2> QED BY <2>1, EndedIsSound, QuietStep DEF Find
<1>2. CASE reports[k] # None
  <2>1. req' = [req EXCEPT ![s] = Removing(k, reports[k].id)]
    BY <1>2 DEF Find, Removing
  <2>2. Sound(Removing(k, reports[k].id), s, reports, rowLock)
    BY <1>2, NoneIsNoReport, RemovingRequest DEF Sound
  <2> QED BY <2>1, <2>2, QuietStep DEF Find
<1> QED BY <1>1, <1>2

LEMMA UnlinkKeeps ==
  ASSUME IInv, NEW s \in Session, Unlink(s)
  PROVE  IInv'
<1>1. req' = [req EXCEPT ![s] = At(req[s], "unlinked")]
  BY DEF Unlink, At, IInv
<1>2. expLock' \in [Key -> Session \cup {None}] /\ rowLock' = rowLock
  BY DEF Unlink, IInv
<1>3. Sound(At(req[s], "unlinked"), s, reports, rowLock)
  <2>1. Sound(req[s], s, reports, rowLock) /\ req[s].pc = "found"
    BY DEF IInv, Unlink
  <2> QED BY <2>1, AtRequest DEF Sound
<1>4. /\ UNCHANGED Tables
      /\ req[s].pc # "done"
      /\ rowLock' \in [Key -> Session \cup {None}]
  BY <1>2 DEF Unlink, IInv
<1> QED BY <1>1, <1>2, <1>3, <1>4, LocalStep

\* A commit: the report of the key is replaced, under its lock.
LEMMA CommitKeeps ==
  ASSUME IInv, NEW s \in Session, Commit(s)
  PROVE  IInv'
<1> DEFINE k == req[s].key
           id == ReportId(s)
           new == Filed(id, WrittenPayload(s))
           exp == [report |-> id, of |-> req[s].got, by |-> s]
           others == {e \in exposures : e.report # id}
<1>1. Sound(req[s], s, reports, rowLock) /\ req[s].pc = "written"
  BY DEF IInv, Commit
<1>2. /\ req[s] \in Request /\ k \in Key /\ req[s].got \in Response
      /\ rowLock[k] = s
      /\ IF req[s].row = None
           THEN reports[k] = None
           ELSE reports[k] # None /\ reports[k].id = req[s].row
  BY <1>1 DEF Sound
<1>3. id \in Session
  BY <1>2, NoneIsNoReport DEF ReportId
<1>4. WrittenPayload(s) \in Response
  BY <1>2, NoneIsNoReport DEF WrittenPayload
<1>5. new \in Report /\ new.id = id /\ new # None
  BY <1>3, <1>4, FiledReport, KytAssumption
<1>6. exp \in Exposure /\ exp.report = id
  BY <1>2, <1>3 DEF Exposure
<1>7. /\ reports' = [reports EXCEPT ![k] = new]
      /\ exposures' = others \cup {exp}
      /\ req' = [req EXCEPT ![s] = Ended]
      /\ Release(s)
  BY DEF Commit, Filed, ExposuresAfter, Except, End, Ended
<1> HIDE DEF new, exp, id
\* No other key holds the id.
<1>8. \A j \in Key \ {k} : reports[j] # None => reports[j].id # id
  <2> SUFFICES ASSUME NEW j \in Key, j # k, reports[j] # None, reports[j].id = id
               PROVE  FALSE
    OBVIOUS
  <2>1. CASE req[s].row = None
    <3>1. id = s
      BY <2>1 DEF ReportId, id
    <3> QED BY <3>1, <1>1 DEF IInv, Named
  <2>2. CASE req[s].row # None
    <3>1. id = req[s].row
      BY <2>2 DEF ReportId, id
    <3> QED BY <3>1, <2>2, <1>2 DEF IInv, Named
  <2> QED BY <2>1, <2>2
<1>9. /\ reports' \in [Key -> Report \cup {None}]
      /\ reports'[k] = new
      /\ \A j \in Key \ {k} : reports'[j] = reports[j]
  BY <1>2, <1>5, <1>7 DEF IInv
<1>10. /\ req' \in [Session -> Request]
       /\ req'[s] = Ended
       /\ \A t \in Session \ {s} : req'[t] = req[t]
  BY <1>7, EndedRequest DEF IInv
<1>11. exposures' \subseteq Exposure
  BY <1>6, <1>7 DEF IInv
<1>12. \A t \in Session : Sound(req'[t], t, reports', rowLock')
  <2> SUFFICES ASSUME NEW t \in Session, t # s
               PROVE  Sound(req[t], t, reports', rowLock')
    BY <1>10, EndedIsSound
  <2>1. Sound(req[t], t, reports, rowLock)
    BY DEF IInv
  <2>2. req[t].pc \in {"flushed", "written"} =>
          req[t].key \in Key /\ rowLock[req[t].key] = t
    BY <2>1 DEF Sound
  <2>3. req[t].pc \in {"flushed", "written"} =>
          /\ reports'[req[t].key] = reports[req[t].key]
          /\ rowLock'[req[t].key] = t
    BY <2>2, <1>2, <1>7, <1>9, ReleaseKeepsOthers
  <2> QED BY <2>1, <2>3 DEF Sound
<1>13. Named(reports', req')
  <2>1. \A j \in Key : reports'[j] # None => req'[reports'[j].id].pc = "done"
    <3> SUFFICES ASSUME NEW j \in Key, reports'[j] # None
                 PROVE  req'[reports'[j].id].pc = "done"
      OBVIOUS
    <3>1. CASE j = k
      <4>1. id = s \/ (reports[k] # None /\ id = reports[k].id)
        BY <1>2 DEF ReportId, id
      <4>2. req'[id].pc = "done"
        BY <4>1, <1>3, <1>10, <1>2, EndedRequest DEF IInv, Named
      <4> QED BY <3>1, <4>2, <1>5, <1>9
    <3>2. CASE j # k
      <4>1. reports[j].id \in Session /\ req[reports[j].id].pc = "done"
        BY <3>2, <1>9, NoneIsNoReport DEF IInv, Named
      <4> QED BY <3>2, <4>1, <1>9, <1>10, EndedRequest
    <3> QED BY <3>1, <3>2
  <2>2. \A i, j \in Key : reports'[i] # None /\ reports'[j] # None
                           /\ reports'[i].id = reports'[j].id => i = j
    BY <1>5, <1>8, <1>9 DEF IInv, Named
  <2> QED BY <2>1, <2>2 DEF Named
<1>14. Paired(reports', exposures')
  <2>1. \A j \in Key : reports'[j] # None => \E e \in exposures' : e.report = reports'[j].id
    <3> SUFFICES ASSUME NEW j \in Key, reports'[j] # None
                 PROVE  \E e \in exposures' : e.report = reports'[j].id
      OBVIOUS
    <3>1. CASE j = k
      BY <3>1, <1>5, <1>6, <1>7, <1>9
    <3>2. CASE j # k
      <4>1. reports'[j] = reports[j] /\ reports[j].id # id
        BY <3>2, <1>8, <1>9
      <4>2. PICK e \in exposures : e.report = reports[j].id
        BY <4>1 DEF IInv, Paired
      <4> QED BY <4>1, <4>2, <1>7
    <3> QED BY <3>1, <3>2
  <2>2. \A e, f \in exposures' : e.report = f.report => e = f
    BY <1>6, <1>7 DEF IInv, Paired
  <2>3. \A e \in exposures' : \E j \in Key : reports'[j] # None /\ reports'[j].id = e.report
    <3> SUFFICES ASSUME NEW e \in exposures'
                 PROVE  \E j \in Key : reports'[j] # None /\ reports'[j].id = e.report
      OBVIOUS
    <3>1. CASE e = exp
      BY <3>1, <1>2, <1>5, <1>6, <1>9
    <3>2. CASE e # exp
      <4>1. e \in exposures /\ e.report # id
        BY <3>2, <1>7
      <4>2. PICK j \in Key : reports[j] # None /\ reports[j].id = e.report
        BY <4>1 DEF IInv, Paired
      <4>3. j # k
        BY <4>1, <4>2, <1>2 DEF ReportId, id
      <4> QED BY <4>2, <4>3, <1>9
    <3> QED BY <3>1, <3>2
  <2> QED BY <2>1, <2>2, <2>3 DEF Paired
<1>15. rowLock' \in [Key -> Session \cup {None}] /\ expLock' \in [Key -> Session \cup {None}]
  BY <1>7, ReleaseKeepsOthers
<1> QED BY <1>9, <1>10, <1>11, <1>12, <1>13, <1>14, <1>15 DEF IInv

\* A removal: the report goes with its exposures.
LEMMA RemoveKeeps ==
  ASSUME IInv, NEW s \in Session, Remove(s)
  PROVE  IInv'
<1> DEFINE k == req[s].key
           id == req[s].row
<1>1. req' = [req EXCEPT ![s] = Ended] /\ Release(s) /\ req[s].pc # "done"
  BY DEF Remove, End, Ended
<1>2. CASE ~Present(s)
  <2>1. UNCHANGED Tables
    BY <1>2 DEF Remove
  <2> QED BY <2>1, <1>1, LocalStep, EndedIsSound, ReleaseKeepsOthers
<1>3. CASE Present(s)
  <2>1. k \in Key /\ reports[k] # None /\ reports[k].id = id /\ rowLock[k] = None
    BY <1>3 DEF Remove, Present, IInv, Sound
  <2>2. /\ reports' = [reports EXCEPT ![k] = None]
        /\ exposures' = {e \in exposures : e.report # id}
    BY <1>3 DEF Remove, Except
  <2>3. /\ reports' \in [Key -> Report \cup {None}]
        /\ reports'[k] = None
        /\ \A j \in Key \ {k} : reports'[j] = reports[j]
    BY <2>1, <2>2 DEF IInv
  <2>4. \A j \in Key \ {k} : reports[j] # None => reports[j].id # id
    BY <2>1 DEF IInv, Named
  <2>5. /\ req' \in [Session -> Request]
        /\ req'[s] = Ended
        /\ \A t \in Session \ {s} : req'[t] = req[t]
    BY <1>1, EndedRequest DEF IInv
  <2>6. exposures' \subseteq Exposure
    BY <2>2 DEF IInv
  <2>7. \A t \in Session : Sound(req'[t], t, reports', rowLock')
    <3> SUFFICES ASSUME NEW t \in Session, t # s
                 PROVE  Sound(req[t], t, reports', rowLock')
      BY <2>5, EndedIsSound
    <3>1. Sound(req[t], t, reports, rowLock)
      BY DEF IInv
    <3>2. req[t].pc \in {"flushed", "written"} =>
            req[t].key \in Key \ {k} /\ rowLock[req[t].key] = t
      BY <3>1, <2>1, KytAssumption DEF Sound
    <3>3. req[t].pc \in {"flushed", "written"} =>
            /\ reports'[req[t].key] = reports[req[t].key]
            /\ rowLock'[req[t].key] = t
      BY <3>2, <2>3, <1>1, ReleaseKeepsOthers
    <3> QED BY <3>1, <3>3 DEF Sound
  <2>8. Named(reports', req')
    <3>1. \A j \in Key : reports'[j] # None =>
            reports'[j] = reports[j] /\ reports[j].id \in Session
      BY <2>3, NoneIsNoReport
    <3> QED BY <3>1, <2>5, EndedRequest DEF IInv, Named
  <2>9. Paired(reports', exposures')
    <3>1. \A j \in Key : reports'[j] # None =>
            /\ j # k
            /\ reports'[j] = reports[j]
            /\ reports[j].id # id
      BY <2>3, <2>4
    <3>2. \A e \in exposures' : e \in exposures /\ e.report # id
      BY <2>2
    <3>3. \A j \in Key : reports'[j] # None => \E e \in exposures' : e.report = reports'[j].id
      BY <3>1, <2>2 DEF IInv, Paired
    <3>4. \A e \in exposures' : \E j \in Key : reports'[j] # None /\ reports'[j].id = e.report
      <4> SUFFICES ASSUME NEW e \in exposures'
                   PROVE  \E j \in Key : reports'[j] # None /\ reports'[j].id = e.report
        OBVIOUS
      <4>1. PICK j \in Key : reports[j] # None /\ reports[j].id = e.report
        BY <3>2 DEF IInv, Paired
      <4> QED BY <4>1, <3>2, <2>1, <2>3
    <3> QED BY <3>2, <3>3, <3>4 DEF IInv, Paired
  <2>10. rowLock' \in [Key -> Session \cup {None}] /\ expLock' \in [Key -> Session \cup {None}]
    BY <1>1, ReleaseKeepsOthers
  <2> QED BY <2>3, <2>5, <2>6, <2>7, <2>8, <2>9, <2>10 DEF IInv
<1> QED BY <1>2, <1>3

LEMMA ExpireKeeps ==
  ASSUME IInv, NEW k \in Key, Expire(k)
  PROVE  IInv'
<1>1. reports[k] # None /\ reports[k] \in Report
  BY NoneIsNoReport DEF Expire
<1>2. reports' = [reports EXCEPT ![k] = Expired(reports[k])]
  BY DEF Expire, Expired, IInv
<1>3. Expired(reports[k]) \in Report /\ Expired(reports[k]).id = reports[k].id
  BY <1>1, ExpiredReport
<1>4. /\ reports' \in [Key -> Report \cup {None}]
      /\ \A j \in Key : reports'[j] # None <=> reports[j] # None
      /\ \A j \in Key : reports[j] # None => reports'[j].id = reports[j].id
  BY <1>1, <1>2, <1>3, KytAssumption DEF IInv
<1>5. UNCHANGED <<exposures, rowLock, expLock, req>>
  BY DEF Expire, Locks
<1>6. \A t \in Session : Sound(req[t], t, reports', rowLock)
  BY <1>4 DEF IInv, Sound
<1>7. Named(reports', req) /\ Paired(reports', exposures)
  BY <1>4 DEF IInv, Named, Paired
<1> QED BY <1>4, <1>5, <1>6, <1>7 DEF IInv

-----------------------------------------------------------------------------
LEMMA InitEstablishes == Init => IInv
<1> SUFFICES ASSUME Init PROVE IInv
  OBVIOUS
<1>1. \A s \in Session : Sound(req[s], s, reports, rowLock)
  BY IdleRequest DEF Init, Sound
<1>2. Named(reports, req) /\ Paired(reports, exposures)
  BY DEF Init, Named, Paired
<1> QED BY <1>1, <1>2, IdleRequest DEF Init, IInv

LEMMA StepKeeps ==
  ASSUME IInv, NEW s \in Session, Step(s)
  PROVE  IInv'
<1>1. CASE FlushFails(s)
  BY <1>1, FailKeeps DEF FlushFails
<1>2. CASE DeadlockDetected(s)
  <2>1. req[s].pc \in {"flushed", "unlinked"}
    BY <1>2 DEF DeadlockDetected, Deadlocked
  <2> QED BY <1>2, <2>1, FailKeeps DEF DeadlockDetected
<1> QED
  BY <1>1, <1>2, CacheHitKeeps, CacheMissKeeps, ProviderAnswersKeeps,
     ProviderFailsKeeps, SelectReportKeeps, FlushKeeps, ReplaceExposuresKeeps,
     CommitKeeps, UnlinkKeeps, RemoveKeeps
  DEF Step

LEMMA NextKeeps == IInv /\ [Next]_vars => IInv'
<1> SUFFICES ASSUME IInv, [Next]_vars
             PROVE  IInv'
  OBVIOUS
<1>1. ASSUME NEW s \in Session, Abandon(s)
      PROVE  IInv'
  BY <1>1, FailKeeps DEF Abandon
<1>2. CASE UNCHANGED vars
  BY <1>2 DEF vars, IInv, Sound, Named, Paired
<1> QED
  BY <1>1, <1>2, AskKeeps, FindKeeps, StepKeeps, ExpireKeeps DEF Next, AllDone

-----------------------------------------------------------------------------
THEOREM Inductive == Spec => []IInv
  BY InitEstablishes, NextKeeps, PTL DEF Spec

\* The tables, the locks and the local state of every request keep their
\* types; in particular a save always has a response and a report id to write
\* (save_kyt_provider_report, service.py:480-551).
THEOREM TypeCorrect == Spec => []TypeOK
  BY Inductive, IInvImplies, PTL

\* However requests for an address interleave, a committed report has the
\* exposures of exactly one save and no exposure outlives its report
\* (the flush of the row at service.py:524 orders the saves of a key).
THEOREM OneSavePerReport == Spec => []ExposuresOfOneSave
  BY Inductive, IInvImplies, PTL
=============================================================================
