----------------------------- MODULE Assessment -----------------------------
(***************************************************************************)
(* The risk assessment of a wallet, assess_wallet_risk_pipeline of         *)
(* app/application/risk/service.py: provider answer, wallet report, trace, *)
(* address tags, provider answer again, sanctions screening, engine,       *)
(* storage.  Requests run beside each other, beside the editing of the     *)
(* tags (RiskTags), and beside the changes of the sanctions list and of    *)
(* the provider cache that SanctionsRegistry and KytCache show in detail:  *)
(* here a subject's match may change between two steps, and a cached       *)
(* report may expire.                                                      *)
(***************************************************************************)
EXTENDS RiskTags, RiskEngine

CONSTANTS
  Assessor,      \* the requests; each runs once
  Requests,      \* what they may ask
  KytAnswers,    \* what the provider may answer
  Subject,       \* persons and companies to screen
  KeyAddr,       \* per TagKey, its address
  KeyTag,        \* per TagKey, its tag
  Here,          \* the keys whose network is that of the wallet, "all" or "*"
  Counterparty,  \* addresses the report lists as counterparties
  Unlisted,      \* addresses of its transactions that it does not list
  Nodes, Edges,  \* what a trace of the wallet finds
  ChainMonthly   \* transactions per month on the chain

Match == {"none", "possible", "confirmed"}

Request ==
  [mode     : {"model", "provider"},             \* score_mode
   skip     : BOOLEAN,                           \* skip_wallet_collection
   trace    : BOOLEAN,                           \* include_trace, on TRON
   provider : {"none", "known", "unknown"},      \* kyt_provider
   required : BOOLEAN,                           \* external_kyt_required
   force    : BOOLEAN,                           \* force_kyt_refresh
   persist  : BOOLEAN,                           \* persist_assessment
   manual   : KytAnswers \cup {None},            \* external_kyt
   rows     : SUBSET [addr : Addr, tag : Tag, via : {"request"}],
   profile  : Profile,
   subjects : Seq(Subject)]

TagRow == [addr : Addr, tag : Tag, via : {"db"}]
Node   == [addr : Addr, depth : Int]
Edge   == [from : Addr, to : Addr, distance : Nat]

ASSUME AssessAssumption ==
  /\ KytAnswers \subseteq Kyt /\ None \notin KytAnswers
  /\ Requests \subseteq Request
  /\ \A r \in Requests : \A c \in Component :
       r.profile.points[c] # NoPoints => r.profile.points[c] <= Top[c]
  /\ KeyAddr \in [TagKey -> Addr] /\ KeyTag \in [TagKey -> Tag]
  /\ Here \subseteq TagKey
  /\ Counterparty \subseteq Addr /\ Unlisted \subseteq Addr
  /\ Nodes \subseteq Node /\ Edges \subseteq Edge
  /\ ChainMonthly \in Nat

\* A provider's answer has a score and is evidence only; a floor is the
\* request's to ask for.
ProviderAnswers == {k \in KytAnswers : ~k.floor /\ k.score # NoPoints}

Reported == [answer : ProviderAnswers, fresh : BOOLEAN]

VARIABLES
  listed,     \* per subject, the match the sanctions list gives
  cache,      \* the provider's report in kyt_provider_reports, or None
  cacheLock,  \* the request holding the lock of that row, or None
  job,        \* the local state of each request
  stored      \* per request, its row of risk_assessments with the evidence

assessVars == <<listed, cache, cacheLock, job, stored>>
vars == <<tags, history, tagLock, ed, listed, cache, cacheLock, job, stored>>

-----------------------------------------------------------------------------
(***************************************************************************)
(* A job stands before:  load1, load2  a load_external_kyt_context; fetch1,*)
(* fetch2  its call of the provider; collect  the wallet report; trace;    *)
(* tags  the query of the tags; screen  the next subject or, past the      *)
(* last, engine and storage.                                               *)
(***************************************************************************)
JobPc ==
  {"idle", "load1", "fetch1", "collect", "trace", "tags", "load2", "fetch2",
   "screen", "answered", "failed"}

Job ==
  [pc      : JobPc,
   req     : Requests \cup {None},
   kyt     : KytAnswers \cup {None},    \* context["external_kyt"]
   saved   : BOOLEAN,                   \* external_kyt_cache_saved
   error   : BOOLEAN,                   \* external_kyt_error
   report  : {"none", "chain", "kyt"},  \* where the wallet report is from
   traced  : BOOLEAN,
   rows    : SUBSET TagRow,             \* db_address_tags
   skipped : BOOLEAN,                   \* wallet_collection_skipped
   found   : Seq(Match)]                \* per subject screened so far

Waiting ==
  [pc |-> "idle", req |-> None, kyt |-> None, saved |-> FALSE, error |-> FALSE,
   report |-> "none", traced |-> FALSE, rows |-> {}, skipped |-> FALSE,
   found |-> <<>>]

\* A stored row: the job it was made from, with its two verdicts.
Assessed ==
  [job : Job, exposures : SUBSET Exposure, model : Verdict, verdict : Verdict]

AssessTypeOK ==
  /\ TagsTypeOK
  /\ listed \in [Subject -> Match]
  /\ cache \in Reported \cup {None}
  /\ cacheLock \in Assessor \cup {None}
  /\ job \in [Assessor -> Job]
  /\ stored \in [Assessor -> Assessed \cup {None}]

Init ==
  /\ TagsInit
  /\ listed = [s \in Subject |-> "none"]
  /\ cache \in Reported \cup {None}
  /\ cacheLock = None
  /\ job = [a \in Assessor |-> Waiting]
  /\ stored = [a \in Assessor |-> None]

-----------------------------------------------------------------------------
Synthesizes(r) == r.skip /\ r.provider # "none"

Put(a, j) == job' = [job EXCEPT ![a] = j]

Asked(r) ==
  [Waiting EXCEPT !.pc = IF Synthesizes(r) THEN "load1" ELSE "collect",
                  !.req = r, !.kyt = r.manual]

Ask(a, r) ==
  /\ job[a].pc = "idle"
  /\ Put(a, Asked(r))
  /\ UNCHANGED <<listed, cache, cacheLock, stored>>

\* The step after a load, and the call in a load.
Onward(j) == IF j.pc \in {"load1", "fetch1"} THEN "collect" ELSE "screen"
Call(j)   == IF j.pc = "load1" THEN "fetch1" ELSE "fetch2"

Loading(a) == job[a].pc \in {"load1", "load2"}

CacheAnswers(a) == ~job[a].req.force /\ cache # None /\ cache.fresh

Errs(j) == [j EXCEPT !.pc = Onward(j), !.error = TRUE]

Gets(j, k, saved) == [j EXCEPT !.pc = Onward(j), !.kyt = k, !.saved = saved]

\* There is an answer already, or no provider to ask.
LoadNothing(a) ==
  /\ Loading(a)
  /\ job[a].kyt # None \/ job[a].req.provider = "none"
  /\ Put(a, [job[a] EXCEPT !.pc = Onward(job[a])])
  /\ UNCHANGED <<listed, cache, cacheLock, stored>>

LoadUnknown(a) ==
  /\ Loading(a)
  /\ job[a].kyt = None
  /\ job[a].req.provider = "unknown" /\ ~job[a].req.required
  /\ Put(a, Errs(job[a]))
  /\ UNCHANGED <<listed, cache, cacheLock, stored>>

LoadCached(a) ==
  /\ Loading(a)
  /\ job[a].kyt = None /\ job[a].req.provider = "known" /\ CacheAnswers(a)
  /\ Put(a, Gets(job[a], cache.answer, job[a].saved))
  /\ UNCHANGED <<listed, cache, cacheLock, stored>>

LoadMissed(a) ==
  /\ Loading(a)
  /\ job[a].kyt = None /\ job[a].req.provider = "known" /\ ~CacheAnswers(a)
  /\ Put(a, [job[a] EXCEPT !.pc = Call(job[a])])
  /\ UNCHANGED <<listed, cache, cacheLock, stored>>

Fetching(a) == job[a].pc \in {"fetch1", "fetch2"}

\* The answer is saved in the session: the row is locked until the request
\* ends.
Fetched(a, k) ==
  /\ Fetching(a)
  /\ cacheLock = None
  /\ cacheLock' = a
  /\ Put(a, Gets(job[a], k, TRUE))
  /\ UNCHANGED <<listed, cache, stored>>

FetchFailed(a) ==
  /\ Fetching(a)
  /\ ~job[a].req.required
  /\ Put(a, Errs(job[a]))
  /\ UNCHANGED <<listed, cache, cacheLock, stored>>

-----------------------------------------------------------------------------
\* The report is made from the provider's answer, or collected.
Reports(j) ==
  [j EXCEPT
     !.report = IF Synthesizes(j.req) /\ j.kyt # None THEN "kyt" ELSE "chain",
     !.pc     = IF j.req.trace /\ ~j.req.skip THEN "trace" ELSE "tags"]

Collect(a) ==
  /\ job[a].pc = "collect"
  /\ Put(a, Reports(job[a]))
  /\ UNCHANGED <<listed, cache, cacheLock, stored>>

Trace(a) ==
  /\ job[a].pc = "trace"
  /\ Put(a, [job[a] EXCEPT !.pc = "tags", !.traced = TRUE])
  /\ UNCHANGED <<listed, cache, cacheLock, stored>>

NodesOf(j) == IF j.traced THEN Nodes ELSE {}
EdgesOf(j) == IF j.traced THEN Edges ELSE {}

CounterpartiesOf(j) == IF j.report = "chain" THEN Counterparty ELSE {}

\* _addresses_from_wallet_data: also those the report does not list.
Addresses(j) ==
  {Root}
  \cup CounterpartiesOf(j)
  \cup (IF j.report = "chain" THEN Unlisted ELSE {})
  \cup {n.addr : n \in NodesOf(j)}
  \cup {l.from : l \in EdgesOf(j)} \cup {l.to : l \in EdgesOf(j)}

ActiveRows(addresses) ==
  {[addr |-> KeyAddr[k], tag |-> KeyTag[k], via |-> "db"] :
     k \in {k \in Here : /\ tags[k] # None /\ tags[k].content.active
                         /\ KeyAddr[k] \in addresses}}

\* Mutant: whoever asks for it is told that the chain was not read.
SkippedAsked(j) == j.req.skip

Skipped(j) == j.req.skip /\ j.kyt # None

Reads(j, rows) ==
  [j EXCEPT !.pc = "load2", !.rows = rows, !.skipped = Skipped(j)]

ReadTags(a) ==
  /\ job[a].pc = "tags"
  /\ Put(a, Reads(job[a], ActiveRows(Addresses(job[a]))))
  /\ UNCHANGED <<listed, cache, cacheLock, stored>>

\* One subject is screened; screen_subject reads the list as it is now.
Finds(j, m) == [j EXCEPT !.found = Append(@, m)]

Screen(a) ==
  LET j == job[a]
  IN /\ j.pc = "screen"
     /\ Len(j.found) < Len(j.req.subjects)
     /\ Put(a, Finds(j, listed[j.req.subjects[Len(j.found) + 1]]))
     /\ UNCHANGED <<listed, cache, cacheLock, stored>>

-----------------------------------------------------------------------------
\* Mutant: the last subject decides.
ConfirmedLast(j) == j.found # <<>> /\ j.found[Len(j.found)] = "confirmed"

Confirmed(j) == \E i \in 1 .. Len(j.found) : j.found[i] = "confirmed"

ExposuresOf(j) ==
  Exposures(j.rows \cup j.req.rows, CounterpartiesOf(j), NodesOf(j), EdgesOf(j))

KytOf(j) == IF j.kyt = None THEN NoKyt ELSE j.kyt

Monthly(j) == IF j.report = "chain" THEN ChainMonthly ELSE 0

ModelVerdict(j) ==
  Engine(j.req.profile, KytOf(j), Monthly(j), ExposuresOf(j), Confirmed(j))

\* A provider verdict needs an answer with a score.
Unscored(j) == j.req.mode = "provider" /\ KytOf(j).score = NoPoints

FinalVerdict(j) ==
  IF j.req.mode = "provider" THEN ProviderVerdict(KytOf(j)) ELSE ModelVerdict(j)

Assess(j) ==
  [job |-> j, exposures |-> ExposuresOf(j), model |-> ModelVerdict(j),
   verdict |-> FinalVerdict(j)]

Ready(a) ==
  /\ job[a].pc = "screen"
  /\ Len(job[a].found) = Len(job[a].req.subjects)
  /\ ~Unscored(job[a])

Release(a) == cacheLock' = IF cacheLock = a THEN None ELSE cacheLock

\* Mutant: without an assessment to store nothing is committed.
CommitStored(a) ==
  /\ cache' = IF job[a].saved /\ job[a].req.persist
                THEN [answer |-> job[a].kyt, fresh |-> TRUE] ELSE cache
  /\ Release(a)

Commit(a) ==
  /\ cache' = IF job[a].saved
                THEN [answer |-> job[a].kyt, fresh |-> TRUE] ELSE cache
  /\ Release(a)

Ends(j, pc) == [Waiting EXCEPT !.pc = pc, !.req = j.req]

End(a, pc) == Put(a, Ends(job[a], pc))

Save(a) ==
  /\ Ready(a)
  /\ job[a].req.persist
  /\ stored' = [stored EXCEPT ![a] = Assess(job[a])]
  /\ Commit(a)
  /\ End(a, "answered")
  /\ UNCHANGED listed

AnswerOnly(a) ==
  /\ Ready(a)
  /\ ~job[a].req.persist
  /\ Commit(a)
  /\ End(a, "answered")
  /\ UNCHANGED <<listed, stored>>

\* The request ends without an answer: an unknown provider or a failing one
\* was required (400, 502), a provider verdict has no score (502), the
\* explorers, the database or the client failed.  The session is rolled back.
Fail(a) ==
  /\ job[a].pc \notin {"idle", "answered", "failed"}
  /\ Release(a)
  /\ End(a, "failed")
  /\ UNCHANGED <<listed, cache, stored>>

AssessStep(a) ==
  \/ LoadNothing(a)
  \/ LoadUnknown(a)
  \/ LoadCached(a)
  \/ LoadMissed(a)
  \/ \E k \in ProviderAnswers : Fetched(a, k)
  \/ FetchFailed(a)
  \/ Collect(a)
  \/ Trace(a)
  \/ ReadTags(a)
  \/ Screen(a)
  \/ Save(a)
  \/ AnswerOnly(a)
  \/ Fail(a)

-----------------------------------------------------------------------------
\* An import changes what the list says of a subject.
Import(s, m) ==
  /\ m # listed[s]
  /\ listed' = [listed EXCEPT ![s] = m]
  /\ UNCHANGED <<cache, cacheLock, job, stored>>

\* KYT_PROVIDER_CACHE_TTL_SECONDS have passed.
Expire ==
  /\ cache # None
  /\ cache.fresh
  /\ cache' = [cache EXCEPT !.fresh = FALSE]
  /\ UNCHANGED <<listed, cacheLock, job, stored>>

AssessNext ==
  \/ \E a \in Assessor : AssessStep(a) \/ \E r \in Requests : Ask(a, r)
  \/ \E s \in Subject, m \in Match : Import(s, m)
  \/ Expire

Next ==
  \/ AssessNext /\ UNCHANGED tagVars
  \/ TagsNext /\ UNCHANGED assessVars

Spec == Init /\ [][Next]_vars

-----------------------------------------------------------------------------
Rows == {stored[a] : a \in Assessor} \ {None}

\* addr is at most n hops from the wallet in what the job has seen.
Near(j, addr, n) ==
  \/ addr = Root
  \/ n >= 1 /\ addr \in CounterpartiesOf(j)
  \/ \E x \in NodesOf(j) : x.addr = addr /\ -n <= x.depth /\ x.depth <= n
  \/ \E l \in EdgesOf(j) : addr \in {l.from, l.to} /\ 1 <= n /\ l.distance <= n

\* What the evidence of a stored assessment says by itself.
Grounds(j) ==
  \/ \E i \in DOMAIN j.found : j.found[i] = "confirmed"
  \/ j.req.profile.refusal
  \/ \E x \in j.rows \cup j.req.rows, r \in TagRules :
       x.tag \in r.tags /\ Near(j, x.addr, r.within)

\* The model overrides the score of a stored assessment exactly when the
\* evidence stored with it gives grounds: whatever subject was screened last,
\* wherever the chain report, the trace and the tags came from, and whatever
\* changed meanwhile (service.py:839-929 and engine.py:696-758).
OverrideHasGrounds ==
  \A row \in Rows : row.model.override <=> Grounds(row.job)

\* An assessment of the model is RED only on such grounds or because the
\* request made the provider's score a floor of 76: README.md:255-258, a KYT
\* exposure "alone" makes no RED.
RedHasCause ==
  \A row \in Rows :
    row.job.req.mode = "model" /\ row.verdict.zone = "RED"
      => \/ Grounds(row.job)
         \/ KytOf(row.job).floor /\ KytOf(row.job).score >= RedFrom

\* Assessment q has all that r has to go by, for the same profile: its answer
\* of a provider says at least as much, the chain was read if it was for r,
\* every exposure of r is there, and a confirmed match if r has one.
MoreEvidence(r, q) ==
  LET k == KytOf(r.job)
      l == KytOf(q.job)
  IN /\ r.job.req.profile = q.job.req.profile
     /\ \A c \in Category : k.share[c] <= l.share[c]
     /\ k.monthly <= l.monthly
     /\ k.floor /\ k.score # NoPoints
          => l.floor /\ l.score # NoPoints /\ k.score <= l.score
     /\ r.job.report = "chain" => q.job.report = "chain"
     /\ r.exposures \subseteq q.exposures
     /\ "confirmed" \in {r.job.found[i] : i \in DOMAIN r.job.found}
          => "confirmed" \in {q.job.found[i] : i \in DOMAIN q.job.found}

\* More evidence never makes a wallet look safer: not by its scores, nor by
\* losing an override or RED, in whatever way the assessments came by it
\* (engine.py:571-903).  Of the lower zones the code does not keep this: a
\* score between YELLOW and ORANGE is GREEN (engine.py:195-206).
EvidenceNeverLowers ==
  \A r, q \in Rows :
    MoreEvidence(r, q)
      => /\ r.model.raw <= q.model.raw
         /\ r.model.final <= q.model.final
         /\ r.model.override => q.model.override
         /\ r.model.zone = "RED" => q.model.zone = "RED"

\* The collection is to be skipped, but there is no provider to make up for it.
FlaggedAnyway(r) == r.skip /\ r.provider = "none" /\ r.manual # None

\* The answer says that the chain was not read exactly when the report was made
\* from the provider's answer, although the answer is looked for again after
\* the flag is set (service.py:856, 899 and 901), and in one more case: a
\* request to skip the collection that names no provider and brings an answer
\* of its own is told so although its chain was read (line 852).
SkipIsTold ==
  \A row \in Rows :
    row.job.skipped <=> row.job.report = "kyt" \/ FlaggedAnyway(row.job.req)

\* A provider's answer that a request has saved is in the table when the
\* request is answered, stored assessment or not, and no failed request
\* leaves one (service.py:914-931).
AnswerIsKept ==
  [][\A a \in Assessor :
       /\ job[a].saved /\ job'[a].pc = "answered"
            => cache' = [answer |-> job[a].kyt, fresh |-> TRUE]
       /\ job[a].pc # "failed" /\ job'[a].pc = "failed" => cache' = cache]_vars
=============================================================================
