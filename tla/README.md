# ChainLens in TLA+

A verification development for the backend of ChainLens (`app/`), a FastAPI service that collects the
transactions of crypto wallets, screens their owners against sanctions lists, asks external KYT providers
and scores the risk of a wallet. The database is PostgreSQL through async SQLAlchemy, at its default
isolation level READ COMMITTED; every request and every synchronisation runs as an asyncio task with
sessions of its own. The models are about what those tasks do to each other through the tables, and what a
failure between two statements leaves behind.

## 1. Inventory

| Part | Code | State | Operations | Hard because |
|---|---|---|---|---|
| Sync worker | `workers/sync_worker.py` | `sync_states`, `assets`, `transactions` | `sync_all_wallets`, `sync_wallet`, `get_or_create_asset`, `upsert_transaction` | several sessions per call, commit per transaction, affected months only in memory, status and cursor on different copies of a row, races on `assets` and `sync_states` |
| Aggregation | `workers/aggregator.py` | `monthly_aggregates` | `rebuild_monthly_aggregates`; `rebuild_daily_snapshots` is never called | read-then-upsert next to running syncs |
| Sync adapters | `adapters/adapters.py` | HTTP client | `fetch_transactions` for Bitcoin, Ethereum, TRON | paging, retry, errors in mid-stream |
| KYT provider cache | `application/risk/service.py:457-642,1182-1192` | `kyt_provider_reports`, `kyt_exposures` | load, save, delete | flush and commit far apart, provider call in between, row locks in opposite orders, columns left out of the UPDATE |
| Sanctions import | `application/sanctions/import_service.py` | `sanctions_*` tables | `replace_uk_sanctions_from_xml` | one long transaction of DELETEs and INSERTs, no lock of its own, foreign key of the matches |
| Sanctions screening | `application/sanctions/screening_service.py`, `domain/sanctions/screening.py` | `sanctions_matches` | `screen_subject`, `decide_match`, `build_screening_result` | many SELECTs with no common snapshot while the list is replaced; matches written last |
| Assessment pipeline | `application/risk/service.py:837-932,645-742,767-834` | `risk_assessments` and evidence | `assess_wallet_risk_pipeline`, `save_risk_assessment`, score modes | order of cache, tags, screening, scoring; one commit at the end |
| Risk tags | `application/risk/service.py:139-178,935-1024` | `address_risk_tags` and events | upsert, delete, load | read before lock, history deleted with its tag |
| Risk engine | `domain/risk/engine.py`, `domain/risk/kyt.py`, `risk_model.yaml` | none | `assess_wallet_risk` and parts | overrides, floors, zone boundaries |
| TRON trace | `application/wallets/trace.py` | local | `trace_tron_wallet` | breadth-first search under four limits and partial failure |
| Wallet reports, clients, normalizers | `application/wallets/service.py`, `infrastructure/blockchain/` | throttle clock | collection, paging, conversion | concurrent pages of a moving list, truncation flags |
| Rate limiter | `core/redis_client.py` | time of the last request | `acquire` | callers sleep while holding the lock |
| Analytics, periods | `domain/wallet/analytics.py`, `core/periods.py` | none | summaries | boundaries of periods |
| Everything else | parsers, routes, schema, scripts, page | – | – | scheduler and Redis are stubs: nothing is scheduled and nothing is cached there |

How they interact: the worker calls an adapter and the aggregator and shares four tables with every other
call of itself; an assessment calls the wallet service, the trace, the KYT cache, the tags, the screening
and the engine in one session and commits once; the import tool is a process of its own that meets the
screenings only in the tables. `PROJECT.json` lists the parts with what is modelled of each, and under
*hazards* what is hard to test, line by line.

## 2. Modules

| Module | What it is |
|---|---|
| `SyncWorker` | the worker with the aggregator, one step per await |
| `WalletLedger` | what readers of `transactions` and `monthly_aggregates` are promised: a ledger and figures recomputed from it in one go |
| `KytCache` | the KYT cache, one step per statement, with row locks |
| `SanctionsRegistry` | the import tool and the screening, one step per statement |
| `TraceGraph` | the search of `trace_tron_wallet` over any graph, and the hops the engine makes of it |
| `RiskTags` | upsert, removal and event history of the address tags, one step per statement, with row locks |
| `RiskEngine` | exposures, components, blocks, floors, overrides, zones and score modes as operators over the rules of `risk_model.yaml` |
| `Assessment` | the pipeline of an assessment; EXTENDS `RiskTags` and `RiskEngine`, so requests run beside the editing of the tags they read |
| `Throttle` | the lock, the sleeps and the retries of calls to Tronscan; `AsyncRateLimiter` is the same algorithm |
| `Collection` | the wallet report: paging of three explorers, order, limits, truncation; EXTENDS `Throttle` |
| `MC...` | instances for TLC: the finite transfers, designations, files, graphs, requests and rules, symmetry |
| `..._proofs` | the theorems about `SyncWorker`, `KytCache`, `SanctionsRegistry`, `TraceGraph`, `RiskTags`, `Assessment`, `Collection` with its `Throttle` |
| `Induction` | least numbers and induction stated of sets, for the proofs |

### SyncWorker

A *worker* is one concurrency slot of `sync_all_wallets`; its record `task` is the local state of
`sync_wallet`, and `pc` names the await it stands at. `Load` is the SELECT of the wallet and its
`sync_states` row with the tests of lines 129-137 (`Refuse` when two rows make `scalar_one_or_none` raise);
`MarkRunning` is the commit of line 142; `SelectAsset` the SELECT of `get_or_create_asset`; `StoreTransfer`
its INSERT, the upsert of the transaction, the bookkeeping of the cursor and of `affected_months` and the
inner commit; `AssetConflict` loses the race on the unique key; `SelectCompleted` and `Complete` are the
SELECT of line 181 and the commit of *completed*; `RebuildRead` and `RebuildWrite` are the two halves of
`rebuild_monthly_aggregates`. An exception that reaches the handler of line 196 (`Raise`: a provider error,
a database error, a lost race) leaves the task at *failing*; `SelectFailed` and `RecordFailure` are the
handler's SELECT and its commit. `Abort` is a database error outside the try block or in the handler,
`Crash` the end of the process or of the task. Of a status, SQLAlchemy's unit of work writes only what
differs from what the session has read (`StatusAfter`), so a forced call that has read *running* does not
write it again, and of overlapping calls the one that has read a status may leave another's in place.
`Arrive` extends the chain. Transfers, blocks, months, hashes are constants with functions giving their
attributes. `due`, `dropped` and `abandoned` are history variables: what was on chain when the stream was
opened, the months whose rebuild was lost, and the rows whose call was lost before it had taken *running*
back (`TakesBack`).

### KytCache

A *session* is one HTTP request with its transaction: an assessment (`Ask` ... `Commit`) or a removal
(`Find`, `Unlink`, `Remove`). Writes become visible at the commit; `rowLock` and `expLock` are the row locks
held on the report of a key and on its exposures. `WrittenPayload` is the one place where SQLAlchemy's unit
of work shows: an UPDATE names only the columns whose new value differs from the one that was read.
Responses are opaque; `fresh` stands for `expires_at > now`, which `Expire` may end at any time.

### SanctionsRegistry

A *run* of the import tool goes through the statements `matches`, `children`, `subjects`, `insert` and the
commit; a statement that finds rows locked waits (`Wait`) with the snapshot it has taken, and then deletes
of that snapshot what is still there (`Target`), which is what READ COMMITTED does. The DELETE of the
subjects (`BeginSubjects` to `EndSubjects`) takes them one by one, in no order the code knows of, and waits
for each while it holds those before. `Refused` is the foreign key of `sanctions_matches`, `Rivals` the
unique key of the subjects. A *screening* goes through the three candidate queries, the four SELECTs per
candidate, the decision, the INSERTs of its matches one by one (`WaitForMatch`, `InsertMatch`: each locks
its subject against deletion) and their commit. What a transaction has locked and what it waits for are
`Locks` and `Wants`, functions of its state; `Deadlocked` is a transaction that waits for itself in the end,
which PostgreSQL ends with an error, a run (`EndImport`) or a screening (`EndScreening`), whichever it
finds. What a comparison of two strings finds is a constant: `Agrees`, and `Found`, by which a candidate
query finds a subject once for each name or document it joins. The LIMIT of a query counts these joined rows
(`Joined`, `Limited`) and may leave any of them, since there is no ORDER BY; what is new of them is cut to
the room left (`Selections`). `Decide` and `Zone` are `decide_match` and `build_screening_result` on the
fields that agree. `lists` is auxiliary: the lists in force since the screening began.

### TraceGraph

The graph on chain and the parameters of the request are chosen by `Init`. `Pop` takes the next wallet from
the queue, `Call` looks at the clock, `FetchFails` and `FetchAnswers` are the two ways Tronscan may answer;
`AddOutgoing` and `AddIncoming` are the bodies of the two loops over links, `SkipSeen` their `continue` on a
link collected from its other end, `EndOutgoing` and `EndIncoming` their ends, with the break at the limit;
`Finish` is everything from line 390 on. `TimeIsUp` may happen at any moment. A payload that is cut says so
and has any part of the links; amounts appear only as the freedom in the order of links, in the cut to
`max_branches` and in ties of the final order. Line 192 never skips anything, since a wallet is queued once.
`partial` is auxiliary: it remembers failures and cuts that the flag `truncated` of the answer does not
tell. `NodeHop` and `EdgeHop` are what `collect_risk_exposures` makes of the answer; `Within` and
`PaidWithin` are distances, by walks.

### RiskTags

An *editor* is one HTTP request: `AskUpsert`, the SELECT (`Look`), one of the flushes, one of the commits,
or `AskRemoval` and `Remove`. `FlushNothing` is the flush without an UPDATE when nothing differs;
`FlushRefused` and `CommitRefused` are the unique key, the stale row and the foreign key of an event.
`Merged` writes only the columns that differ from what was read. A row is named by the editor that inserted
it, so a tag that is removed and created again is another row. `raced` is auxiliary: it marks an event whose
row was not, at the commit, what the editor had read.

### RiskEngine and Assessment

`Engine` follows `assess_wallet_risk`: `Exposures` (report, nodes and edges of a trace, tags of the request
and of the table), `Points`, the four blocks, `Adjusted` (FATF and provider floors), `Overridden`,
`ScoreZone` with its gap between the closed intervals; `ProviderVerdict` is `_apply_provider_score_mode`.
Options of a profile stand for their points, averages are in hundredths.

A *job* is the local state of `assess_wallet_risk_pipeline`, and `pc` its await: `Load...`, `Fetched` and
`FetchFailed` are `load_external_kyt_context`, which runs twice when the collection may be skipped;
`Collect`, `Trace`, `ReadTags` and `Screen` gather; `Save` and `AnswerOnly` end with the commit, `Fail` with
the rollback. What other modules show in detail happens around it in one step each: `Import` changes what
the list says of a subject, `Expire` ends the life of a cached answer, the row lock of the cache is
`cacheLock`. The steps of `RiskTags` are those of the module itself. A stored row keeps the job it was made
from, so that the properties can compare the verdict with the evidence.

### Throttle and Collection

A *caller* queues for the lock, sleeps the rest of the interval while it holds it, sends, lets go, and may
be told to come back (`TooMany`, `Retry`). In `Collection` a transfer is the number of its appearance, so a
list of an explorer is a set in falling order: `Appear` extends it while `AskFirst`, `AskRest` and
`TronPage` (concurrent pages by offset), `EtherPage` (pages by number, of a size that shrinks) and
`PoolPage`, `ChainPage` (pages after the last transaction seen, none if what is unconfirmed fills the report
already) read it. `Ask` takes a period: its end may be before the request, the request, or, on TRON only,
after it (`build_sync_period` cuts the others' off at the present), and TRON's period is a parameter of the
request while the others' is a filter on what was fetched. A transaction may move none of the coin
(`Empty`): Ethereum's and Bitcoin's rows of it count against the limit and are then dropped (`Counts`).
`EndStream` joins the streams, filters and sorts (`Merged`: the positions whose rows count, `InOrder`, the
newest first and rows of one time as they were), cuts (`First`) and marks the report; `Lost` is the page
whose exception fails the report while the calls of its siblings run on.

## 3. Runs

| Run | Instance | Result |
|---|---|---|
| `SyncBatch` | 2 slots, 2 wallets sharing a token, 3 transfers in 2 months, all faults, no overlap per wallet | `TypeOK`, `CompletedMeansStored`, `StaleOnlyIfDropped`, and `ImplementsLedger` (refinement of `WalletLedger`) hold |
| `SyncLive` | overlapping calls for one wallet, forced or not, all faults, weak fairness of the tasks | `CompletedMeansStored`, `AggregatesExplained`, `RunningIsAttended`, `RunningIsReleased` hold |
| `SyncCursor` | one call, no faults | **violated** `CursorCoversHistory`: the stored cursor stays 0 |
| `SyncStuck` | crashes, fair scheduling | **violated** `StaleRunningIsRetried` |
| `KytSave` | 3 requests of any kind for one address, 2 responses | `TypeOK`, `ExposuresOfOneSave`, `RequestsFinish` hold |
| `ListSwap` | 3 runs of the tool with 3 files, 1 screening with or without recording, limit 3 | `TypeOK`, `OneListInForce`, `HitsAreListed`, `UndisturbedIsExact`, `MatchesAreListed`, `EveryoneFinishes` hold |
| `ListSwapVerdict` | 2 runs, 1 screening | **violated** `ListedIsReported` |
| `Trace` | all 128 subgraphs of 7 links on 5 wallets, depth 1 to 3, with and without sources and branches cut, 2 sets of limits | `TypeOK`, `EdgeHopsAreReal`, `SilenceMeansAll`, `ChainIsComplete`, `NearestToRoot`, `TraceEnds` hold |
| `TraceHops` | the same | **violated** `NodeHopsAreReal` |
| `Tags` | 4 editors of one tag, 2 labels, active or not | `HistoryIsLife` holds |
| `Assess` | 2 requests out of 6 kinds (with trace and 2 subjects; skipping the collection; skipping it without a provider but with an answer of its own; refreshing without storing; with an answer of its own; in provider mode), 1 editor of a tag, imports, expiry | `AssessTypeOK`, `OverrideHasGrounds`, `RedHasCause`, `EvidenceNeverLowers`, `SkipIsTold`, `AnswerIsKept` hold |
| `Collect` | 3 networks, 3 transfers in 2 streams, one of them of value 0 if it is of the coin, every period, limits 2, 3 and 6 against a cap of 4, up to 4 unconfirmed, 2 callers, interval 1, 2 attempts | `TypeOK`, `QuietIsExact`, `UnmarkedIsWhole`, `Spaced`, `ReportEnds` hold |

The violated properties say what the code base documents and the code does not do; each is a finding in
`PROJECT.json` with the line it quotes.

**Bounds.** The conflicts of the worker are between two calls (for one wallet, or for two wallets with a
common token), so two slots reach all of them, and three transfers give a month boundary, a shared token and
a failed transaction. Each worker may run again and again: the number of calls is not bounded. In the cache
a session runs once; three are needed because a removal between the SELECT and the flush of one save, with
another save after it, is the longest chain of conflicts on one report, and keys do not interact. Three runs
of the tool are a waiting run, the one it waits for and one that commits in between; three designations are
one, its amendment (same `unique_id`) and another one, which is enough to tell a new version of a subject
from a new subject; the limit of 3 lets the rows of two of the lists fit, and is used up by a subject found
twice in the third. The person screened may have two hits, so that the order of the INSERTs of its matches
against that of a DELETE matters and both ends of a deadlock occur.

The graph of the trace has three ways on from the root, two of which meet again, a way back and a second
asset, so every kind of link the code tells apart occurs (forward, to a wallet already known, back to the
root, parallel, a source inside the chain); 5 wallets against a limit of 4 and 7 links against limits of 3,
4 and 6 make every limit bite and leave graphs that fit.

A tag with four editors has a creation, an update of it, a removal and a second creation or a second update,
in every order; keys do not interact. The rules of `Assess` have one tag that overrides within one hop, on
an address two transfers away on the incoming side, so that the sign of a depth and the number of a hop
decide; the six requests cover each branch of the pipeline, two at a time share the cached answer, and 90
points of a provider are there as evidence and as a floor, and 50.5 points, between two zones, as a floor.
In `Collect` a page of Tronscan holds one transfer, so that two pages are under way at once, and pages of
two elsewhere; limits are below, at and above what exists, and above the cap of the server; periods end
before, at and after the request, and what is unconfirmed can fill a report to the cap.

**Fairness.** `SyncWorker!FairSpec` is weak fairness of each running task: the event loop runs every ready
task and the HTTP client and the database answer or raise. Starting a call is not fair, except in
`ScheduledSpec`, where somebody keeps asking for every wallet (used by `SyncStuck` only, so that its
counterexample cannot be blamed on a batch that never ran). `KytCache!FairSpec` is weak fairness of every
request that has been started. `SanctionsRegistry!FairSpec` only says that as long as some run or screening
can go on, some one does; every run and screening is finite, so more is not needed. PostgreSQL's deadlock
detection is a step of the request, run or screening it ends. `TraceGraph!FairSpec` is weak fairness of the
one task; the clock is not fair, so the search is shown to end without the help of its time budget.
`Collection!FairSpec` is weak fairness of each caller and of the report (the lock of asyncio is first come
first served, a request is answered or `httpx.Timeout` ends it) and of time. Nothing assumes that a provider
succeeds, and no run uses strong fairness.

## 4. Proofs

TLAPS proves, for every value of the constants that satisfies the named assumptions:

* `SyncWorker_proofs` (from `SyncAssumption`): `TypeCorrect`, `CompletedStores`, `AggregatesSound`,
  `AttendedSound`, and, under the assumption `~Overlap`, `StaleSound` and `LedgerImplemented` (the
  refinement of `WalletLedger`). The induction is in layers. `Coherent` relates the fields of a task to its
  pc and its wallet (the row it holds is a row of its wallet, what it streams belongs to its wallet).
  `NothingLost` adds that what was due and is not in `todo` or in hand is booked, and needs `Coherent` and
  the fact that no action removes a booked row. `Explained` says the same of the rows a rebuild has read as
  the property says of the aggregates: without it `RebuildWrite` could write anything. `Fresh` is the layer
  that needs `~Overlap`: a wallet has at most one worker (`Exclusive`), so what its grouped SELECT saw is
  still everything when it writes (`Tracks`), and the write is one `Recompute` of the ledger (`WholeMonth`).
  `AttendedSound` needs no more than the types and the rows of `Coherent`: whoever has marked a row
  *running* owes to take it back until it overwrites it (having read *running*, or nothing yet), hands the
  debt on to its handler, or is lost; a call that has read something else leaves *running* only to the one
  that wrote it since.
* `KytCache_proofs` (from `KytAssumption`): `TypeCorrect`, `OneSavePerReport`. The strengthening says that a
  session which has flushed still holds the lock of its row and that the row is still the one it has read
  (or the key is still free), so that nobody else can commit or remove it; that is what makes the DELETE of
  line 526 hit exactly the exposures of the previous save.
* `SanctionsRegistry_proofs` (from `RegistryAssumption`, `FilesAssumption`, by which two published lists
  have a designation in common, and `FinitenessAssumption`, by which lists and what a query finds are
  finite): `ListInForce`, `MatchesListed`, `HitsListed`, `TypeCorrect`, `UndisturbedCorrect`. The invariant
  `IInv` says that what a run has deleted, or waits to delete, is a whole published list; that two runs
  never delete the same committed subject; and that a run which has inserted its rows has deleted all of the
  list in force, because any rival it had left would have refused its INSERTs. `Linked` is the foreign key
  with the runs and screenings under way; `Probe` says that every candidate, every field and every hit of a
  screening comes from a list it has met. `ConfirmsIsMonotone` (more agreement never confirms less) is what
  carries a partial read over to the list it was read from. `Undisturbed` says of a screening that has met
  one list, and whose queries fit their limits (`Fits`), that what it has seen is exactly what the queries
  it has asked find (`Exact`), that the fields of the candidate in hand are all those of the SELECTs behind
  it, and that its hits are the decisions on everybody no longer waiting. `Fits` counts the rows of the
  joins, as the LIMIT does: with the number of candidates in its place the property is false, because a
  subject found by a name and by a document uses up two of the rows. That such a screening ends without
  error is proved up to a deadlock: a screening that waits holds another match's subject, so it has two hits
  (`UndisturbedCorrect` allows that case and no other).

* `TraceGraph_proofs` (from `TraceAssumption`, any finite set of wallets and any graph): `TypeCorrect`, with
  the limits; `EdgeHopsCorrect`; `SilenceIsAll`; `NearestCorrect`; `ChainCorrect`. `Real` says that whatever
  is queued, in hand or collected is within the distance it bears, and `Extend` makes a walk one transfer
  longer. `Collected` says that while nothing has been cut, the links of every wallet looked at are
  collected or still in hand; with nothing cut at the end, the links shown are a subset of those collected
  with as many elements. The last two are the correctness of a breadth-first search under limits.
  `ByBreadth` says, of a search without sources, that the queue is in order of depth and spans two layers
  (`InLine`), that depths are those first met (`Layered`), that a wallet that was met is queued, or too
  deep, or there was no room for it and nothing deeper will ever be queued (`Met`), that a link is one
  further than its payer (`Gathered`), and that the links of all wallets looked at are collected (`Closed`).
  `Cut` says that the final cut leaves out the farthest, `Paid` that only wallets the funds may reach are
  ever queued. From this the two properties follow by induction over the length of a walk, which is done on
  the set of lengths for which the claim holds (`InductiveSet` of `Induction`, itself proved from the
  well-foundedness of the natural numbers).

* `RiskTags_proofs` (from `TagsAssumption`): `TagsTypeCorrect`, `HistoryCorrect`. `Reserved` says that an
  uncommitted insertion holds the lock of a free key, `Named` that two rows never share an editor, `Owned`
  that every event belongs to a row in the table; with them `Told` is inductive: a commit that finds the row
  as it was read appends an event that starts where the last one ended.
* `Collection_proofs` (from `ThrottleAssumption` and `CollectAssumption`): `CollectionIsThrottled` (every
  step of a collection is a step of the throttle or leaves it alone), and through it `ThrottleTypeCorrect`
  and `SpacedCorrect`. Its invariant says that who sleeps is at the head of the queue, nobody is queued
  twice, and the rest of a sleep is at least the rest of the interval. `CollectTypeCorrect`, `WholeCorrect`
  and `QuietCorrect` are about the report, for any limits, caps, page lengths, periods and number of
  callers. Their invariant `CollectInv` says of a finished stream that it is `Complete`: its rows are
  transfers of the stream or unconfirmed (`Rows`); if nothing has appeared in the period meanwhile
  (`Still`), it has everything of the period that had appeared at the request, or is marked (`Whole`); and
  if the wallet is at rest, no row is there twice and the transfers are the newest of those the explorer
  lists, as many as are looked at (`Top`, `Reach`). For a stream under way there is one statement per kind
  of paging: `RestPages` (each place of the list is filled or its page is still asked for, in whatever order
  the pages come), `NumberedPages` (a transfer that is not there yet has all the rows of the full pages
  before it) and `LinkedPages` (what is unconfirmed, then rows that fall; what is not there is older than
  the last). `Going` carries the finished stream over to the next. What a sorted list is (`NewestFirstIs`,
  `ArrangedIs`) is proved through the number of elements before each, so that no induction over sequences is
  needed. That all of it survives what appears meanwhile (`Grown...`) rests on what the properties assume,
  and not on the end of the period being the present: on Tronscan what appears outside the period is not
  listed; a list of the others grows at its head, so that a page by number can only repeat rows and a page
  after a transaction is the same.
* `Assessment_proofs` (from `EngineAssumption`, `AssessAssumption` and `TagsAssumption`): `OverrideCorrect`,
  `RedCorrect`, `EvidenceCorrect`, `SkipCorrect`, `KeptCorrect`, `AssessTypeCorrect`, and `TagsImplemented`,
  by which what is proved of `RiskTags` holds in the composition. One half is about the engine: `WithinFact`
  turns an exposure of any report, trace and set of tags back into a row and its distance, `MeanFact` and
  `RaisedFact` bound the score that no floor has raised by 75, and the lemmas from `LadderRises` to
  `EngineRises` carry an inclusion of the evidence from the thresholds through averages, floors and
  overrides to the verdict. The zones below RED are left out of `EvidenceNeverLowers` because the code is
  not monotone there: 50 points are YELLOW and 50.5, which is between two of the closed intervals of
  `risk_model.yaml`, are GREEN (`ScoreZone`). The other half is `JobInv`, one job at a time: the flag of a
  skipped collection is set before the second load, from the answer the first one got or, in a request that
  names no provider, from the answer it brought (`FlaggedAnyway`: the page then shows, `index
  (1).html:5479`, that the data of the wallet is the provider's aggregate, although its chain was read), and
  an answer that has been saved is the job's own until it ends.

Proofs go action by action: a lemma per action, a lemma for steps that change the state of one session only,
and lemmas for each state record an action writes.

**Model-checked only.** Liveness: `RunningIsReleased`, `RequestsFinish`, `EveryoneFinishes`, `TraceEnds`,
`ReportEnds`, which need ENABLED. Every invariant and every action property of the passing runs is a
theorem.

## 5. Not modelled

HTTP, parsing, normalisation and formatting; the contents of rows beyond what the properties tell apart:
amounts, balances, texts. `rebuild_daily_snapshots` (never called); the scheduler and Redis (stubs); the
routes, which pass parameters on; migrations, scripts and the page. Per part:

* Trace: an exception other than `HTTPException` ends a trace; the graph does not change while it is traced.
* Engine: the text of `risk_model.yaml` (its options, thresholds and rules are constants and tables),
  explanations, quality of the data, and external exposures, for which the model file has no rules.
* Assessment: what a token of Shard changes in the answer it gets; the key of the cache does not have it
  either.
* Collection: Alchemy instead of Etherscan and the detail requests for missing recipients, which keep no
  state and change no list; rows without a time stamp; TRON's transfers of value 0, which stay in its
  report.
* Registry: runs lock subjects row by row; the rows of matches and of children, which only runs contend for,
  are locked by whole tables, so that a deadlock of two runs over their order is there only as the failure
  of a run at any moment (`AbortImport`).
* Adapters: the attempts of a fetch; one that fails in the end is `ProviderError`.
* Analytics: sums and behaviour patterns over decimals, pure functions of a report.
* A commit that fails after the server has executed it.

Some behaviour the modules reach is against nobody's word and so no run refutes it. The properties are
stated so that they do not depend on it, and `PROJECT.json` names each under *hazards*:

* two first syncs of a wallet leave two rows that make every later one raise (`SyncWorker!Refuse`);
* a database error in the handler of a sync leaves *running* behind, as a crash does (`SyncWorker!Abort`);
  of two overlapping rebuilds of a month the one that read first may write last (`RebuildWrite`);
* overlapping refreshes mix columns of two answers in one report (`KytCache!WrittenPayload`);
* a screening that records two matches may end with an error because the list is being replaced, although
  the replacement is not committed (`SanctionsRegistry!EndScreening`);
* an update of a tag may be recorded with a previous payload that another update has replaced
  (`RiskTags!UpdateEvent`);
* a request that brings its own answer and asks to skip the collection without naming a provider is told
  that the chain was not read, although it was (`Assessment!Skipped`);
* pages of Tronscan repeat a transfer, and lose the oldest one, when a new one arrives in the period; on
  Ethereum and Bitcoin a period that is over gets a report that is empty and marked when the newest
  transactions are all later, and rows of no value leave a report short of its limit (`Collection!Counts`);
  with as many unconfirmed transactions as the cap the chain is not asked at all, and the report is not
  marked (`ChainPage`);
* a score between two zones below RED is GREEN (`RiskEngine!ScoreZone`).

## 6. Plan

All modules planned are there, and every safety property is proved. What would come next, in this order: the
token of Shard in the key of `KytCache`'s requests, and a statement of the search with sources, where the
depth of a wallet is no longer its distance, that says what `ChainIsComplete` says without them.
