----------------------------- MODULE SyncWorker -----------------------------
(***************************************************************************)
(* The synchronisation pipeline: app/workers/sync_worker.py together with  *)
(* rebuild_monthly_aggregates of app/workers/aggregator.py, over the four  *)
(* tables they share (assets, transactions, sync_states and                *)
(* monthly_aggregates of app/models.py).                                   *)
(*                                                                         *)
(* A worker is one concurrency slot of sync_all_wallets (an asyncio task   *)
(* holding the semaphore).  Every step below ends at an await that other   *)
(* tasks can interleave with: a SELECT is one step, the writes of a        *)
(* database transaction take effect in one step, at its commit.            *)
(***************************************************************************)
EXTENDS Naturals

CONSTANTS
  Worker,      \* concurrency slots of sync_all_wallets
  Wallet,      \* the active wallets (is_active) of a supported network
  Transfer,    \* what fetch_transactions can ever yield, per wallet
  Contract,    \* token contracts, and Native
  Native,      \* the NULL contract_address of a network's own coin
  Month,       \* (year, month) pairs
  WalletOf,    \* the attributes of a transfer, functions on Transfer
  ContractOf,
  MonthOf,
  HashOf,
  BlockOf,
  IsError,
  ForceArgs,       \* values of the force argument callers may pass
  Faults,      \* subset of {"provider", "database", "crash"} that may happen
  Overlap,     \* may two calls of sync_wallet for one wallet overlap?
  None         \* "no value" of a local variable

\* A row of sync_states and of assets is named by the worker that inserted it:
\* a worker inserts at most one row per wallet and one per contract, because
\* it looks for an existing row first and rows are never deleted.
RowId   == Wallet \X Worker
AssetId == Contract \X Worker

\* A row of transactions: the transfer and the asset it was booked under.
Entry == Transfer \X AssetId

Status == {"pending", "running", "completed", "failed"}

ASSUME SyncAssumption ==
  /\ WalletOf \in [Transfer -> Wallet]
  /\ ContractOf \in [Transfer -> Contract]
  /\ MonthOf \in [Transfer -> Month]
  /\ BlockOf \in [Transfer -> Nat]
  /\ IsError \in [Transfer -> BOOLEAN]
  /\ DOMAIN HashOf = Transfer
  /\ Native \in Contract
  /\ ForceArgs \subseteq BOOLEAN
  /\ Faults \subseteq {"provider", "database", "crash"}
  /\ Overlap \in BOOLEAN
  /\ None \notin Wallet \cup Transfer \cup Month \cup RowId \cup AssetId

VARIABLES
  chain,              \* the transfers the providers report so far
  assets,             \* ids of the committed rows of assets
  stored,             \* committed rows of transactions
  syncRows,           \* ids of the committed rows of sync_states
  status,             \* their status column
  last_synced_block,  \* their cursor column
  agg,                \* per wallet and month, the rows the aggregates add up
  task,               \* local state of the worker running sync_wallet
  dropped,            \* history: months whose rebuild was lost with an
                      \* exception or a crash and not done since
  abandoned           \* history: rows whose sync was lost, with the process
                      \* or in the handler, since it marked them running

vars == <<chain, assets, stored, syncRows, status, last_synced_block, agg,
          task, dropped, abandoned>>

-----------------------------------------------------------------------------
(***************************************************************************)
(* Local state of sync_wallet.  pc names the await the worker stands at:   *)
(*   loaded      the SELECT of sync_states returned (line 129)             *)
(*   streaming   inside "async for ntx in fetch_transactions"              *)
(*   storing     the SELECT of assets returned (line 53)                   *)
(*   completing  the SELECT before the status "completed" returned (181)   *)
(*   rebuilding  the status "completed" is committed (line 188)            *)
(*   writing     the grouped SELECT of the aggregator returned             *)
(*   failing     an exception reached the handler (line 196)               *)
(*   recording   the SELECT before the status "failed" returned (199)      *)
(***************************************************************************)
Idle ==
  [pc |-> "idle", wallet |-> None, row |-> None, read |-> None, cursor |-> 0,
   due |-> {}, todo |-> {}, cur |-> None, asset |-> None, months |-> {},
   month |-> None, snap |-> {}]

Task ==
  [pc     : {"idle", "loaded", "streaming", "storing", "completing",
             "rebuilding", "writing", "failing", "recording"},
   wallet : Wallet \cup {None},
   row    : RowId \cup {None},
   read   : Status \cup {None},    \* the status the session has read
   cursor : Nat,                   \* the in-memory last_synced_block
   due    : SUBSET Transfer,       \* history: the wallet's transfers on
                                   \* chain when the stream was opened
   todo   : SUBSET Transfer,       \* what the stream has still to yield
   cur    : Transfer \cup {None},  \* ntx
   asset  : AssetId \cup {None},   \* row returned by the SELECT of assets
   months : SUBSET Month,          \* affected_months
   month  : Month \cup {None},     \* the month being rebuilt
   snap   : SUBSET Entry]          \* the rows the grouped SELECT saw

TypeOK ==
  /\ chain \subseteq Transfer
  /\ assets \subseteq AssetId
  /\ stored \subseteq Entry
  /\ syncRows \subseteq RowId
  /\ status \in [RowId -> Status]
  /\ last_synced_block \in [RowId -> Nat]
  /\ agg \in [Wallet \X Month -> SUBSET Entry]
  /\ task \in [Worker -> Task]
  /\ dropped \subseteq Wallet \X Month
  /\ abandoned \subseteq RowId

Init ==
  /\ chain = {}
  /\ assets = {}
  /\ stored = {}
  /\ syncRows = {}
  /\ status = [r \in RowId |-> "pending"]
  /\ last_synced_block = [r \in RowId |-> 0]
  /\ agg = [k \in Wallet \X Month |-> {}]
  /\ task = [w \in Worker |-> Idle]
  /\ dropped = {}
  /\ abandoned = {}

-----------------------------------------------------------------------------
(***************************************************************************)
(* The provider.  A transfer of a wallet appears; a stream that is being   *)
(* paged through may or may not still yield it.                            *)
(***************************************************************************)
Streams(w, t) ==
  /\ task[w].pc \in {"streaming", "storing"}
  /\ task[w].wallet = WalletOf[t]

Arrive(t) ==
  /\ t \notin chain
  /\ chain' = chain \cup {t}
  /\ \E S \in SUBSET {w \in Worker : Streams(w, t)} :
       task' = [w \in Worker |->
                  IF w \in S THEN [task[w] EXCEPT !.todo = @ \cup {t}]
                             ELSE task[w]]
  /\ UNCHANGED <<assets, stored, syncRows, status, last_synced_block, agg,
                 dropped, abandoned>>

\* Mutant: resumes one block too late.
FetchableFromNext(t, from_block) == BlockOf[t] > from_block + 1

\* What the adapters yield from a given block: a row at or below it ends the
\* stream, unless it carries no block number.  This is the strictest of them:
\* Etherscan's startblock is inclusive and TRC-20 transfers ignore the block.
Fetchable(t, from_block) == BlockOf[t] = 0 \/ BlockOf[t] > from_block

-----------------------------------------------------------------------------
(***************************************************************************)
(* sync_wallet, up to the commit of the status "running".                  *)
(***************************************************************************)
RowsOf(wal) == {r \in syncRows : r[1] = wal}

\* scalar_one_or_none raises MultipleResultsFound on two rows.
Unique(S) == \A x, y \in S : x = y

MaySync(w, wal) ==
  /\ task[w].pc = "idle"
  /\ Overlap \/ \A v \in Worker : task[v].wallet # wal

Skips(wal, force) ==
  /\ ~force
  /\ \E r \in RowsOf(wal) : status[r] = "running"

Load(w, wal, force) ==
  /\ MaySync(w, wal)
  /\ Unique(RowsOf(wal))
  /\ ~Skips(wal, force)
  /\ \E r \in RowId \cup {None} :
       /\ IF RowsOf(wal) = {} THEN r = None ELSE r \in RowsOf(wal)
       /\ task' = [task EXCEPT ![w] =
                     [Idle EXCEPT !.pc = "loaded", !.wallet = wal, !.row = r,
                        !.read = IF r = None THEN "pending" ELSE status[r],
                        !.cursor = IF r = None THEN 0
                                               ELSE last_synced_block[r]]]
  /\ UNCHANGED <<chain, assets, stored, syncRows, status, last_synced_block,
                 agg, dropped, abandoned>>

\* The early exits: the wallet is already running, or the SELECT raised.
Refuse(w, wal, force) ==
  /\ MaySync(w, wal)
  /\ Skips(wal, force) \/ ~Unique(RowsOf(wal))
  /\ UNCHANGED vars

\* Mutant: a status that is found "running" is left to the call that wrote it.
StatusAfterUnlessRunning(r, read, new) ==
  IF read \in {"running", new} THEN status ELSE [status EXCEPT ![r] = new]

\* A session writes the column only if it differs from what it has read.
StatusAfter(r, read, new) ==
  IF read = new THEN status ELSE [status EXCEPT ![r] = new]

MarkRunning(w) ==
  LET s == task[w]
      r == IF s.row = None THEN <<s.wallet, w>> ELSE s.row
      D == {t \in chain : WalletOf[t] = s.wallet}
  IN /\ s.pc = "loaded"
     /\ syncRows' = syncRows \cup {r}
     /\ status' = StatusAfter(r, s.read, "running")
     /\ task' = [task EXCEPT ![w] =
                   [s EXCEPT !.pc = "streaming", !.row = r, !.read = None,
                      !.due = D, !.todo = {t \in D : Fetchable(t, s.cursor)}]]
     /\ abandoned' = abandoned \ {r}
     /\ UNCHANGED <<chain, assets, stored, last_synced_block, agg, dropped>>

-----------------------------------------------------------------------------
(***************************************************************************)
(* The exception handler: the local variables of the try block go with the *)
(* exception, affected_months among them, whatever was committed for them. *)
(***************************************************************************)
Lost(w) == {task[w].wallet} \X task[w].months

Failing(s) ==
  [Idle EXCEPT !.pc = "failing", !.wallet = s.wallet, !.row = s.row]

Raise(w) ==
  /\ task' = [task EXCEPT ![w] = Failing(@)]
  /\ dropped' = dropped \cup Lost(w)
  /\ UNCHANGED <<chain, assets, stored, syncRows, status, last_synced_block,
                 agg, abandoned>>

ProviderError(w) ==
  /\ "provider" \in Faults
  /\ task[w].pc = "streaming"
  /\ Raise(w)

DatabaseError(w) ==
  /\ "database" \in Faults
  /\ task[w].pc \in {"streaming", "storing", "completing", "rebuilding",
                     "writing"}
  /\ Raise(w)

\* The SELECT that precedes a change of the status.
SelectStatus(w, pc) ==
  /\ task' = [task EXCEPT ![w] = [@ EXCEPT !.pc = pc, !.cursor = 0,
                                          !.read = status[task[w].row]]]
  /\ UNCHANGED <<chain, assets, stored, syncRows, status, last_synced_block,
                 agg, dropped, abandoned>>

\* Mutant: the handler opens the stream again instead of giving up.
SelectFailedRetrying(w) ==
  /\ task[w].pc = "failing"
  /\ task' = [task EXCEPT ![w] = [@ EXCEPT !.pc = "streaming",
                     !.todo = {t \in chain : WalletOf[t] = task[w].wallet}]]
  /\ UNCHANGED <<chain, assets, stored, syncRows, status, last_synced_block,
                 agg, dropped, abandoned>>

SelectFailed(w) == task[w].pc = "failing" /\ SelectStatus(w, "recording")

RecordFailure(w) ==
  /\ task[w].pc = "recording"
  /\ status' = StatusAfter(task[w].row, task[w].read, "failed")
  /\ task' = [task EXCEPT ![w] = Idle]
  /\ UNCHANGED <<chain, assets, stored, syncRows, last_synced_block, agg,
                 dropped, abandoned>>

\* The call has still to write "completed" or "failed" in place of "running":
\* it has not read the status for it yet, or has read "running".
TakesBack(w) ==
  \/ task[w].pc \in {"streaming", "storing", "failing"}
  \/ task[w].pc \in {"completing", "recording"} /\ task[w].read = "running"

Stop(w) ==
  /\ task' = [task EXCEPT ![w] = Idle]
  /\ dropped' = dropped \cup Lost(w)
  /\ abandoned' = abandoned \cup (IF TakesBack(w) THEN {task[w].row} ELSE {})
  /\ UNCHANGED <<chain, assets, stored, syncRows, status, last_synced_block,
                 agg>>

\* A database error outside the try block, or inside its handler.
Abort(w) ==
  /\ "database" \in Faults
  /\ task[w].pc \in {"loaded", "failing", "recording"}
  /\ Stop(w)

\* The process dies, or the task is cancelled: CancelledError is no Exception.
Crash(w) ==
  /\ "crash" \in Faults
  /\ task[w].pc # "idle"
  /\ Stop(w)

-----------------------------------------------------------------------------
(***************************************************************************)
(* One iteration of the loop: get_or_create_asset, upsert_transaction and  *)
(* the commit of the inner session.                                        *)
(***************************************************************************)
AssetRows(c) == {a \in assets : a[1] = c}

SelectAsset(w, t) ==
  LET s == task[w]
      A == AssetRows(ContractOf[t])
  IN /\ s.pc = "streaming"
     /\ t \in s.todo
     /\ Unique(A)
     /\ \E a \in AssetId \cup {None} :
          /\ IF A = {} THEN a = None ELSE a \in A
          /\ task' = [task EXCEPT ![w] =
                        [s EXCEPT !.pc = "storing", !.cur = t, !.asset = a,
                           !.todo = s.todo \ {t}]]
     /\ UNCHANGED <<chain, assets, stored, syncRows, status,
                    last_synced_block, agg, dropped, abandoned>>

\* MultipleResultsFound from the SELECT of assets.
AssetAmbiguous(w, t) ==
  /\ task[w].pc = "streaming"
  /\ t \in task[w].todo
  /\ ~Unique(AssetRows(ContractOf[t]))
  /\ Raise(w)

\* uq_asset_contract_network does not compare NULLs, so it does not stop a
\* second row of the native coin.
InsertRefused(w) ==
  LET c == ContractOf[task[w].cur]
  IN task[w].asset = None /\ c # Native /\ AssetRows(c) # {}

AssetConflict(w) ==
  /\ task[w].pc = "storing"
  /\ InsertRefused(w)
  /\ Raise(w)

\* uq_tx_wallet_asset: same tx_hash, wallet and asset.
Conflict(t, a) ==
  \E e \in stored : /\ HashOf[e[1]] = HashOf[t]
                    /\ WalletOf[e[1]] = WalletOf[t]
                    /\ e[2] = a

Later(x, y) == IF x > y THEN x ELSE y

\* Mutant: books under the row the SELECT returned, though it inserted one.
AssetForSelected(w) == task[w].asset

\* The id get_or_create_asset returns.
AssetFor(w) ==
  IF task[w].asset = None THEN <<ContractOf[task[w].cur], w>> ELSE task[w].asset

\* Mutant: only the last month is remembered.
MonthsAfterLast(w, new) ==
  IF new THEN {MonthOf[task[w].cur]} ELSE task[w].months

\* affected_months after a transfer.
MonthsAfter(w, new) ==
  IF new THEN task[w].months \cup {MonthOf[task[w].cur]} ELSE task[w].months

StoreTransfer(w) ==
  LET s == task[w]
      t == s.cur
      a == AssetFor(w)
      new == ~Conflict(t, a)
  IN /\ s.pc = "storing"
     /\ ~InsertRefused(w)
     /\ assets' = assets \cup {a}
     /\ stored' = IF new THEN stored \cup {<<t, a>>} ELSE stored
     /\ task' = [task EXCEPT ![w] =
                   [s EXCEPT !.pc = "streaming", !.cur = None, !.asset = None,
                      !.months = MonthsAfter(w, new),
                      !.cursor = IF new THEN Later(s.cursor, BlockOf[t])
                                        ELSE s.cursor]]
     /\ UNCHANGED <<chain, syncRows, status, last_synced_block, agg, dropped,
                    abandoned>>

-----------------------------------------------------------------------------
(***************************************************************************)
(* After the stream: the status, then the aggregates of affected_months.   *)
(***************************************************************************)
\* Mutant: the stream stops at blocks below the cursor it has just advanced.
ExhaustedBelowCursor(w) ==
  \A t \in task[w].todo : BlockOf[t] <= task[w].cursor

Exhausted(w) == task[w].todo = {}

SelectCompleted(w) ==
  /\ task[w].pc = "streaming"
  /\ Exhausted(w)
  /\ SelectStatus(w, "completing")

Complete(w) ==
  /\ task[w].pc = "completing"
  /\ status' = StatusAfter(task[w].row, task[w].read, "completed")
  /\ task' = [task EXCEPT ![w] = [@ EXCEPT !.pc = "rebuilding", !.read = None]]
  /\ UNCHANGED <<chain, assets, stored, syncRows, last_synced_block, agg,
                 dropped, abandoned>>

\* Mutants: the grouped SELECT without its month and its is_error condition.
CountedAllMonths(wal, m) ==
  {e \in stored : WalletOf[e[1]] = wal /\ ~IsError[e[1]]}

CountedWithErrors(wal, m) ==
  {e \in stored : WalletOf[e[1]] = wal /\ MonthOf[e[1]] = m}

\* The rows the grouped SELECT of rebuild_monthly_aggregates adds up.
Counted(wal, m) ==
  {e \in stored : /\ WalletOf[e[1]] = wal
                  /\ MonthOf[e[1]] = m
                  /\ ~IsError[e[1]]}

RebuildRead(w, m) ==
  /\ task[w].pc = "rebuilding"
  /\ m \in task[w].months
  /\ task' = [task EXCEPT ![w] =
                [@ EXCEPT !.pc = "writing", !.month = m,
                   !.snap = Counted(task[w].wallet, m)]]
  /\ UNCHANGED <<chain, assets, stored, syncRows, status, last_synced_block,
                 agg, dropped, abandoned>>

\* One upsert per asset the SELECT returned; other assets keep their row.
Overwrite(old, snap) == {e \in old : \A f \in snap : e[2] # f[2]} \cup snap

RebuildWrite(w) ==
  LET s == task[w]
      k == <<s.wallet, s.month>>
  IN /\ s.pc = "writing"
     /\ agg' = [agg EXCEPT ![k] = Overwrite(@, s.snap)]
     /\ dropped' = dropped \ {k}
     /\ task' = [task EXCEPT ![w] =
                   [s EXCEPT !.pc = "rebuilding", !.month = None, !.snap = {},
                      !.months = s.months \ {s.month}]]
     /\ UNCHANGED <<chain, assets, stored, syncRows, status,
                    last_synced_block, abandoned>>

Return(w) ==
  /\ task[w].pc = "rebuilding"
  /\ task[w].months = {}
  /\ task' = [task EXCEPT ![w] = Idle]
  /\ UNCHANGED <<chain, assets, stored, syncRows, status, last_synced_block,
                 agg, dropped, abandoned>>

-----------------------------------------------------------------------------
\* What a started sync_wallet does next on its own.
Step(w) ==
  \/ MarkRunning(w)
  \/ \E t \in Transfer : SelectAsset(w, t) \/ AssetAmbiguous(w, t)
  \/ AssetConflict(w)
  \/ StoreTransfer(w)
  \/ SelectCompleted(w)
  \/ Complete(w)
  \/ \E m \in Month : RebuildRead(w, m)
  \/ RebuildWrite(w)
  \/ Return(w)
  \/ SelectFailed(w)
  \/ RecordFailure(w)

Fault(w) == ProviderError(w) \/ DatabaseError(w) \/ Abort(w) \/ Crash(w)

Next ==
  \/ \E t \in Transfer : Arrive(t)
  \/ \E w \in Worker :
       \/ \E wal \in Wallet, force \in ForceArgs :
            Load(w, wal, force) \/ Refuse(w, wal, force)
       \/ Step(w)
       \/ Fault(w)

Spec == Init /\ [][Next]_vars

\* asyncio keeps running the tasks it has started.
FairSpec == Spec /\ \A w \in Worker : WF_vars(Step(w))

\* In addition, somebody keeps asking for every wallet to be synchronised
\* (README: the scheduler triggers sync_all_wallets every day).
ScheduledSpec ==
  /\ FairSpec
  /\ \A wal \in Wallet, force \in ForceArgs :
       WF_vars(\E w \in Worker : Load(w, wal, force))
-----------------------------------------------------------------------------
(***************************************************************************)
(* What the pipeline guarantees.                                           *)
(***************************************************************************)
Ledger == INSTANCE WalletLedger WITH ledger <- stored, view <- agg,
                                     Asset <- AssetId

Booked(t) ==
  \E e \in stored : /\ HashOf[e[1]] = HashOf[t]
                    /\ WalletOf[e[1]] = WalletOf[t]
                    /\ e[2][1] = ContractOf[t]

\* When sync_wallet writes "completed" (line 185), every transfer that was on
\* chain when it opened the stream is in transactions, whatever was synced
\* before, failed or crashed before, and whoever else is syncing the wallet.
CompletedMeansStored ==
  \A w \in Worker : task[w].pc \in {"completing", "rebuilding", "writing"} =>
                      \A t \in task[w].due : Booked(t)

\* Aggregates never show a transaction that is not stored, is marked is_error,
\* or belongs to another wallet or month, however two rebuilds interleave.
AggregatesExplained ==
  \A k \in Wallet \X Month : agg[k] \subseteq Ledger!Of(k)

\* A stored transaction that its monthly aggregate lacks is still owed by the
\* worker syncing the wallet, or belongs to a month whose rebuild was lost
\* with an exception or a crash (lines 193-206).  There is no other way for an
\* aggregate to be stale while the syncs of one wallet do not overlap.
StaleOnlyIfDropped ==
  \A k \in Wallet \X Month :
    \/ Ledger!Of(k) \subseteq agg[k]
    \/ \E w \in Worker : task[w].wallet = k[1] /\ k[2] \in task[w].months
    \/ k \in dropped

\* Readers of monthly_aggregates and transactions cannot tell the pipeline
\* from one that books transfers and recomputes months atomically, while the
\* syncs of one wallet do not overlap.
ImplementsLedger == Ledger!LedgerSpec

\* A row is running only while some call of the wallet is there to take that
\* back, or after one was lost: with the process or the task, or because the
\* handler itself failed (lines 198-206).  Calls that overlap, forced or not,
\* do not leave it behind by the order of their SELECTs and commits (129-142,
\* 181-188, 199-206), though none of them writes a status it has read already.
RunningIsAttended ==
  \A r \in RowId : status[r] = "running" =>
    \/ r \in abandoned
    \/ \E w \in Worker : task[w].row = r /\ TakesBack(w)

\* Unless a call is lost so, the status "running", which makes later calls
\* return at once (line 135), is always taken back.
RunningIsReleased ==
  \A r \in RowId :
    status[r] = "running" ~> (status[r] # "running" \/ r \in abandoned)

-----------------------------------------------------------------------------
(***************************************************************************)
(* What the documentation says and the code does not do.                   *)
(***************************************************************************)

\* app/models.py:224: last_synced_block / last_synced_tx prevent
\* re-downloading history; README.md:340: the cursor of sync_states is
\* updated with each stored transaction.
CursorCoversHistory ==
  \A r \in syncRows : status[r] = "completed" =>
    \A e \in stored : WalletOf[e[1]] = r[1] =>
                        BlockOf[e[1]] <= last_synced_block[r]

\* app/workers/sync_worker.py:5: wallets with a pending or stale sync_state
\* are loaded again, so no wallet stays "running" with nobody syncing it.
StaleRunningIsRetried ==
  \A wal \in Wallet :
    (/\ \E r \in RowsOf(wal) : status[r] = "running"
     /\ \A w \in Worker : task[w].wallet # wal)
      ~> (\E w \in Worker : task[w].wallet = wal)
=============================================================================
