----------------------------- MODULE Collection -----------------------------
(***************************************************************************)
(* The wallet report: collect_wallet_report of                             *)
(* app/application/wallets/service.py with the paging of                   *)
(* app/infrastructure/blockchain/clients.py.                               *)
(*                                                                         *)
(* A network lists the transfers of a wallet newest first, in one stream   *)
(* or two (coin and token); new ones appear while the report is being      *)
(* collected.  A transfer is the number of its appearance, which is also   *)
(* its time, so that a list is a set in falling order.  Tronscan is asked  *)
(* by offsets, a few at a time (Throttle); Etherscan by page number,       *)
(* Blockstream by the last transaction seen, one request after another.    *)
(***************************************************************************)
EXTENDS Throttle, FiniteSets

CONSTANTS
  Network,    \* some of "tron", "ethereum", "bitcoin"
  Limits,     \* values of max_items
  MaxItems,   \* WALLET_MAX_SYNC_ITEMS, TRON_MAX_SYNC_ITEMS
  PageLimit,  \* per network: TRON_PAGE_LIMIT, ETHERSCAN_PAGE_LIMIT, ...
  MaxTx,      \* bound: transfers that appear in all
  MaxPool,    \* bound: unconfirmed transactions at once
  Empty,      \* transactions of the coin that move none of it
  NoOffset    \* "no page"

ASSUME CollectAssumption ==
  /\ Network \subseteq {"tron", "ethereum", "bitcoin"}
  /\ Limits \subseteq Nat \ {0} /\ PageLimit \in [Network -> Nat \ {0}]
  /\ MaxItems \in Nat \ {0} /\ MaxTx \in Nat /\ MaxPool \in Nat
  /\ NoOffset \notin Nat

Stream   == {"coin", "token"}
Transfer == 1 .. MaxTx

\* An unconfirmed transaction is stamped with the time of its reading; as the
\* end of a period, no end.
Pending == MaxTx + 1

VARIABLES
  chain,   \* per stream, the transfers that have appeared
  clock,   \* how many
  job,     \* the report being collected, then its result
  offset   \* per caller, the offset of the page it asks for

collectVars == <<chain, clock, job, offset>>
vars == <<queue, since, sleep, call, tries, chain, clock, job, offset>>

(***************************************************************************)
(* pc: first, rest  pages of Tronscan;  page  of Etherscan;  pool, chain   *)
(* of Blockstream.                                                         *)
(***************************************************************************)
Job ==
  [pc        : {"idle", "first", "rest", "page", "pool", "chain", "done", "failed"},
   network   : Network \cup {"none"},
   limit     : Nat,
   from      : Nat,                    \* start of the period, 0: all time
   until     : 0 .. Pending,           \* its end
   asked     : 0 .. MaxTx,             \* auxiliary: clock at the request
   stream    : Stream,
   raw       : Seq(0 .. Pending),      \* of this stream, 0: not there yet
   got       : Seq(1 .. Pending),      \* of the stream before; then the report
   page      : Nat,                    \* Etherscan: number of the next page
   target    : Nat,                    \* Tronscan: total; Blockstream: rows wanted
   pooled    : 0 .. MaxPool,           \* Blockstream: unconfirmed rows
   todo      : SUBSET (0 .. MaxTx),    \* offsets not asked for yet
   truncated : BOOLEAN,
   ended     : 0 .. MaxTx]             \* auxiliary: clock at the end

Idle ==
  [pc |-> "idle", network |-> "none", limit |-> 0, from |-> 0, until |-> 0,
   asked |-> 0, stream |-> "coin", raw |-> <<>>, got |-> <<>>, page |-> 1,
   target |-> 0, pooled |-> 0, todo |-> {}, truncated |-> FALSE, ended |-> 0]

TypeOK ==
  /\ ThrottleTypeOK
  /\ chain \in [Stream -> SUBSET Transfer]
  /\ clock \in 0 .. MaxTx
  /\ job \in Job
  /\ offset \in [Caller -> (0 .. MaxTx) \cup {NoOffset}]

Init ==
  /\ ThrottleInit
  /\ clock \in 0 .. MaxTx
  /\ \E tokens \in SUBSET ((1 .. clock) \ Empty) :
       chain = [s \in Stream |-> IF s = "token" THEN tokens ELSE (1 .. clock) \ tokens]
  /\ job = Idle
  /\ offset = [c \in Caller |-> NoOffset]

-----------------------------------------------------------------------------
(***************************************************************************)
(* Lists and reports.                                                      *)
(***************************************************************************)
Less(x, y) == IF x < y THEN x ELSE y

NewestFirst(s) ==
  [i \in 1 .. Cardinality(s) |->
     CHOOSE x \in s : Cardinality({y \in s : y > x}) = i - 1]

\* The n rows of a list from position start on, counted from 0.
Slice(list, start, n) == SubSeq(list, start + 1, Less(start + n, Len(list)))

First(list, n) == Slice(list, 0, n)

\* TRON's period is a parameter of the request, the others' a filter.
InPeriod(j, t) == j.from <= t /\ t <= j.until

Served(j) ==
  NewestFirst(IF j.network = "tron" THEN {t \in chain[j.stream] : InPeriod(j, t)}
              ELSE chain[j.stream])

\* The others' transactions that move no coin are no transfers.
Counts(j, t) == j.network = "tron" \/ (InPeriod(j, t) /\ t \notin Empty)

\* The rows at the positions kept, newest first.
InOrder(rows, kept) ==
  [n \in 1 .. Cardinality(kept) |->
     rows[CHOOSE i \in kept :
            Cardinality({k \in kept : \/ rows[k] > rows[i]
                                      \/ rows[k] = rows[i] /\ k < i}) = n - 1]]

\* Mutant: the streams are cut before they are in order.
MergedUnsorted(j, rows) == SelectSeq(rows, LAMBDA t : Counts(j, t))

Merged(j, rows) == InOrder(rows, {i \in DOMAIN rows : Counts(j, rows[i])})

Opening(network) ==
  CASE network = "tron" -> "first"
    [] network = "ethereum" -> "page"
    [] network = "bitcoin" -> "pool"

\* Mutant: only the second stream tells whether it was cut.
KeepMarkLast(j) == IF j.stream = "coin" THEN FALSE ELSE j.truncated

KeepMark(j) == j.truncated

\* All rows of a stream are there: the other one is next, or the report.
EndStream(j) ==
  IF j.network # "bitcoin" /\ j.stream = "coin"
    THEN job' = [j EXCEPT !.pc = Opening(j.network), !.stream = "token",
                          !.got = j.raw, !.raw = <<>>, !.page = 1, !.target = 0,
                          !.truncated = KeepMark(j)]
    ELSE \E rows \in {j.got \o j.raw} :
           job' = [Idle EXCEPT
                     !.pc = "done", !.network = j.network, !.limit = j.limit,
                     !.from = j.from, !.until = j.until, !.asked = j.asked,
                     !.stream = j.stream, !.pooled = j.pooled,
                     !.got = First(Merged(j, rows), j.limit),
                     !.truncated = j.truncated \/ Len(Merged(j, rows)) > j.limit,
                     !.ended = clock]

\* A period may end before or after the request, but only Tronscan's after it:
\* that of the others is cut off at the present (build_sync_period).  A request
\* without dates has no end on TRON, where it is no parameter then.
Ask(network, items, from, until) ==
  /\ job.pc \in {"idle", "done", "failed"}
  /\ \A c \in Caller : call[c] = "idle"
  /\ from <= until
  /\ network # "tron" => until <= clock
  /\ job' = [Idle EXCEPT !.pc = Opening(network), !.network = network,
                         !.limit = Less(items, MaxItems), !.from = from,
                         !.until = until, !.asked = clock]
  /\ UNCHANGED <<chain, clock, offset>>
  /\ UNCHANGED throttleVars

-----------------------------------------------------------------------------
(***************************************************************************)
(* Tronscan: the first page tells the total, the others are asked for at   *)
(* once, at most one per caller at a time.                                 *)
(***************************************************************************)
FirstLimit(j) == Less(PageLimit[j.network], j.limit)

RestOffsets(j, n, total) ==
  {o \in 1 .. total - 1 : o >= n /\ (o - n) % PageLimit[j.network] = 0}

AskFirst(c) ==
  /\ job.pc = "first"
  /\ \A d \in Caller : call[d] = "idle"
  /\ Start(c)
  /\ offset' = [offset EXCEPT ![c] = 0]
  /\ UNCHANGED <<chain, clock, job>>

AskRest(c) ==
  /\ job.pc = "rest"
  /\ job.todo # {}
  /\ LET o == CHOOSE o \in job.todo : \A p \in job.todo : o <= p
     IN /\ offset' = [offset EXCEPT ![c] = o]
        /\ job' = [job EXCEPT !.todo = @ \ {o}]
  /\ Start(c)
  /\ UNCHANGED <<chain, clock>>

TronFirst(j) ==
  LET list  == Served(j)
      rows  == First(list, FirstLimit(j))
      total == Less(Len(list), j.limit)
      done  == [j EXCEPT !.raw = rows,
                         !.truncated = j.truncated \/ Len(list) > Len(rows)]
  IN IF Len(rows) >= total \/ Len(rows) < FirstLimit(j)
       THEN EndStream(IF rows = <<>> THEN j ELSE done)
       ELSE job' = [j EXCEPT !.pc = "rest", !.raw = rows, !.target = Len(list),
                             !.todo = RestOffsets(j, Len(rows), total)]

\* The rows of the page at offset o take their place; pages are put in the
\* order of their offsets, and on a list that only grows they are never short.
Placed(j, o) ==
  LET total == Less(j.target, j.limit)
      page  == Slice(Served(j), o, Less(PageLimit[j.network], total - o))
  IN [i \in 1 .. total |->
        IF i \in o + 1 .. o + Len(page) THEN page[i - o]
        ELSE IF i \in DOMAIN j.raw THEN j.raw[i] ELSE 0]

TronRest(j, o, last) ==
  LET all == [j EXCEPT !.raw = Placed(j, o)]
  IN IF last
       THEN EndStream([all EXCEPT !.truncated = @ \/ j.target > Len(all.raw)])
       ELSE job' = all

\* A page arrives.  The call of a report that has failed ends unheard.
TronPage(c) ==
  LET last == job.todo = {} /\ \A d \in Caller \ {c} : offset[d] = NoOffset
  IN /\ Return(c)
     /\ offset' = [offset EXCEPT ![c] = NoOffset]
     /\ CASE job.pc = "first" -> TronFirst(job)
          [] job.pc = "rest" -> TronRest(job, offset[c], last)
          [] OTHER -> job' = job
     /\ UNCHANGED <<chain, clock>>

\* Mutant: the exception is swallowed.
LostSwallowed(j) == j

\* gather raises, the calls of the other pages run on.
Lost(j) == [Idle EXCEPT !.pc = "failed"]

\* A 429 too many, another status, no connection.
TronError(c) ==
  /\ Return(c)
  /\ offset' = [offset EXCEPT ![c] = NoOffset]
  /\ job' = Lost(job)
  /\ UNCHANGED <<chain, clock>>

-----------------------------------------------------------------------------
\* Etherscan: the page shrinks to what is missing, its number grows.
EtherPage ==
  LET n    == Less(PageLimit[job.network], job.limit - Len(job.raw))
      rows == Slice(Served(job), (job.page - 1) * n, n)
      all  == [job EXCEPT !.raw = @ \o rows, !.page = @ + 1]
  IN /\ job.pc = "page"
     /\ IF Len(rows) < n THEN EndStream(all)
        ELSE IF Len(all.raw) >= job.limit THEN EndStream([all EXCEPT !.truncated = TRUE])
        ELSE job' = all
     /\ UNCHANGED <<chain, clock, offset>>
     /\ UNCHANGED throttleVars

\* Blockstream: what is unconfirmed first ...
PoolPage ==
  /\ job.pc = "pool"
  /\ \E pool \in 0 .. MaxPool :
       LET n == Less(pool, job.limit)
       IN job' = [job EXCEPT !.pc = "chain", !.raw = [i \in 1 .. n |-> Pending],
                             !.pooled = n, !.target = Less(MaxItems, job.limit + n)]
  /\ UNCHANGED <<chain, clock, offset>>
  /\ UNCHANGED throttleVars

\* What the chain lists after the last transaction seen.
After(j) ==
  LET last == j.raw[Len(j.raw)]
  IN IF j.raw = <<>> \/ last = Pending THEN chain["coin"]
     ELSE {t \in chain["coin"] : t < last}

\* ... then the chain, page after page while rows are wanted.
ChainPage ==
  LET rows == First(NewestFirst(After(job)), PageLimit[job.network])
      all  == [job EXCEPT !.raw = @ \o rows]
  IN /\ job.pc = "chain"
     /\ IF Len(job.raw) >= job.target THEN EndStream(job)
        ELSE IF Len(rows) < PageLimit[job.network] THEN EndStream(all)
        ELSE IF Len(all.raw) >= job.target THEN EndStream([all EXCEPT !.truncated = TRUE])
        ELSE job' = all
     /\ UNCHANGED <<chain, clock, offset>>
     /\ UNCHANGED throttleVars

\* An explorer fails (502), or the client goes away.
Fail ==
  /\ job.pc \in {"first", "page", "pool", "chain"}
  /\ \A c \in Caller : call[c] = "idle"
  /\ job' = [Idle EXCEPT !.pc = "failed"]
  /\ UNCHANGED <<chain, clock, offset>>
  /\ UNCHANGED throttleVars

-----------------------------------------------------------------------------
\* A transaction is confirmed; what is unconfirmed is only ever read once.
Appear(s) ==
  /\ clock < MaxTx
  /\ clock + 1 \in Empty => s = "coin"
  /\ clock' = clock + 1
  /\ chain' = [chain EXCEPT ![s] = @ \cup {clock + 1}]
  /\ UNCHANGED <<job, offset>>
  /\ UNCHANGED throttleVars

\* What the event loop owes a caller and a report.
CallerStep(c) ==
  \/ ThrottleStep(c) /\ UNCHANGED collectVars
  \/ TronPage(c)
  \/ TronError(c)

JobStep ==
  \/ \E c \in Caller : AskFirst(c) \/ AskRest(c)
  \/ EtherPage
  \/ PoolPage
  \/ ChainPage
  \/ Fail

Time == Tick /\ UNCHANGED collectVars

Next ==
  \/ \E n \in Network, items \in Limits, from, until \in 0 .. Pending :
       Ask(n, items, from, until)
  \/ \E c \in Caller : CallerStep(c)
  \/ JobStep
  \/ Time
  \/ \E s \in Stream : Appear(s)

Spec == Init /\ [][Next]_vars

\* Sleeps end, and every request is answered or times out (httpx.Timeout).
FairSpec ==
  /\ Spec
  /\ \A c \in Caller : WF_vars(CallerStep(c))
  /\ WF_vars(JobStep)
  /\ WF_vars(Time)

-----------------------------------------------------------------------------
Streams(j) == IF j.network = "bitcoin" THEN {"coin"} ELSE Stream

\* What the explorer listed of a stream when the report was asked for.
Listed(j, s) ==
  {t \in chain[s] : t <= j.asked /\ (j.network = "tron" => InPeriod(j, t))}

\* The transfers of the period that had appeared then.
Due(j) ==
  {t \in UNION {Listed(j, s) : s \in Streams(j)} : InPeriod(j, t) /\ Counts(j, t)}

\* The n newest of a set, or all when there are fewer.
Newest(S, n) == {t \in S : Cardinality({u \in S : u > t}) < n}

\* How many transactions of a stream are looked at: as many as the report may
\* hold; of Blockstream's, the pages on which they are.
Reach(j) ==
  IF j.network = "bitcoin" THEN j.limit .. j.limit + PageLimit["bitcoin"] - 1
  ELSE {j.limit}

\* Nothing has appeared meanwhile; a report of Etherscan is cut at the end of
\* a page (clients.py:135 numbers pages while their size changes); the server's
\* cap leaves room for what is unconfirmed (wallets/service.py:153).
Quiet(j) ==
  /\ j.ended = j.asked
  /\ j.network = "ethereum" =>
       j.limit <= PageLimit[j.network] \/ j.limit % PageLimit[j.network] = 0
  /\ j.network = "bitcoin" => j.limit + j.pooled <= MaxItems

\* A report of a wallet at rest has the newest transfers of the period, each
\* once, in order, over two streams, pages asked for out of order, and
\* unconfirmed transactions that count against the limit.  But only Tronscan
\* knows of the period: of the others' transactions the newest of all are
\* looked at, and those outside the period or without value drop out of the
\* report without others in their place (wallets/service.py:78-92, 150-180).
QuietIsExact ==
  job.pc = "done" /\ Quiet(job) =>
    \E n \in Reach(job) :
      LET looked == UNION {Newest(Listed(job, s), n) : s \in Streams(job)}
      IN job.got = First(NewestFirst(Due(job) \cap looked), job.limit)

\* Nothing has appeared in the period meanwhile.
Settled(j) == \A t \in j.asked + 1 .. j.ended : ~InPeriod(j, t)

\* A report that is not marked as truncated has every transfer of its period
\* that had appeared when it was asked for, whatever appears meanwhile outside
\* the period.  Where the period is over, nothing appears in it; on TRON it
\* need not be, and then the offsets of the pages shift
\* (wallets/service.py:213-228).  Only unconfirmed transactions up to the
\* server's cap keep the chain from being asked (line 156).
UnmarkedIsWhole ==
  (/\ job.pc = "done" /\ ~job.truncated
   /\ Settled(job)
   /\ job.network = "bitcoin" => job.pooled < MaxItems)
  => Due(job) \subseteq {job.got[i] : i \in DOMAIN job.got}

\* Every report ends, through the lock, the sleeps and the retries
\* (clients.py:29-82).
ReportEnds == (job.pc = "first") ~> (job.pc \in {"done", "failed"})
=============================================================================
