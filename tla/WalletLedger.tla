---------------------------- MODULE WalletLedger ----------------------------
(***************************************************************************)
(* What the synchronisation pipeline promises its readers, with no worker  *)
(* in sight: a ledger of transactions that only grows and only by what the *)
(* chain reports, and per wallet and month a figure that is recomputed     *)
(* from the ledger in one go ("Recompute monthly aggregates for a wallet × *)
(* month", app/workers/aggregator.py:33).  SyncWorker implements it as     *)
(* long as the syncs of one wallet do not overlap.                         *)
(***************************************************************************)
CONSTANTS Wallet, Transfer, Month, Asset,
          WalletOf, MonthOf, HashOf, IsError

VARIABLES chain,   \* the transfers reported so far
          ledger,  \* the booked transactions, pairs of transfer and asset
          view     \* per wallet and month, the transactions added up

lvars == <<chain, ledger, view>>

LedgerInit ==
  /\ chain = {}
  /\ ledger = {}
  /\ view = [k \in Wallet \X Month |-> {}]

Appear ==
  /\ \E t \in Transfer : chain' = chain \cup {t}
  /\ UNCHANGED <<ledger, view>>

SameTransaction(e, t, a) ==
  /\ HashOf[e[1]] = HashOf[t]
  /\ WalletOf[e[1]] = WalletOf[t]
  /\ e[2] = a

\* A reported transfer is booked, once per transaction hash, wallet and asset.
Book ==
  /\ \E t \in chain, a \in Asset :
       /\ \A e \in ledger : ~SameTransaction(e, t, a)
       /\ ledger' = ledger \cup {<<t, a>>}
  /\ UNCHANGED <<chain, view>>

Of(k) == {e \in ledger : /\ WalletOf[e[1]] = k[1]
                         /\ MonthOf[e[1]] = k[2]
                         /\ ~IsError[e[1]]}

Recompute ==
  /\ \E k \in Wallet \X Month : view' = [view EXCEPT ![k] = Of(k)]
  /\ UNCHANGED <<chain, ledger>>

LedgerNext == Appear \/ Book \/ Recompute

LedgerSpec == LedgerInit /\ [][LedgerNext]_lvars
=============================================================================
