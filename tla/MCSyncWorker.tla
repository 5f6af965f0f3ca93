---------------------------- MODULE MCSyncWorker ----------------------------
(***************************************************************************)
(* Instances of SyncWorker for TLC.                                        *)
(***************************************************************************)
EXTENDS SyncWorker, TLC

CONSTANTS w1, w2, wa, wb, eth, usdt, m1, m2, t1, t2, t3, h1, h2, h3, none

\* Two wallets: a transfer of the coin and one of a token, a month apart, to
\* the first, and a transfer of the same token to the second.
BatchWallet   == t1 :> wa @@ t2 :> wa @@ t3 :> wb
BatchContract == t1 :> eth @@ t2 :> usdt @@ t3 :> usdt
BatchMonth    == t1 :> m1 @@ t2 :> m2 @@ t3 :> m1
BatchHash     == t1 :> h1 @@ t2 :> h2 @@ t3 :> h3
BatchBlock    == t1 :> 1 @@ t2 :> 3 @@ t3 :> 2
BatchError    == t1 :> FALSE @@ t2 :> FALSE @@ t3 :> FALSE

\* One wallet and one month: a token transfer and a failed native transaction.
SoloWallet   == [t \in Transfer |-> wa]
SoloContract == [t \in Transfer |-> IF t = t2 THEN eth ELSE usdt]
SoloMonth    == [t \in Transfer |-> m1]
SoloHash     == [t \in Transfer |-> IF t = t2 THEN h2 ELSE h1]
SoloBlock    == [t \in Transfer |-> IF t = t2 THEN 1 ELSE 2]
SoloError    == [t \in Transfer |-> t = t2]

Symmetry == Permutations(Worker)
=============================================================================
