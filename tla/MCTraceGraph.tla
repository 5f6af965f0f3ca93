---------------------------- MODULE MCTraceGraph ----------------------------
(***************************************************************************)
(* Instances of TraceGraph for TLC.                                        *)
(***************************************************************************)
EXTENDS TraceGraph

CONSTANTS r, a, b, c, x, trx, usdt

L(u, v, s) == [from |-> u, to |-> v, asset |-> s]

\* Three ways on from the root, two of which meet again, and a way back: every
\* subset of its links.
Chain == {L(r, a, trx), L(r, b, trx), L(r, c, usdt), L(b, x, trx), L(x, a, trx),
          L(a, x, usdt), L(a, r, trx)}
Subgraphs == SUBSET Chain

\* Four addresses; as many links shown as collected, or half of them.
AllRequests ==
  [depth : {1, 2, 3}, include_incoming : BOOLEAN, max_branches : {0, 1},
   max_addresses : {4}, max_edges : {4}, max_candidates : {4}]
  \cup
  [depth : {1, 2, 3}, include_incoming : BOOLEAN, max_branches : {0, 1},
   max_addresses : {4}, max_edges : {3}, max_candidates : {6}]
=============================================================================
