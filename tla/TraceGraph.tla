----------------------------- MODULE TraceGraph -----------------------------
(***************************************************************************)
(* The route of funds of a TRON wallet: trace_tron_wallet                  *)
(* (app/application/wallets/trace.py), a breadth-first search along        *)
(* outgoing transfers that asks Tronscan for the transfers of one wallet   *)
(* at a time, under limits on addresses, links, branches and time, and     *)
(* the hops the risk engine derives from its result.                       *)
(*                                                                         *)
(* A link is what aggregate_transfer_edges makes of the transfers of an    *)
(* asset from one wallet to another.  Amounts decide only orders and cuts, *)
(* which are left open here: any order, any cut of the right size.         *)
(***************************************************************************)
EXTENDS Integers, Sequences, FiniteSets

CONSTANTS
  Wallet, Asset,
  Root,      \* the traced wallet
  Graphs,    \* the possible sets of links on chain
  Requests,  \* the possible parameters of the request and limits of the server
  None       \* the depth of a wallet that is not in `nodes'

\* Transfers of a wallet to itself are left out by aggregate_transfer_edges.
Link    == {e \in [from : Wallet, to : Wallet, asset : Asset] : e.from # e.to}
Request ==
  [depth : Nat \ {0}, include_incoming : BOOLEAN, max_branches : Nat,
   max_addresses : Nat \ {0}, max_edges : Nat \ {0}, max_candidates : Nat \ {0}]

ASSUME TraceAssumption ==
  /\ IsFiniteSet(Wallet)
  /\ Root \in Wallet
  /\ Graphs \subseteq SUBSET Link
  /\ Requests \subseteq Request
  /\ None \notin Int

VARIABLES
  graph,       \* the links on chain
  request,
  pc,
  depth,       \* depth of each wallet in `nodes', None of the others
  visited, queued,
  queue,
  current,     \* the wallet in hand and its depth
  outgoing, incoming,  \* its links not yet processed
  candidates,  \* edge_candidates
  truncated,
  time_left,
  edges,       \* the links in the answer
  partial      \* auxiliary: some wallet's links were not all received

vars == <<graph, request, pc, depth, visited, queued, queue, current, outgoing,
          incoming, candidates, truncated, time_left, edges, partial>>

Directions == {"outgoing", "incoming"}
Item       == [wallet : Wallet, depth : Nat]
Candidate  == [edge : Link, direction : Directions, trace_distance : Nat]

TypeOK ==
  /\ graph \in Graphs
  /\ request \in Requests
  /\ pc \in {"loop", "visit", "fetch", "finish", "done"} \cup Directions
  /\ depth \in [Wallet -> Int \cup {None}]
  /\ visited \subseteq Wallet
  /\ queued \subseteq Wallet
  /\ queue \in Seq(Item)
  /\ current \in Item
  /\ outgoing \subseteq graph
  /\ incoming \subseteq graph
  /\ candidates \subseteq Candidate
  /\ truncated \in BOOLEAN
  /\ time_left \in BOOLEAN
  /\ edges \subseteq candidates
  /\ partial \in BOOLEAN
  /\ Cardinality(visited) <= request.max_addresses
  /\ Cardinality(candidates) <= request.max_candidates
  /\ Cardinality(edges) <= request.max_edges

Init ==
  /\ graph \in Graphs
  /\ request \in Requests
  /\ pc = "loop"
  /\ depth = [w \in Wallet |-> IF w = Root THEN 0 ELSE None]
  /\ visited = {}
  /\ queued = {Root}
  /\ queue = <<[wallet |-> Root, depth |-> 0]>>
  /\ current = [wallet |-> Root, depth |-> 0]
  /\ outgoing = {} /\ incoming = {}
  /\ candidates = {}
  /\ truncated = FALSE
  /\ time_left = TRUE
  /\ edges = {}
  /\ partial = FALSE

Least(d, n) == IF d = None \/ d > n THEN n ELSE d

-----------------------------------------------------------------------------
(***************************************************************************)
(* The loop over the queue.                                                *)
(***************************************************************************)
CandidatesOver == Cardinality(candidates) > request.max_candidates


CandidatesFull == Cardinality(candidates) >= request.max_candidates

Continues ==
  /\ queue # <<>>
  /\ Cardinality(visited) < request.max_addresses
  /\ ~CandidatesFull
  /\ time_left

PopLast ==
  /\ pc = "loop"
  /\ Continues
  /\ LET item == queue[Len(queue)]
         new  == item.wallet \notin visited
     IN /\ queue' = SubSeq(queue, 1, Len(queue) - 1)
        /\ visited' = visited \cup {item.wallet}
        /\ pc' = IF new THEN "visit" ELSE "loop"
        /\ current' = IF new THEN item ELSE current
        /\ depth' = IF new THEN [depth EXCEPT ![item.wallet] = Least(@, item.depth)]
                           ELSE depth
  /\ UNCHANGED <<graph, request, queued, outgoing, incoming, candidates,
                 truncated, time_left, edges, partial>>

\* A wallet is queued once, so the test for one that has been visited never
\* skips anything.
Pop ==
  /\ pc = "loop"
  /\ Continues
  /\ LET item == Head(queue)
         new  == item.wallet \notin visited
     IN /\ queue' = Tail(queue)
        /\ visited' = visited \cup {item.wallet}
        /\ pc' = IF new THEN "visit" ELSE "loop"
        /\ current' = IF new THEN item ELSE current
        /\ depth' = IF new THEN [depth EXCEPT ![item.wallet] = Least(@, item.depth)]
                           ELSE depth
  /\ UNCHANGED <<graph, request, queued, outgoing, incoming, candidates,
                 truncated, time_left, edges, partial>>

\* The second look at the clock, and the call of Tronscan.
Call ==
  /\ pc = "visit"
  /\ pc' = IF time_left THEN "fetch" ELSE "finish"
  /\ truncated' = (truncated \/ ~time_left)
  /\ UNCHANGED <<graph, request, depth, visited, queued, queue, current, outgoing,
                 incoming, candidates, time_left, edges, partial>>

FetchFailsAndRetries ==
  /\ pc = "fetch"
  /\ pc' = "loop"
  /\ partial' = TRUE
  /\ queue' = Append(queue, current)
  /\ visited' = visited \ {current.wallet}
  /\ UNCHANGED <<graph, request, depth, queued, current, outgoing,
                 incoming, candidates, truncated, time_left, edges>>


FetchFails ==
  /\ pc = "fetch"
  /\ pc' = "loop"
  /\ partial' = TRUE
  /\ UNCHANGED <<graph, request, depth, visited, queued, queue, current, outgoing,
                 incoming, candidates, truncated, time_left, edges>>

\* The largest max_branches links; all of them when max_branches is 0.
Top(S) ==
  {T \in SUBSET S :
     IF request.max_branches = 0 \/ Cardinality(S) <= request.max_branches
     THEN T = S ELSE Cardinality(T) = request.max_branches}

Sent(w)     == {e \in graph : e.from = w}
Received(w) == IF request.include_incoming THEN {e \in graph : e.to = w} ELSE {}

\* A payload with fewer rows than there are says that it is truncated.  A cut
\* to max_branches is not reported as one.
FetchAnswers ==
  /\ pc = "fetch"
  /\ \E cut \in BOOLEAN :
     \E sent     \in IF cut THEN SUBSET Sent(current.wallet) ELSE {Sent(current.wallet)},
        received \in IF cut THEN SUBSET Received(current.wallet)
                            ELSE {Received(current.wallet)} :
       /\ outgoing' \in Top(sent)
       /\ incoming' \in Top(received)
       /\ truncated' = (truncated \/ cut \/ ~time_left)
  /\ partial' = (partial \/ outgoing' # Sent(current.wallet)
                         \/ incoming' # Received(current.wallet))
  /\ pc' = "outgoing"
  /\ UNCHANGED <<graph, request, depth, visited, queued, queue, current,
                 candidates, time_left, edges>>

-----------------------------------------------------------------------------
(***************************************************************************)
(* The links of the wallet in hand, outgoing before incoming.              *)
(***************************************************************************)
Seen == {c.edge : c \in candidates}

CollectAtDepth(e, direction) ==
  candidates' = candidates \cup
    {[edge |-> e, direction |-> direction, trace_distance |-> current.depth]}


Collect(e, direction) ==
  candidates' = candidates \cup
    {[edge |-> e, direction |-> direction, trace_distance |-> current.depth + 1]}

AddOutgoingUntold(e) ==
  LET child_depth == current.depth + 1
      cycle  == depth[e.to] # None /\ depth[e.to] <= current.depth
      wanted == ~cycle /\ child_depth < request.depth /\ e.to \notin visited \cup queued
      full   == Cardinality(visited) + Len(queue) >= request.max_addresses
  IN /\ pc = "outgoing"
     /\ ~CandidatesFull
     /\ e \in outgoing \ Seen
     /\ outgoing' = outgoing \ {e}
     /\ depth' = [depth EXCEPT ![e.to] = Least(@, child_depth)]
     /\ Collect(e, "outgoing")
     /\ IF wanted /\ ~full
        THEN /\ queue' = Append(queue, [wallet |-> e.to, depth |-> child_depth])
             /\ queued' = queued \cup {e.to}
        ELSE UNCHANGED <<queue, queued>>
     /\ UNCHANGED <<graph, request, pc, visited, current, incoming, truncated,
                    time_left, edges, partial>>


AddOutgoing(e) ==
  LET child_depth == current.depth + 1
      cycle  == depth[e.to] # None /\ depth[e.to] <= current.depth
      wanted == ~cycle /\ child_depth < request.depth /\ e.to \notin visited \cup queued
      full   == Cardinality(visited) + Len(queue) >= request.max_addresses
  IN /\ pc = "outgoing"
     /\ ~CandidatesFull
     /\ e \in outgoing \ Seen
     /\ outgoing' = outgoing \ {e}
     /\ depth' = [depth EXCEPT ![e.to] = Least(@, child_depth)]
     /\ Collect(e, "outgoing")
     /\ truncated' = (truncated \/ (wanted /\ full))
     /\ IF wanted /\ ~full
        THEN /\ queue' = Append(queue, [wallet |-> e.to, depth |-> child_depth])
             /\ queued' = queued \cup {e.to}
        ELSE UNCHANGED <<queue, queued>>
     /\ UNCHANGED <<graph, request, pc, visited, current, incoming, time_left,
                    edges, partial>>

\* A source is not queued, and its depth is set only when it is new.
AddIncoming(e) ==
  /\ pc = "incoming"
  /\ ~CandidatesFull
  /\ e \in incoming \ Seen
  /\ incoming' = incoming \ {e}
  /\ depth' = [depth EXCEPT ![e.from] = IF @ = None THEN current.depth - 1 ELSE @]
  /\ Collect(e, "incoming")
  /\ UNCHANGED <<graph, request, pc, visited, queued, queue, current, outgoing,
                 truncated, time_left, edges, partial>>

\* `continue' on a link that was collected from its other end, and the break at
\* the limit.
SkipSeen ==
  /\ pc \in Directions
  /\ ~CandidatesFull
  /\ outgoing' = IF pc = "outgoing" THEN outgoing \ Seen ELSE outgoing
  /\ incoming' = IF pc = "incoming" THEN incoming \ Seen ELSE incoming
  /\ <<outgoing, incoming>>' # <<outgoing, incoming>>
  /\ UNCHANGED <<graph, request, pc, depth, visited, queued, queue, current,
                 candidates, truncated, time_left, edges, partial>>

EndOutgoing ==
  /\ pc = "outgoing"
  /\ outgoing = {} \/ CandidatesFull
  /\ pc' = "incoming"
  /\ truncated' = (truncated \/ outgoing # {})
  /\ outgoing' = {}
  /\ UNCHANGED <<graph, request, depth, visited, queued, queue, current, incoming,
                 candidates, time_left, edges, partial>>

EndIncoming ==
  /\ pc = "incoming"
  /\ incoming = {} \/ CandidatesFull
  /\ pc' = "loop"
  /\ truncated' = (truncated \/ incoming # {})
  /\ incoming' = {}
  /\ UNCHANGED <<graph, request, depth, visited, queued, queue, current, outgoing,
                 candidates, time_left, edges, partial>>

-----------------------------------------------------------------------------
(***************************************************************************)
(* The answer: the first max_edges links in the order of edge_sort_key.    *)
(***************************************************************************)
Before(c, d) ==
  \/ c.trace_distance < d.trace_distance
  \/ /\ c.trace_distance = d.trace_distance
     /\ c.direction = "outgoing" /\ d.direction = "incoming"

Nearest(S) ==
  {T \in SUBSET S :
     /\ Cardinality(T) = IF Cardinality(S) > request.max_edges
                         THEN request.max_edges ELSE Cardinality(S)
     /\ \A c \in T, d \in S \ T : ~Before(d, c)}

FinishUntold ==
  /\ \/ pc = "loop" /\ ~Continues
     \/ pc = "finish"
  /\ pc' = "done"
  /\ truncated' = (truncated \/ queue # <<>> \/ ~time_left)
  /\ edges' \in Nearest(candidates)
  /\ UNCHANGED <<graph, request, depth, visited, queued, queue, current, outgoing,
                 incoming, candidates, time_left, partial>>


Finish ==
  /\ \/ pc = "loop" /\ ~Continues
     \/ pc = "finish"
  /\ pc' = "done"
  /\ truncated' = (truncated \/ queue # <<>> \/ ~time_left
                             \/ Cardinality(candidates) > request.max_edges)
  /\ edges' \in Nearest(candidates)
  /\ UNCHANGED <<graph, request, depth, visited, queued, queue, current, outgoing,
                 incoming, candidates, time_left, partial>>

\* TRON_TRACE_MAX_SECONDS have passed.
TimeIsUp ==
  /\ time_left
  /\ pc # "done"
  /\ time_left' = FALSE
  /\ UNCHANGED <<graph, request, pc, depth, visited, queued, queue, current,
                 outgoing, incoming, candidates, truncated, edges, partial>>

Step ==
  \/ Pop \/ Call \/ FetchFails \/ FetchAnswers
  \/ \E e \in outgoing : AddOutgoing(e)
  \/ \E e \in incoming : AddIncoming(e)
  \/ SkipSeen \/ EndOutgoing \/ EndIncoming
  \/ Finish

Next == Step \/ TimeIsUp

Spec     == Init /\ [][Next]_vars
FairSpec == Spec /\ WF_vars(Step)

-----------------------------------------------------------------------------
(***************************************************************************)
(* What the risk engine makes of the answer (collect_risk_exposures).      *)
(***************************************************************************)
Shown == {Root} \cup {c.edge.from : c \in edges} \cup {c.edge.to : c \in edges}

NodeHop(w) == IF depth[w] < 0 THEN -depth[w] ELSE depth[w]
EdgeHop(c) == IF c.trace_distance > 1 THEN c.trace_distance ELSE 1

(***************************************************************************)
(* Distances in the graph.                                                 *)
(***************************************************************************)
Pays(u, v)   == u = v \/ \E e \in graph : e.from = u /\ e.to = v
Linked(u, v) == Pays(u, v) \/ Pays(v, u)

\* w is within n transfers of the root, whatever their directions.
Within(n, w) ==
  \E p \in [0..n -> Wallet] :
    /\ p[0] = Root /\ p[n] = w
    /\ \A i \in 1..n : Linked(p[i-1], p[i])

\* w is within n outgoing transfers of the root.
PaidWithin(n, w) ==
  \E p \in [0..n -> Wallet] :
    /\ p[0] = Root /\ p[n] = w
    /\ \A i \in 1..n : Pays(p[i-1], p[i])

Done  == pc = "done"
Whole == ~truncated /\ ~partial

-----------------------------------------------------------------------------
(***************************************************************************)
(* Properties.                                                             *)
(***************************************************************************)
\* The engine never counts a wallet nearer to the root because of a link than
\* it is: both ends of a link are within the hops of the link.
EdgeHopsAreReal ==
  \A c \in edges : \A w \in {c.edge.from, c.edge.to} : Within(EdgeHop(c), w)

\* An answer that does not say that it is truncated, for wallets whose links
\* were all received, has every link of every wallet it has looked at.
SilenceMeansAll ==
  Done /\ Whole =>
    \A w \in visited : Sent(w) \cup Received(w) \subseteq {c.edge : c \in edges}

\* Without incoming sources the search has then looked at every wallet the
\* funds may have reached in fewer than `depth' transfers, and at no other.
ChainIsComplete ==
  Done /\ Whole /\ ~request.include_incoming =>
    visited = {w \in Wallet : PaidWithin(request.depth - 1, w)}

\* edge_limit_strategy "nearest_to_root": whatever limit cuts the answer, no
\* link of the outgoing chain is left out while a farther one is shown.
NearestToRoot ==
  Done /\ ~partial /\ ~request.include_incoming =>
    \A c \in edges : \A e \in graph :
      c.trace_distance > 1 /\ PaidWithin(c.trace_distance - 2, e.from)
        => e \in {d.edge : d \in edges}

\* The search comes to an end however Tronscan answers.
TraceEnds == <>Done

\* The rules of the risk model are about distances: a tag "within 1 hop" is
\* one on a wallet within one transfer of the root.  The hop the engine takes
\* from a node is not a distance when the node is a source of a wallet in the
\* middle of the chain.
NodeHopsAreReal == Done => \A w \in Shown : Within(NodeHop(w), w)
=============================================================================
