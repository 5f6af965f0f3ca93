-------------------------- MODULE TraceGraph_proofs --------------------------
(***************************************************************************)
(* Theorems about TraceGraph: types and limits, the hops of links, that an *)
(* answer which is not marked as truncated is whole, that the chain is     *)
(* shown from the root outward, and that it is complete when nothing says  *)
(* otherwise.                                                              *)
(***************************************************************************)
EXTENDS TraceGraph, Induction, FiniteSetTheorems, TLAPS

-----------------------------------------------------------------------------
(***************************************************************************)
(* Types and limits.                                                       *)
(***************************************************************************)
TInv == TypeOK /\ IsFiniteSet(candidates)

\* The parameters that are numbers.
LEMMA Parameters ==
  ASSUME TypeOK
  PROVE  /\ request.depth \in Nat \ {0}
         /\ request.max_addresses \in Nat \ {0}
         /\ request.max_edges \in Nat \ {0}
         /\ request.max_candidates \in Nat \ {0}
         /\ request.max_branches \in Nat
         /\ request.include_incoming \in BOOLEAN
BY TraceAssumption DEF TypeOK, Request

LEMMA LinkTypes ==
  ASSUME TypeOK, NEW e \in graph
  PROVE  e \in Link /\ e.from \in Wallet /\ e.to \in Wallet
BY TraceAssumption DEF TypeOK, Link

LEMMA LeastType ==
  ASSUME NEW d \in Int \cup {None}, NEW n \in Int
  PROVE  Least(d, n) \in Int
BY TraceAssumption DEF Least

LEMMA AddOne ==
  ASSUME NEW S, NEW x, IsFiniteSet(S)
  PROVE  /\ IsFiniteSet(S \cup {x})
         /\ Cardinality(S) \in Nat /\ Cardinality(S \cup {x}) \in Nat
         /\ Cardinality(S \cup {x}) <= Cardinality(S) + 1
<1>1. IsFiniteSet(S \cup {x})
  BY FS_AddElement
<1>2. Cardinality(S \cup {x}) = IF x \in S THEN Cardinality(S) ELSE Cardinality(S) + 1
  BY FS_AddElement
<1>3. Cardinality(S) \in Nat
  BY FS_CardinalityType
<1>4. Cardinality(S \cup {x}) \in Nat
  BY <1>1, FS_CardinalityType
<1>5. Cardinality(S \cup {x}) <= Cardinality(S) + 1
  BY <1>2, <1>3
<1> QED BY <1>1, <1>3, <1>4, <1>5

\* Collecting one more link below the limit.
LEMMA CollectTypes ==
  ASSUME TInv, NEW e \in graph, NEW direction \in Directions,
         ~CandidatesFull, Collect(e, direction)
  PROVE  /\ candidates' \subseteq Candidate
         /\ IsFiniteSet(candidates')
         /\ Cardinality(candidates') <= request.max_candidates
         /\ candidates \subseteq candidates'
<1> DEFINE c == [edge |-> e, direction |-> direction, trace_distance |-> current.depth + 1]
<1>1. candidates' = candidates \cup {c}
  BY DEF Collect
<1>2. c \in Candidate
  <2>1. current.depth + 1 \in Nat
    BY DEF TInv, TypeOK, Item
  <2> QED BY <2>1, LinkTypes DEF TInv, Candidate
<1>3. IsFiniteSet(candidates) /\ Cardinality(candidates) \in Nat
  BY FS_CardinalityType DEF TInv
<1>4. Cardinality(candidates) < request.max_candidates
  BY <1>3, Parameters DEF CandidatesFull, TInv
<1>5. /\ IsFiniteSet(candidates \cup {c})
      /\ Cardinality(candidates \cup {c}) \in Nat
      /\ Cardinality(candidates \cup {c}) <= Cardinality(candidates) + 1
  BY <1>3, AddOne
<1> QED BY <1>1, <1>2, <1>3, <1>4, <1>5, Parameters DEF TInv, TypeOK

LEMMA InitTypes == Init => TInv
<1> SUFFICES ASSUME Init PROVE TInv
  OBVIOUS
<1>1. [wallet |-> Root, depth |-> 0] \in Item
  BY TraceAssumption DEF Item
<1>2. queue \in Seq(Item) /\ current \in Item
  BY <1>1 DEF Init
<1>3. depth \in [Wallet -> Int \cup {None}]
  BY DEF Init
<1>4. IsFiniteSet({}) /\ Cardinality({}) = 0
  BY FS_EmptySet
<1>5. request \in Request
  BY TraceAssumption DEF Init
<1>6. /\ 0 <= request.max_addresses
      /\ 0 <= request.max_candidates
      /\ 0 <= request.max_edges
  BY <1>5 DEF Request
<1> QED BY <1>2, <1>3, <1>4, <1>6, TraceAssumption DEF Init, TInv, TypeOK, Candidate

\* The part of TypeOK no action changes but the one named.
LEMMA PopTypes == TInv /\ Pop => TInv'
<1> SUFFICES ASSUME TInv, Pop PROVE TInv'
  OBVIOUS
<1> DEFINE item == Head(queue)
<1>1. item \in Item /\ Tail(queue) \in Seq(Item)
  BY DEF TInv, TypeOK, Pop, Continues
<1>2. item.wallet \in Wallet /\ item.depth \in Int
  BY <1>1 DEF Item
<1>3. visited' \subseteq Wallet
  BY <1>2 DEF TInv, TypeOK, Pop
<1>4. depth' \in [Wallet -> Int \cup {None}]
  <2>1. depth[item.wallet] \in Int \cup {None}
    BY <1>2 DEF TInv, TypeOK
  <2>2. Least(depth[item.wallet], item.depth) \in Int
    BY <1>2, <2>1, LeastType
  <2> QED BY <1>2, <2>2 DEF TInv, TypeOK, Pop
<1>5. Cardinality(visited') <= request.max_addresses
  <2>1. IsFiniteSet(visited)
    BY FS_Subset, TraceAssumption DEF TInv, TypeOK
  <2>2. /\ Cardinality(visited) \in Nat
        /\ Cardinality(visited \cup {item.wallet}) \in Nat
        /\ Cardinality(visited \cup {item.wallet}) <= Cardinality(visited) + 1
    BY <2>1, AddOne
  <2>4. Cardinality(visited) < request.max_addresses
    BY DEF Pop, Continues
  <2>5. visited' = visited \cup {item.wallet}
    BY DEF Pop
  <2> HIDE DEF item
  <2> QED BY <2>2, <2>4, <2>5, Parameters DEF TInv
<1>6. request' = request /\ candidates' = candidates /\ edges' = edges /\ graph' = graph
  BY DEF Pop
<1>7. current' \in Item /\ queue' \in Seq(Item) /\ queued' = queued
  BY <1>1 DEF Pop, TInv, TypeOK
<1>8. /\ pc' \in {"loop", "visit"}
      /\ UNCHANGED <<outgoing, incoming, truncated, time_left, partial>>
  BY DEF Pop
<1>9. Cardinality(visited') <= request'.max_addresses
  BY <1>5, <1>6
<1> QED BY <1>3, <1>4, <1>6, <1>7, <1>8, <1>9 DEF TInv, TypeOK

LEMMA FetchTypes == TInv /\ (Call \/ FetchFails \/ FetchAnswers) => TInv'
<1> SUFFICES ASSUME TInv, Call \/ FetchFails \/ FetchAnswers PROVE TInv'
  OBVIOUS
<1>1. CASE Call
  BY <1>1 DEF TInv, TypeOK, Call
<1>2. CASE FetchFails
  BY <1>2 DEF TInv, TypeOK, FetchFails
<1>3. CASE FetchAnswers
  <2>1. outgoing' \subseteq graph /\ incoming' \subseteq graph /\ truncated' \in BOOLEAN
    BY <1>3 DEF FetchAnswers, Top, Sent, Received, TInv, TypeOK
  <2>2. partial' \in BOOLEAN /\ pc' = "outgoing"
    BY <1>3 DEF FetchAnswers, TInv, TypeOK
  <2>3. UNCHANGED <<graph, request, depth, visited, queued, queue, current,
                    candidates, time_left, edges>>
    BY <1>3 DEF FetchAnswers
  <2> QED BY <2>1, <2>2, <2>3 DEF TInv, TypeOK, Directions
<1> QED BY <1>1, <1>2, <1>3

LEMMA OutgoingTypes == \A e \in outgoing : TInv /\ AddOutgoing(e) => TInv'
<1> SUFFICES ASSUME NEW e \in outgoing, TInv, AddOutgoing(e) PROVE TInv'
  OBVIOUS
<1>1. e \in graph /\ e.to \in Wallet
  BY LinkTypes DEF TInv, TypeOK
<1>2. /\ candidates' \subseteq Candidate
      /\ IsFiniteSet(candidates')
      /\ Cardinality(candidates') <= request.max_candidates
      /\ candidates \subseteq candidates'
  BY <1>1, CollectTypes DEF AddOutgoing, Directions
<1>3. current.depth + 1 \in Nat
  BY DEF TInv, TypeOK, Item
<1>4. depth' \in [Wallet -> Int \cup {None}]
  <2>1. Least(depth[e.to], current.depth + 1) \in Int
    <3>1. depth[e.to] \in Int \cup {None}
      BY <1>1 DEF TInv, TypeOK
    <3>2. current.depth + 1 \in Int
      BY <1>3
    <3> QED BY <3>1, <3>2, LeastType
  <2>2. depth' = [depth EXCEPT ![e.to] = Least(depth[e.to], current.depth + 1)]
    BY DEF AddOutgoing
  <2> QED BY <2>1, <2>2 DEF TInv, TypeOK
<1>5. [wallet |-> e.to, depth |-> current.depth + 1] \in Item
  BY <1>1, <1>3 DEF Item
<1>6. queue' \in Seq(Item) /\ queued' \subseteq Wallet
  BY <1>1, <1>5 DEF AddOutgoing, TInv, TypeOK
<1>7. truncated' \in BOOLEAN /\ outgoing' \subseteq graph
  BY DEF AddOutgoing, TInv, TypeOK
<1>8. UNCHANGED <<graph, request, pc, visited, current, incoming, time_left,
                  edges, partial>>
  BY DEF AddOutgoing
<1> QED BY <1>2, <1>4, <1>6, <1>7, <1>8 DEF TInv, TypeOK

LEMMA IncomingTypes == \A e \in incoming : TInv /\ AddIncoming(e) => TInv'
<1> SUFFICES ASSUME NEW e \in incoming, TInv, AddIncoming(e) PROVE TInv'
  OBVIOUS
<1>1. e \in graph /\ e.from \in Wallet
  BY LinkTypes DEF TInv, TypeOK
<1>2. /\ candidates' \subseteq Candidate
      /\ IsFiniteSet(candidates')
      /\ Cardinality(candidates') <= request.max_candidates
      /\ candidates \subseteq candidates'
  BY <1>1, CollectTypes DEF AddIncoming, Directions
<1>3. depth' \in [Wallet -> Int \cup {None}]
  <2>1. current.depth - 1 \in Int
    BY DEF TInv, TypeOK, Item
  <2> QED BY <2>1 DEF AddIncoming, TInv, TypeOK
<1>4. incoming' \subseteq graph
  BY DEF AddIncoming, TInv, TypeOK
<1>5. UNCHANGED <<graph, request, pc, visited, queued, queue, current, outgoing,
                  truncated, time_left, edges, partial>>
  BY DEF AddIncoming
<1> QED BY <1>2, <1>3, <1>4, <1>5 DEF TInv, TypeOK

LEMMA EndTypes == TInv /\ (SkipSeen \/ EndOutgoing \/ EndIncoming \/ TimeIsUp) => TInv'
<1> SUFFICES ASSUME TInv, SkipSeen \/ EndOutgoing \/ EndIncoming \/ TimeIsUp PROVE TInv'
  OBVIOUS
<1>1. CASE SkipSeen
  <2>1. outgoing' \subseteq graph /\ incoming' \subseteq graph
    BY <1>1 DEF SkipSeen, TInv, TypeOK
  <2> QED BY <1>1, <2>1 DEF SkipSeen, TInv, TypeOK
<1>2. CASE EndOutgoing
  BY <1>2 DEF EndOutgoing, TInv, TypeOK, Directions
<1>3. CASE EndIncoming
  BY <1>3 DEF EndIncoming, TInv, TypeOK, Directions
<1>4. CASE TimeIsUp
  BY <1>4 DEF TimeIsUp, TInv, TypeOK
<1> QED BY <1>1, <1>2, <1>3, <1>4

LEMMA FinishTypes == TInv /\ Finish => TInv'
<1> SUFFICES ASSUME TInv, Finish PROVE TInv'
  OBVIOUS
<1>1. edges' \subseteq candidates
  BY DEF Finish, Nearest
<1>2. Cardinality(edges') <= request.max_edges
  <2>1. Cardinality(candidates) \in Nat
    BY FS_CardinalityType DEF TInv
  <2>2. Cardinality(edges') = IF Cardinality(candidates) > request.max_edges
                              THEN request.max_edges ELSE Cardinality(candidates)
    BY DEF Finish, Nearest
  <2> QED BY <2>1, <2>2, Parameters DEF TInv
<1>3. truncated' \in BOOLEAN /\ pc' = "done"
  BY DEF Finish, TInv, TypeOK
<1>4. UNCHANGED <<graph, request, depth, visited, queued, queue, current, outgoing,
                  incoming, candidates, time_left, partial>>
  BY DEF Finish
<1> QED BY <1>1, <1>2, <1>3, <1>4 DEF TInv, TypeOK

LEMMA NextTypes == TInv /\ [Next]_vars => TInv'
<1> SUFFICES ASSUME TInv, [Next]_vars PROVE TInv'
  OBVIOUS
<1>1. CASE UNCHANGED vars
  BY <1>1 DEF vars, TInv, TypeOK
<1>2. CASE Next
  BY <1>2, PopTypes, FetchTypes, OutgoingTypes, IncomingTypes, EndTypes, FinishTypes
     DEF Next, Step
<1> QED BY <1>1, <1>2

\* Every state is well typed, and the search keeps to its limits: addresses
\* looked at, links collected, links shown.
THEOREM TypeCorrect == Spec => []TypeOK
<1>1. TInv => TypeOK
  BY DEF TInv
<1> QED BY <1>1, InitTypes, NextTypes, PTL DEF Spec

-----------------------------------------------------------------------------
(***************************************************************************)
(* The hops of links.                                                      *)
(***************************************************************************)
\* Whatever is queued, in hand or collected is within the distance it bears.
Real ==
  /\ \A i \in 1..Len(queue) : Within(queue[i].depth, queue[i].wallet)
  /\ Within(current.depth, current.wallet)
  /\ \A e \in outgoing : e.from = current.wallet
  /\ \A e \in incoming : e.to = current.wallet
  /\ \A c \in candidates :
       /\ c.trace_distance >= 1
       /\ Within(c.trace_distance, c.edge.from)
       /\ Within(c.trace_distance, c.edge.to)

\* There are links to process only while they are processed.
InHand ==
  /\ pc # "outgoing" => outgoing = {}
  /\ pc \notin Directions => incoming = {}

LEMMA InitInHand == Init => InHand
BY DEF Init, InHand

LEMMA NextInHand == TInv /\ InHand /\ [Next]_vars => InHand'
<1> SUFFICES ASSUME TInv, InHand, [Next]_vars PROVE InHand'
  OBVIOUS
<1>1. CASE UNCHANGED vars \/ TimeIsUp
  BY <1>1 DEF InHand, vars, TimeIsUp
<1>2. CASE Pop \/ Call \/ FetchFails \/ Finish
  <2>1. pc \notin Directions /\ UNCHANGED <<outgoing, incoming>>
    BY <1>2 DEF Pop, Call, FetchFails, Finish, Directions
  <2> QED BY <2>1 DEF InHand, Directions
<1>3. CASE FetchAnswers
  BY <1>3 DEF FetchAnswers, InHand, Directions
<1>4. CASE \E e \in outgoing : AddOutgoing(e)
  BY <1>4 DEF AddOutgoing, InHand, Directions
<1>5. CASE \E e \in incoming : AddIncoming(e)
  BY <1>5 DEF AddIncoming, InHand, Directions
<1>6. CASE SkipSeen
  BY <1>6 DEF SkipSeen, InHand, Directions
<1>7. CASE EndOutgoing \/ EndIncoming
  BY <1>7 DEF EndOutgoing, EndIncoming, InHand, Directions
<1> QED BY <1>1, <1>2, <1>3, <1>4, <1>5, <1>6, <1>7 DEF Next, Step

\* One more transfer away.
LEMMA Extend ==
  ASSUME NEW n \in Nat, NEW u \in Wallet, NEW v \in Wallet,
         Within(n, u), Linked(u, v)
  PROVE  Within(n + 1, v)
<1>1. PICK p \in [0..n -> Wallet] :
        /\ p[0] = Root /\ p[n] = u
        /\ \A i \in 1..n : Linked(p[i-1], p[i])
  BY DEF Within
<1> DEFINE q == [i \in 0..(n+1) |-> IF i = n + 1 THEN v ELSE p[i]]
<1>2. q \in [0..(n+1) -> Wallet]
  OBVIOUS
<1>3. q[0] = Root /\ q[n+1] = v
  BY <1>1
<1>4. ASSUME NEW i \in 1..(n+1) PROVE Linked(q[i-1], q[i])
  <2>1. CASE i = n + 1
    <3>1. q[i-1] = u /\ q[i] = v
      BY <1>1, <2>1
    <3> QED BY <3>1
  <2>2. CASE i # n + 1
    <3>1. i \in 1..n /\ q[i-1] = p[i-1] /\ q[i] = p[i]
      BY <2>2
    <3> QED BY <1>1, <3>1
  <2> QED BY <2>1, <2>2
<1> HIDE DEF q
<1> QED BY <1>2, <1>3, <1>4 DEF Within

LEMMA Stay ==
  ASSUME NEW n \in Nat, NEW u \in Wallet, Within(n, u)
  PROVE  Within(n + 1, u)
BY Extend DEF Linked, Pays

\* Distances do not change while the graph does not.
LEMMA SameGraph ==
  ASSUME graph' = graph
  PROVE  \A n, w : Within(n, w) <=> Within(n, w)'
BY DEF Within, Linked, Pays

LEMMA InitReal == Init => Real
<1> SUFFICES ASSUME Init PROVE Real
  OBVIOUS
<1>1. Within(0, Root)
  <2> DEFINE p == [i \in 0..0 |-> Root]
  <2>1. p \in [0..0 -> Wallet] /\ p[0] = Root /\ \A i \in 1..0 : Linked(p[i-1], p[i])
    BY TraceAssumption
  <2> HIDE DEF p
  <2> QED BY <2>1 DEF Within
<1>2. \A i \in 1..Len(queue) : queue[i] = [wallet |-> Root, depth |-> 0]
  BY DEF Init
<1> QED BY <1>1, <1>2 DEF Init, Real

\* A link of the wallet in hand is collected one further than the wallet.
LEMMA CollectReal ==
  ASSUME TInv, Real, NEW e \in graph, NEW direction \in Directions,
         e.from = current.wallet \/ e.to = current.wallet,
         Collect(e, direction), graph' = graph
  PROVE  \A c \in candidates' :
           /\ c.trace_distance >= 1
           /\ Within(c.trace_distance, c.edge.from)'
           /\ Within(c.trace_distance, c.edge.to)'
<1> DEFINE new == [edge |-> e, direction |-> direction,
                   trace_distance |-> current.depth + 1]
<1>1. current.depth \in Nat /\ current.wallet \in Wallet
  BY DEF TInv, TypeOK, Item
<1>2. e.from \in Wallet /\ e.to \in Wallet
  BY LinkTypes DEF TInv
<1>3. Within(current.depth, current.wallet)
  BY DEF Real
<1>4. Linked(current.wallet, e.from) /\ Linked(current.wallet, e.to)
  BY DEF Linked, Pays
<1>5. Within(current.depth + 1, e.from) /\ Within(current.depth + 1, e.to)
  BY <1>1, <1>2, <1>3, <1>4, Extend
<1>6. /\ new.trace_distance = current.depth + 1
      /\ new.edge = e
  OBVIOUS
<1>7. candidates' = candidates \cup {new}
  BY DEF Collect
<1> HIDE DEF new
<1>8. ASSUME NEW c \in candidates'
      PROVE  /\ c.trace_distance >= 1
             /\ Within(c.trace_distance, c.edge.from)
             /\ Within(c.trace_distance, c.edge.to)
  <2>1. CASE c = new
    <3>1. c.trace_distance = current.depth + 1 /\ c.edge = e
      BY <1>6, <2>1
    <3> QED BY <1>1, <1>5, <3>1
  <2>2. CASE c \in candidates
    BY <2>2 DEF Real
  <2> QED BY <1>7, <2>1, <2>2
<1> QED BY <1>8, SameGraph

LEMMA NextReal == TInv /\ InHand /\ Real /\ [Next]_vars => Real'
<1> SUFFICES ASSUME TInv, InHand, Real, [Next]_vars PROVE Real'
  OBVIOUS
<1>1. graph' = graph
  BY DEF Next, Step, vars, Pop, Call, FetchFails, FetchAnswers, AddOutgoing, AddIncoming,
         SkipSeen, EndOutgoing, EndIncoming, Finish, TimeIsUp
<1>2. \A n, w : Within(n, w) <=> Within(n, w)'
  BY <1>1, SameGraph
<1>3. ASSUME UNCHANGED <<queue, current, candidates>>,
             outgoing' \subseteq outgoing, incoming' \subseteq incoming
      PROVE  Real'
  <2>1. \A i \in 1..Len(queue) : Within(queue[i].depth, queue[i].wallet)'
    BY <1>2, <1>3 DEF Real
  <2>2. Within(current.depth, current.wallet)'
    BY <1>2, <1>3 DEF Real
  <2>3. \A c \in candidates : /\ c.trace_distance >= 1
                              /\ Within(c.trace_distance, c.edge.from)'
                              /\ Within(c.trace_distance, c.edge.to)'
    BY <1>2, <1>3 DEF Real
  <2>4. /\ \A e \in outgoing' : e.from = current'.wallet
        /\ \A e \in incoming' : e.to = current'.wallet
    BY <1>3 DEF Real
  <2> QED BY <1>3, <2>1, <2>2, <2>3, <2>4 DEF Real
<1>4. CASE UNCHANGED vars
  BY <1>3, <1>4 DEF vars
<1>5. CASE Call \/ FetchFails \/ SkipSeen \/ EndOutgoing \/ EndIncoming \/ Finish \/ TimeIsUp
  <2>1. UNCHANGED <<queue, current, candidates>>
    BY <1>5 DEF Call, FetchFails, SkipSeen, EndOutgoing, EndIncoming, Finish, TimeIsUp
  <2>2. outgoing' \subseteq outgoing /\ incoming' \subseteq incoming
    BY <1>5 DEF Call, FetchFails, SkipSeen, EndOutgoing, EndIncoming, Finish, TimeIsUp
  <2> QED BY <1>3, <2>1, <2>2
<1>6. CASE FetchAnswers
  <2>1. UNCHANGED <<queue, current, candidates>>
    BY <1>6 DEF FetchAnswers
  <2>2. /\ outgoing' \subseteq Sent(current.wallet)
        /\ incoming' \subseteq Received(current.wallet)
    BY <1>6 DEF FetchAnswers, Top
  <2>3. /\ \A e \in outgoing' : e.from = current'.wallet
        /\ \A e \in incoming' : e.to = current'.wallet
    BY <2>1, <2>2 DEF Sent, Received
  <2>4. /\ \A i \in 1..Len(queue) : Within(queue[i].depth, queue[i].wallet)'
        /\ Within(current.depth, current.wallet)'
        /\ \A c \in candidates : /\ c.trace_distance >= 1
                                 /\ Within(c.trace_distance, c.edge.from)'
                                 /\ Within(c.trace_distance, c.edge.to)'
    BY <1>2, <2>1 DEF Real
  <2> QED BY <2>1, <2>3, <2>4 DEF Real
<1>7. CASE Pop
  <2> DEFINE item == Head(queue)
  <2>1. queue \in Seq(Item) /\ queue # <<>> /\ queue' = Tail(queue)
    BY <1>7 DEF Pop, Continues, TInv, TypeOK
  <2>2. /\ Len(queue') \in Nat /\ Len(queue) = Len(queue') + 1
        /\ \A i \in 1..Len(queue') : queue'[i] = queue[i+1]
        /\ item = queue[1]
    BY <2>1
  <2>3. \A i \in 1..Len(queue) : Within(queue[i].depth, queue[i].wallet)
    BY DEF Real
  <2>4. \A i \in 1..Len(queue') : Within(queue'[i].depth, queue'[i].wallet)
    <3>1. ASSUME NEW i \in 1..Len(queue')
          PROVE  Within(queue'[i].depth, queue'[i].wallet)
      <4>1. i + 1 \in 1..Len(queue) /\ queue'[i] = queue[i+1]
        BY <2>2
      <4> QED BY <4>1, <2>3
    <3> QED BY <3>1
  <2>5. Within(item.depth, item.wallet)
    <3>1. 1 \in 1..Len(queue)
      BY <2>2
    <3> QED BY <2>2, <2>3, <3>1
  <2>6. current' \in {current, item}
    BY <1>7 DEF Pop
  <2>7. Within(current'.depth, current'.wallet)
    BY <2>5, <2>6 DEF Real
  <2>8. outgoing' = {} /\ incoming' = {} /\ candidates' = candidates
    BY <1>7 DEF Pop, InHand, Directions
  <2>9. \A c \in candidates' : /\ c.trace_distance >= 1
                               /\ Within(c.trace_distance, c.edge.from)
                               /\ Within(c.trace_distance, c.edge.to)
    BY <2>8 DEF Real
  <2>10. /\ \A i \in 1..Len(queue') : Within(queue[i].depth, queue[i].wallet)'
         /\ Within(current.depth, current.wallet)'
         /\ \A c \in candidates' : /\ c.trace_distance >= 1
                                   /\ Within(c.trace_distance, c.edge.from)'
                                   /\ Within(c.trace_distance, c.edge.to)'
    BY <1>2, <2>4, <2>7, <2>9
  <2> QED BY <2>8, <2>10 DEF Real
<1>8. CASE \E e \in outgoing : AddOutgoing(e)
  <2> PICK e \in outgoing : AddOutgoing(e)
    BY <1>8
  <2>1. e \in graph /\ e.from = current.wallet /\ e.to \in Wallet
    BY LinkTypes DEF TInv, TypeOK, Real
  <2>2. \A c \in candidates' : /\ c.trace_distance >= 1
                               /\ Within(c.trace_distance, c.edge.from)'
                               /\ Within(c.trace_distance, c.edge.to)'
    BY <1>1, <2>1, CollectReal DEF AddOutgoing, Directions
  <2>3. current' = current /\ outgoing' \subseteq outgoing /\ incoming' = incoming
    BY DEF AddOutgoing
  <2> DEFINE new == [wallet |-> e.to, depth |-> current.depth + 1]
  <2>4. queue' = queue \/ queue' = Append(queue, new)
    BY DEF AddOutgoing
  <2>5. Within(new.depth, new.wallet)
    <3>1. current.depth \in Nat /\ current.wallet \in Wallet
      BY DEF TInv, TypeOK, Item
    <3>2. Within(current.depth, current.wallet) /\ Linked(current.wallet, e.to)
      BY <2>1 DEF Real, Linked, Pays
    <3> QED BY <2>1, <3>1, <3>2, Extend
  <2>6. \A i \in 1..Len(queue') : Within(queue'[i].depth, queue'[i].wallet)
    <3>1. CASE queue' = queue
      BY <3>1 DEF Real
    <3>2. CASE queue' = Append(queue, new)
      <4> HIDE DEF new
      <4>1. ASSUME NEW i \in 1..Len(queue')
            PROVE  queue'[i] = new \/ (i \in 1..Len(queue) /\ queue'[i] = queue[i])
        BY <3>2, <4>1 DEF TInv, TypeOK
      <4> QED BY <2>5, <4>1 DEF Real
    <3> QED BY <2>4, <3>1, <3>2
  <2>7. /\ \A i \in 1..Len(queue') : Within(queue[i].depth, queue[i].wallet)'
        /\ Within(current.depth, current.wallet)'
    BY <1>2, <2>3, <2>6 DEF Real
  <2>8. /\ \A d \in outgoing' : d.from = current'.wallet
        /\ \A d \in incoming' : d.to = current'.wallet
    BY <2>3 DEF Real
  <2> QED BY <2>2, <2>7, <2>8 DEF Real
<1>9. CASE \E e \in incoming : AddIncoming(e)
  <2> PICK e \in incoming : AddIncoming(e)
    BY <1>9
  <2>1. e \in graph /\ e.to = current.wallet
    BY DEF TInv, TypeOK, Real
  <2>2. \A c \in candidates' : /\ c.trace_distance >= 1
                               /\ Within(c.trace_distance, c.edge.from)'
                               /\ Within(c.trace_distance, c.edge.to)'
    BY <1>1, <2>1, CollectReal DEF AddIncoming, Directions
  <2>3. UNCHANGED <<current, queue, outgoing>> /\ incoming' \subseteq incoming
    BY DEF AddIncoming
  <2>4. /\ \A i \in 1..Len(queue) : Within(queue[i].depth, queue[i].wallet)'
        /\ Within(current.depth, current.wallet)'
    BY <1>2, <2>3 DEF Real
  <2>5. /\ \A d \in outgoing' : d.from = current'.wallet
        /\ \A d \in incoming' : d.to = current'.wallet
    BY <2>3 DEF Real
  <2> QED BY <2>2, <2>3, <2>4, <2>5 DEF Real
<1> QED BY <1>4, <1>5, <1>6, <1>7, <1>8, <1>9 DEF Next, Step

\* No link makes a wallet nearer to the root than it is: both its ends are
\* within the hops the engine gives it.
THEOREM EdgeHopsCorrect == Spec => []EdgeHopsAreReal
<1>1. TInv /\ Real => EdgeHopsAreReal
  <2> SUFFICES ASSUME TInv, Real, NEW c \in edges
               PROVE  \A w \in {c.edge.from, c.edge.to} : Within(EdgeHop(c), w)
    BY DEF EdgeHopsAreReal
  <2>1. c \in candidates /\ c.trace_distance \in Nat
    BY DEF TInv, TypeOK, Candidate
  <2>2. EdgeHop(c) = c.trace_distance
    BY <2>1 DEF Real, EdgeHop
  <2> QED BY <2>1, <2>2 DEF Real
<1> QED BY <1>1, InitTypes, NextTypes, InitInHand, NextInHand, InitReal, NextReal, PTL
        DEF Spec

-----------------------------------------------------------------------------
(***************************************************************************)
(* What silence means.                                                     *)
(***************************************************************************)
\* While nothing has been cut, the links of every wallet looked at have been
\* collected, but for those of the wallet in hand still to be processed.
Collected ==
  Whole => \A w \in visited :
             \/ Sent(w) \cup Received(w) \subseteq Seen \cup outgoing \cup incoming
             \/ w = current.wallet /\ pc \in {"visit", "fetch"}

\* The answer of a search that is over and has not cut anything.
Answered == Done /\ Whole => edges = candidates

LEMMA InitCollected == Init => Collected /\ Answered
BY DEF Init, Collected, Answered, Done

\* When nothing is cut at the end, everything collected is shown.
LEMMA FinishAnswers == TInv /\ Finish => Answered'
<1> SUFFICES ASSUME TInv, Finish, Whole' PROVE edges' = candidates'
  BY DEF Answered
<1>1. ~(Cardinality(candidates) > request.max_edges) /\ candidates' = candidates
  BY DEF Finish, Whole
<1>2. edges' \subseteq candidates /\ Cardinality(edges') = Cardinality(candidates)
  BY <1>1 DEF Finish, Nearest
<1>3. edges' \in SUBSET candidates /\ IsFiniteSet(candidates)
  BY <1>2 DEF TInv
<1>4. candidates = edges'
  BY <1>2, <1>3, FS_Subset
<1> QED BY <1>1, <1>4

LEMMA NextAnswered == TInv /\ Answered /\ [Next]_vars => Answered'
<1> SUFFICES ASSUME TInv, Answered, [Next]_vars PROVE Answered'
  OBVIOUS
<1>1. CASE UNCHANGED vars
  BY <1>1 DEF Answered, Done, Whole, vars
<1>2. CASE Finish
  BY <1>2, FinishAnswers
<1>3. CASE Next /\ ~Finish
  <2>1. pc' # "done"
    BY <1>3 DEF TInv, TypeOK, Next, Step, Pop, Call, FetchFails, FetchAnswers,
                AddOutgoing, AddIncoming, SkipSeen, EndOutgoing, EndIncoming,
                TimeIsUp, Directions
  <2> QED BY <2>1 DEF Answered, Done
<1> QED BY <1>1, <1>2, <1>3

\* A link that is taken from those in hand has been collected.
LEMMA CollectSeen ==
  ASSUME NEW e, NEW direction, Collect(e, direction)
  PROVE  Seen' = Seen \cup {e}
<1> DEFINE new == [edge |-> e, direction |-> direction,
                   trace_distance |-> current.depth + 1]
<1>1. new.edge = e
  OBVIOUS
<1>2. candidates' = candidates \cup {new}
  BY DEF Collect
<1> HIDE DEF new
<1>3. {c.edge : c \in candidates \cup {new}} = {c.edge : c \in candidates} \cup {new.edge}
  OBVIOUS
<1> QED BY <1>1, <1>2, <1>3 DEF Seen

LEMMA NextCollected == TInv /\ InHand /\ Collected /\ [Next]_vars => Collected'
<1> SUFFICES ASSUME TInv, InHand, Collected, [Next]_vars, Whole'
             PROVE  \A w \in visited' :
                      \/ Sent(w)' \cup Received(w)' \subseteq Seen' \cup outgoing' \cup incoming'
                      \/ w = current'.wallet /\ pc' \in {"visit", "fetch"}
  BY DEF Collected
<1>1. Whole /\ graph' = graph /\ request' = request
  BY DEF Whole, TInv, TypeOK, Next, Step, vars, Pop, Call, FetchFails, FetchAnswers,
         AddOutgoing, AddIncoming, SkipSeen, EndOutgoing, EndIncoming, Finish, TimeIsUp
<1>2. \A w : Sent(w)' = Sent(w) /\ Received(w)' = Received(w)
  BY <1>1 DEF Sent, Received
<1>3. \A w \in visited : \/ Sent(w) \cup Received(w) \subseteq Seen \cup outgoing \cup incoming
                         \/ w = current.wallet /\ pc \in {"visit", "fetch"}
  BY <1>1 DEF Collected
<1>4. CASE UNCHANGED vars
  BY <1>2, <1>3, <1>4 DEF vars, Seen
<1>5. CASE TimeIsUp
  BY <1>2, <1>3, <1>5 DEF TimeIsUp, Seen
<1>6. CASE Pop
  <2>1. Seen' = Seen /\ UNCHANGED <<outgoing, incoming>> /\ pc = "loop"
    BY <1>6 DEF Pop, Seen
  <2>2. \A w \in visited : Sent(w) \cup Received(w) \subseteq Seen \cup outgoing \cup incoming
    BY <1>3, <2>1
  <2>3. CASE Head(queue).wallet \in visited
    <3>1. visited' = visited
      BY <1>6, <2>3 DEF Pop
    <3> QED BY <1>2, <2>1, <2>2, <3>1
  <2>4. CASE Head(queue).wallet \notin visited
    <3>1. /\ visited' = visited \cup {Head(queue).wallet}
          /\ current' = Head(queue) /\ pc' = "visit"
      BY <1>6, <2>4 DEF Pop
    <3> QED BY <1>2, <2>1, <2>2, <3>1
  <2> QED BY <2>3, <2>4
<1>7. CASE Call
  <2>1. time_left /\ pc' = "fetch" /\ pc = "visit"
    BY <1>7 DEF Call, Whole, TInv, TypeOK
  <2> QED BY <1>2, <1>3, <1>7, <2>1 DEF Call, Seen
<1>8. CASE FetchFails
  BY <1>8 DEF FetchFails, Whole
<1>9. CASE FetchAnswers
  <2>1. outgoing' = Sent(current.wallet) /\ incoming' = Received(current.wallet)
    BY <1>9 DEF FetchAnswers, Whole
  <2>2. outgoing = {} /\ incoming = {}
    BY <1>9 DEF FetchAnswers, InHand, Directions
  <2>3. Seen' = Seen /\ visited' = visited /\ current' = current
    BY <1>9 DEF FetchAnswers, Seen
  <2> QED BY <1>2, <1>3, <2>1, <2>2, <2>3
<1>10. CASE \E e \in outgoing : AddOutgoing(e)
  <2> PICK e \in outgoing : AddOutgoing(e)
    BY <1>10
  <2>1. Seen' = Seen \cup {e} /\ outgoing' = outgoing \ {e}
    BY CollectSeen DEF AddOutgoing
  <2>2. UNCHANGED <<visited, incoming, pc, current>>
    BY DEF AddOutgoing
  <2>3. Seen \cup outgoing \cup incoming \subseteq Seen' \cup outgoing' \cup incoming'
    BY <2>1, <2>2
  <2> QED BY <1>2, <1>3, <2>2, <2>3
<1>11. CASE \E e \in incoming : AddIncoming(e)
  <2> PICK e \in incoming : AddIncoming(e)
    BY <1>11
  <2>1. Seen' = Seen \cup {e} /\ incoming' = incoming \ {e}
    BY CollectSeen DEF AddIncoming
  <2>2. UNCHANGED <<visited, outgoing, pc, current>>
    BY DEF AddIncoming
  <2>3. Seen \cup outgoing \cup incoming \subseteq Seen' \cup outgoing' \cup incoming'
    BY <2>1, <2>2
  <2> QED BY <1>2, <1>3, <2>2, <2>3
<1>12. CASE SkipSeen
  <2>1. Seen' = Seen /\ UNCHANGED <<visited, pc, current>>
    BY <1>12 DEF SkipSeen, Seen
  <2>2. outgoing \subseteq Seen \cup outgoing' /\ incoming \subseteq Seen \cup incoming'
    BY <1>12 DEF SkipSeen
  <2>3. Seen \cup outgoing \cup incoming \subseteq Seen' \cup outgoing' \cup incoming'
    BY <2>1, <2>2
  <2> QED BY <1>2, <1>3, <2>1, <2>3
<1>13. CASE EndOutgoing
  <2>1. outgoing = {} /\ UNCHANGED <<visited, incoming, candidates>> /\ outgoing' = {}
    BY <1>13 DEF EndOutgoing, Whole, TInv, TypeOK
  <2>2. pc = "outgoing"
    BY <1>13 DEF EndOutgoing
  <2> QED BY <1>2, <1>3, <2>1, <2>2 DEF Seen
<1>14. CASE EndIncoming
  <2>1. incoming = {} /\ UNCHANGED <<visited, outgoing, candidates>> /\ incoming' = {}
    BY <1>14 DEF EndIncoming, Whole, TInv, TypeOK
  <2>2. pc = "incoming"
    BY <1>14 DEF EndIncoming
  <2> QED BY <1>2, <1>3, <2>1, <2>2 DEF Seen
<1>15. CASE Finish
  <2>1. pc \in {"loop", "finish"} /\ UNCHANGED <<visited, outgoing, incoming, candidates>>
    BY <1>15 DEF Finish
  <2> QED BY <1>2, <1>3, <2>1 DEF Seen
<1> QED BY <1>4, <1>5, <1>6, <1>7, <1>8, <1>9, <1>10, <1>11, <1>12, <1>13, <1>14, <1>15
        DEF Next, Step

\* An answer that says neither that it is truncated nor that a wallet failed,
\* and of which no branch was cut, shows every link of every wallet it has
\* looked at.
THEOREM SilenceIsAll == Spec => []SilenceMeansAll
<1>1. TInv /\ InHand /\ Collected /\ Answered => SilenceMeansAll
  <2> SUFFICES ASSUME InHand, Collected, Answered, Done, Whole, NEW w \in visited
               PROVE  Sent(w) \cup Received(w) \subseteq {c.edge : c \in edges}
    BY DEF SilenceMeansAll
  <2>1. edges = candidates /\ outgoing = {} /\ incoming = {} /\ pc = "done"
    BY DEF Answered, InHand, Done, Directions
  <2>2. Sent(w) \cup Received(w) \subseteq Seen
    BY <2>1 DEF Collected
  <2> QED BY <2>1, <2>2 DEF Seen
<1> QED BY <1>1, InitTypes, NextTypes, InitInHand, NextInHand, InitCollected,
           NextCollected, NextAnswered, PTL DEF Spec
-----------------------------------------------------------------------------
(***************************************************************************)
(* The search goes by breadth.  Without incoming sources, and while every  *)
(* wallet's links are received, whatever limit cuts the search: the queue  *)
(* holds one layer and the beginning of the next, the depth of a wallet is *)
(* settled when it is first met, and who has been looked at has left no    *)
(* link behind.                                                            *)
(***************************************************************************)
Places == 1..Len(queue)
Full == Cardinality(visited) + Len(queue) >= request.max_addresses

\* The queue is in the order of depths, one layer or two; who is in it has
\* not been looked at.
InLine ==
  /\ \A i, j \in Places : i <= j => queue[i].depth <= queue[j].depth
  /\ \A i \in Places : /\ current.depth <= queue[i].depth
                       /\ queue[i].depth <= current.depth + 1
                       /\ queue[i].depth < request.depth
                       /\ queue[i].wallet \notin visited
  /\ \A i, j \in Places : queue[i].wallet = queue[j].wallet => i = j
  /\ queued = visited \cup {queue[i].wallet : i \in Places}
  /\ Root \in queued
  /\ current.depth < request.depth
  /\ pc \in {"visit", "fetch", "outgoing"} => current.wallet \in visited

\* The depth of a wallet is the depth it was first met at.
Layered ==
  /\ \A x \in Wallet : depth[x] # None => depth[x] \in 0..(current.depth + 1)
  /\ depth[Root] = 0
  /\ depth[current.wallet] = current.depth
  /\ \A i \in Places : depth[queue[i].wallet] = queue[i].depth
  /\ \A x \in visited : depth[x] # None /\ depth[x] <= current.depth

\* A wallet that was met is queued, or too deep, or there was no room for it
\* and nothing deeper will ever be queued.
Met ==
  \A x \in Wallet : depth[x] # None =>
    \/ x \in queued
    \/ depth[x] >= request.depth
    \/ /\ truncated /\ Full
       /\ current.depth <= depth[x]
       /\ \A i \in Places : queue[i].depth <= depth[x]

\* A link is one further than its payer, and its payee no further.
Gathered ==
  \A c \in candidates :
    /\ c.direction = "outgoing"
    /\ c.edge.from \in visited
    /\ c.trace_distance = depth[c.edge.from] + 1
    /\ depth[c.edge.to] # None
    /\ depth[c.edge.to] <= c.trace_distance

\* All links of who was looked at are collected, but for the wallet in hand.
Closed ==
  \A w \in visited : \A e \in Sent(w) :
    \/ e \in Seen
    \/ /\ w = current.wallet
       /\ \/ pc \in {"visit", "fetch", "finish", "done"}
          \/ CandidatesFull
          \/ e \in outgoing

Breadth == incoming = {} /\ InLine /\ Layered /\ Met /\ Gathered /\ Closed

ByBreadth == ~partial /\ ~request.include_incoming => Breadth

LEMMA InitBreadth == Init => ByBreadth
<1> SUFFICES ASSUME Init PROVE Breadth
  BY DEF ByBreadth
<1>1. request.depth \in Nat \ {0} /\ Root \in Wallet
  BY TraceAssumption DEF Init, Request
<1>2. /\ Len(queue) = 1 /\ queue[1] = [wallet |-> Root, depth |-> 0]
      /\ current = [wallet |-> Root, depth |-> 0]
      /\ visited = {} /\ queued = {Root} /\ candidates = {} /\ incoming = {}
      /\ pc = "loop"
      /\ depth = [w \in Wallet |-> IF w = Root THEN 0 ELSE None]
  BY DEF Init
<1>3. Places = {1}
  BY <1>2 DEF Places
<1>4. InLine
  BY <1>1, <1>2, <1>3 DEF InLine
<1>5. depth[Root] = 0 /\ \A x \in Wallet : x # Root => depth[x] = None
  BY <1>1, <1>2
<1>6. Layered
  BY <1>1, <1>2, <1>3, <1>5 DEF Layered
<1>7. Met
  BY <1>2, <1>5 DEF Met
<1>8. Gathered /\ Closed
  BY <1>2 DEF Gathered, Closed
<1> QED BY <1>2, <1>4, <1>6, <1>7, <1>8 DEF Breadth

\* Steps that neither meet nor queue a wallet.
LEMMA StillBreadth ==
  ASSUME Breadth,
         UNCHANGED <<graph, request, depth, visited, queued, queue, current, candidates>>,
         incoming' = {}, truncated => truncated',
         pc' \in {"visit", "fetch", "outgoing"} => current.wallet \in visited,
         Closed'
  PROVE  Breadth'
<1>1. InLine'
  BY DEF Breadth, InLine, Places
<1>2. Layered' /\ Gathered'
  BY DEF Breadth, Layered, Gathered, Places
<1>3. Met'
  BY DEF Breadth, Met, Places, Full
<1> QED BY <1>1, <1>2, <1>3 DEF Breadth

LEMMA FetchBreadth ==
  ASSUME TInv, InHand, Breadth, Call \/ FetchAnswers, ~partial', ~request.include_incoming
  PROVE  Breadth'
<1>1. /\ UNCHANGED <<graph, request, depth, visited, queued, queue, current, candidates>>
      /\ truncated => truncated'
      /\ current.wallet \in visited
  BY DEF Call, FetchAnswers, Breadth, InLine
<1>2. \A w : Sent(w)' = Sent(w)
  BY <1>1 DEF Sent
<1>3. Seen' = Seen /\ (CandidatesFull <=> CandidatesFull')
  BY <1>1 DEF Seen, CandidatesFull
<1>4. CASE Call
  <2>1. pc' \in {"fetch", "finish"} /\ UNCHANGED <<outgoing, incoming>>
    BY <1>4 DEF Call
  <2>2. Closed'
    BY <1>1, <1>2, <1>3, <2>1 DEF Breadth, Closed
  <2> QED BY <1>1, <2>1, <2>2, StillBreadth DEF Breadth
<1>5. CASE FetchAnswers
  <2>1. outgoing' = Sent(current.wallet) /\ incoming' = Received(current.wallet)
    BY <1>5 DEF FetchAnswers
  <2>2. incoming' = {}
    BY <2>1 DEF Received
  <2>3. outgoing = {} /\ pc = "fetch"
    BY <1>5 DEF FetchAnswers, InHand
  <2>4. Closed'
    BY <1>1, <1>2, <1>3, <2>1, <2>3 DEF Breadth, Closed
  <2> QED BY <1>1, <2>2, <2>4, StillBreadth
<1> QED BY <1>4, <1>5

LEMMA EndBreadth ==
  ASSUME TInv, InHand, Breadth, SkipSeen \/ EndOutgoing \/ EndIncoming \/ Finish \/ TimeIsUp
  PROVE  Breadth'
<1>1. UNCHANGED <<graph, request, depth, visited, queued, queue, current, candidates>>
  BY DEF SkipSeen, EndOutgoing, EndIncoming, Finish, TimeIsUp
<1>7. truncated => truncated'
  <2>1. truncated \in BOOLEAN
    BY DEF TInv, TypeOK
  <2> QED BY <2>1 DEF SkipSeen, EndOutgoing, EndIncoming, Finish, TimeIsUp
<1>2. /\ incoming' = {}
      /\ pc' \in {"visit", "fetch", "outgoing"} => pc \in {"visit", "fetch", "outgoing"}
  BY DEF SkipSeen, EndOutgoing, EndIncoming, Finish, TimeIsUp, Breadth
<1>3. /\ \A w : Sent(w)' = Sent(w)
      /\ Seen' = Seen /\ (CandidatesFull <=> CandidatesFull')
  BY <1>1 DEF Sent, Seen, CandidatesFull
<1>4. /\ outgoing \subseteq outgoing' \cup Seen \/ CandidatesFull
      /\ pc \in {"visit", "fetch", "finish", "done"} =>
           pc' \in {"visit", "fetch", "finish", "done"}
  BY DEF SkipSeen, EndOutgoing, EndIncoming, Finish, TimeIsUp, Directions
<1>5. Closed'
  BY <1>1, <1>3, <1>4 DEF Breadth, Closed
<1>6. pc' \in {"visit", "fetch", "outgoing"} => current.wallet \in visited
  BY <1>2 DEF Breadth, InLine
<1> QED BY <1>1, <1>2, <1>5, <1>6, <1>7, StillBreadth

LEMMA PopBreadth ==
  ASSUME TInv, InHand, Breadth, Pop
  PROVE  Breadth'
<1> DEFINE item == Head(queue)
<1>1. queue \in Seq(Item) /\ queue # <<>> /\ queue' = Tail(queue)
  BY DEF Pop, Continues, TInv, TypeOK
<1>2. /\ item \in Item /\ item = queue[1] /\ 1 \in Places
      /\ Len(queue) \in Nat /\ Len(queue') = Len(queue) - 1
      /\ \A i \in 1..Len(queue') : i + 1 \in Places /\ queue'[i] = queue[i+1]
  BY <1>1 DEF Places
<1>3. \A i \in Places : queue[i] \in Item /\ queue[i].depth \in Nat
  <2>1. \A i \in Places : queue[i] \in Item
    BY <1>1 DEF Places
  <2> QED BY <2>1 DEF Item
<1>4. item.wallet \in Wallet /\ item.depth \in Nat /\ current.depth \in Nat
  BY <1>2 DEF Item, TInv, TypeOK
<1>5. /\ current.depth <= item.depth /\ item.depth < request.depth
      /\ item.wallet \notin visited /\ depth[item.wallet] = item.depth
  BY <1>2 DEF Breadth, InLine, Layered
<1>6. visited' = visited \cup {item.wallet} /\ current' = item /\ pc' = "visit"
  BY <1>5 DEF Pop
<1>7. depth' = depth
  <2>1. depth' = [depth EXCEPT ![item.wallet] = Least(@, item.depth)]
    BY <1>5 DEF Pop
  <2>2. Least(depth[item.wallet], item.depth) = depth[item.wallet]
    BY <1>4, <1>5 DEF Least
  <2> QED BY <2>1, <2>2 DEF TInv, TypeOK
<1>8. UNCHANGED <<graph, request, queued, outgoing, incoming, candidates, truncated>>
  BY DEF Pop
<1>9. pc = "loop" /\ outgoing = {} /\ ~CandidatesFull
  BY DEF Pop, Continues, InHand
<1> HIDE DEF item
<1>10. InLine'
  <2>1. \A i, j \in Places : i <= j => queue[i].depth <= queue[j].depth
    BY DEF Breadth, InLine
  <2>2. \A i, j \in Places' : i <= j => queue'[i].depth <= queue'[j].depth
    <3>1. ASSUME NEW i \in 1..Len(queue'), NEW j \in 1..Len(queue'), i <= j
          PROVE  queue'[i].depth <= queue'[j].depth
      <4>1. i + 1 \in Places /\ j + 1 \in Places
        BY <1>2
      <4>2. i \in Int /\ j \in Int
        OBVIOUS
      <4>3. i + 1 <= j + 1
        BY <3>1, <4>2
      <4> QED BY <1>2, <2>1, <4>1, <4>3
    <3> QED BY <3>1 DEF Places
  <2>3. ASSUME NEW i \in 1..Len(queue')
        PROVE  /\ item.depth <= queue'[i].depth
               /\ queue'[i].depth <= item.depth + 1
               /\ queue'[i].depth < request.depth
               /\ queue'[i].wallet \notin visited \cup {item.wallet}
    <3>1. i + 1 \in Places /\ queue'[i] = queue[i+1] /\ 1 <= i + 1 /\ i + 1 # 1
      BY <1>2
    <3>2. queue[i+1].depth <= current.depth + 1 /\ queue[i+1].depth < request.depth
      BY <3>1 DEF Breadth, InLine
    <3>3. queue[i+1].wallet \notin visited /\ queue[i+1].wallet # item.wallet
      BY <1>2, <3>1 DEF Breadth, InLine
    <3>4. item.depth <= queue[i+1].depth
      BY <1>2, <2>1, <3>1
    <3>5. queue[i+1].depth <= item.depth + 1
      BY <1>3, <1>4, <1>5, <3>1, <3>2
    <3> QED BY <3>1, <3>2, <3>3, <3>4, <3>5
  <2>4. \A i, j \in Places' : queue'[i].wallet = queue'[j].wallet => i = j
    <3>1. ASSUME NEW i \in 1..Len(queue'), NEW j \in 1..Len(queue'),
                 queue'[i].wallet = queue'[j].wallet
          PROVE  i = j
      <4>1. i + 1 \in Places /\ j + 1 \in Places /\ queue[i+1].wallet = queue[j+1].wallet
        BY <1>2, <3>1
      <4>2. i + 1 = j + 1
        BY <4>1 DEF Breadth, InLine
      <4> QED BY <4>2
    <3> QED BY <3>1 DEF Places
  <2>5. queued = visited' \cup {queue'[i].wallet : i \in Places'}
    <3>1. queued = visited \cup {queue[i].wallet : i \in Places}
      BY DEF Breadth, InLine
    <3>2. ASSUME NEW i \in Places, i # 1
          PROVE  i - 1 \in 1..Len(queue') /\ queue'[i-1] = queue[i]
      <4>1. i - 1 \in 1..Len(queue')
        BY <1>2, <3>2 DEF Places
      <4>2. queue'[i-1] = queue[(i-1)+1]
        BY <1>2, <4>1
      <4> QED BY <4>1, <4>2 DEF Places
    <3>3. queued \subseteq visited' \cup {queue'[i].wallet : i \in 1..Len(queue')}
      <4> SUFFICES ASSUME NEW w \in queued, w \notin visited'
                   PROVE  \E i \in 1..Len(queue') : w = queue'[i].wallet
        OBVIOUS
      <4>1. PICK i \in Places : w = queue[i].wallet
        BY <1>6, <3>1
      <4>2. i # 1
        BY <1>2, <1>6, <4>1
      <4> QED BY <3>2, <4>1, <4>2
    <3>4. visited' \cup {queue'[i].wallet : i \in 1..Len(queue')} \subseteq queued
      BY <1>2, <1>6, <3>1
    <3> QED BY <3>3, <3>4 DEF Places
  <2> QED BY <1>5, <1>6, <1>8, <2>2, <2>3, <2>4, <2>5 DEF InLine, Places, Breadth
<1>11. Layered'
  <2>1. \A x \in Wallet : depth[x] # None => depth[x] \in 0..(item.depth + 1)
    BY <1>4, <1>5 DEF Breadth, Layered
  <2>2. \A i \in 1..Len(queue') : depth[queue'[i].wallet] = queue'[i].depth
    BY <1>2 DEF Breadth, Layered
  <2>3. \A x \in visited : depth[x] # None /\ depth[x] <= item.depth
    <3> TAKE x \in visited
    <3>1. depth[x] # None /\ depth[x] <= current.depth /\ x \in Wallet
      BY DEF Breadth, Layered, TInv, TypeOK
    <3>2. depth[x] \in Int
      BY <3>1 DEF TInv, TypeOK
    <3> QED BY <1>4, <1>5, <3>1, <3>2
  <2>4. depth[item.wallet] # None
    BY <1>4, <1>5, TraceAssumption
  <2>5. \A x \in visited' : depth[x] # None /\ depth[x] <= item.depth
    BY <1>4, <1>5, <1>6, <2>3, <2>4
  <2>6. depth[Root] = 0
    BY DEF Breadth, Layered
  <2> QED BY <1>5, <1>6, <1>7, <2>1, <2>2, <2>5, <2>6 DEF Layered, Places
<1>12. Met'
  <2>1. Full => Full'
    <3>1. IsFiniteSet(visited)
      BY FS_Subset, TraceAssumption DEF TInv, TypeOK
    <3>2. Cardinality(visited') = Cardinality(visited) + 1 /\ Cardinality(visited) \in Nat
      BY <1>5, <1>6, <3>1, FS_AddElement, FS_CardinalityType
    <3> QED BY <1>2, <1>8, <3>2 DEF Full
  <2>2. ASSUME NEW x \in Wallet, depth[x] # None, x \notin queued,
               ~(depth[x] >= request.depth)
        PROVE  /\ truncated /\ Full'
               /\ item.depth <= depth[x]
               /\ \A i \in 1..Len(queue') : queue'[i].depth <= depth[x]
    <3>1. truncated /\ Full /\ \A i \in Places : queue[i].depth <= depth[x]
      BY <2>2 DEF Breadth, Met
    <3> QED BY <1>2, <2>1, <3>1
  <2> QED BY <1>6, <1>7, <1>8, <2>2 DEF Met, Places
<1>13. Gathered'
  BY <1>6, <1>7, <1>8 DEF Breadth, Gathered
<1>14. Closed'
  <2>1. Seen' = Seen /\ \A w : Sent(w)' = Sent(w)
    BY <1>8 DEF Seen, Sent
  <2>2. \A w \in visited : \A e \in Sent(w) : e \in Seen
    BY <1>9 DEF Breadth, Closed
  <2> QED BY <1>6, <2>1, <2>2 DEF Closed
<1> QED BY <1>8, <1>10, <1>11, <1>12, <1>13, <1>14 DEF Breadth

\* The depth of the payee is settled by the first link to it.
LEMMA SettledDepth ==
  ASSUME TInv, Breadth, NEW e \in outgoing, AddOutgoing(e)
  PROVE  /\ \A x \in Wallet : depth[x] # None => depth'[x] = depth[x]
         /\ \A x \in Wallet : x # e.to => depth'[x] = depth[x]
         /\ depth[e.to] = None => depth'[e.to] = current.depth + 1
         /\ depth'[e.to] # None /\ depth'[e.to] \in 0..(current.depth + 1)
         /\ depth[e.to] \in Int \cup {None}
         /\ depth[e.to] # None => depth[e.to] \in Int /\ depth[e.to] <= current.depth + 1
<1>1. e.to \in Wallet
  BY LinkTypes DEF TInv, TypeOK
<1>2. current.depth \in Nat
  BY DEF TInv, TypeOK, Item
<1>3. depth' = [depth EXCEPT ![e.to] = Least(depth[e.to], current.depth + 1)]
  BY DEF AddOutgoing
<1>4. depth \in [Wallet -> Int \cup {None}]
  BY DEF TInv, TypeOK
<1>5. depth'[e.to] = Least(depth[e.to], current.depth + 1)
  BY <1>1, <1>3, <1>4
<1>6. \A x \in Wallet : x # e.to => depth'[x] = depth[x]
  BY <1>3, <1>4
<1>7. depth[e.to] \in Int \cup {None}
  BY <1>1, <1>4
<1>8. depth[e.to] # None => depth[e.to] \in 0..(current.depth + 1)
  BY <1>1 DEF Breadth, Layered
<1>9. depth[e.to] # None => depth'[e.to] = depth[e.to]
  BY <1>2, <1>5, <1>8 DEF Least
<1>10. depth[e.to] = None => depth'[e.to] = current.depth + 1
  BY <1>5 DEF Least
<1>11. depth'[e.to] \in 0..(current.depth + 1)
  BY <1>2, <1>8, <1>9, <1>10
<1>12. depth'[e.to] # None
  BY <1>2, <1>11, TraceAssumption
<1>13. \A x \in Wallet : depth[x] # None => depth'[x] = depth[x]
  BY <1>6, <1>9
<1> QED BY <1>2, <1>6, <1>7, <1>8, <1>10, <1>11, <1>12, <1>13

\* Who is queued has been met.
LEMMA QueuedIsMet ==
  ASSUME TInv, Breadth, NEW w \in queued
  PROVE  depth[w] # None
<1>1. w \in visited \/ \E i \in Places : w = queue[i].wallet
  BY DEF Breadth, InLine
<1>2. ASSUME w \in visited PROVE depth[w] # None
  BY <1>2 DEF Breadth, Layered
<1>3. ASSUME NEW i \in Places, w = queue[i].wallet PROVE depth[w] # None
  <2>1. depth[w] = queue[i].depth
    BY <1>3 DEF Breadth, Layered
  <2>2. queue[i] \in Item
    BY DEF Places, TInv, TypeOK
  <2> QED BY <2>1, <2>2, TraceAssumption DEF Item
<1> QED BY <1>1, <1>2, <1>3

\* A link is followed to a wallet nobody has paid before, or not at all.
LEMMA Followed ==
  ASSUME TInv, Breadth, NEW e \in outgoing, AddOutgoing(e)
  PROVE  \/ /\ queue' = Append(queue, [wallet |-> e.to, depth |-> current.depth + 1])
            /\ queued' = queued \cup {e.to}
            /\ depth[e.to] = None /\ ~Full
            /\ e.to \notin visited \cup queued
            /\ current.depth + 1 < request.depth
         \/ /\ UNCHANGED <<queue, queued>>
            /\ truncated => truncated'
            /\ depth[e.to] = None =>
                 current.depth + 1 >= request.depth \/ (truncated' /\ Full)
<1> DEFINE cycle  == depth[e.to] # None /\ depth[e.to] <= current.depth
           wanted == /\ ~cycle /\ current.depth + 1 < request.depth
                     /\ e.to \notin visited \cup queued
<1>1. e.to \in Wallet /\ truncated \in BOOLEAN /\ current.depth \in Nat
  BY LinkTypes DEF TInv, TypeOK, Item
<1>2. CASE wanted /\ ~Full
  <2>1. /\ queue' = Append(queue, [wallet |-> e.to, depth |-> current.depth + 1])
        /\ queued' = queued \cup {e.to}
    BY <1>2 DEF AddOutgoing, Full
  <2>2. depth[e.to] = None
    <3> SUFFICES ASSUME depth[e.to] # None PROVE FALSE
      OBVIOUS
    <3>1. depth[e.to] \in Int /\ depth[e.to] <= current.depth + 1
      BY SettledDepth
    <3>2. depth[e.to] >= request.depth
      BY <1>1, <1>2 DEF Breadth, Met
    <3> QED BY <1>1, <1>2, <3>1, <3>2, Parameters DEF TInv
  <2> QED BY <1>2, <2>1, <2>2
<1>3. CASE ~(wanted /\ ~Full)
  <2>1. UNCHANGED <<queue, queued>>
    BY <1>3 DEF AddOutgoing, Full
  <2>2. truncated' = (truncated \/ (wanted /\ Full))
    BY DEF AddOutgoing, Full
  <2>3. ASSUME depth[e.to] = None, ~(current.depth + 1 >= request.depth)
        PROVE  wanted
    <3>1. e.to \notin visited \cup queued
      BY <2>3, QueuedIsMet DEF Breadth, InLine
    <3> QED BY <1>1, <2>3, <3>1, Parameters DEF TInv
  <2> HIDE DEF wanted
  <2> QED BY <1>1, <1>3, <2>1, <2>2, <2>3
<1> QED BY <1>2, <1>3

LEMMA OutgoingBreadth ==
  ASSUME TInv, Real, Breadth, NEW e \in outgoing, AddOutgoing(e)
  PROVE  Breadth'
<1> DEFINE new  == [wallet |-> e.to, depth |-> current.depth + 1]
           link == [edge |-> e, direction |-> "outgoing",
                    trace_distance |-> current.depth + 1]
<1>1. e \in graph /\ e.from = current.wallet /\ e.to \in Wallet
  BY LinkTypes DEF TInv, TypeOK, Real
<1>2. /\ pc = "outgoing" /\ ~CandidatesFull
      /\ outgoing' = outgoing \ {e} /\ Collect(e, "outgoing")
      /\ UNCHANGED <<graph, request, pc, visited, current, incoming>>
  BY DEF AddOutgoing
<1>3. current.depth \in Nat /\ current.wallet \in visited /\ current.wallet \in Wallet
  BY <1>2 DEF Breadth, InLine, TInv, TypeOK, Item
<1>4. /\ \A x \in Wallet : depth[x] # None => depth'[x] = depth[x]
      /\ \A x \in Wallet : x # e.to => depth'[x] = depth[x]
      /\ depth[e.to] = None => depth'[e.to] = current.depth + 1
      /\ depth'[e.to] # None /\ depth'[e.to] \in 0..(current.depth + 1)
  BY SettledDepth
<1>5. visited \subseteq Wallet /\ queued \subseteq Wallet /\ Root \in Wallet
  BY TraceAssumption DEF TInv, TypeOK
<1>6. \A x \in visited : depth'[x] = depth[x] /\ depth[x] # None
  BY <1>4, <1>5 DEF Breadth, Layered
<1>7. Len(queue) \in Nat /\ \A i \in Places : queue[i] \in Item
  BY DEF TInv, TypeOK, Places
<1>8. \A i \in Places : /\ queue[i].wallet \in queued /\ queue[i].wallet \in Wallet
                        /\ queue[i].depth \in Nat
                        /\ queue[i].depth <= current.depth + 1
  BY <1>7 DEF Breadth, InLine, Item
<1>9. \A i \in Places : depth'[queue[i].wallet] = queue[i].depth
  BY <1>4, <1>8, QueuedIsMet DEF Breadth, Layered
<1> DEFINE Grows == /\ queue' = Append(queue, new)
                    /\ queued' = queued \cup {e.to}
                    /\ depth[e.to] = None /\ ~Full
                    /\ e.to \notin visited \cup queued
                    /\ current.depth + 1 < request.depth
           Keeps == /\ UNCHANGED <<queue, queued>>
                    /\ truncated => truncated'
                    /\ depth[e.to] = None =>
                         current.depth + 1 >= request.depth \/ (truncated' /\ Full)
<1>10. Grows \/ Keeps
  BY Followed
<1>11. ASSUME Grows
       PROVE  /\ Len(queue') = Len(queue) + 1 /\ queue'[Len(queue) + 1] = new
              /\ \A i \in Places : i \in Places' /\ queue'[i] = queue[i]
              /\ \A i \in Places' : i \in Places \/ i = Len(queue) + 1
  <2> HIDE DEF new
  <2> QED BY <1>7, <1>11 DEF Places, TInv, TypeOK
<1>12. new.wallet = e.to /\ new.depth = current.depth + 1
  OBVIOUS
<1> HIDE DEF new
<1>13. InLine'
  <2>1. CASE Keeps
    BY <1>2, <2>1 DEF Breadth, InLine, Places
  <2>2. CASE Grows
    <3>1. /\ Len(queue') = Len(queue) + 1 /\ queue'[Len(queue) + 1] = new
          /\ \A i \in Places : i \in Places' /\ queue'[i] = queue[i]
          /\ \A i \in Places' : i \in Places \/ i = Len(queue) + 1
      BY <1>11, <2>2
    <3>2. ASSUME NEW i \in Places', NEW j \in Places', i <= j
          PROVE  queue'[i].depth <= queue'[j].depth
      <4>1. CASE i \in Places /\ j \in Places
        BY <3>1, <3>2, <4>1 DEF Breadth, InLine
      <4>2. CASE i \in Places /\ j = Len(queue) + 1
        BY <1>8, <1>12, <3>1, <4>2
      <4>3. CASE i = Len(queue) + 1
        <5>1. j = Len(queue) + 1
          <6>1. j \notin Places
            BY <1>7, <3>2, <4>3 DEF Places
          <6> QED BY <3>1, <6>1
        <5> QED BY <1>3, <1>12, <3>1, <4>3, <5>1
      <4> QED BY <3>1, <4>1, <4>2, <4>3
    <3>3. ASSUME NEW i \in Places'
          PROVE  /\ current.depth <= queue'[i].depth
                 /\ queue'[i].depth <= current.depth + 1
                 /\ queue'[i].depth < request.depth
                 /\ queue'[i].wallet \notin visited
      <4>1. CASE i \in Places
        BY <3>1, <4>1 DEF Breadth, InLine
      <4>2. CASE i = Len(queue) + 1
        BY <1>3, <1>12, <2>2, <3>1, <4>2
      <4> QED BY <3>1, <4>1, <4>2
    <3>4. ASSUME NEW i \in Places', NEW j \in Places',
                 queue'[i].wallet = queue'[j].wallet
          PROVE  i = j
      <4>1. CASE i \in Places /\ j \in Places
        BY <3>1, <3>4, <4>1 DEF Breadth, InLine
      <4>2. CASE i \in Places /\ j = Len(queue) + 1
        BY <1>8, <1>12, <2>2, <3>1, <3>4, <4>2
      <4>3. CASE j \in Places /\ i = Len(queue) + 1
        BY <1>8, <1>12, <2>2, <3>1, <3>4, <4>3
      <4> QED BY <3>1, <4>1, <4>2, <4>3
    <3>5. queued' = visited \cup {queue'[i].wallet : i \in Places'}
      <4>1. queued = visited \cup {queue[i].wallet : i \in Places}
        BY DEF Breadth, InLine
      <4>2. Len(queue) + 1 \in Places'
        BY <1>7, <3>1 DEF Places
      <4>3. {queue'[i].wallet : i \in Places'} =
              {queue[i].wallet : i \in Places} \cup {e.to}
        BY <1>12, <3>1, <4>2
      <4> QED BY <2>2, <4>1, <4>3
    <3>6. Root \in queued' /\ current.depth < request.depth
      BY <2>2 DEF Breadth, InLine
    <3> QED BY <1>2, <1>3, <3>2, <3>3, <3>4, <3>5, <3>6 DEF InLine
  <2> QED BY <1>10, <2>1, <2>2
<1>14. Layered'
  <2>1. ASSUME NEW x \in Wallet, depth'[x] # None
        PROVE  depth'[x] \in 0..(current.depth + 1)
    <3>1. CASE x = e.to
      BY <1>4, <3>1
    <3>2. CASE x # e.to
      BY <1>4, <2>1, <3>2 DEF Breadth, Layered
    <3> QED BY <3>1, <3>2
  <2>2. depth'[Root] = 0 /\ depth'[current.wallet] = current.depth
    <3>1. Root \in queued /\ current.wallet \in queued
      BY <1>3 DEF Breadth, InLine
    <3> QED BY <1>3, <1>4, <1>5, <3>1, QueuedIsMet DEF Breadth, Layered
  <2>3. ASSUME NEW i \in Places' PROVE depth'[queue'[i].wallet] = queue'[i].depth
    <3>1. CASE Keeps
      BY <1>9, <3>1 DEF Places
    <3>2. CASE Grows
      <4>1. CASE i \in Places
        BY <1>9, <1>11, <3>2, <4>1
      <4>2. CASE i = Len(queue) + 1
        BY <1>4, <1>11, <1>12, <3>2, <4>2
      <4> QED BY <1>11, <3>2, <4>1, <4>2
    <3> QED BY <1>10, <3>1, <3>2
  <2>4. \A x \in visited : depth'[x] # None /\ depth'[x] <= current.depth
    BY <1>6 DEF Breadth, Layered
  <2> QED BY <1>2, <2>1, <2>2, <2>3, <2>4 DEF Layered
<1>15. Met'
  <2> SUFFICES ASSUME NEW x \in Wallet, depth'[x] # None
               PROVE  \/ x \in queued'
                      \/ depth'[x] >= request.depth
                      \/ /\ truncated' /\ Full'
                         /\ current.depth <= depth'[x]
                         /\ \A i \in Places' : queue'[i].depth <= depth'[x]
    BY <1>2 DEF Met
  <2>1. CASE depth[x] # None
    <3>1. depth'[x] = depth[x]
      BY <1>4, <2>1
    <3>2. \/ x \in queued
          \/ depth[x] >= request.depth
          \/ /\ truncated /\ Full
             /\ current.depth <= depth[x]
             /\ \A i \in Places : queue[i].depth <= depth[x]
      BY <2>1 DEF Breadth, Met
    <3>3. CASE Grows
      BY <3>1, <3>2, <3>3
    <3>4. CASE Keeps
      <4>1. Full' = Full /\ Places' = Places /\ queue' = queue /\ queued' = queued
        BY <1>2, <3>4 DEF Full, Places
      <4> QED BY <3>1, <3>2, <3>4, <4>1
    <3> QED BY <1>10, <3>3, <3>4
  <2>2. CASE depth[x] = None
    <3>1. x = e.to /\ depth'[x] = current.depth + 1
      BY <1>4, <2>2
    <3>2. CASE Grows
      BY <3>1, <3>2
    <3>3. CASE Keeps
      <4>1. /\ Full <=> Full'
            /\ Places' = Places /\ queue' = queue
        BY <1>2, <3>3 DEF Full, Places
      <4>2. current.depth + 1 >= request.depth \/ (truncated' /\ Full)
        BY <2>2, <3>1, <3>3
      <4>3. current.depth <= current.depth + 1
        BY <1>3
      <4> QED BY <1>8, <3>1, <4>1, <4>2, <4>3
    <3> QED BY <1>10, <3>2, <3>3
  <2> QED BY <2>1, <2>2
<1>16. Gathered'
  <2>1. candidates' = candidates \cup {link}
    BY <1>2 DEF Collect
  <2>2. /\ link.direction = "outgoing" /\ link.edge = e
        /\ link.trace_distance = current.depth + 1
    OBVIOUS
  <2> HIDE DEF link
  <2>3. ASSUME NEW c \in candidates
        PROVE  /\ c.direction = "outgoing"
               /\ c.edge.from \in visited
               /\ c.trace_distance = depth'[c.edge.from] + 1
               /\ depth'[c.edge.to] # None
               /\ depth'[c.edge.to] <= c.trace_distance
    <3>1. /\ c.direction = "outgoing"
          /\ c.edge.from \in visited
          /\ c.trace_distance = depth[c.edge.from] + 1
          /\ depth[c.edge.to] # None
          /\ depth[c.edge.to] <= c.trace_distance
      BY DEF Breadth, Gathered
    <3>2. c.edge.to \in Wallet
      BY DEF TInv, TypeOK, Candidate, Link
    <3> QED BY <1>4, <1>6, <3>1, <3>2
  <2>4. /\ e.from \in visited
        /\ current.depth + 1 = depth'[e.from] + 1
        /\ depth'[e.to] # None
        /\ depth'[e.to] <= current.depth + 1
    <3>1. depth'[e.from] = current.depth
      BY <1>1, <1>3, <1>6 DEF Breadth, Layered
    <3> QED BY <1>1, <1>3, <1>4, <3>1
  <2> QED BY <1>2, <2>1, <2>2, <2>3, <2>4 DEF Gathered
<1>17. Closed'
  <2>1. Seen' = Seen \cup {e} /\ \A w : Sent(w)' = Sent(w)
    BY <1>2, CollectSeen DEF Sent
  <2>2. \A w \in visited : \A f \in Sent(w) :
          f \in Seen \/ (w = current.wallet /\ f \in outgoing)
    BY <1>2 DEF Breadth, Closed
  <2> QED BY <1>2, <2>1, <2>2 DEF Closed
<1> QED BY <1>2, <1>13, <1>14, <1>15, <1>16, <1>17 DEF Breadth

LEMMA NextBreadth == TInv /\ InHand /\ Real /\ ByBreadth /\ [Next]_vars => ByBreadth'
<1> SUFFICES ASSUME TInv, InHand, Real, ByBreadth, [Next]_vars,
                    ~partial', ~request'.include_incoming
             PROVE  Breadth'
  BY DEF ByBreadth
<1>1. request' = request
  BY DEF Next, Step, vars, Pop, Call, FetchFails, FetchAnswers, AddOutgoing, AddIncoming,
         SkipSeen, EndOutgoing, EndIncoming, Finish, TimeIsUp
<1>2. ~partial
  <2>1. partial \in BOOLEAN
    BY DEF TInv, TypeOK
  <2> QED BY <2>1 DEF Next, Step, vars, Pop, Call, FetchFails, FetchAnswers, AddOutgoing,
                      AddIncoming, SkipSeen, EndOutgoing, EndIncoming, Finish, TimeIsUp
<1>3. Breadth
  BY <1>1, <1>2 DEF ByBreadth
<1>4. CASE UNCHANGED vars
  BY <1>3, <1>4 DEF vars, Breadth, InLine, Layered, Met, Gathered, Closed, Places, Full,
                    Seen, Sent, CandidatesFull
<1>5. CASE Pop
  BY <1>3, <1>5, PopBreadth
<1>6. CASE Call \/ FetchAnswers
  BY <1>1, <1>3, <1>6, FetchBreadth
<1>7. CASE FetchFails
  BY <1>7 DEF FetchFails
<1>8. CASE \E e \in outgoing : AddOutgoing(e)
  BY <1>3, <1>8, OutgoingBreadth
<1>9. CASE \E e \in incoming : AddIncoming(e)
  BY <1>3, <1>9 DEF Breadth
<1>10. CASE SkipSeen \/ EndOutgoing \/ EndIncoming \/ Finish \/ TimeIsUp
  BY <1>3, <1>10, EndBreadth
<1> QED BY <1>4, <1>5, <1>6, <1>7, <1>8, <1>9, <1>10 DEF Next, Step

-----------------------------------------------------------------------------
(***************************************************************************)
(* What the cut leaves out, and what the search has reached.               *)
(***************************************************************************)
\* The cut to max_edges shows nothing behind a link it leaves out.
Cut == Done => \A c \in edges, d \in candidates \ edges : ~Before(d, c)

\* A search that was not cut has emptied its queue.
Emptied == Done /\ Whole => queue = <<>>

LEMMA InitOver == Init => Cut /\ Emptied
BY DEF Init, Cut, Emptied, Done

LEMMA NextOver == TInv /\ Cut /\ Emptied /\ [Next]_vars => Cut' /\ Emptied'
<1> SUFFICES ASSUME TInv, Cut, Emptied, [Next]_vars PROVE Cut' /\ Emptied'
  OBVIOUS
<1>1. CASE UNCHANGED vars
  BY <1>1 DEF Cut, Emptied, Done, Whole, Before, vars
<1>2. CASE Finish
  <2>1. edges' \in Nearest(candidates) /\ UNCHANGED <<candidates, queue>>
    BY <1>2 DEF Finish
  <2>2. Cut'
    BY <2>1 DEF Cut, Nearest, Before
  <2>3. Emptied'
    BY <1>2, <2>1 DEF Finish, Emptied, Whole
  <2> QED BY <2>2, <2>3
<1>3. CASE Next /\ ~Finish
  <2>1. pc' # "done"
    BY <1>3 DEF TInv, TypeOK, Next, Step, Pop, Call, FetchFails, FetchAnswers,
                AddOutgoing, AddIncoming, SkipSeen, EndOutgoing, EndIncoming,
                TimeIsUp, Directions
  <2> QED BY <2>1 DEF Cut, Emptied, Done
<1> QED BY <1>1, <1>2, <1>3

\* The last transfer of a chain.
LEMMA LastPaid ==
  ASSUME NEW n \in Nat, NEW w, PaidWithin(n + 1, w)
  PROVE  \E u \in Wallet : PaidWithin(n, u) /\ Pays(u, w)
<1>1. PICK p \in [0..(n+1) -> Wallet] :
        /\ p[0] = Root /\ p[n+1] = w
        /\ \A i \in 1..(n+1) : Pays(p[i-1], p[i])
  BY DEF PaidWithin
<1> DEFINE q == [i \in 0..n |-> p[i]]
<1>2. q \in [0..n -> Wallet] /\ q[0] = Root /\ q[n] = p[n]
  BY <1>1
<1>3. \A i \in 1..n : Pays(q[i-1], q[i])
  <2> SUFFICES ASSUME NEW i \in 1..n PROVE Pays(q[i-1], q[i])
    OBVIOUS
  <2>1. i \in 1..(n+1) /\ q[i-1] = p[i-1] /\ q[i] = p[i]
    OBVIOUS
  <2> QED BY <1>1, <2>1
<1> HIDE DEF q
<1>4. PaidWithin(n, p[n])
  BY <1>2, <1>3 DEF PaidWithin
<1>5. p[n] \in Wallet /\ Pays(p[n], w)
  <2>1. n + 1 \in 1..(n+1) /\ (n + 1) - 1 = n
    OBVIOUS
  <2>2. Pays(p[(n+1)-1], p[n+1])
    BY <1>1, <2>1
  <2> QED BY <1>1, <2>1, <2>2
<1> QED BY <1>4, <1>5

LEMMA NonePaid ==
  ASSUME NEW w, PaidWithin(0, w)
  PROVE  w = Root
BY DEF PaidWithin

\* A chain may pause at its end.
LEMMA PaidMore ==
  ASSUME NEW n \in Nat, NEW m \in Nat, n <= m, NEW w, PaidWithin(n, w)
  PROVE  PaidWithin(m, w)
<1>1. PICK p \in [0..n -> Wallet] :
        /\ p[0] = Root /\ p[n] = w
        /\ \A i \in 1..n : Pays(p[i-1], p[i])
  BY DEF PaidWithin
<1> DEFINE q == [i \in 0..m |-> IF i <= n THEN p[i] ELSE w]
<1>2. q \in [0..m -> Wallet] /\ q[0] = Root
  BY <1>1
<1>3. q[m] = w
  BY <1>1
<1>4. \A i \in 1..m : Pays(q[i-1], q[i])
  <2> SUFFICES ASSUME NEW i \in 1..m PROVE Pays(q[i-1], q[i])
    OBVIOUS
  <2>1. CASE i <= n
    <3>1. i \in 1..n /\ q[i-1] = p[i-1] /\ q[i] = p[i]
      BY <2>1
    <3> QED BY <1>1, <3>1
  <2>2. CASE ~(i <= n)
    <3>1. q[i] = w /\ q[i-1] = w
      BY <1>1, <2>2
    <3> QED BY <3>1 DEF Pays
  <2> QED BY <2>1, <2>2
<1> HIDE DEF q
<1> QED BY <1>2, <1>3, <1>4 DEF PaidWithin

\* One more transfer.
LEMMA PaidExtend ==
  ASSUME NEW n \in Nat, NEW u \in Wallet, NEW v \in Wallet,
         PaidWithin(n, u), Pays(u, v)
  PROVE  PaidWithin(n + 1, v)
<1>1. PICK p \in [0..n -> Wallet] :
        /\ p[0] = Root /\ p[n] = u
        /\ \A i \in 1..n : Pays(p[i-1], p[i])
  BY DEF PaidWithin
<1> DEFINE q == [i \in 0..(n+1) |-> IF i = n + 1 THEN v ELSE p[i]]
<1>2. q \in [0..(n+1) -> Wallet]
  OBVIOUS
<1>3. q[0] = Root /\ q[n+1] = v
  BY <1>1
<1>4. ASSUME NEW i \in 1..(n+1) PROVE Pays(q[i-1], q[i])
  <2>1. CASE i = n + 1
    <3>1. q[i-1] = u /\ q[i] = v
      BY <1>1, <2>1
    <3> QED BY <3>1
  <2>2. CASE i # n + 1
    <3>1. i \in 1..n /\ q[i-1] = p[i-1] /\ q[i] = p[i]
      BY <2>2
    <3> QED BY <1>1, <3>1
  <2> QED BY <2>1, <2>2
<1> HIDE DEF q
<1> QED BY <1>2, <1>3, <1>4 DEF PaidWithin

\* A wallet that was met above the layer in hand has been looked at.
LEMMA AboveIsVisited ==
  ASSUME TInv, Breadth, NEW w \in queued, depth[w] < current.depth
  PROVE  w \in visited
<1> SUFFICES ASSUME w \notin visited PROVE FALSE
  OBVIOUS
<1>1. PICK i \in Places : w = queue[i].wallet
  BY DEF Breadth, InLine
<1>2. depth[w] = queue[i].depth /\ current.depth <= queue[i].depth
  BY <1>1 DEF Breadth, InLine, Layered
<1>3. queue[i].depth \in Nat /\ current.depth \in Nat
  <2>1. queue[i] \in Item
    BY DEF Places, TInv, TypeOK
  <2> QED BY <2>1 DEF Item, TInv, TypeOK
<1> QED BY <1>2, <1>3

\* Who is looked at by breadth: everyone whom less transfers reach than are
\* between the root and the wallet in hand, and none of them farther than it is.
LEMMA LayersAbove ==
  ASSUME TInv, Breadth, pc = "done"
  PROVE  \A n \in Nat : n < current.depth =>
           \A w \in Wallet : PaidWithin(n, w) => w \in visited /\ depth[w] <= n
<1> DEFINE Reached(n) == \A w \in Wallet :
                           PaidWithin(n, w) => w \in visited /\ depth[w] <= n
           S == {n \in Nat : n < current.depth => Reached(n)}
<1>1. current.depth \in Nat /\ current.depth < request.depth /\ request.depth \in Nat
  BY Parameters DEF Breadth, InLine, TInv, TypeOK, Item
<1>2. 0 \in S
  <2> SUFFICES ASSUME 0 < current.depth, NEW w \in Wallet, PaidWithin(0, w)
               PROVE  w \in visited /\ depth[w] <= 0
    OBVIOUS
  <2>1. w = Root /\ depth[Root] = 0 /\ Root \in queued
    BY NonePaid DEF Breadth, Layered, InLine
  <2> QED BY <2>1, AboveIsVisited
<1>3. ASSUME NEW n \in S PROVE n + 1 \in S
  <2> SUFFICES ASSUME n + 1 < current.depth, NEW w \in Wallet, PaidWithin(n + 1, w)
               PROVE  w \in visited /\ depth[w] <= n + 1
    OBVIOUS
  <2>1. n \in Nat /\ Reached(n)
    BY <1>1
  <2> HIDE DEF S
  <2>2. PICK u \in Wallet : PaidWithin(n, u) /\ Pays(u, w)
    BY <2>1, LastPaid
  <2>3. u \in visited /\ depth[u] <= n
    BY <2>1, <2>2
  <2>4. depth[u] \in Int
    BY <2>3 DEF Breadth, Layered, TInv, TypeOK
  <2>5. CASE u = w
    BY <2>1, <2>3, <2>4, <2>5
  <2>6. CASE u # w
    <3>1. PICK e \in graph : e.from = u /\ e.to = w
      BY <2>2, <2>6 DEF Pays
    <3>2. u # current.wallet
      BY <1>1, <2>1, <2>3, <2>4 DEF Breadth, Layered
    <3>3. e \in Seen
      BY <2>3, <3>1, <3>2 DEF Breadth, Closed, Sent
    <3>4. PICK c \in candidates : c.edge = e
      BY <3>3 DEF Seen
    <3>5. depth[w] # None /\ depth[w] <= depth[u] + 1
      BY <3>1, <3>4 DEF Breadth, Gathered
    <3>6. depth[w] \in Int
      BY <3>5 DEF TInv, TypeOK
    <3>7. depth[w] <= n + 1 /\ depth[w] < current.depth /\ depth[w] < request.depth
      BY <1>1, <2>1, <2>3, <2>4, <3>5, <3>6
    <3>8. w \in queued
      <4>1. ~(depth[w] >= request.depth) /\ ~(current.depth <= depth[w])
        BY <1>1, <3>6, <3>7
      <4> QED BY <3>5, <4>1 DEF Breadth, Met
    <3> QED BY <3>7, <3>8, AboveIsVisited
  <2> QED BY <2>5, <2>6
<1> HIDE DEF Reached
<1>4. S = Nat
  <2>1. S \in SUBSET Nat
    OBVIOUS
  <2> HIDE DEF S
  <2> QED BY <1>2, <1>3, <2>1, InductiveSet
<1>5. ASSUME NEW n \in Nat, n < current.depth PROVE Reached(n)
  BY <1>4, <1>5
<1> QED BY <1>5 DEF Reached

\* A link that is shown is never farther than one left out whose payer fewer
\* transfers reach: whatever limit cuts the search or its answer, the chain is
\* shown from the root outward.
THEOREM NearestCorrect == Spec => []NearestToRoot
<1>1. TInv /\ ByBreadth /\ Cut => NearestToRoot
  <2> SUFFICES ASSUME TInv, Cut, Breadth, Done, NEW c \in edges, NEW e \in graph,
                      c.trace_distance > 1, PaidWithin(c.trace_distance - 2, e.from)
               PROVE  \E d \in edges : d.edge = e
    BY DEF NearestToRoot, ByBreadth
  <2> DEFINE n == c.trace_distance - 2
  <2>1. c \in candidates /\ c.trace_distance \in Nat /\ current.depth \in Nat
    BY DEF TInv, TypeOK, Candidate, Item
  <2>2. c.trace_distance = depth[c.edge.from] + 1 /\ c.edge.from \in visited
    BY <2>1 DEF Breadth, Gathered
  <2>3. depth[c.edge.from] # None /\ depth[c.edge.from] <= current.depth
    BY <2>2 DEF Breadth, Layered
  <2>4. depth[c.edge.from] \in Int
    BY <2>2, <2>3 DEF TInv, TypeOK
  <2>5. n \in Nat /\ n < current.depth
    BY <2>1, <2>2, <2>3, <2>4
  <2>6. e.from \in Wallet
    BY LinkTypes DEF TInv
  <2>7. e.from \in visited /\ depth[e.from] <= n
    BY <2>5, <2>6, LayersAbove DEF Done
  <2>8. depth[e.from] \in Int
    BY <2>6, <2>7 DEF Breadth, Layered, TInv, TypeOK
  <2>9. e.from # current.wallet
    BY <2>1, <2>5, <2>7, <2>8 DEF Breadth, Layered
  <2>10. PICK d \in candidates : d.edge = e
    BY <2>7, <2>9 DEF Breadth, Closed, Sent, Seen
  <2>11. d.trace_distance = depth[e.from] + 1
    BY <2>10 DEF Breadth, Gathered
  <2>12. Before(d, c)
    BY <2>1, <2>7, <2>8, <2>11 DEF Before
  <2> QED BY <2>10, <2>12 DEF Cut
<1> QED BY <1>1, InitTypes, NextTypes, InitInHand, NextInHand, InitReal, NextReal,
           InitBreadth, NextBreadth, InitOver, NextOver, PTL DEF Spec

-----------------------------------------------------------------------------
(***************************************************************************)
(* Completeness of the outgoing chain.                                     *)
(***************************************************************************)
\* Whoever is queued, in hand or looked at was reached by outgoing transfers
\* alone, as many as the depth it bears.
Paid ==
  /\ \A i \in Places : /\ PaidWithin(queue[i].depth, queue[i].wallet)
                       /\ queue[i].depth < request.depth
  /\ PaidWithin(current.depth, current.wallet)
  /\ \A w \in visited : PaidWithin(request.depth - 1, w)

LEMMA SameChains ==
  ASSUME graph' = graph
  PROVE  \A n, w : PaidWithin(n, w) <=> PaidWithin(n, w)'
BY DEF PaidWithin, Pays

LEMMA InitPaid == Init => Paid
<1> SUFFICES ASSUME Init PROVE Paid
  OBVIOUS
<1> DEFINE p == [i \in 0..0 |-> Root]
<1>1. p \in [0..0 -> Wallet] /\ p[0] = Root /\ \A i \in 1..0 : Pays(p[i-1], p[i])
  BY TraceAssumption
<1> HIDE DEF p
<1>2. PaidWithin(0, Root)
  BY <1>1 DEF PaidWithin
<1>3. request.depth \in Nat \ {0}
  BY TraceAssumption DEF Init, Request
<1>4. /\ Len(queue) = 1 /\ queue[1] = [wallet |-> Root, depth |-> 0]
      /\ current = [wallet |-> Root, depth |-> 0] /\ visited = {}
  BY DEF Init
<1> QED BY <1>2, <1>3, <1>4 DEF Paid, Places

LEMMA NextPaid == TInv /\ Real /\ Paid /\ [Next]_vars => Paid'
<1> SUFFICES ASSUME TInv, Real, Paid, [Next]_vars PROVE Paid'
  OBVIOUS
<1>1. graph' = graph /\ request' = request
  BY DEF Next, Step, vars, Pop, Call, FetchFails, FetchAnswers, AddOutgoing, AddIncoming,
         SkipSeen, EndOutgoing, EndIncoming, Finish, TimeIsUp
<1>2. \A n, w : PaidWithin(n, w) <=> PaidWithin(n, w)'
  BY <1>1, SameChains
<1>3. request.depth \in Nat \ {0}
  BY Parameters DEF TInv
<1>4. ASSUME \A i \in Places' : /\ PaidWithin(queue'[i].depth, queue'[i].wallet)
                                /\ queue'[i].depth < request.depth,
             PaidWithin(current'.depth, current'.wallet),
             \A w \in visited' : PaidWithin(request.depth - 1, w)
      PROVE  Paid'
  <2>1. \A i \in Places' : PaidWithin(queue[i].depth, queue[i].wallet)'
    BY <1>2, <1>4
  <2>2. PaidWithin(current.depth, current.wallet)'
    BY <1>2, <1>4
  <2>3. \A w \in visited' : PaidWithin(request.depth - 1, w)'
    BY <1>1, <1>2, <1>4
  <2> QED BY <1>1, <1>4, <2>1, <2>2, <2>3 DEF Paid
<1>5. CASE UNCHANGED <<queue, current, visited>>
  <2>1. Places' = Places
    BY <1>5 DEF Places
  <2> QED BY <1>4, <1>5, <2>1 DEF Paid
<1>6. CASE Pop
  <2> DEFINE item == Head(queue)
  <2>1. queue \in Seq(Item) /\ queue # <<>> /\ queue' = Tail(queue)
    BY <1>6 DEF Pop, Continues, TInv, TypeOK
  <2>2. /\ item \in Item /\ item = queue[1] /\ 1 \in Places
        /\ \A i \in 1..Len(queue') : i + 1 \in Places /\ queue'[i] = queue[i+1]
    BY <2>1 DEF Places
  <2>3. item.wallet \in Wallet /\ item.depth \in Nat
    BY <2>2 DEF Item
  <2>4. current' \in {current, item} /\ visited' = visited \cup {item.wallet}
    BY <1>6 DEF Pop
  <2> HIDE DEF item
  <2>5. \A i \in Places' : /\ PaidWithin(queue'[i].depth, queue'[i].wallet)
                           /\ queue'[i].depth < request.depth
    BY <2>2 DEF Paid, Places
  <2>6. PaidWithin(item.depth, item.wallet) /\ item.depth < request.depth
    BY <2>2 DEF Paid
  <2>7. PaidWithin(current'.depth, current'.wallet)
    BY <2>4, <2>6 DEF Paid
  <2>8. PaidWithin(request.depth - 1, item.wallet)
    <3>1. request.depth - 1 \in Nat /\ item.depth <= request.depth - 1
      BY <1>3, <2>3, <2>6
    <3> QED BY <2>3, <2>6, <3>1, PaidMore
  <2>9. \A w \in visited' : PaidWithin(request.depth - 1, w)
    BY <2>4, <2>8 DEF Paid
  <2> QED BY <1>4, <2>5, <2>7, <2>9
<1>7. CASE \E e \in outgoing : AddOutgoing(e)
  <2> PICK e \in outgoing : AddOutgoing(e)
    BY <1>7
  <2>1. e \in graph /\ e.from = current.wallet /\ e.to \in Wallet
    BY LinkTypes DEF TInv, TypeOK, Real
  <2>2. current.depth \in Nat /\ current.wallet \in Wallet
    BY DEF TInv, TypeOK, Item
  <2>3. UNCHANGED <<current, visited>>
    BY DEF AddOutgoing
  <2> DEFINE new == [wallet |-> e.to, depth |-> current.depth + 1]
  <2>4. \/ queue' = queue
        \/ queue' = Append(queue, new) /\ current.depth + 1 < request.depth
    BY DEF AddOutgoing
  <2>5. PaidWithin(new.depth, new.wallet) /\ new.depth = current.depth + 1
    <3>1. PaidWithin(current.depth, current.wallet) /\ Pays(current.wallet, e.to)
      BY <2>1 DEF Paid, Pays
    <3> QED BY <2>1, <2>2, <3>1, PaidExtend
  <2>6. \A i \in Places' : /\ PaidWithin(queue'[i].depth, queue'[i].wallet)
                           /\ queue'[i].depth < request.depth
    <3>1. CASE queue' = queue
      BY <3>1 DEF Paid, Places
    <3>2. CASE queue' = Append(queue, new) /\ current.depth + 1 < request.depth
      <4> HIDE DEF new
      <4>1. ASSUME NEW i \in Places'
            PROVE  queue'[i] = new \/ (i \in Places /\ queue'[i] = queue[i])
        BY <3>2, <4>1 DEF Places, TInv, TypeOK
      <4> QED BY <2>5, <3>2, <4>1 DEF Paid
    <3> QED BY <2>4, <3>1, <3>2
  <2> QED BY <1>4, <2>3, <2>6 DEF Paid
<1>8. CASE ~Pop /\ ~(\E e \in outgoing : AddOutgoing(e))
  <2>1. UNCHANGED <<queue, current, visited>>
    BY <1>8 DEF Next, Step, vars, Call, FetchFails, FetchAnswers, AddIncoming,
                SkipSeen, EndOutgoing, EndIncoming, Finish, TimeIsUp
  <2> QED BY <1>5, <2>1
<1> QED BY <1>6, <1>7, <1>8

\* A search that cut nothing has looked at everyone the chain reaches.
LEMMA ChainIsVisited ==
  ASSUME TInv, InHand, Breadth, Collected, Emptied, Done, Whole
  PROVE  \A n \in Nat : n < request.depth =>
           \A w \in Wallet : PaidWithin(n, w) => w \in visited /\ depth[w] <= n
<1> DEFINE Reached(n) == \A w \in Wallet :
                           PaidWithin(n, w) => w \in visited /\ depth[w] <= n
           S == {n \in Nat : n < request.depth => Reached(n)}
<1>1. request.depth \in Nat
  BY Parameters DEF TInv
<1>2. queued = visited
  <2>1. queue = <<>>
    BY DEF Emptied
  <2>2. Places = {}
    BY <2>1 DEF Places
  <2> QED BY <2>2 DEF Breadth, InLine
<1>3. \A w \in visited : Sent(w) \subseteq Seen
  <2>1. outgoing = {} /\ incoming = {} /\ pc = "done"
    BY DEF InHand, Done, Directions
  <2> QED BY <2>1 DEF Collected
<1>4. 0 \in S
  <2> SUFFICES ASSUME NEW w \in Wallet, PaidWithin(0, w)
               PROVE  w \in visited /\ depth[w] <= 0
    OBVIOUS
  <2>1. w = Root /\ depth[Root] = 0 /\ Root \in queued
    BY NonePaid DEF Breadth, Layered, InLine
  <2> QED BY <1>2, <2>1
<1>5. ASSUME NEW n \in S PROVE n + 1 \in S
  <2> SUFFICES ASSUME n + 1 < request.depth, NEW w \in Wallet, PaidWithin(n + 1, w)
               PROVE  w \in visited /\ depth[w] <= n + 1
    OBVIOUS
  <2>1. n \in Nat /\ Reached(n)
    BY <1>1
  <2> HIDE DEF S
  <2>2. PICK u \in Wallet : PaidWithin(n, u) /\ Pays(u, w)
    BY <2>1, LastPaid
  <2>3. u \in visited /\ depth[u] <= n
    BY <2>1, <2>2
  <2>4. depth[u] \in Int
    BY <2>3 DEF Breadth, Layered, TInv, TypeOK
  <2>5. CASE u = w
    BY <2>1, <2>3, <2>4, <2>5
  <2>6. CASE u # w
    <3>1. PICK e \in graph : e.from = u /\ e.to = w
      BY <2>2, <2>6 DEF Pays
    <3>2. e \in Seen
      BY <1>3, <2>3, <3>1 DEF Sent
    <3>3. PICK c \in candidates : c.edge = e
      BY <3>2 DEF Seen
    <3>4. depth[w] # None /\ depth[w] <= depth[u] + 1
      BY <3>1, <3>3 DEF Breadth, Gathered
    <3>5. depth[w] \in Int
      BY <3>4 DEF TInv, TypeOK
    <3>6. depth[w] <= n + 1 /\ ~(depth[w] >= request.depth)
      BY <1>1, <2>1, <2>3, <2>4, <3>4, <3>5
    <3>7. w \in queued
      BY <3>4, <3>6 DEF Breadth, Met, Whole
    <3> QED BY <1>2, <3>6, <3>7
  <2> QED BY <2>5, <2>6
<1> HIDE DEF Reached
<1>6. S = Nat
  <2>1. S \in SUBSET Nat
    OBVIOUS
  <2> HIDE DEF S
  <2> QED BY <1>4, <1>5, <2>1, InductiveSet
<1>7. ASSUME NEW n \in Nat, n < request.depth PROVE Reached(n)
  BY <1>6, <1>7
<1> QED BY <1>7 DEF Reached

\* An answer without sources that says of nothing that it was cut has looked
\* at every wallet the funds may have reached in fewer than `depth' transfers,
\* and at no other.
THEOREM ChainCorrect == Spec => []ChainIsComplete
<1>1. TInv /\ InHand /\ ByBreadth /\ Collected /\ Emptied /\ Paid => ChainIsComplete
  <2> SUFFICES ASSUME TInv, InHand, Breadth, Collected, Emptied, Paid, Done, Whole
               PROVE  visited = {w \in Wallet : PaidWithin(request.depth - 1, w)}
    BY DEF ChainIsComplete, ByBreadth, Whole
  <2>1. request.depth - 1 \in Nat /\ request.depth - 1 < request.depth
    BY Parameters DEF TInv
  <2>2. {w \in Wallet : PaidWithin(request.depth - 1, w)} \subseteq visited
    BY <2>1, ChainIsVisited
  <2>3. visited \subseteq {w \in Wallet : PaidWithin(request.depth - 1, w)}
    BY DEF Paid, TInv, TypeOK
  <2> QED BY <2>2, <2>3
<1> QED BY <1>1, InitTypes, NextTypes, InitInHand, NextInHand, InitReal, NextReal,
           InitBreadth, NextBreadth, InitOver, NextOver, InitCollected, NextCollected,
           InitPaid, NextPaid, PTL DEF Spec
=============================================================================
