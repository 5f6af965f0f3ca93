-------------------------- MODULE Assessment_proofs --------------------------
(***************************************************************************)
(* Proofs about Assessment: overrides and RED have their grounds in the    *)
(* stored evidence, for every rule set, profile, trace and answer.         *)
(***************************************************************************)
EXTENDS Assessment, RiskTags_proofs

-----------------------------------------------------------------------------
(***************************************************************************)
(* The engine.                                                             *)
(***************************************************************************)
LEMMA LargerFact ==
  ASSUME NEW x \in Int, NEW y \in Int
  PROVE  /\ Larger(x, y) \in Int
         /\ \A n \in Int : Larger(x, y) <= n <=> x <= n /\ y <= n
         /\ \A n \in Int : Larger(x, y) >= n <=> x >= n \/ y >= n
BY DEF Larger

LEMMA LinkFact ==
  ASSUME NEW l \in Edge
  PROVE  /\ l.distance \in Nat /\ Larger(1, l.distance) \in Nat
         /\ \A n \in Nat :
              Larger(1, l.distance) <= n <=> 1 <= n /\ l.distance <= n
<1>1. l.distance \in Nat
  BY DEF Edge
<1> QED BY <1>1 DEF Larger

LEMMA DistanceFact ==
  ASSUME NEW d \in Int
  PROVE  /\ Distance(d) \in Nat
         /\ \A n \in Nat : Distance(d) <= n <=> -n <= d /\ d <= n
BY DEF Distance

\* The ranges of the averages of the blocks, of the model's own score, and of
\* what a jurisdiction adds.
RangeA == 0 .. 2500
RangeB == 0 .. 3000
RangeC == 0 .. 1960
RangeD == 0 .. 2500
Modest == 0 .. 7500
OfFatf == 0 .. 5100

LEMMA HundredFact ==
  /\ Hundred \in 0 .. Hundred
  /\ \A n \in 0 .. Hundred : n \in Int
  /\ \A n \in Modest : n \in 0 .. Hundred
<1>1. Hundred \in 0 .. Hundred
  BY DEF Hundred
<1>2. \A n \in 0 .. Hundred : n \in Int
  BY DEF Hundred
<1>3. \A n \in Modest : n \in 0 .. Hundred
  BY DEF Hundred, Modest
<1> QED BY <1>1, <1>2, <1>3

LEMMA ClampFact ==
  ASSUME NEW s \in Int
  PROVE  /\ Clamp(s) \in 0 .. Hundred
         /\ Clamp(s) >= RedFrom => s >= RedFrom
BY DEF Clamp, Hundred, RedFrom

\* Rows of the table and of the request, whatever their origin.
Tagged == [addr : Addr, tag : Tag, via : {"request", "db"}]

LEMMA AtFact ==
  ASSUME NEW x \in Tagged, NEW h \in Nat, NEW s \in {"report", "node", "edge"}
  PROVE  /\ At(x, h, s) \in Exposure
         /\ At(x, h, s).tag = x.tag /\ At(x, h, s).hop = h
BY DEF At, Tagged, Exposure

\* The exposures of some rows, one by one.
LEMMA ExposuresFact ==
  ASSUME NEW rows, NEW cps, NEW nodes, NEW edges, NEW y
  PROVE  y \in Exposures(rows, cps, nodes, edges)
           <=> \/ \E x \in rows : x.addr = Root /\ y = At(x, 0, "report")
               \/ \E x \in rows : x.addr \in cps /\ y = At(x, 1, "report")
               \/ \E n \in nodes : \E x \in rows :
                    x.addr = n.addr /\ y = At(x, Distance(n.depth), "node")
               \/ \E l \in edges : \E x \in rows :
                    /\ x.addr \in {l.from, l.to}
                    /\ y = At(x, Larger(1, l.distance), "edge")
<1> DEFINE own   == Met(rows, {Root}, 0, "report")
           peers == Met(rows, cps, 1, "report")
           of(n) == Met(rows, {n.addr}, Distance(n.depth), "node")
           on(l) == Met(rows, {l.from, l.to}, Larger(1, l.distance), "edge")
<1>1. Exposures(rows, cps, nodes, edges)
        = own \cup peers \cup (UNION {of(n) : n \in nodes})
              \cup (UNION {on(l) : l \in edges})
  BY DEF Exposures
<1>2. /\ y \in own <=> \E x \in rows : x.addr = Root /\ y = At(x, 0, "report")
      /\ y \in peers <=> \E x \in rows : x.addr \in cps /\ y = At(x, 1, "report")
  BY DEF Met
<1>3. ASSUME NEW n
      PROVE  y \in of(n)
               <=> \E x \in rows :
                     x.addr = n.addr /\ y = At(x, Distance(n.depth), "node")
  BY DEF Met
<1>4. ASSUME NEW l
      PROVE  y \in on(l)
               <=> \E x \in rows : /\ x.addr \in {l.from, l.to}
                                   /\ y = At(x, Larger(1, l.distance), "edge")
  BY DEF Met
<1> HIDE DEF own, peers, of, on
<1>5. y \in Exposures(rows, cps, nodes, edges)
        <=> \/ y \in own
            \/ y \in peers
            \/ \E n \in nodes : y \in of(n)
            \/ \E l \in edges : y \in on(l)
  BY <1>1
<1>6. (\E n \in nodes : y \in of(n))
        <=> \E n \in nodes : \E x \in rows :
              x.addr = n.addr /\ y = At(x, Distance(n.depth), "node")
  BY <1>3, Zenon
<1>7. (\E l \in edges : y \in on(l))
        <=> \E l \in edges : \E x \in rows :
              /\ x.addr \in {l.from, l.to}
              /\ y = At(x, Larger(1, l.distance), "edge")
  BY <1>4, Zenon
<1> QED BY <1>2, <1>5, <1>6, <1>7, Zenon

LEMMA ExposuresType ==
  ASSUME NEW rows \in SUBSET Tagged, NEW cps, NEW nodes \in SUBSET Node,
         NEW edges \in SUBSET Edge
  PROVE  Exposures(rows, cps, nodes, edges) \in SUBSET Exposure
<1> SUFFICES ASSUME NEW y \in Exposures(rows, cps, nodes, edges)
             PROVE  y \in Exposure
  OBVIOUS
<1>1. ASSUME NEW x \in rows, NEW n \in nodes
      PROVE  At(x, Distance(n.depth), "node") \in Exposure
  BY AtFact, DistanceFact DEF Node
<1>2. ASSUME NEW x \in rows, NEW l \in edges
      PROVE  At(x, Larger(1, l.distance), "edge") \in Exposure
  BY LinkFact, AtFact
<1>3. ASSUME NEW x \in rows, NEW h \in {0, 1}
      PROVE  At(x, h, "report") \in Exposure
  BY AtFact
<1> QED BY <1>1, <1>2, <1>3, ExposuresFact

\* How far a row is, by the trace and the report.
Reached(addr, cps, nodes, edges, n) ==
  \/ addr = Root
  \/ n >= 1 /\ addr \in cps
  \/ \E x \in nodes : x.addr = addr /\ -n <= x.depth /\ x.depth <= n
  \/ \E l \in edges : addr \in {l.from, l.to} /\ 1 <= n /\ l.distance <= n

\* A rule fires for the exposures exactly when one of its tags is on a row
\* within its distance.
LEMMA WithinFact ==
  ASSUME NEW rows \in SUBSET Tagged, NEW cps, NEW nodes \in SUBSET Node,
         NEW edges \in SUBSET Edge, NEW r \in TagRules
  PROVE  Within(Exposures(rows, cps, nodes, edges), r)
           <=> \E x \in rows : x.tag \in r.tags
                               /\ Reached(x.addr, cps, nodes, edges, r.within)
<1> DEFINE E == Exposures(rows, cps, nodes, edges)
<1>0. r.within \in Nat
  BY EngineAssumption
<1>1. ASSUME NEW y \in E, y.tag \in r.tags, y.hop <= r.within
      PROVE  \E x \in rows : x.tag \in r.tags
                             /\ Reached(x.addr, cps, nodes, edges, r.within)
  <2>1. CASE \E x \in rows : x.addr = Root /\ y = At(x, 0, "report")
    BY <1>1, <2>1, AtFact DEF Reached
  <2>2. CASE \E x \in rows : x.addr \in cps /\ y = At(x, 1, "report")
    <3>1. PICK x \in rows : x.addr \in cps /\ y = At(x, 1, "report")
      BY <2>2
    <3>2. y.tag = x.tag /\ y.hop = 1
      BY <3>1, AtFact
    <3> QED BY <1>1, <3>1, <3>2, <1>0 DEF Reached
  <2>3. CASE \E n \in nodes : \E x \in rows :
               x.addr = n.addr /\ y = At(x, Distance(n.depth), "node")
    <3>1. PICK n \in nodes, x \in rows :
            x.addr = n.addr /\ y = At(x, Distance(n.depth), "node")
      BY <2>3
    <3>2. n.depth \in Int /\ Distance(n.depth) \in Nat
      BY DistanceFact DEF Node
    <3>3. y.tag = x.tag /\ y.hop = Distance(n.depth)
      BY <3>1, <3>2, AtFact
    <3>4. -r.within <= n.depth /\ n.depth <= r.within
      BY <1>0, <1>1, <3>2, <3>3, DistanceFact
    <3> QED BY <1>1, <3>1, <3>3, <3>4 DEF Reached
  <2>4. CASE \E l \in edges : \E x \in rows :
               /\ x.addr \in {l.from, l.to}
               /\ y = At(x, Larger(1, l.distance), "edge")
    <3>1. PICK l \in edges, x \in rows :
            /\ x.addr \in {l.from, l.to}
            /\ y = At(x, Larger(1, l.distance), "edge")
      BY <2>4
    <3>2. l.distance \in Nat /\ Larger(1, l.distance) \in Nat
      BY LinkFact
    <3>3. y.tag = x.tag /\ y.hop = Larger(1, l.distance)
      BY <3>1, <3>2, AtFact
    <3>4. 1 <= r.within /\ l.distance <= r.within
      BY <1>0, <1>1, <3>3, LinkFact
    <3> QED BY <1>1, <3>1, <3>3, <3>4 DEF Reached
  <2> HIDE DEF E
  <2>5. y \in Exposures(rows, cps, nodes, edges)
    BY DEF E
  <2> QED BY <2>1, <2>2, <2>3, <2>4, <2>5, ExposuresFact
<1>2. ASSUME NEW x \in rows, x.tag \in r.tags,
             Reached(x.addr, cps, nodes, edges, r.within)
      PROVE  \E y \in E : y.tag \in r.tags /\ y.hop <= r.within
  <2>1. CASE x.addr = Root
    <3>1. At(x, 0, "report") \in E
      BY <2>1, ExposuresFact
    <3> QED BY <3>1, <1>0, <1>2, AtFact
  <2>2. CASE r.within >= 1 /\ x.addr \in cps
    <3>1. At(x, 1, "report") \in E
      BY <2>2, ExposuresFact
    <3> QED BY <3>1, <2>2, <1>2, AtFact
  <2>3. CASE \E n \in nodes :
               n.addr = x.addr /\ -r.within <= n.depth /\ n.depth <= r.within
    <3>1. PICK n \in nodes :
            n.addr = x.addr /\ -r.within <= n.depth /\ n.depth <= r.within
      BY <2>3
    <3>2. n.depth \in Int /\ Distance(n.depth) \in Nat
      BY DistanceFact DEF Node
    <3>3. At(x, Distance(n.depth), "node") \in E
      BY <3>1, ExposuresFact
    <3>4. Distance(n.depth) <= r.within
      BY <1>0, <3>1, <3>2, DistanceFact
    <3> QED BY <3>2, <3>3, <3>4, <1>2, AtFact
  <2>4. CASE \E l \in edges : /\ x.addr \in {l.from, l.to}
                              /\ 1 <= r.within /\ l.distance <= r.within
    <3>1. PICK l \in edges : /\ x.addr \in {l.from, l.to}
                             /\ 1 <= r.within /\ l.distance <= r.within
      BY <2>4
    <3>2. l.distance \in Nat /\ Larger(1, l.distance) \in Nat
      BY LinkFact
    <3>3. At(x, Larger(1, l.distance), "edge") \in E
      BY <3>1, ExposuresFact
    <3>4. Larger(1, l.distance) <= r.within
      BY <1>0, <3>1, LinkFact
    <3> QED BY <3>2, <3>3, <3>4, <1>2, AtFact
  <2> QED BY <1>2, <2>1, <2>2, <2>3, <2>4 DEF Reached
<1> QED BY <1>1, <1>2 DEF Within

-----------------------------------------------------------------------------
(***************************************************************************)
(* The model alone stays below RED.                                        *)
(***************************************************************************)
LEMMA LadderFact ==
  ASSUME NEW v \in Int
  PROVE  /\ Ladder(v, MixSteps) \in 0 .. 35
         /\ Ladder(v, DexSteps) \in 0 .. 20
         /\ Ladder(v, PoolSteps) \in 0 .. 15
         /\ Ladder(v, MonthlySteps) \in 0 .. 18
<1>1. Ladder(v, MixSteps) \in 0 .. 35
  BY DEF Ladder, MixSteps
<1>2. Ladder(v, DexSteps) \in 0 .. 20
  BY DEF Ladder, DexSteps
<1>3. Ladder(v, PoolSteps) \in 0 .. 15
  BY DEF Ladder, PoolSteps
<1>4. Ladder(v, MonthlySteps) \in 0 .. 18
  BY DEF Ladder, MonthlySteps
<1> QED BY <1>1, <1>2, <1>3, <1>4

LEMMA TopFact ==
  /\ Component = {"A1", "A2", "A3", "A4", "B1", "B2", "B3", "B4",
                  "C1", "C2", "C3", "C4", "C5", "D1", "D2", "D3", "D4"}
  /\ Top.A1 = 25 /\ Top.A2 = 25 /\ Top.A3 = 25 /\ Top.A4 = 25
  /\ Top.B1 = 30 /\ Top.B2 = 35 /\ Top.B3 = 35 /\ Top.B4 = 20
  /\ Top.C1 = 20 /\ Top.C2 = 18 /\ Top.C3 = 25 /\ Top.C4 = 20 /\ Top.C5 = 15
  /\ Top.D1 = 30 /\ Top.D2 = 25 /\ Top.D3 = 25 /\ Top.D4 = 20
<1>1. Component = {"A1", "A2", "A3", "A4", "B1", "B2", "B3", "B4",
                   "C1", "C2", "C3", "C4", "C5", "D1", "D2", "D3", "D4"}
  BY DEF Component, Top
<1> QED BY <1>1 DEF Top

LEMMA KytFact ==
  ASSUME NEW kyt \in Kyt
  PROVE  /\ kyt.monthly \in Nat /\ kyt.floor \in BOOLEAN
         /\ kyt.score \in Int \cup {NoPoints}
         /\ kyt.share["mixing_service"] + kyt.share["bridge"] \in Int
         /\ kyt.share["dex"] \in Int /\ kyt.share["liquidity_pool"] \in Int
<1>1. /\ kyt.monthly \in Nat /\ kyt.floor \in BOOLEAN
      /\ kyt.score \in Int \cup {NoPoints}
      /\ kyt.share \in [Category -> 0 .. Hundred]
  BY DEF Kyt
<1>2. \A c \in Category : kyt.share[c] \in 0 .. Hundred
  BY <1>1
<1>3. 0 .. Hundred \subseteq Int
  BY DEF Hundred
<1>4. /\ kyt.share["mixing_service"] \in Int /\ kyt.share["bridge"] \in Int
      /\ kyt.share["dex"] \in Int /\ kyt.share["liquidity_pool"] \in Int
  BY <1>2, <1>3 DEF Category
<1> QED BY <1>1, <1>4

LEMMA MeasuredFact ==
  ASSUME NEW c \in Component, NEW kyt \in Kyt, NEW monthly \in Nat,
         NEW exposures
  PROVE  Measured(c, kyt, monthly, exposures) \in 0 .. Top[c]
<1>1. CASE c = "B3"
  BY <1>1, KytFact, LadderFact, TopFact DEF Measured
<1>2. CASE c = "B4"
  BY <1>2, KytFact, LadderFact, TopFact DEF Measured
<1>3. CASE c = "C2"
  <2>1. monthly \in Int /\ kyt.monthly \in Int
    BY KytFact
  <2>2. Larger(monthly, kyt.monthly) \in Int
    BY <2>1 DEF Larger
  <2> QED BY <1>3, <2>2, LadderFact, TopFact DEF Measured
<1>4. CASE c = "C4"
  BY <1>4, TopFact DEF Measured, HopPoints
<1>5. CASE c = "C5"
  BY <1>5, KytFact, LadderFact, TopFact DEF Measured
<1>6. CASE c \notin {"B3", "B4", "C2", "C4", "C5"}
  <2>1. Measured(c, kyt, monthly, exposures) = 0
    BY <1>6 DEF Measured
  <2> QED BY <2>1, TopFact
<1> QED BY <1>1, <1>2, <1>3, <1>4, <1>5, <1>6

\* A profile as the requests carry it.
Bounded(profile) ==
  /\ profile \in Profile
  /\ \A c \in Component :
       profile.points[c] # NoPoints => profile.points[c] <= Top[c]

LEMMA PointsFact ==
  ASSUME NEW profile, Bounded(profile), NEW kyt \in Kyt, NEW monthly \in Nat,
         NEW exposures, NEW c \in Component
  PROVE  Points(profile, kyt, monthly, exposures)[c] \in 0 .. Top[c]
<1>1. Measured(c, kyt, monthly, exposures) \in 0 .. Top[c]
  BY MeasuredFact
<1>2. profile.points[c] \in Nat \cup {NoPoints}
  BY DEF Bounded, Profile
<1>3. Top[c] \in Nat
  BY TopFact
<1>4. profile.points[c] # NoPoints => profile.points[c] \in 0 .. Top[c]
  BY <1>2, <1>3 DEF Bounded
<1> QED BY <1>1, <1>4 DEF Points

LEMMA MeanFact ==
  ASSUME NEW a \in RangeA, NEW b \in RangeB, NEW c \in RangeC, NEW d \in RangeD
  PROVE  Clamp((a + b + c + d + 2) \div 4) \in Modest
BY DEF Clamp, Hundred, RangeA, RangeB, RangeC, RangeD, Modest

LEMMA RawFact ==
  ASSUME NEW p, \A c \in Component : p[c] \in 0 .. Top[c]
  PROVE  Raw(p) \in Modest
<1>1. BlockA(p) \in RangeA
  <2>1. /\ p["A1"] \in 0 .. 25 /\ p["A2"] \in 0 .. 25
        /\ p["A3"] \in 0 .. 25 /\ p["A4"] \in 0 .. 25
    BY TopFact
  <2> DEFINE n == p.A1 + p.A2 + p.A3 + p.A4
  <2>2. n \in 0 .. 100
    BY <2>1
  <2>3. BlockA(p) = (100 * n) \div 4
    BY DEF BlockA
  <2> HIDE DEF n
  <2> QED BY <2>2, <2>3 DEF RangeA
<1>2. BlockB(p) \in RangeB
  <2>1. /\ p["B1"] \in 0 .. 30 /\ p["B2"] \in 0 .. 35
        /\ p["B3"] \in 0 .. 35 /\ p["B4"] \in 0 .. 20
    BY TopFact
  <2> DEFINE n == p.B1 + p.B2 + p.B3 + p.B4
  <2>2. n \in 0 .. 120
    BY <2>1
  <2>3. BlockB(p) = (100 * n) \div 4
    BY DEF BlockB
  <2> HIDE DEF n
  <2> QED BY <2>2, <2>3 DEF RangeB
<1>3. BlockC(p) \in RangeC
  <2>1. /\ p["C1"] \in 0 .. 20 /\ p["C2"] \in 0 .. 18
        /\ p["C3"] \in 0 .. 25 /\ p["C4"] \in 0 .. 20 /\ p["C5"] \in 0 .. 15
    BY TopFact
  <2> DEFINE n == p.C1 + p.C2 + p.C3 + p.C4 + p.C5
  <2>2. n \in 0 .. 98
    BY <2>1
  <2>3. BlockC(p) = (100 * n) \div 5
    BY DEF BlockC
  <2> HIDE DEF n
  <2> QED BY <2>2, <2>3 DEF RangeC
<1>4. BlockD(p) \in RangeD
  <2>1. /\ p["D1"] \in 0 .. 30 /\ p["D2"] \in 0 .. 25
        /\ p["D3"] \in 0 .. 25 /\ p["D4"] \in 0 .. 20
    BY TopFact
  <2> DEFINE n == p.D1 + p.D2 + p.D3 + p.D4
  <2>2. n \in 0 .. 100
    BY <2>1
  <2>3. BlockD(p) = (100 * n) \div 4
    BY DEF BlockD
  <2> HIDE DEF n
  <2> QED BY <2>2, <2>3 DEF RangeD
<1>5. PICK a \in RangeA : a = BlockA(p)
  BY <1>1, Zenon
<1>6. PICK b \in RangeB : b = BlockB(p)
  BY <1>2, Zenon
<1>7. PICK c \in RangeC : c = BlockC(p)
  BY <1>3, Zenon
<1>8. PICK d \in RangeD : d = BlockD(p)
  BY <1>4, Zenon
<1>9. Raw(p) = Clamp((a + b + c + d + 2) \div 4)
  BY <1>5, <1>6, <1>7, <1>8, Zenon DEF Raw
<1>10. Clamp((a + b + c + d + 2) \div 4) \in Modest
  BY MeanFact
<1> QED BY <1>9, <1>10, Zenon

LEMMA FatfFact ==
  ASSUME NEW f \in DOMAIN FatfFloor
  PROVE  FatfFloor[f] \in OfFatf
<1>1. f \in {"call_for_action", "increased_monitoring", "vigilance", "unlisted"}
  BY DEF FatfFloor
<1> QED BY <1>1 DEF FatfFloor, OfFatf

LEMMA KytFloorFact ==
  ASSUME NEW kyt \in Kyt
  PROVE  /\ KytFloor(kyt) \in 0 .. Hundred
         /\ KytFloor(kyt) >= RedFrom => kyt.floor /\ kyt.score >= RedFrom
<1>1. kyt.score # NoPoints => kyt.score \in Int
  BY KytFact
<1>2. CASE kyt.floor /\ kyt.score # NoPoints /\ kyt.score >= 0
  BY <1>1, <1>2, ClampFact DEF KytFloor
<1>3. CASE ~(kyt.floor /\ kyt.score # NoPoints /\ kyt.score >= 0)
  BY <1>3 DEF KytFloor, Hundred, RedFrom
<1> QED BY <1>2, <1>3

LEMMA ScoreZoneFact ==
  ASSUME NEW s \in Int
  PROVE  /\ ScoreZone(s) \in Zone
         /\ ScoreZone(s) = "RED" => s >= RedFrom
<1>1. CASE \E z \in Zone : ZoneMin[z] <= s /\ s <= ZoneMax[z]
  <2>1. /\ ScoreZone(s) \in Zone
        /\ ZoneMin[ScoreZone(s)] <= s
    BY <1>1 DEF ScoreZone
  <2>2. ZoneMin["RED"] = RedFrom
    BY DEF ZoneMin, RedFrom
  <2> QED BY <2>1, <2>2
<1>2. CASE ~ \E z \in Zone : ZoneMin[z] <= s /\ s <= ZoneMax[z]
  BY <1>2 DEF ScoreZone, Zone
<1> QED BY <1>1, <1>2

LEMMA RaisedFact ==
  ASSUME NEW raw \in Modest, NEW f \in OfFatf, NEW k \in 0 .. Hundred
  PROVE  /\ Larger(raw, Larger(f, k)) \in 0 .. Hundred
         /\ Larger(raw, Larger(f, k)) >= RedFrom => k >= RedFrom
BY DEF Larger, Hundred, RedFrom, Modest, OfFatf

LEMMA AdjustedFact ==
  ASSUME NEW raw \in Modest, NEW profile, Bounded(profile), NEW kyt \in Kyt
  PROVE  /\ Adjusted(raw, profile, kyt) \in 0 .. Hundred
         /\ Adjusted(raw, profile, kyt) >= RedFrom
              => kyt.floor /\ kyt.score >= RedFrom
<1>1. FatfFloor[profile.fatf] \in OfFatf
  BY FatfFact DEF Bounded, Profile
<1>2. KytFloor(kyt) \in 0 .. Hundred
  BY KytFloorFact
<1>3. PICK f \in OfFatf : f = FatfFloor[profile.fatf]
  BY <1>1, Zenon
<1>4. PICK k \in 0 .. Hundred : k = KytFloor(kyt)
  BY <1>2, Zenon
<1>5. Adjusted(raw, profile, kyt) = Larger(raw, Larger(f, k))
  BY <1>3, <1>4, Zenon DEF Adjusted
<1>6. /\ Larger(raw, Larger(f, k)) \in 0 .. Hundred
      /\ Larger(raw, Larger(f, k)) >= RedFrom => k >= RedFrom
  BY RaisedFact
<1>7. k >= RedFrom => kyt.floor /\ kyt.score >= RedFrom
  BY <1>4, KytFloorFact, Zenon
<1> QED BY <1>5, <1>6, <1>7, Zenon

\* The model gives a verdict; without an override it is RED only for a floor.
LEMMA EngineFact ==
  ASSUME NEW profile, Bounded(profile), NEW kyt \in Kyt, NEW monthly \in Nat,
         NEW exposures, NEW confirmed \in BOOLEAN
  PROVE  LET v == Engine(profile, kyt, monthly, exposures, confirmed)
         IN /\ v \in Verdict
            /\ v.override <=> Overridden(profile, exposures, confirmed)
            /\ v.zone = "RED" /\ ~v.override
                 => kyt.floor /\ kyt.score >= RedFrom
<1> DEFINE over == Overridden(profile, exposures, confirmed)
           v    == Engine(profile, kyt, monthly, exposures, confirmed)
<1>1. PICK raw \in Modest : raw = Raw(Points(profile, kyt, monthly, exposures))
  <2> DEFINE p == Points(profile, kyt, monthly, exposures)
  <2>1. \A c \in Component : p[c] \in 0 .. Top[c]
    BY PointsFact
  <2> HIDE DEF p
  <2>2. Raw(p) \in Modest
    BY <2>1, RawFact
  <2> QED BY <2>2, Zenon DEF p
<1>2. /\ Adjusted(raw, profile, kyt) \in 0 .. Hundred
      /\ Adjusted(raw, profile, kyt) >= RedFrom
           => kyt.floor /\ kyt.score >= RedFrom
  BY AdjustedFact, Zenon
<1>3. PICK adj \in 0 .. Hundred : adj = Adjusted(raw, profile, kyt)
  BY <1>2, Zenon
<1>4. /\ ScoreZone(adj) \in Zone
      /\ ScoreZone(adj) = "RED" => adj >= RedFrom
  BY ScoreZoneFact, HundredFact
<1>5. over \in BOOLEAN
  BY DEF Overridden, Bounded, Profile
<1>6. v = [raw      |-> raw,
           final    |-> IF over THEN Hundred ELSE adj,
           zone     |-> IF over THEN "RED" ELSE ScoreZone(adj),
           override |-> over]
  BY <1>1, <1>3 DEF Engine
<1>7. Hundred \in 0 .. Hundred /\ raw \in 0 .. Hundred
  BY HundredFact
<1> HIDE DEF over, v
<1>8. v \in Verdict
  BY <1>4, <1>5, <1>6, <1>7 DEF Verdict, Zone
<1>9. /\ v.override <=> over
      /\ v.zone = "RED" /\ ~v.override => kyt.floor /\ kyt.score >= RedFrom
  BY <1>2, <1>3, <1>4, <1>5, <1>6
<1> QED BY <1>8, <1>9 DEF v, over

LEMMA ProviderFact ==
  ASSUME NEW kyt \in Kyt, kyt.score # NoPoints
  PROVE  ProviderVerdict(kyt) \in Verdict
<1>0. kyt.score \in Int
  BY KytFact
<1>1. Clamp(kyt.score) \in 0 .. Hundred
  BY <1>0, ClampFact
<1>2. Clamp(kyt.score) \in Int
  BY <1>1, HundredFact
<1>3. ScoreZone(Clamp(kyt.score)) \in Zone
  BY <1>2, ScoreZoneFact
<1> QED BY <1>1, <1>3 DEF ProviderVerdict, Verdict

-----------------------------------------------------------------------------
(***************************************************************************)
(* More evidence never lowers a score.                                     *)
(***************************************************************************)
\* An answer k of a provider says no more than l does.
Weaker(k, l) ==
  /\ \A c \in Category : k.share[c] <= l.share[c]
  /\ k.monthly <= l.monthly
  /\ k.floor /\ k.score # NoPoints
       => l.floor /\ l.score # NoPoints /\ k.score <= l.score

LEMMA LadderRises ==
  ASSUME NEW v \in Int, NEW w \in Int, v <= w
  PROVE  /\ Ladder(v, MixSteps) <= Ladder(w, MixSteps)
         /\ Ladder(v, DexSteps) <= Ladder(w, DexSteps)
         /\ Ladder(v, PoolSteps) <= Ladder(w, PoolSteps)
         /\ Ladder(v, MonthlySteps) <= Ladder(w, MonthlySteps)
<1>1. Ladder(v, MixSteps) <= Ladder(w, MixSteps)
  BY DEF Ladder, MixSteps
<1>2. Ladder(v, DexSteps) <= Ladder(w, DexSteps)
  BY DEF Ladder, DexSteps
<1>3. Ladder(v, PoolSteps) <= Ladder(w, PoolSteps)
  BY DEF Ladder, PoolSteps
<1>4. Ladder(v, MonthlySteps) <= Ladder(w, MonthlySteps)
  BY DEF Ladder, MonthlySteps
<1> QED BY <1>1, <1>2, <1>3, <1>4

\* One more exposure may be closer, and makes no other one farther.
LEMMA HopRises ==
  ASSUME NEW E, NEW F, E \subseteq F
  PROVE  HopPoints(E) <= HopPoints(F)
<1>1. \A n : CloserThan(E, n) => CloserThan(F, n)
  BY DEF CloserThan, Scored
<1> QED BY <1>1 DEF HopPoints

LEMMA MeasuredRises ==
  ASSUME NEW c \in Component, NEW k \in Kyt, NEW l \in Kyt, Weaker(k, l),
         NEW m \in Nat, NEW n \in Nat, m <= n,
         NEW E, NEW F, E \subseteq F
  PROVE  Measured(c, k, m, E) <= Measured(c, l, n, F)
<1>1. /\ k.monthly \in Nat /\ l.monthly \in Nat /\ k.monthly <= l.monthly
  BY KytFact DEF Weaker
<1>2. /\ k.share["dex"] \in Int /\ l.share["dex"] \in Int
      /\ k.share["liquidity_pool"] \in Int /\ l.share["liquidity_pool"] \in Int
      /\ k.share["mixing_service"] + k.share["bridge"] \in Int
      /\ l.share["mixing_service"] + l.share["bridge"] \in Int
  BY KytFact
<1>3. /\ k.share["dex"] <= l.share["dex"]
      /\ k.share["liquidity_pool"] <= l.share["liquidity_pool"]
      /\ k.share["mixing_service"] + k.share["bridge"]
           <= l.share["mixing_service"] + l.share["bridge"]
  <2>1. \A x \in Category : k.share[x] \in Int /\ l.share[x] \in Int
    <3>1. \A x \in Category : /\ k.share[x] \in 0 .. Hundred
                              /\ l.share[x] \in 0 .. Hundred
      BY DEF Kyt
    <3> QED BY <3>1, HundredFact
  <2>2. \A x \in Category : k.share[x] <= l.share[x]
    BY DEF Weaker
  <2> QED BY <2>1, <2>2 DEF Category
<1>4. /\ Larger(m, k.monthly) \in Int /\ Larger(n, l.monthly) \in Int
      /\ Larger(m, k.monthly) <= Larger(n, l.monthly)
  BY <1>1 DEF Larger
<1>5. CASE c = "B3"
  BY <1>2, <1>3, <1>5, LadderRises DEF Measured
<1>6. CASE c = "B4"
  BY <1>2, <1>3, <1>6, LadderRises DEF Measured
<1>7. CASE c = "C2"
  BY <1>4, <1>7, LadderRises DEF Measured
<1>8. CASE c = "C4"
  BY <1>8, HopRises DEF Measured
<1>9. CASE c = "C5"
  BY <1>2, <1>3, <1>9, LadderRises DEF Measured
<1>10. CASE c \notin {"B3", "B4", "C2", "C4", "C5"}
  BY <1>10 DEF Measured
<1> QED BY <1>5, <1>6, <1>7, <1>8, <1>9, <1>10

LEMMA PointsRise ==
  ASSUME NEW profile, Bounded(profile), NEW c \in Component,
         NEW k \in Kyt, NEW l \in Kyt, Weaker(k, l),
         NEW m \in Nat, NEW n \in Nat, m <= n,
         NEW E, NEW F, E \subseteq F
  PROVE  Points(profile, k, m, E)[c] <= Points(profile, l, n, F)[c]
<1>1. Measured(c, k, m, E) <= Measured(c, l, n, F)
  BY MeasuredRises
<1>2. profile.points[c] # NoPoints => profile.points[c] \in Nat
  BY DEF Bounded, Profile
<1> QED BY <1>1, <1>2 DEF Points

LEMMA QuotientRises ==
  ASSUME NEW x \in Nat, NEW y \in Nat, x <= y
  PROVE  /\ x \div 4 \in Nat /\ y \div 4 \in Nat /\ x \div 4 <= y \div 4
         /\ x \div 5 \in Nat /\ y \div 5 \in Nat /\ x \div 5 <= y \div 5
  OBVIOUS

LEMMA ClampRises ==
  ASSUME NEW x \in Int, NEW y \in Int, x <= y
  PROVE  Clamp(x) <= Clamp(y)
BY DEF Clamp, Hundred

\* An average of no smaller points is no smaller, and so is the score.
LEMMA RawRises ==
  ASSUME NEW p, NEW q,
         \A c \in Component : p[c] \in Nat /\ q[c] \in Nat /\ p[c] <= q[c]
  PROVE  Raw(p) <= Raw(q)
<1>1. /\ BlockA(p) \in Nat /\ BlockA(q) \in Nat /\ BlockA(p) <= BlockA(q)
  <2> DEFINE x == 100 * (p.A1 + p.A2 + p.A3 + p.A4)
             y == 100 * (q.A1 + q.A2 + q.A3 + q.A4)
  <2>1. /\ p["A1"] \in Nat /\ q["A1"] \in Nat /\ p["A1"] <= q["A1"]
        /\ p["A2"] \in Nat /\ q["A2"] \in Nat /\ p["A2"] <= q["A2"]
        /\ p["A3"] \in Nat /\ q["A3"] \in Nat /\ p["A3"] <= q["A3"]
        /\ p["A4"] \in Nat /\ q["A4"] \in Nat /\ p["A4"] <= q["A4"]
    BY TopFact
  <2>2. x \in Nat /\ y \in Nat /\ x <= y
    BY <2>1
  <2>3. BlockA(p) = x \div 4 /\ BlockA(q) = y \div 4
    BY DEF BlockA
  <2> HIDE DEF x, y
  <2> QED BY <2>2, <2>3, QuotientRises
<1>2. /\ BlockB(p) \in Nat /\ BlockB(q) \in Nat /\ BlockB(p) <= BlockB(q)
  <2> DEFINE x == 100 * (p.B1 + p.B2 + p.B3 + p.B4)
             y == 100 * (q.B1 + q.B2 + q.B3 + q.B4)
  <2>1. /\ p["B1"] \in Nat /\ q["B1"] \in Nat /\ p["B1"] <= q["B1"]
        /\ p["B2"] \in Nat /\ q["B2"] \in Nat /\ p["B2"] <= q["B2"]
        /\ p["B3"] \in Nat /\ q["B3"] \in Nat /\ p["B3"] <= q["B3"]
        /\ p["B4"] \in Nat /\ q["B4"] \in Nat /\ p["B4"] <= q["B4"]
    BY TopFact
  <2>2. x \in Nat /\ y \in Nat /\ x <= y
    BY <2>1
  <2>3. BlockB(p) = x \div 4 /\ BlockB(q) = y \div 4
    BY DEF BlockB
  <2> HIDE DEF x, y
  <2> QED BY <2>2, <2>3, QuotientRises
<1>3. /\ BlockC(p) \in Nat /\ BlockC(q) \in Nat /\ BlockC(p) <= BlockC(q)
  <2> DEFINE x == 100 * (p.C1 + p.C2 + p.C3 + p.C4 + p.C5)
             y == 100 * (q.C1 + q.C2 + q.C3 + q.C4 + q.C5)
  <2>1. /\ p["C1"] \in Nat /\ q["C1"] \in Nat /\ p["C1"] <= q["C1"]
        /\ p["C2"] \in Nat /\ q["C2"] \in Nat /\ p["C2"] <= q["C2"]
        /\ p["C3"] \in Nat /\ q["C3"] \in Nat /\ p["C3"] <= q["C3"]
        /\ p["C4"] \in Nat /\ q["C4"] \in Nat /\ p["C4"] <= q["C4"]
        /\ p["C5"] \in Nat /\ q["C5"] \in Nat /\ p["C5"] <= q["C5"]
    BY TopFact
  <2>2. x \in Nat /\ y \in Nat /\ x <= y
    BY <2>1
  <2>3. BlockC(p) = x \div 5 /\ BlockC(q) = y \div 5
    BY DEF BlockC
  <2> HIDE DEF x, y
  <2> QED BY <2>2, <2>3, QuotientRises
<1>4. /\ BlockD(p) \in Nat /\ BlockD(q) \in Nat /\ BlockD(p) <= BlockD(q)
  <2> DEFINE x == 100 * (p.D1 + p.D2 + p.D3 + p.D4)
             y == 100 * (q.D1 + q.D2 + q.D3 + q.D4)
  <2>1. /\ p["D1"] \in Nat /\ q["D1"] \in Nat /\ p["D1"] <= q["D1"]
        /\ p["D2"] \in Nat /\ q["D2"] \in Nat /\ p["D2"] <= q["D2"]
        /\ p["D3"] \in Nat /\ q["D3"] \in Nat /\ p["D3"] <= q["D3"]
        /\ p["D4"] \in Nat /\ q["D4"] \in Nat /\ p["D4"] <= q["D4"]
    BY TopFact
  <2>2. x \in Nat /\ y \in Nat /\ x <= y
    BY <2>1
  <2>3. BlockD(p) = x \div 4 /\ BlockD(q) = y \div 4
    BY DEF BlockD
  <2> HIDE DEF x, y
  <2> QED BY <2>2, <2>3, QuotientRises
<1> DEFINE x == BlockA(p) + BlockB(p) + BlockC(p) + BlockD(p) + 2
           y == BlockA(q) + BlockB(q) + BlockC(q) + BlockD(q) + 2
<1>5. x \in Nat /\ y \in Nat /\ x <= y
  BY <1>1, <1>2, <1>3, <1>4
<1>6. Raw(p) = Clamp(x \div 4) /\ Raw(q) = Clamp(y \div 4)
  BY DEF Raw
<1> HIDE DEF x, y
<1>7. x \div 4 \in Int /\ y \div 4 \in Int /\ x \div 4 <= y \div 4
  BY <1>5, QuotientRises
<1> QED BY <1>6, <1>7, ClampRises

LEMMA KytFloorRises ==
  ASSUME NEW k \in Kyt, NEW l \in Kyt, Weaker(k, l)
  PROVE  KytFloor(k) <= KytFloor(l)
<1>1. /\ k.score # NoPoints => k.score \in Int
      /\ l.score # NoPoints => l.score \in Int
      /\ KytFloor(l) \in 0 .. Hundred
  BY KytFact, KytFloorFact
<1>2. KytFloor(l) >= 0
  <2>1. \A n \in 0 .. Hundred : n >= 0
    BY DEF Hundred
  <2> QED BY <1>1, <2>1
<1>3. CASE k.floor /\ k.score # NoPoints /\ k.score >= 0
  <2>1. /\ l.floor /\ l.score # NoPoints
        /\ k.score \in Int /\ l.score \in Int /\ k.score <= l.score
    BY <1>1, <1>3 DEF Weaker
  <2>2. l.score >= 0
    BY <1>3, <2>1
  <2>3. KytFloor(k) = Clamp(k.score) /\ KytFloor(l) = Clamp(l.score)
    BY <1>3, <2>1, <2>2 DEF KytFloor
  <2> QED BY <2>1, <2>3, ClampRises
<1>4. CASE ~(k.floor /\ k.score # NoPoints /\ k.score >= 0)
  <2>1. KytFloor(k) = 0
    BY <1>4 DEF KytFloor
  <2> QED BY <1>2, <2>1
<1> QED BY <1>3, <1>4

LEMMA LargerRises ==
  ASSUME NEW x \in Int, NEW y \in Int, NEW v \in Int, NEW w \in Int,
         x <= v, y <= w
  PROVE  Larger(x, y) <= Larger(v, w)
BY DEF Larger

LEMMA AdjustedRises ==
  ASSUME NEW raw1 \in Modest, NEW raw2 \in Modest, raw1 <= raw2,
         NEW profile, Bounded(profile),
         NEW k \in Kyt, NEW l \in Kyt, Weaker(k, l)
  PROVE  Adjusted(raw1, profile, k) <= Adjusted(raw2, profile, l)
<1>1. raw1 \in Int /\ raw2 \in Int
  BY DEF Modest
<1>2. PICK f \in OfFatf : f = FatfFloor[profile.fatf]
  BY FatfFact DEF Bounded, Profile
<1>3. f \in Int
  BY DEF OfFatf
<1>4. /\ KytFloor(k) \in Int /\ KytFloor(l) \in Int
      /\ KytFloor(k) <= KytFloor(l)
  BY KytFloorFact, KytFloorRises, HundredFact
<1>5. /\ Larger(f, KytFloor(k)) \in Int /\ Larger(f, KytFloor(l)) \in Int
      /\ Larger(f, KytFloor(k)) <= Larger(f, KytFloor(l))
  BY <1>3, <1>4, LargerFact, LargerRises
<1>6. Larger(raw1, Larger(f, KytFloor(k))) <= Larger(raw2, Larger(f, KytFloor(l)))
  BY <1>1, <1>5, LargerRises
<1> QED BY <1>2, <1>6 DEF Adjusted

LEMMA OverriddenStays ==
  ASSUME NEW profile, NEW E, NEW F, E \subseteq F,
         NEW c1, NEW c2, c1 => c2,
         Overridden(profile, E, c1)
  PROVE  Overridden(profile, F, c2)
<1>1. \A r : Within(E, r) => Within(F, r)
  BY DEF Within
<1> QED BY <1>1 DEF Overridden

\* From 76 on the zone is RED, whatever lies between the zones below.
LEMMA RedFact ==
  ASSUME NEW s \in 0 .. Hundred, s >= RedFrom
  PROVE  ScoreZone(s) = "RED"
<1>1. s \in Int /\ 7600 <= s /\ s <= 10000
  BY DEF Hundred, RedFrom
<1>2. ZoneMin["RED"] <= s /\ s <= ZoneMax["RED"] /\ "RED" \in Zone
  BY <1>1 DEF ZoneMin, ZoneMax, Zone
<1>3. \A z \in Zone : ZoneMin[z] <= s /\ s <= ZoneMax[z] => z = "RED"
  BY <1>1 DEF ZoneMin, ZoneMax, Zone
<1> QED BY <1>2, <1>3 DEF ScoreZone

LEMMA EngineRises ==
  ASSUME NEW profile, Bounded(profile),
         NEW k \in Kyt, NEW l \in Kyt, Weaker(k, l),
         NEW m \in Nat, NEW n \in Nat, m <= n,
         NEW E, NEW F, E \subseteq F,
         NEW c1 \in BOOLEAN, NEW c2 \in BOOLEAN, c1 => c2
  PROVE  LET v == Engine(profile, k, m, E, c1)
             w == Engine(profile, l, n, F, c2)
         IN /\ v.raw <= w.raw /\ v.final <= w.final
            /\ v.override => w.override
            /\ v.zone = "RED" => w.zone = "RED"
<1> DEFINE p == Points(profile, k, m, E)
           q == Points(profile, l, n, F)
           over1 == Overridden(profile, E, c1)
           over2 == Overridden(profile, F, c2)
<1>1. \A c \in Component :
        p[c] \in 0 .. Top[c] /\ q[c] \in 0 .. Top[c] /\ p[c] <= q[c]
  BY PointsFact, PointsRise
<1>2. \A c \in Component : Top[c] \in Nat
  BY TopFact
<1> HIDE DEF p, q
<1>3. \A c \in Component : p[c] \in Nat /\ q[c] \in Nat /\ p[c] <= q[c]
  BY <1>1, <1>2
<1>4. PICK raw1 \in Modest : raw1 = Raw(p)
  BY <1>1, RawFact
<1>5. PICK raw2 \in Modest : raw2 = Raw(q)
  BY <1>1, RawFact
<1>6. raw1 <= raw2
  BY <1>3, <1>4, <1>5, RawRises
<1>7. PICK adj1 \in 0 .. Hundred : adj1 = Adjusted(raw1, profile, k)
  BY AdjustedFact, Zenon
<1>8. PICK adj2 \in 0 .. Hundred : adj2 = Adjusted(raw2, profile, l)
  BY AdjustedFact, Zenon
<1>9. adj1 <= adj2
  BY <1>6, <1>7, <1>8, AdjustedRises
<1>10. over1 => over2
  BY OverriddenStays
<1>11. over1 \in BOOLEAN /\ over2 \in BOOLEAN
  BY DEF Overridden, Bounded, Profile
<1>12. /\ Engine(profile, k, m, E, c1)
            = [raw      |-> raw1,
               final    |-> IF over1 THEN Hundred ELSE adj1,
               zone     |-> IF over1 THEN "RED" ELSE ScoreZone(adj1),
               override |-> over1]
       /\ Engine(profile, l, n, F, c2)
            = [raw      |-> raw2,
               final    |-> IF over2 THEN Hundred ELSE adj2,
               zone     |-> IF over2 THEN "RED" ELSE ScoreZone(adj2),
               override |-> over2]
  BY <1>4, <1>5, <1>7, <1>8 DEF Engine, p, q
<1> HIDE DEF over1, over2
<1>13. ScoreZone(adj1) = "RED" => ScoreZone(adj2) = "RED"
  <2>1. SUFFICES ASSUME ScoreZone(adj1) = "RED" PROVE ScoreZone(adj2) = "RED"
    OBVIOUS
  <2>2. adj1 >= RedFrom
    BY <2>1, ScoreZoneFact, HundredFact
  <2>3. adj2 >= RedFrom
    BY <1>9, <2>2 DEF Hundred, RedFrom
  <2> QED BY <2>3, RedFact
<1>14. (IF over1 THEN Hundred ELSE adj1) <= (IF over2 THEN Hundred ELSE adj2)
  <2>1. adj1 <= Hundred /\ Hundred <= Hundred
    BY DEF Hundred
  <2>2. CASE over2
    BY <2>1, <2>2
  <2>3. CASE ~over2
    BY <1>9, <1>10, <2>3
  <2> QED BY <2>2, <2>3
<1> QED BY <1>6, <1>10, <1>11, <1>12, <1>13, <1>14

-----------------------------------------------------------------------------
(***************************************************************************)
(* What a job has gathered, and the verdict it gives.                      *)
(***************************************************************************)
LEMMA RequestFact ==
  ASSUME NEW r \in Requests
  PROVE  /\ r \in Request
         /\ r.mode \in {"model", "provider"}
         /\ r.manual \in KytAnswers \cup {None}
         /\ r.rows \in SUBSET Tagged
         /\ Bounded(r.profile) /\ r.profile.refusal \in BOOLEAN
         /\ r.subjects \in Seq(Subject)
<1>1. r \in Request
  BY AssessAssumption
<1>2. /\ r.mode \in {"model", "provider"}
      /\ r.manual \in KytAnswers \cup {None}
      /\ r.rows \in SUBSET [addr : Addr, tag : Tag, via : {"request"}]
      /\ r.profile \in Profile
      /\ r.subjects \in Seq(Subject)
  BY <1>1 DEF Request
<1>3. r.rows \in SUBSET Tagged
  BY <1>2 DEF Tagged
<1>4. Bounded(r.profile)
  BY <1>2, AssessAssumption DEF Bounded
<1>5. r.profile.refusal \in BOOLEAN
  BY <1>2 DEF Profile
<1> QED BY <1>1, <1>2, <1>3, <1>4, <1>5

LEMMA NoKytFact ==
  NoKyt \in Kyt
<1>1. 0 \in 0 .. Hundred
  BY DEF Hundred
<1>2. [c \in Category |-> 0] \in [Category -> 0 .. Hundred]
  BY <1>1
<1> QED BY <1>2 DEF NoKyt, Kyt

LEMMA GatheredFact ==
  ASSUME NEW j \in Job, j.req \in Requests
  PROVE  /\ KytOf(j) \in Kyt
         /\ Monthly(j) \in Nat
         /\ j.rows \cup j.req.rows \in SUBSET Tagged
         /\ NodesOf(j) \in SUBSET Node /\ EdgesOf(j) \in SUBSET Edge
         /\ Confirmed(j) \in BOOLEAN
         /\ Confirmed(j) <=> \E i \in DOMAIN j.found : j.found[i] = "confirmed"
<1>1. KytOf(j) \in Kyt
  BY NoKytFact, AssessAssumption DEF KytOf, Job
<1>2. Monthly(j) \in Nat
  BY AssessAssumption DEF Monthly
<1>3. j.rows \in SUBSET TagRow
  BY DEF Job
<1>4. TagRow \subseteq Tagged
  BY DEF TagRow, Tagged
<1>5. j.rows \cup j.req.rows \in SUBSET Tagged
  BY <1>3, <1>4, RequestFact
<1>6. NodesOf(j) \in SUBSET Node /\ EdgesOf(j) \in SUBSET Edge
  BY AssessAssumption DEF NodesOf, EdgesOf
<1>7. j.found \in Seq(Match)
  BY DEF Job
<1>8. Confirmed(j) <=> \E i \in DOMAIN j.found : j.found[i] = "confirmed"
  BY <1>7 DEF Confirmed
<1> QED BY <1>1, <1>2, <1>5, <1>6, <1>8 DEF Confirmed

\* The rules fire, and a confirmed match or a refusal counts, exactly when the
\* evidence gives grounds.
LEMMA GroundsFact ==
  ASSUME NEW j \in Job, j.req \in Requests
  PROVE  Overridden(j.req.profile, ExposuresOf(j), Confirmed(j)) <=> Grounds(j)
<1> DEFINE rows == j.rows \cup j.req.rows
<1>1. /\ rows \in SUBSET Tagged
      /\ NodesOf(j) \in SUBSET Node /\ EdgesOf(j) \in SUBSET Edge
  BY GatheredFact
<1>2. ASSUME NEW addr, NEW n
      PROVE  Near(j, addr, n)
               <=> Reached(addr, CounterpartiesOf(j), NodesOf(j), EdgesOf(j), n)
  BY DEF Near, Reached
<1>3. ExposuresOf(j)
        = Exposures(rows, CounterpartiesOf(j), NodesOf(j), EdgesOf(j))
  BY DEF ExposuresOf
<1> HIDE DEF rows
<1>4. ASSUME NEW r \in TagRules
      PROVE  Within(ExposuresOf(j), r)
               <=> \E x \in rows : x.tag \in r.tags /\ Near(j, x.addr, r.within)
  BY <1>1, <1>2, <1>3, WithinFact
<1>5. (\E r \in TagRules : Within(ExposuresOf(j), r))
        <=> \E x \in rows, r \in TagRules :
              x.tag \in r.tags /\ Near(j, x.addr, r.within)
  BY <1>4, Zenon
<1>6. Confirmed(j) <=> \E i \in DOMAIN j.found : j.found[i] = "confirmed"
  BY GatheredFact
<1> QED BY <1>5, <1>6, Zenon DEF Overridden, Grounds, rows

LEMMA VerdictFact ==
  ASSUME NEW j \in Job, j.req \in Requests
  PROVE  /\ ModelVerdict(j) \in Verdict
         /\ ModelVerdict(j).override <=> Grounds(j)
         /\ ModelVerdict(j).zone = "RED" /\ ~ModelVerdict(j).override
              => KytOf(j).floor /\ KytOf(j).score >= RedFrom
<1>1. Bounded(j.req.profile)
  BY RequestFact
<1>2. /\ KytOf(j) \in Kyt /\ Monthly(j) \in Nat
      /\ Confirmed(j) \in BOOLEAN
  BY GatheredFact
<1>3. /\ ModelVerdict(j) \in Verdict
      /\ ModelVerdict(j).override
           <=> Overridden(j.req.profile, ExposuresOf(j), Confirmed(j))
      /\ ModelVerdict(j).zone = "RED" /\ ~ModelVerdict(j).override
           => KytOf(j).floor /\ KytOf(j).score >= RedFrom
  BY <1>1, <1>2, EngineFact, Zenon DEF ModelVerdict
<1> QED BY <1>3, GroundsFact

\* SkipIsTold, for one job.
Flagged(j) == j.skipped <=> j.report = "kyt" \/ FlaggedAnyway(j.req)

\* What is promised of a stored assessment.
StoredOK(row) ==
  /\ row \in Assessed
  /\ row.model.override <=> Grounds(row.job)
  /\ row.job.req.mode = "model" /\ row.verdict.zone = "RED"
       => \/ Grounds(row.job)
          \/ KytOf(row.job).floor /\ KytOf(row.job).score >= RedFrom
  /\ Flagged(row.job)
  /\ row.job.req \in Requests
  /\ row.exposures = ExposuresOf(row.job)
  /\ row.model = ModelVerdict(row.job)

LEMMA AssessFact ==
  ASSUME NEW j \in Job, j.req \in Requests, ~Unscored(j),
         Flagged(j)
  PROVE  StoredOK(Assess(j))
<1>1. /\ Assess(j).job = j /\ Assess(j).exposures = ExposuresOf(j)
      /\ Assess(j).model = ModelVerdict(j)
      /\ Assess(j).verdict = FinalVerdict(j)
  BY DEF Assess
<1>2. ExposuresOf(j) \in SUBSET Exposure
  <2>1. /\ j.rows \cup j.req.rows \in SUBSET Tagged
        /\ NodesOf(j) \in SUBSET Node /\ EdgesOf(j) \in SUBSET Edge
    BY GatheredFact
  <2> QED BY <2>1, ExposuresType, Zenon DEF ExposuresOf
<1>3. ModelVerdict(j) \in Verdict
  BY VerdictFact
<1>4. FinalVerdict(j) \in Verdict
  <2>1. CASE j.req.mode = "provider"
    <3>1. KytOf(j) \in Kyt /\ KytOf(j).score # NoPoints
      BY <2>1, GatheredFact DEF Unscored
    <3>2. ProviderVerdict(KytOf(j)) \in Verdict
      BY <3>1, ProviderFact
    <3> QED BY <2>1, <3>2 DEF FinalVerdict
  <2>2. CASE j.req.mode # "provider"
    BY <2>2, <1>3 DEF FinalVerdict
  <2> QED BY <2>1, <2>2
<1>5. Assess(j) \in Assessed
  BY <1>2, <1>3, <1>4 DEF Assess, Assessed
<1>6. j.req.mode = "model" => Assess(j).verdict = ModelVerdict(j)
  BY <1>1 DEF FinalVerdict
<1> QED BY <1>1, <1>5, <1>6, VerdictFact DEF StoredOK

-----------------------------------------------------------------------------
(***************************************************************************)
(* The inductive invariant, job by job.                                    *)
(***************************************************************************)
\* The flag is set before the second load, which cannot find an answer if the
\* report was made from one, nor lose it; without a provider no load finds any.
JobInv(j) ==
  /\ j \in Job
  /\ j.pc # "idle" => j.req \in Requests
  /\ j.saved => j.kyt \in ProviderAnswers
  /\ j.pc \in {"trace", "tags"}
       => (j.report = "kyt" <=> Synthesizes(j.req) /\ j.kyt # None)
  /\ j.pc \in {"load2", "fetch2", "screen"} => Flagged(j)
  /\ j.pc \in {"fetch1", "fetch2"} => j.req.provider # "none"
  /\ j.pc \notin {"idle", "answered", "failed"} /\ j.req.provider = "none"
       => j.kyt = j.req.manual
  /\ j.pc = "answered" => ~j.saved

LEMMA WaitingInv ==
  JobInv(Waiting)
<1>1. <<>> \in Seq(Match)
  OBVIOUS
<1>2. Waiting \in Job
  BY <1>1 DEF Waiting, Job, JobPc
<1> QED BY <1>2 DEF JobInv, Waiting

LEMMA AskedInv ==
  ASSUME NEW r \in Requests
  PROVE  JobInv(Asked(r))
<1>1. Waiting \in Job /\ r.manual \in KytAnswers \cup {None}
  BY WaitingInv, RequestFact DEF JobInv
<1>2. /\ Asked(r) \in Job /\ Asked(r).req = r /\ ~Asked(r).saved
      /\ Asked(r).pc \in {"load1", "collect"}
      /\ Asked(r).kyt = r.manual
  BY <1>1 DEF Asked, Waiting, Job, JobPc
<1> QED BY <1>2 DEF JobInv

LEMMA OnwardInv ==
  ASSUME NEW j, JobInv(j), j.pc \in {"load1", "load2"}
  PROVE  JobInv([j EXCEPT !.pc = Onward(j)])
BY DEF JobInv, Flagged, Onward, Job, JobPc

LEMMA CallInv ==
  ASSUME NEW j, JobInv(j), j.pc \in {"load1", "load2"},
         j.req.provider # "none"
  PROVE  JobInv([j EXCEPT !.pc = Call(j)])
BY DEF JobInv, Flagged, Call, Job, JobPc

LEMMA ErrsInv ==
  ASSUME NEW j, JobInv(j), j.pc \in {"load1", "fetch1", "load2", "fetch2"}
  PROVE  JobInv(Errs(j))
BY DEF JobInv, Flagged, Errs, Onward, Job, JobPc

LEMMA GetsInv ==
  ASSUME NEW j, JobInv(j), j.pc \in {"load1", "fetch1", "load2", "fetch2"},
         j.req.provider # "none",
         NEW k \in ProviderAnswers, NEW saved \in BOOLEAN
  PROVE  JobInv(Gets(j, k, saved))
<1>1. k \in KytAnswers
  BY DEF ProviderAnswers
<1> QED BY <1>1 DEF JobInv, Flagged, Gets, Onward, Job, JobPc

LEMMA ReportsInv ==
  ASSUME NEW j, JobInv(j), j.pc = "collect"
  PROVE  JobInv(Reports(j))
BY DEF JobInv, Reports, Job, JobPc

LEMMA TracedInv ==
  ASSUME NEW j, JobInv(j), j.pc = "trace"
  PROVE  JobInv([j EXCEPT !.pc = "tags", !.traced = TRUE])
BY DEF JobInv, Job, JobPc

LEMMA ReadsInv ==
  ASSUME NEW j, JobInv(j), j.pc = "tags", NEW rows \in SUBSET TagRow
  PROVE  JobInv(Reads(j, rows))
<1>1. j.req \in Requests
  BY DEF JobInv
<1>2. j.req.skip \in BOOLEAN
  BY <1>1, RequestFact DEF Request
<1>3. /\ Reads(j, rows) \in Job
      /\ Reads(j, rows).pc = "load2" /\ Reads(j, rows).req = j.req
      /\ Reads(j, rows).saved = j.saved /\ Reads(j, rows).kyt = j.kyt
      /\ Reads(j, rows).report = j.report
      /\ Reads(j, rows).skipped = (j.req.skip /\ j.kyt # None)
  BY <1>2 DEF JobInv, Reads, Skipped, Job, JobPc
<1>4. j.req.provider = "none" => j.kyt = j.req.manual
  BY DEF JobInv
<1>5. Flagged(Reads(j, rows))
  BY <1>3, <1>4 DEF JobInv, Flagged, FlaggedAnyway, Synthesizes
<1> QED BY <1>1, <1>3, <1>4, <1>5 DEF JobInv

LEMMA FindsInv ==
  ASSUME NEW j, JobInv(j), j.pc = "screen", NEW m \in Match
  PROVE  JobInv(Finds(j, m))
<1>1. Append(j.found, m) \in Seq(Match)
  BY DEF JobInv, Job
<1>2. /\ Finds(j, m) \in Job
      /\ Finds(j, m).pc = j.pc /\ Finds(j, m).req = j.req
      /\ Finds(j, m).saved = j.saved /\ Finds(j, m).kyt = j.kyt
      /\ Finds(j, m).report = j.report /\ Finds(j, m).skipped = j.skipped
  BY <1>1 DEF JobInv, Finds, Job
<1> QED BY <1>2 DEF JobInv, Flagged

LEMMA EndsInv ==
  ASSUME NEW j, JobInv(j), j.pc # "idle", NEW pc \in {"answered", "failed"}
  PROVE  JobInv(Ends(j, pc))
<1>1. Waiting \in Job /\ j.req \in Requests
  BY WaitingInv DEF JobInv
<1>2. /\ Ends(j, pc) \in Job /\ Ends(j, pc).pc = pc
      /\ Ends(j, pc).req = j.req /\ ~Ends(j, pc).saved
  BY <1>1 DEF Ends, Waiting, Job, JobPc
<1> QED BY <1>1, <1>2 DEF JobInv

-----------------------------------------------------------------------------
(***************************************************************************)
(* The inductive invariant of the whole.                                   *)
(***************************************************************************)
Jobs ==
  /\ job \in [Assessor -> Job]
  /\ \A a \in Assessor : JobInv(job[a])

Provided ==
  /\ listed \in [Subject -> Match]
  /\ cache \in Reported \cup {None}
  /\ cacheLock \in Assessor \cup {None}

Shelf ==
  /\ stored \in [Assessor -> Assessed \cup {None}]
  /\ \A a \in Assessor : stored[a] # None => StoredOK(stored[a])

AssessInv == TagsInv /\ Jobs /\ Provided /\ Shelf

LEMMA PutInv ==
  ASSUME Jobs, NEW a \in Assessor, NEW j, JobInv(j), Put(a, j)
  PROVE  Jobs'
<1>1. /\ job' = [job EXCEPT ![a] = j] /\ j \in Job
      /\ job \in [Assessor -> Job]
  BY DEF Jobs, Put, JobInv
<1>2. /\ job' \in [Assessor -> Job]
      /\ \A b \in Assessor : job'[b] = IF b = a THEN j ELSE job[b]
  BY <1>1
<1> QED BY <1>2 DEF Jobs

LEMMA JobFact ==
  ASSUME Jobs, NEW a \in Assessor
  PROVE  JobInv(job[a]) /\ job[a] \in Job
BY DEF Jobs

\* A step of a request that only moves its job.
LEMMA MoveInv ==
  ASSUME AssessInv, NEW a \in Assessor, NEW j, JobInv(j), Put(a, j),
         UNCHANGED <<listed, cache, stored>>,
         cacheLock' \in Assessor \cup {None}
  PROVE  Jobs' /\ Provided' /\ Shelf'
<1>1. Jobs'
  BY PutInv DEF AssessInv
<1>2. listed' = listed /\ cache' = cache /\ stored' = stored
  OBVIOUS
<1>3. Provided'
  BY <1>2 DEF AssessInv, Provided
<1>4. Shelf'
  BY <1>2 DEF AssessInv, Shelf
<1> QED BY <1>1, <1>3, <1>4

LEMMA ActiveRowsFact ==
  ASSUME NEW addresses
  PROVE  ActiveRows(addresses) \in SUBSET TagRow
<1> SUFFICES ASSUME NEW k \in Here
             PROVE  [addr |-> KeyAddr[k], tag |-> KeyTag[k], via |-> "db"] \in TagRow
  BY DEF ActiveRows
<1>1. KeyAddr[k] \in Addr /\ KeyTag[k] \in Tag
  BY AssessAssumption
<1> QED BY <1>1 DEF TagRow

\* A request ends: an answer that it saved is in the table.
LEMMA CommitFact ==
  ASSUME AssessInv, NEW a \in Assessor, Commit(a)
  PROVE  /\ cache' \in Reported \cup {None}
         /\ cacheLock' \in Assessor \cup {None}
         /\ job[a].saved => cache' = [answer |-> job[a].kyt, fresh |-> TRUE]
<1>1. cacheLock' \in Assessor \cup {None}
  BY DEF Commit, Release, AssessInv, Provided
<1>2. /\ job[a].saved => job[a].kyt \in ProviderAnswers
      /\ cache \in Reported \cup {None}
  BY JobFact DEF AssessInv, JobInv, Provided
<1>3. cache' = IF job[a].saved THEN [answer |-> job[a].kyt, fresh |-> TRUE]
                               ELSE cache
  BY DEF Commit
<1>4. cache' \in Reported \cup {None}
  BY <1>2, <1>3 DEF Reported
<1> QED BY <1>1, <1>3, <1>4

LEMMA SaveInv ==
  ASSUME AssessInv, NEW a \in Assessor, Save(a)
  PROVE  Jobs' /\ Provided' /\ Shelf'
<1> DEFINE j == job[a]
<1>1. JobInv(j) /\ j.pc = "screen" /\ ~Unscored(j)
  BY JobFact DEF AssessInv, Save, Ready
<1>2. j \in Job /\ j.req \in Requests
  BY <1>1 DEF JobInv
<1>3. StoredOK(Assess(j))
  BY <1>1, <1>2, AssessFact DEF JobInv
<1>4. JobInv(Ends(j, "answered")) /\ Put(a, Ends(j, "answered"))
  BY <1>1, EndsInv DEF Save, End
<1>5. Jobs'
  BY <1>4, PutInv DEF AssessInv
<1>6. Provided'
  BY CommitFact DEF Save, AssessInv, Provided
<1>7. Assess(j) \in Assessed
  BY <1>3 DEF StoredOK
<1>8. stored' = [stored EXCEPT ![a] = Assess(j)]
  BY DEF Save
<1>9. stored \in [Assessor -> Assessed \cup {None}]
  BY DEF AssessInv, Shelf
<1> HIDE DEF j
<1>10. /\ stored' \in [Assessor -> Assessed \cup {None}]
       /\ stored'[a] = Assess(j)
       /\ \A b \in Assessor : b # a => stored'[b] = stored[b]
  BY <1>7, <1>8, <1>9
<1>11. Shelf'
  BY <1>3, <1>10 DEF AssessInv, Shelf
<1> QED BY <1>5, <1>6, <1>11

LEMMA AnswerOnlyInv ==
  ASSUME AssessInv, NEW a \in Assessor, AnswerOnly(a)
  PROVE  Jobs' /\ Provided' /\ Shelf'
<1>1. JobInv(job[a]) /\ job[a].pc = "screen"
  BY JobFact DEF AssessInv, AnswerOnly, Ready
<1>2. JobInv(Ends(job[a], "answered")) /\ Put(a, Ends(job[a], "answered"))
  BY <1>1, EndsInv DEF AnswerOnly, End
<1>3. Jobs'
  BY <1>2, PutInv DEF AssessInv
<1>4. Provided'
  BY CommitFact DEF AnswerOnly, AssessInv, Provided
<1>5. stored' = stored
  BY DEF AnswerOnly
<1>6. Shelf'
  BY <1>5 DEF AssessInv, Shelf
<1> QED BY <1>3, <1>4, <1>6

LEMMA FailInv ==
  ASSUME AssessInv, NEW a \in Assessor, Fail(a)
  PROVE  Jobs' /\ Provided' /\ Shelf'
<1>1. JobInv(job[a]) /\ job[a].pc # "idle"
  BY JobFact DEF AssessInv, Fail
<1>2. JobInv(Ends(job[a], "failed")) /\ Put(a, Ends(job[a], "failed"))
  BY <1>1, EndsInv DEF Fail, End
<1>3. cacheLock' \in Assessor \cup {None}
  BY DEF Fail, Release, AssessInv, Provided
<1>4. UNCHANGED <<listed, cache, stored>>
  BY DEF Fail
<1> QED BY <1>2, <1>3, <1>4, MoveInv

\* The loads of the provider's answer.
LEMMA LoadInv ==
  ASSUME AssessInv, NEW a \in Assessor,
         \/ LoadNothing(a) \/ LoadUnknown(a) \/ LoadCached(a) \/ LoadMissed(a)
         \/ FetchFailed(a) \/ \E k \in ProviderAnswers : Fetched(a, k)
  PROVE  Jobs' /\ Provided' /\ Shelf'
<1> DEFINE j == job[a]
<1>1. JobInv(j) /\ j.saved \in BOOLEAN
  BY JobFact DEF AssessInv, Job
<1>2. cacheLock \in Assessor \cup {None} /\ cache \in Reported \cup {None}
  BY DEF AssessInv, Provided
<1>3. CASE LoadNothing(a)
  <2>1. j.pc \in {"load1", "load2"} /\ Put(a, [j EXCEPT !.pc = Onward(j)])
        /\ UNCHANGED <<listed, cache, cacheLock, stored>>
    BY <1>3 DEF LoadNothing, Loading
  <2>2. JobInv([j EXCEPT !.pc = Onward(j)])
    BY <1>1, <2>1, OnwardInv
  <2> QED BY <1>2, <2>1, <2>2, MoveInv
<1>4. CASE LoadMissed(a)
  <2>1. j.pc \in {"load1", "load2"} /\ Put(a, [j EXCEPT !.pc = Call(j)])
        /\ UNCHANGED <<listed, cache, cacheLock, stored>>
    BY <1>4 DEF LoadMissed, Loading
  <2>2. j.req.provider # "none"
    BY <1>4 DEF LoadMissed
  <2>3. JobInv([j EXCEPT !.pc = Call(j)])
    BY <1>1, <2>1, <2>2, CallInv
  <2> QED BY <1>2, <2>1, <2>3, MoveInv
<1>5. CASE LoadUnknown(a) \/ FetchFailed(a)
  <2>1. /\ j.pc \in {"load1", "fetch1", "load2", "fetch2"} /\ Put(a, Errs(j))
        /\ UNCHANGED <<listed, cache, cacheLock, stored>>
    BY <1>5 DEF LoadUnknown, FetchFailed, Loading, Fetching
  <2>2. JobInv(Errs(j))
    BY <1>1, <2>1, ErrsInv
  <2> QED BY <1>2, <2>1, <2>2, MoveInv
<1>6. CASE LoadCached(a)
  <2>1. /\ j.pc \in {"load1", "load2"} /\ cache # None
        /\ Put(a, Gets(j, cache.answer, j.saved))
        /\ UNCHANGED <<listed, cache, cacheLock, stored>>
    BY <1>6 DEF LoadCached, Loading, CacheAnswers
  <2>2. cache.answer \in ProviderAnswers
    BY <1>2, <2>1 DEF Reported
  <2>3. j.req.provider # "none"
    BY <1>6 DEF LoadCached
  <2>4. JobInv(Gets(j, cache.answer, j.saved))
    BY <1>1, <2>1, <2>2, <2>3, GetsInv
  <2> QED BY <1>2, <2>1, <2>4, MoveInv
<1>7. ASSUME NEW k \in ProviderAnswers, Fetched(a, k)
      PROVE  Jobs' /\ Provided' /\ Shelf'
  <2>1. /\ j.pc \in {"fetch1", "fetch2"} /\ Put(a, Gets(j, k, TRUE))
        /\ cacheLock' = a /\ UNCHANGED <<listed, cache, stored>>
    BY <1>7 DEF Fetched, Fetching
  <2>2. j.req.provider # "none"
    BY <1>1, <2>1 DEF JobInv
  <2>3. JobInv(Gets(j, k, TRUE))
    BY <1>1, <2>1, <2>2, GetsInv
  <2> QED BY <2>1, <2>3, MoveInv
<1> QED BY <1>3, <1>4, <1>5, <1>6, <1>7

\* What the report, the trace, the tags and the list add.
LEMMA GatherInv ==
  ASSUME AssessInv, NEW a \in Assessor,
         Collect(a) \/ Trace(a) \/ ReadTags(a) \/ Screen(a)
  PROVE  Jobs' /\ Provided' /\ Shelf'
<1> DEFINE j == job[a]
<1>1. JobInv(j)
  BY JobFact DEF AssessInv
<1>2. cacheLock \in Assessor \cup {None}
  BY DEF AssessInv, Provided
<1>3. CASE Collect(a)
  <2>1. /\ j.pc = "collect" /\ Put(a, Reports(j))
        /\ UNCHANGED <<listed, cache, cacheLock, stored>>
    BY <1>3 DEF Collect
  <2>2. JobInv(Reports(j))
    BY <1>1, <2>1, ReportsInv
  <2> QED BY <1>2, <2>1, <2>2, MoveInv
<1>4. CASE Trace(a)
  <2>1. /\ j.pc = "trace"
        /\ Put(a, [j EXCEPT !.pc = "tags", !.traced = TRUE])
        /\ UNCHANGED <<listed, cache, cacheLock, stored>>
    BY <1>4 DEF Trace
  <2>2. JobInv([j EXCEPT !.pc = "tags", !.traced = TRUE])
    BY <1>1, <2>1, TracedInv
  <2> QED BY <1>2, <2>1, <2>2, MoveInv
<1>5. CASE ReadTags(a)
  <2>1. /\ j.pc = "tags" /\ Put(a, Reads(j, ActiveRows(Addresses(j))))
        /\ UNCHANGED <<listed, cache, cacheLock, stored>>
    BY <1>5 DEF ReadTags
  <2>2. JobInv(Reads(j, ActiveRows(Addresses(j))))
    BY <1>1, <2>1, ReadsInv, ActiveRowsFact
  <2> QED BY <1>2, <2>1, <2>2, MoveInv
<1>6. CASE Screen(a)
  <2> DEFINE n == Len(j.found) + 1
  <2>1. /\ j.pc = "screen" /\ Len(j.found) < Len(j.req.subjects)
        /\ Put(a, Finds(j, listed[j.req.subjects[n]]))
        /\ UNCHANGED <<listed, cache, cacheLock, stored>>
    BY <1>6 DEF Screen
  <2>2. j.found \in Seq(Match) /\ j.req \in Requests
    BY <1>1, <2>1 DEF JobInv, Job
  <2>3. j.req.subjects \in Seq(Subject)
    BY <2>2, RequestFact
  <2>4. j.req.subjects[n] \in Subject
    BY <2>1, <2>2, <2>3
  <2>5. listed[j.req.subjects[n]] \in Match
    BY <2>4 DEF AssessInv, Provided
  <2> HIDE DEF n
  <2>6. JobInv(Finds(j, listed[j.req.subjects[n]]))
    BY <1>1, <2>1, <2>5, FindsInv
  <2> QED BY <1>2, <2>1, <2>6, MoveInv
<1> QED BY <1>3, <1>4, <1>5, <1>6

-----------------------------------------------------------------------------
LEMMA AskInv ==
  ASSUME AssessInv, NEW a \in Assessor, NEW r \in Requests, Ask(a, r)
  PROVE  Jobs' /\ Provided' /\ Shelf'
<1>1. /\ Put(a, Asked(r)) /\ UNCHANGED <<listed, cache, stored>>
      /\ cacheLock' = cacheLock
  BY DEF Ask
<1>2. JobInv(Asked(r))
  BY AskedInv
<1>3. cacheLock' \in Assessor \cup {None}
  BY <1>1 DEF AssessInv, Provided
<1> QED BY <1>1, <1>2, <1>3, MoveInv

\* The list and the cache change by themselves.
LEMMA AroundInv ==
  ASSUME AssessInv,
         Expire \/ \E s \in Subject, m \in Match : Import(s, m)
  PROVE  Jobs' /\ Provided' /\ Shelf'
<1>1. CASE Expire
  <2>1. /\ cache \in Reported /\ cache' = [cache EXCEPT !.fresh = FALSE]
        /\ listed' = listed /\ cacheLock' = cacheLock
        /\ job' = job /\ stored' = stored
    BY <1>1 DEF Expire, AssessInv, Provided
  <2>2. cache' \in Reported
    BY <2>1 DEF Reported
  <2> QED BY <2>1, <2>2 DEF AssessInv, Jobs, Provided, Shelf
<1>2. ASSUME NEW s \in Subject, NEW m \in Match, Import(s, m)
      PROVE  Jobs' /\ Provided' /\ Shelf'
  <2>1. /\ listed' = [listed EXCEPT ![s] = m]
        /\ cache' = cache /\ cacheLock' = cacheLock
        /\ job' = job /\ stored' = stored
    BY <1>2 DEF Import
  <2>2. listed' \in [Subject -> Match]
    BY <2>1 DEF AssessInv, Provided
  <2> QED BY <2>1, <2>2 DEF AssessInv, Jobs, Provided, Shelf
<1> QED BY <1>1, <1>2

LEMMA AssessStepInv ==
  ASSUME AssessInv, [Next]_vars
  PROVE  AssessInv'
<1>1. ASSUME NEW a \in Assessor, AssessStep(a)
      PROVE  Jobs' /\ Provided' /\ Shelf'
  BY <1>1, LoadInv, GatherInv, SaveInv, AnswerOnlyInv, FailInv, Zenon
     DEF AssessStep
<1>2. ASSUME NEW a \in Assessor, NEW r \in Requests, Ask(a, r)
      PROVE  Jobs' /\ Provided' /\ Shelf'
  BY <1>2, AskInv
<1>3. CASE AssessNext /\ UNCHANGED tagVars
  <2>1. Jobs' /\ Provided' /\ Shelf'
    BY <1>1, <1>2, <1>3, AroundInv, Zenon DEF AssessNext
  <2>2. TagsInv'
    BY <1>3, TagsStepInv DEF AssessInv
  <2> QED BY <2>1, <2>2 DEF AssessInv
<1>4. CASE TagsNext /\ UNCHANGED assessVars
  <2>1. TagsInv'
    BY <1>4, TagsStepInv DEF AssessInv
  <2>2. /\ listed' = listed /\ cache' = cache /\ cacheLock' = cacheLock
        /\ job' = job /\ stored' = stored
    BY <1>4 DEF assessVars
  <2> QED BY <2>1, <2>2 DEF AssessInv, Jobs, Provided, Shelf
<1>5. CASE UNCHANGED vars
  <2>1. /\ UNCHANGED tagVars
        /\ listed' = listed /\ cache' = cache /\ cacheLock' = cacheLock
        /\ job' = job /\ stored' = stored
    BY <1>5 DEF vars, tagVars
  <2>2. TagsInv'
    BY <2>1, TagsStepInv DEF AssessInv
  <2> QED BY <2>1, <2>2 DEF AssessInv, Jobs, Provided, Shelf
<1> QED BY <1>3, <1>4, <1>5 DEF Next

LEMMA AssessInitInv ==
  Init => AssessInv
<1> SUFFICES ASSUME Init
             PROVE  AssessInv
  OBVIOUS
<1>1. TagsInv
  BY TagsInitInv DEF Init
<1>2. Waiting \in Job /\ JobInv(Waiting)
  BY WaitingInv DEF JobInv
<1>3. Jobs
  BY <1>2 DEF Init, Jobs
<1>4. Provided
  BY DEF Init, Provided, Match
<1>5. Shelf
  BY DEF Init, Shelf
<1> QED BY <1>1, <1>3, <1>4, <1>5 DEF AssessInv

LEMMA AssessAlways ==
  Spec => []AssessInv
<1>1. AssessInv /\ [Next]_vars => AssessInv'
  BY AssessStepInv
<1> QED BY <1>1, AssessInitInv, PTL DEF Spec

-----------------------------------------------------------------------------
\* The jobs, the tables and the stored assessments keep their types; a score
\* stays in 0 .. 100 (assess_wallet_risk_pipeline).
THEOREM AssessTypeCorrect == Spec => []AssessTypeOK
<1>1. AssessInv => AssessTypeOK
  BY DEF AssessInv, TagsInv, Jobs, Provided, Shelf, AssessTypeOK
<1> QED BY <1>1, AssessAlways, PTL

LEMMA RowsFact ==
  ASSUME AssessInv, NEW row \in Rows
  PROVE  StoredOK(row)
BY DEF AssessInv, Shelf, Rows

\* The model overrides a stored score exactly when the evidence stored with it
\* gives grounds, for every set of rules, trace and report
\* (service.py:839-929, engine.py:696-758).
THEOREM OverrideCorrect == Spec => []OverrideHasGrounds
<1>1. AssessInv => OverrideHasGrounds
  BY RowsFact DEF OverrideHasGrounds, StoredOK
<1> QED BY <1>1, AssessAlways, PTL

\* The model's own points never reach RED: an assessment is RED on grounds or
\* by a floor that was asked for, for every profile and answer
\* (README.md:255-258, engine.py:618-758).
THEOREM RedCorrect == Spec => []RedHasCause
<1>1. AssessInv => RedHasCause
  BY RowsFact DEF RedHasCause, StoredOK
<1> QED BY <1>1, AssessAlways, PTL

\* An assessment with more evidence than another is not safer, for all rules,
\* requests and answers (engine.py:571-903).
THEOREM EvidenceCorrect == Spec => []EvidenceNeverLowers
<1>1. ASSUME AssessInv, NEW r \in Rows, NEW q \in Rows, MoreEvidence(r, q)
      PROVE  /\ r.model.raw <= q.model.raw
             /\ r.model.final <= q.model.final
             /\ r.model.override => q.model.override
             /\ r.model.zone = "RED" => q.model.zone = "RED"
  <2> DEFINE i == r.job
             j == q.job
  <2>1. /\ i \in Job /\ i.req \in Requests /\ r.exposures = ExposuresOf(i)
        /\ r.model = ModelVerdict(i)
        /\ j \in Job /\ j.req \in Requests /\ q.exposures = ExposuresOf(j)
        /\ q.model = ModelVerdict(j)
    BY <1>1, RowsFact DEF StoredOK, Assessed
  <2>2. i.req.profile = j.req.profile /\ Bounded(i.req.profile)
    BY <1>1, <2>1, RequestFact DEF MoreEvidence
  <2>3. /\ KytOf(i) \in Kyt /\ KytOf(j) \in Kyt
        /\ Monthly(i) \in Nat /\ Monthly(j) \in Nat
        /\ Confirmed(i) \in BOOLEAN /\ Confirmed(j) \in BOOLEAN
        /\ Confirmed(i) <=> \E n \in DOMAIN i.found : i.found[n] = "confirmed"
        /\ Confirmed(j) <=> \E n \in DOMAIN j.found : j.found[n] = "confirmed"
    BY <2>1, GatheredFact
  <2>4. Weaker(KytOf(i), KytOf(j))
    BY <1>1 DEF MoreEvidence, Weaker
  <2>5. Monthly(i) <= Monthly(j)
    BY <1>1, AssessAssumption DEF MoreEvidence, Monthly
  <2>6. ExposuresOf(i) \subseteq ExposuresOf(j)
    BY <1>1, <2>1 DEF MoreEvidence
  <2>7. Confirmed(i) => Confirmed(j)
    BY <1>1, <2>3 DEF MoreEvidence
  <2>8. /\ r.model = Engine(i.req.profile, KytOf(i), Monthly(i),
                            ExposuresOf(i), Confirmed(i))
        /\ q.model = Engine(i.req.profile, KytOf(j), Monthly(j),
                            ExposuresOf(j), Confirmed(j))
    BY <2>1, <2>2 DEF ModelVerdict
  <2> HIDE DEF i, j
  <2> QED BY <2>2, <2>3, <2>4, <2>5, <2>6, <2>7, <2>8, EngineRises
<1>2. AssessInv => EvidenceNeverLowers
  BY <1>1 DEF EvidenceNeverLowers
<1> QED BY <1>2, AssessAlways, PTL

\* wallet_collection_skipped tells where the report was made from, whatever
\* the second load of the answer finds, except that it is also set for a
\* request to skip that has an answer and no provider (service.py:852-901).
THEOREM SkipCorrect == Spec => []SkipIsTold
<1>1. AssessInv => SkipIsTold
  BY RowsFact DEF SkipIsTold, StoredOK, Flagged
<1> QED BY <1>1, AssessAlways, PTL

-----------------------------------------------------------------------------
(***************************************************************************)
(* Steps.                                                                  *)
(***************************************************************************)
\* AnswerIsKept, for one request.
Keeps(a) ==
  /\ job[a].saved /\ job'[a].pc = "answered"
       => cache' = [answer |-> job[a].kyt, fresh |-> TRUE]
  /\ job[a].pc # "failed" /\ job'[a].pc = "failed" => cache' = cache

LEMMA OtherKeeps ==
  ASSUME AssessInv, NEW b \in Assessor, job'[b] = job[b]
  PROVE  Keeps(b)
<1>1. job[b].pc = "answered" => ~job[b].saved
  BY JobFact DEF AssessInv, JobInv
<1> QED BY <1>1 DEF Keeps

\* Whatever a request does, the others keep what they have; it keeps its own
\* promise unless it ends.
LEMMA PutKeeps ==
  ASSUME AssessInv, NEW a \in Assessor, NEW j, Put(a, j),
         j.pc \notin {"answered", "failed"} \/ Keeps(a)
  PROVE  \A b \in Assessor : Keeps(b)
<1>1. /\ job'[a] = j
      /\ \A b \in Assessor : b # a => job'[b] = job[b]
  BY DEF AssessInv, Jobs, Put
<1>2. Keeps(a)
  BY <1>1 DEF Keeps
<1> QED BY <1>1, <1>2, OtherKeeps

LEMMA EndKeeps ==
  ASSUME AssessInv, NEW a \in Assessor, Save(a) \/ AnswerOnly(a) \/ Fail(a)
  PROVE  \A b \in Assessor : Keeps(b)
<1>1. CASE Save(a) \/ AnswerOnly(a)
  <2>1. Commit(a) /\ Put(a, Ends(job[a], "answered"))
    BY <1>1 DEF Save, AnswerOnly, End
  <2>2. job'[a] = Ends(job[a], "answered")
    BY <2>1 DEF Put, AssessInv, Jobs
  <2>3. job'[a].pc = "answered"
    BY <2>2 DEF Ends, Waiting
  <2>4. Keeps(a)
    BY <2>1, <2>3, CommitFact DEF Keeps
  <2> QED BY <2>1, <2>4, PutKeeps
<1>2. CASE Fail(a)
  <2>1. cache' = cache /\ Put(a, Ends(job[a], "failed"))
    BY <1>2 DEF Fail, End
  <2>2. job'[a] = Ends(job[a], "failed")
    BY <2>1 DEF Put, AssessInv, Jobs
  <2>3. job'[a].pc = "failed"
    BY <2>2 DEF Ends, Waiting
  <2>4. Keeps(a)
    BY <2>1, <2>3 DEF Keeps
  <2> QED BY <2>1, <2>4, PutKeeps
<1> QED BY <1>1, <1>2

LEMMA LoadKeeps ==
  ASSUME AssessInv, NEW a \in Assessor,
         \/ LoadNothing(a) \/ LoadUnknown(a) \/ LoadCached(a) \/ LoadMissed(a)
         \/ FetchFailed(a) \/ \E k \in ProviderAnswers : Fetched(a, k)
  PROVE  \A b \in Assessor : Keeps(b)
<1> DEFINE j == job[a]
<1>1. j \in Job
  BY JobFact DEF AssessInv
<1>2. Onward(j) \notin {"answered", "failed"}
  BY DEF Onward
<1>3. CASE LoadNothing(a)
  <2>1. Put(a, [j EXCEPT !.pc = Onward(j)])
    BY <1>3 DEF LoadNothing
  <2>2. [j EXCEPT !.pc = Onward(j)].pc = Onward(j)
    BY <1>1 DEF Job
  <2> QED BY <1>2, <2>1, <2>2, PutKeeps
<1>4. CASE LoadMissed(a)
  <2>1. Put(a, [j EXCEPT !.pc = Call(j)])
    BY <1>4 DEF LoadMissed
  <2>2. [j EXCEPT !.pc = Call(j)].pc \notin {"answered", "failed"}
    BY <1>1 DEF Job, Call
  <2> QED BY <2>1, <2>2, PutKeeps
<1>5. CASE LoadUnknown(a) \/ FetchFailed(a)
  <2>1. Put(a, Errs(j))
    BY <1>5 DEF LoadUnknown, FetchFailed
  <2>2. Errs(j).pc = Onward(j)
    BY <1>1 DEF Job, Errs
  <2> QED BY <1>2, <2>1, <2>2, PutKeeps
<1>6. ASSUME NEW k, NEW saved, Put(a, Gets(j, k, saved))
      PROVE  \A b \in Assessor : Keeps(b)
  <2>1. Gets(j, k, saved).pc = Onward(j)
    BY <1>1 DEF Job, Gets
  <2> QED BY <1>2, <1>6, <2>1, PutKeeps
<1>7. CASE LoadCached(a)
  BY <1>6, <1>7 DEF LoadCached
<1>8. CASE \E k \in ProviderAnswers : Fetched(a, k)
  BY <1>6, <1>8 DEF Fetched
<1> QED BY <1>3, <1>4, <1>5, <1>7, <1>8

LEMMA GatherKeeps ==
  ASSUME AssessInv, NEW a \in Assessor,
         Collect(a) \/ Trace(a) \/ ReadTags(a) \/ Screen(a)
  PROVE  \A b \in Assessor : Keeps(b)
<1> DEFINE j == job[a]
<1>1. j \in Job
  BY JobFact DEF AssessInv
<1>2. CASE Collect(a)
  <2>1. Put(a, Reports(j))
    BY <1>2 DEF Collect
  <2>2. Reports(j).pc \notin {"answered", "failed"}
    BY <1>1 DEF Job, Reports
  <2> QED BY <2>1, <2>2, PutKeeps
<1>3. CASE Trace(a)
  <2>1. Put(a, [j EXCEPT !.pc = "tags", !.traced = TRUE])
    BY <1>3 DEF Trace
  <2>2. [j EXCEPT !.pc = "tags", !.traced = TRUE].pc = "tags"
    BY <1>1 DEF Job
  <2> QED BY <2>1, <2>2, PutKeeps
<1>4. CASE ReadTags(a)
  <2>1. Put(a, Reads(j, ActiveRows(Addresses(j))))
    BY <1>4 DEF ReadTags
  <2>2. Reads(j, ActiveRows(Addresses(j))).pc = "load2"
    BY <1>1 DEF Job, Reads
  <2> QED BY <2>1, <2>2, PutKeeps
<1>5. CASE Screen(a)
  <2>1. PICK m : Put(a, Finds(j, m))
    BY <1>5 DEF Screen
  <2>2. Finds(j, m).pc = j.pc /\ j.pc = "screen"
    BY <1>1, <1>5 DEF Job, Finds, Screen
  <2> QED BY <2>1, <2>2, PutKeeps
<1> QED BY <1>2, <1>3, <1>4, <1>5

LEMMA AskKeeps ==
  ASSUME AssessInv, NEW a \in Assessor, NEW r \in Requests, Ask(a, r)
  PROVE  \A b \in Assessor : Keeps(b)
<1>1. Put(a, Asked(r))
  BY DEF Ask
<1>2. Asked(r).pc \notin {"answered", "failed"}
  BY DEF Asked, Waiting
<1> QED BY <1>1, <1>2, PutKeeps

\* An answer that a request saved is in the table when it is answered, and a
\* failed request leaves none (service.py:914-931).
THEOREM KeptCorrect == Spec => AnswerIsKept
<1>1. ASSUME AssessInv, [Next]_vars
      PROVE  [\A a \in Assessor : Keeps(a)]_vars
  <2>1. ASSUME NEW a \in Assessor, AssessStep(a)
        PROVE  \A b \in Assessor : Keeps(b)
    BY <1>1, <2>1, LoadKeeps, GatherKeeps, EndKeeps, Zenon DEF AssessStep
  <2>2. ASSUME NEW a \in Assessor, NEW r \in Requests, Ask(a, r)
        PROVE  \A b \in Assessor : Keeps(b)
    BY <1>1, <2>2, AskKeeps
  <2>3. CASE job' = job
    BY <1>1, <2>3, OtherKeeps
  <2>4. CASE Expire \/ \E s \in Subject, m \in Match : Import(s, m)
    BY <2>3, <2>4 DEF Expire, Import
  <2>5. CASE TagsNext /\ UNCHANGED assessVars
    BY <2>3, <2>5 DEF assessVars
  <2> QED BY <1>1, <2>1, <2>2, <2>4, <2>5, Zenon DEF Next, AssessNext
<1>2. (\A a \in Assessor : Keeps(a))
        <=> \A a \in Assessor :
              /\ job[a].saved /\ job'[a].pc = "answered"
                   => cache' = [answer |-> job[a].kyt, fresh |-> TRUE]
              /\ job[a].pc # "failed" /\ job'[a].pc = "failed" => cache' = cache
  BY DEF Keeps
<1> QED BY <1>1, <1>2, AssessAlways, PTL DEF Spec, AnswerIsKept

\* Beside the assessments the tags are edited as RiskTags says: what is proved
\* of TagsSpec holds in the composition (service.py:938-1024).
THEOREM TagsImplemented == Spec => TagsSpec
<1>1. Init => TagsInit
  BY DEF Init
<1>2. [Next]_vars => [TagsNext]_tagVars
  <2>1. UNCHANGED vars => UNCHANGED tagVars
    BY DEF vars, tagVars
  <2> QED BY <2>1 DEF Next
<1> QED BY <1>1, <1>2, PTL DEF Spec, TagsSpec
=============================================================================
