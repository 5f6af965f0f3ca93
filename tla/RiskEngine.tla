----------------------------- MODULE RiskEngine -----------------------------
(***************************************************************************)
(* The scoring of a wallet: app/domain/risk/engine.py and kyt.py with the  *)
(* rules of risk_model.yaml, as operators.                                 *)
(*                                                                         *)
(* Component points are whole; averages and scores are in hundredths, the  *)
(* precision the code rounds to; shares of categories are in hundredths of *)
(* a percent.  An option of a profile is represented by its points.  Only  *)
(* the categories of external exposures that reach a component are told    *)
(* apart.  risk_model.yaml has no external exposure_rules and no           *)
(* known_addresses, so those have no part here.                            *)
(***************************************************************************)
EXTENDS Integers

CONSTANTS
  Addr,      \* addresses
  Root,      \* the assessed one
  Tag,       \* codes of risk_tags
  TagPoints, \* per code, its score
  TagRules,  \* override rules of the kind tag_within_hops
  NoPoints   \* "the request does not say"

Hundred == 10000
RedFrom == 7600

\* The components of the four blocks, with the most points an option or a
\* threshold gives.
Top ==
  [A1 |-> 25, A2 |-> 25, A3 |-> 25, A4 |-> 25,
   B1 |-> 30, B2 |-> 35, B3 |-> 35, B4 |-> 20,
   C1 |-> 20, C2 |-> 18, C3 |-> 25, C4 |-> 20, C5 |-> 15,
   D1 |-> 30, D2 |-> 25, D3 |-> 25, D4 |-> 20]

Component == DOMAIN Top

Category == {"sanctions", "mixing_service", "bridge", "dex", "liquidity_pool"}

\* What a jurisdiction of a FATF list raises the score to at least.
FatfFloor ==
  [call_for_action |-> 5100, increased_monitoring |-> 2600, vigilance |-> 0,
   unlisted |-> 0]

ASSUME EngineAssumption ==
  /\ Root \in Addr
  /\ TagPoints \in [Tag -> 0 .. 100]
  /\ TagRules \subseteq [tags : SUBSET Tag, within : Nat]
  /\ NoPoints \notin Int

\* An external screening: score is NoPoints when the provider gave none;
\* floor tells an explicit score_policy "minimum_score".
Kyt ==
  [score   : Int \cup {NoPoints},
   floor   : BOOLEAN,
   share   : [Category -> 0 .. Hundred],
   monthly : Nat]   \* transactions per month

\* What the request says of the participant.
Profile ==
  [points  : [Component -> Nat \cup {NoPoints}],
   fatf    : DOMAIN FatfFloor,
   refusal : BOOLEAN]   \* an override rule of the kind context_equals holds

Larger(x, y) == IF x >= y THEN x ELSE y
Clamp(s) == IF s < 0 THEN 0 ELSE IF s > Hundred THEN Hundred ELSE s

-----------------------------------------------------------------------------
(***************************************************************************)
(* Exposures: tagged addresses with their distance from the root.          *)
(***************************************************************************)
Exposure ==
  [addr : Addr, tag : Tag, hop : Nat, via : {"request", "db"},
   seen : {"report", "node", "edge"}]

At(row, hop, seen) ==
  [addr |-> row.addr, tag |-> row.tag, hop |-> hop, via |-> row.via,
   seen |-> seen]

\* Mutant: a source of the wallet is nearer than the wallet itself.
DistanceRaw(depth) == depth

\* A trace counts its sources downwards from the root.
Distance(depth) == IF depth < 0 THEN -depth ELSE depth

\* The tagged addresses among some, seen at a distance.
Met(rows, addresses, hop, seen) ==
  {At(r, hop, seen) : r \in {r \in rows : r.addr \in addresses}}

\* A trace has nodes with a depth and edges with a distance.
Exposures(rows, counterparties, nodes, edges) ==
  Met(rows, {Root}, 0, "report")
  \cup Met(rows, counterparties, 1, "report")
  \cup (UNION {Met(rows, {n.addr}, Distance(n.depth), "node") : n \in nodes})
  \cup (UNION {Met(rows, {l.from, l.to}, Larger(1, l.distance), "edge") :
                 l \in edges})

Scored(exposures) == {x \in exposures : TagPoints[x.tag] > 0}

\* metrics.closest_risk_hop is at most n.
CloserThan(exposures, n) == \E x \in Scored(exposures) : x.hop <= n

Within(exposures, r) ==
  \E x \in exposures : x.tag \in r.tags /\ x.hop <= r.within

-----------------------------------------------------------------------------
(***************************************************************************)
(* Components and blocks.                                                  *)
(***************************************************************************)
\* Mutant: a step is for values up to its threshold (`lte' for `gte').
LadderUpTo(v, steps) ==
  IF v <= steps[1][1] THEN steps[1][2]
  ELSE IF v <= steps[2][1] THEN steps[2][2]
  ELSE IF v <= steps[3][1] THEN steps[3][2]
  ELSE 0

\* Thresholds are tried in the order of the rule, the highest first.
Ladder(v, steps) ==
  IF v >= steps[1][1] THEN steps[1][2]
  ELSE IF v >= steps[2][1] THEN steps[2][2]
  ELSE IF v >= steps[3][1] THEN steps[3][2]
  ELSE 0

MixSteps     == << <<2000, 35>>, <<500, 15>>, <<1, 10>> >>
DexSteps     == << <<2000, 20>>, <<100, 12>>, <<1, 5>> >>
PoolSteps    == << <<1000, 15>>, <<100, 12>>, <<1, 5>> >>
MonthlySteps == << <<1000, 18>>, <<100, 12>>, <<10, 5>> >>

NoKyt == [score |-> NoPoints, floor |-> FALSE,
          share |-> [c \in Category |-> 0], monthly |-> 0]

HopPoints(exposures) ==
  IF CloserThan(exposures, 1) THEN 20
  ELSE IF CloserThan(exposures, 3) THEN 18
  ELSE 0

\* The points of a component that the request leaves to the metrics, or whose
\* rule knows no other source.
Measured(c, kyt, monthly, exposures) ==
  CASE c = "B3" -> Ladder(kyt.share["mixing_service"] + kyt.share["bridge"], MixSteps)
    [] c = "B4" -> Ladder(kyt.share["dex"], DexSteps)
    [] c = "C2" -> Ladder(Larger(monthly, kyt.monthly), MonthlySteps)
    [] c = "C4" -> HopPoints(exposures)
    [] c = "C5" -> Ladder(kyt.share["liquidity_pool"], PoolSteps)
    [] OTHER -> 0

Points(profile, kyt, monthly, exposures) ==
  [c \in Component |->
     IF profile.points[c] = NoPoints \/ c \in {"B3", "C2"}
       THEN Measured(c, kyt, monthly, exposures)
       ELSE profile.points[c]]

\* The four averages, in hundredths.
BlockA(p) == (100 * (p.A1 + p.A2 + p.A3 + p.A4)) \div 4
BlockB(p) == (100 * (p.B1 + p.B2 + p.B3 + p.B4)) \div 4
BlockC(p) == (100 * (p.C1 + p.C2 + p.C3 + p.C4 + p.C5)) \div 5
BlockD(p) == (100 * (p.D1 + p.D2 + p.D3 + p.D4)) \div 4

\* Every weight is 0.25.  Ties are rounded up here, to even by Python.
Raw(p) ==
  Clamp((BlockA(p) + BlockB(p) + BlockC(p) + BlockD(p) + 2) \div 4)

-----------------------------------------------------------------------------
(***************************************************************************)
(* Zones, floors, overrides and the verdict.                               *)
(***************************************************************************)
Zone == {"GREEN", "YELLOW", "ORANGE", "RED"}
ZoneMin == [GREEN |-> 0, YELLOW |-> 2600, ORANGE |-> 5100, RED |-> 7600]
ZoneMax == [GREEN |-> 2500, YELLOW |-> 5000, ORANGE |-> 7500, RED |-> 10000]

\* A score between two zones is GREEN, unless it is above all of them.
ScoreZone(s) ==
  IF \E z \in Zone : ZoneMin[z] <= s /\ s <= ZoneMax[z]
    THEN CHOOSE z \in Zone : ZoneMin[z] <= s /\ s <= ZoneMax[z]
    ELSE IF s >= RedFrom THEN "RED" ELSE "GREEN"

\* Mutant: the provider's score is a floor whether or not that was asked for.
KytFloorAlways(kyt) ==
  IF kyt.score # NoPoints /\ kyt.score >= 0 THEN Clamp(kyt.score) ELSE 0

KytFloor(kyt) ==
  IF kyt.floor /\ kyt.score # NoPoints /\ kyt.score >= 0
    THEN Clamp(kyt.score)
    ELSE 0

Adjusted(raw, profile, kyt) ==
  Larger(raw, Larger(FatfFloor[profile.fatf], KytFloor(kyt)))

Overridden(profile, exposures, confirmed) ==
  \/ confirmed
  \/ profile.refusal
  \/ \E r \in TagRules : Within(exposures, r)

Verdict == [raw : 0 .. Hundred, final : 0 .. Hundred, zone : Zone,
            override : BOOLEAN]

\* assess_wallet_risk.  Every override rule gives 100 and RED.
Engine(profile, kyt, monthly, exposures, confirmed) ==
  LET raw  == Raw(Points(profile, kyt, monthly, exposures))
      over == Overridden(profile, exposures, confirmed)
      adj  == Adjusted(raw, profile, kyt)
  IN [raw      |-> raw,
      final    |-> IF over THEN Hundred ELSE adj,
      zone     |-> IF over THEN "RED" ELSE ScoreZone(adj),
      override |-> over]

\* _apply_provider_score_mode, for an answer with a score.
ProviderVerdict(kyt) ==
  LET s == Clamp(kyt.score)
  IN [raw |-> s, final |-> s, zone |-> ScoreZone(s), override |-> FALSE]
=============================================================================
