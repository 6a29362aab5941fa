----------------------------- MODULE MeshScoring ------------------------------
(***************************************************************************)
(* network_health_scoring.py.  A score is a number of ten-thousandths, the *)
(* four decimals the code rounds to; a sum of percentages of scores is     *)
(* rounded once, as there.  None is a reading that is not there.           *)
(***************************************************************************)
EXTENDS Integers, Sequences, SequencesExt, FiniteSetsExt, Absent

Full == 10000
Half == 5000

Clamp(v)      == Max({0, Min({v, Full})})
Rounded(n, d) == (2 * n + d) \div (2 * d)
Apart(a, b)   == IF a < b THEN b - a ELSE a - b

NormalRssi(rssi) == IF rssi = None THEN None ELSE Clamp(250 * (rssi + 95))
\* A link quality above 3 is read as one of 255.
NormalLqi(lqi)   == IF lqi = None THEN None ELSE Clamp(Rounded(Full * lqi, IF lqi > 3 THEN 255 ELSE 3))
Freshness(age)   == IF age = None THEN None ELSE Clamp(Full - Rounded(Full * age, 1800))
Retries(delta)   == IF delta = None THEN Half ELSE Full - Clamp(500 * delta)
Symmetry(rssi, reverse) ==
  IF None \in {rssi, reverse} THEN Half ELSE Clamp(Full - 500 * Apart(rssi, reverse))

\* _weighted_score: a missing part takes its weight with it.
Weighted(parts) ==
  LET there == {i \in DOMAIN parts : parts[i][2] # None}
  IN  IF there = {} THEN 0
      ELSE Rounded(SumFunctionOnSet([i \in there |-> parts[i][1] * parts[i][2]], there),
                   SumFunctionOnSet([i \in there |-> parts[i][1]], there))

Band(score) ==
  IF score >= 8000 THEN "healthy" ELSE IF score >= 6000 THEN "watch"
  ELSE IF score >= 4000 THEN "investigate" ELSE "critical"

\* score_edge_quality, as build_network_health calls it: without retries.
EdgeScore(row, reverse) ==
  Weighted(<< <<35, NormalRssi(row.rssi)>>, <<25, NormalLqi(row.lqi)>>,
              <<10, Freshness(row.age)>>, <<10, Symmetry(row.rssi, reverse)>> >>)

\* score_router_health; `cut` is both the articulation risk and the bridge
\* dependency.  The percentages of each part come first, then the rounding.
RouterTarget(routers) == Min({2, Max({1, routers - 1})})
RouterRedundancy(strong, target) == Clamp((Full * strong) \div target)
RouterPath(best, alternates) == 60 * Clamp(best) + 40 * Min({Full, Full * alternates})
RouterScore(strong, alternates, best, retries, age, cut, routers) ==
  LET stability == 70 * Retries(retries) + 30 * (IF age = None THEN Half ELSE Freshness(age))
      score == Rounded(40 * 100 * RouterRedundancy(strong, RouterTarget(routers))
                         + 25 * RouterPath(best, alternates) + 20 * stability
                         + 15 * 100 * (IF cut THEN 0 ELSE Full), Full)
  IN  IF cut /\ alternates < 1 /\ Clamp(best) < Half THEN Min({score, 3900}) ELSE score

EndScoreSwapped(link, moves, parent, retries) ==
  Rounded(25 * Clamp(link) + 45 * (Full - Clamp(Rounded(Full * moves, 3)))
            + 20 * Clamp(parent) + 10 * Retries(retries), 100)
\* score_end_device_health.
EndScore(link, moves, parent, retries) ==
  Rounded(45 * Clamp(link) + 25 * (Full - Clamp(Rounded(Full * moves, 3)))
            + 20 * Clamp(parent) + 10 * Retries(retries), 100)

\* score_network_health.
NetworkScore(redundancy, path, links, stability, bottleneck, split) ==
  Rounded(30 * Clamp(redundancy) + 20 * Clamp(path) + 20 * Clamp(links) + 15 * Clamp(stability)
            + 10 * (Full - Clamp(bottleneck)) + 5 * (Full - Clamp(split)), 100)

(***************************************************************************)
(* Reason codes, and the confidence in hundredths.                         *)
(***************************************************************************)
Where(pairs) == {p[1] : p \in {q \in pairs : q[2]}}

Confidence(age, oneway, unretried) ==
  LET fresh == IF age = None THEN 100 ELSE IF age > 1800 THEN 25 ELSE IF age > 600 THEN 85 ELSE 100
  IN  Max({0, fresh - (IF oneway THEN 20 ELSE 0) - (IF unretried THEN 10 ELSE 0)})

EdgeReasons(row, reverse) ==
  LET stated(v, test) == v # None /\ test
  IN  Where({<<"WEAK_RSSI", stated(row.rssi, row.rssi < -85)>>,
             <<"POOR_LQI", stated(row.lqi, row.lqi <= IF row.lqi > 3 THEN 85 ELSE 1)>>,
             <<"ONE_WAY_LINK_EVIDENCE", reverse = None>>,
             <<"ASYMMETRIC_LINK", stated(reverse, Apart(IF row.rssi = None THEN 0 ELSE row.rssi, reverse) > 10)>>,
             <<"STALE_LINK_DATA", stated(row.age, row.age > 1800)>>})

RouterReasons(strong, alternates, best, cut, routers) ==
  Where({<<"LOW_ROUTER_REDUNDANCY", strong < RouterTarget(routers)>>, <<"NO_ALTERNATE_PATH", alternates < 1>>,
         <<"WEAK_BACKBONE_PATH", Clamp(best) < Half>>, <<"ARTICULATION_ROUTER", cut>>,
         <<"HIGH_BOTTLENECK_CENTRALITY", cut>>})

EndReasonsLate(link, moves, parent) ==
  Where({<<"MARGINAL_PARENT_LINK", Clamp(link) < Half>>, <<"PARENT_FLAPPING", moves > 3>>,
         <<"FRAGILE_PARENT_ROUTER", Clamp(parent) < 6000>>})
EndReasons(link, moves, parent) ==
  Where({<<"MARGINAL_PARENT_LINK", Clamp(link) < Half>>, <<"PARENT_FLAPPING", moves >= 3>>,
         <<"FRAGILE_PARENT_ROUTER", Clamp(parent) < 6000>>})

NetworkReasons(redundancy, bottleneck, split, confidence) ==
  Where({<<"LOW_NETWORK_REDUNDANCY", Clamp(redundancy) < 6000>>,
         <<"OVERCONCENTRATED_ROUTING", Clamp(bottleneck) >= Half>>,
         <<"PARTITION_RISK", Clamp(split) >= Half>>, <<"LOW_CONFIDENCE_SNAPSHOT", confidence < 50>>})

\* score_placement_opportunity.
PlacementScore(redundancy, path, relief, affected) ==
  Rounded(35 * Clamp(redundancy) + 30 * Clamp(path) + 20 * Clamp(relief) + 15 * Clamp(affected), 100)
=============================================================================
