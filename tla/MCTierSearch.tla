---------------------------- MODULE MCTierSearch ----------------------------
(* TierSearch on a stock curve of eight voltages and five clocks. *)
EXTENDS TierSearch

MCCurve == [v \in {800, 812, 825, 837, 850, 862, 875, 887} |->
               IF v < 825 THEN 1500 ELSE IF v < 850 THEN 1515
               ELSE IF v < 862 THEN 1530 ELSE IF v < 887 THEN 1545 ELSE 1560]

Freeze(v, c) == [v |-> v, c |-> c, floor |-> c - 30, tier |-> "", why |-> "freeze"]
Fault(v, c)  == [v |-> v, c |-> c, floor |-> c - 30, tier |-> "", why |-> "fault"]

\* Nothing known; a descent or a climb that froze the machine before; an old
\* entry without a clock, and one that another tier's scan left.
MCRecords ==
    {{}, {Freeze(837, 1545)}, {Fault(862, 1545), Freeze(812, 1515)},
     {[v |-> 812, c |-> 0, floor |-> 0, tier |-> "", why |-> "fault"]},
     {[v |-> 887, c |-> 1530, floor |-> 1500, tier |-> "balanced", why |-> "fault"]}}

\* Performance over and under its target's voltage, Balanced, and Efficiency.
MCSetups ==
    {[tier |-> "performance", start |-> [v |-> 875, c |-> 1515], retry |-> FALSE],
     [tier |-> "performance", start |-> [v |-> 837, c |-> 1515], retry |-> TRUE],
     [tier |-> "balanced", start |-> [v |-> 887, c |-> 1530], retry |-> FALSE],
     [tier |-> "efficiency", start |-> [v |-> 862, c |-> 1515], retry |-> FALSE]}

MCTarget  == [v |-> 862, c |-> 1560]
=============================================================================
