---------------------------- MODULE MCAutoUvScan ----------------------------
(* AutoUvScan on a stock curve of two voltages and two clocks. *)
EXTENDS AutoUvScan

TwoBins == [v \in {800, 825} |-> IF v = 800 THEN 1500 ELSE 1515]

\* Under load the clock settles one step below the curve's end.
MCLoad == [v |-> 825, c |-> 1500]

TwoTiers == <<"balanced", "performance">>

\* Searches fault, baselines and soaks fall short.
Faults == [for \in Phases |-> IF for \in {"baseline", "soak"} THEN {"recoverable"} ELSE {"unsafe"}]

\* Balanced and Performance share their settings, as they do by default.
MCRegime == [t \in Tiers |-> IF t = "efficiency" THEN "own" ELSE "shared"]
=============================================================================
