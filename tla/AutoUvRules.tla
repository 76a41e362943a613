---------------------------- MODULE AutoUvRules ----------------------------
(***************************************************************************)
(* The rules by which an Auto-UV scan decides, before it touches the GPU,  *)
(* which point of voltage and clock it may try: the blacklist of unsafe    *)
(* points, the margin above the edge that recorded freezes reveal, the     *)
(* rungs that a freeze closes, the steps of a descent and of a climb, and  *)
(* the point at which an interrupted tier resumes. Voltages are in mV and  *)
(* clocks in MHz, as in the code, and 0 stands for none.                   *)
(***************************************************************************)
EXTENDS Integers, Sequences, FiniteSets, FiniteSetsExt

CONSTANTS
    Curve,     \* the stock V/F curve: the clock at each editable voltage
    ClockStep  \* the step of the GPU's clocks, 15

Bins == DOMAIN Curve

ASSUME CurveAssumption ==
    /\ IsFiniteSet(Bins) /\ Bins # {}
    /\ Bins \subseteq Nat \ {0}
    /\ Curve \in [Bins -> Nat \ {0}]
    /\ ClockStep \in Nat \ {0}

NoPoint == [v |-> 0, c |-> 0]

\* A finite set of numbers, in ascending order.
Ascending(set) ==
    [i \in 1..Cardinality(set) |->
        CHOOSE x \in set : Cardinality({y \in set : y < x}) = i - 1]

-----------------------------------------------------------------------------
(* The stock curve. *)

Higher(v) == {b \in Bins : b > v}
Lower(v, floor) == {b \in Bins : b < v /\ b >= floor}

\* next_higher_editable_voltage_bin
NextHigher(v) == IF Higher(v) = {} THEN 0 ELSE Min(Higher(v))

\* voltage_bins_above: n bins up, or as many as there are.
BinsAbove(v, n) ==
    LET near == {b \in Higher(v) : Cardinality({a \in Higher(v) : a < b}) < n}
    IN  IF near = {} THEN v ELSE Max(near)

\* lock_voltage_for_target_clock: where the stock curve reaches a clock.
StockVoltage(c) ==
    LET reached == {b \in Bins : Curve[b] >= c}
    IN  IF reached = {} THEN 0 ELSE Min(reached)

-----------------------------------------------------------------------------
(* The blacklist: a set of entries [v, c, floor, tier, why]. The floor is   *)
(* the lowest clock that the entry binds; a tier of "" binds every tier.    *)

\* Why a point was recorded: the machine froze on it, the probe failed on it,
\* or the run was merely ended (a clock floor, the user, the launcher).
Reasons == {"freeze", "fault", "controlled"}

\* unsafe_clock_bindings_from_plan: the failed clock and the two below it.
BandFloor(c) ==
    LET below == {Curve[b] : b \in Bins} \cap (1..(c - 1))
        near  == {k \in below : Cardinality({j \in below : j > k}) < 2}
    IN  Min(near \cup {c})

\* record_unsafe_voltage: load what still counts, replace the same entry or add.
RecordUnsafe(list, entry) == {e \in list : e.why # "controlled"} \cup {entry}

\* unsafe_entry_blocks_future_search
StillCounts(entry, tier) ==
    /\ entry.tier \in {"", tier}
    /\ entry.why # "controlled"

\* unsafe_entry_blocks_voltage_candidate: an entry without a clock closes its
\* voltage and all below it, one with a clock only from its lowest clock up.
BlocksPoint(entry, p, tier) ==
    /\ StillCounts(entry, tier)
    /\ p.v <= entry.v
    /\ entry.c > 0 => p.c >= entry.floor

\* unsafe_voltage_block_reason
Blocked(list, p, tier) == \E e \in list : BlocksPoint(e, p, tier)

\* unsafe_min_search_voltage: entries without a clock bound a descent from below.
MinSearch(list, start, tier) ==
    LET floors == {e.v : e \in {f \in list :
                       StillCounts(f, tier) /\ f.c = 0 /\ f.v < start}}
    IN  IF floors = {} THEN 0 ELSE NextHigher(Max(floors))

-----------------------------------------------------------------------------
(* The edge that recorded freezes reveal. *)

\* edge_points: the freezes whose clock the stock curve reaches.
Freezes(list) ==
    {e \in list : e.why = "freeze" /\ e.v > 0 /\ e.c > 0 /\ StockVoltage(e.c) > 0}

Distance(a, b) == IF a < b THEN b - a ELSE a - b

\* EdgeMargin.margin_bins_for
MarginBins(distance) == IF distance <= 15 THEN 1 ELSE IF distance <= 90 THEN 2 ELSE 4

\* EdgeMargin._bins_above: n bins over the first one at or over the predicted edge.
MarginOver(predicted, n) ==
    LET over == {b \in Bins : b >= predicted}
        near == {b \in over : Cardinality({a \in over : a < b}) <= n}
    IN  IF over = {} THEN Max(Bins) ELSE Max(near)

\* EdgeMargin.minimum_voltage_mv: the nearest freeze, moved along the stock
\* curve; of several equally near, the one that asks for most.
MinimumVoltage(list, c) ==
    LET nearest == {e \in Freezes(list) :
                       \A f \in Freezes(list) : Distance(c, e.c) <= Distance(c, f.c)}
        edges   == {<<e.v + StockVoltage(c) - StockVoltage(e.c), MarginBins(Distance(c, e.c))>> :
                       e \in nearest}
    IN  IF StockVoltage(c) = 0 \/ nearest = {} THEN 0
        ELSE Max({MarginOver(edge[1], edge[2]) : edge \in edges})

\* EdgeMargin.block_reason
UnderEdge(list, p) == p.v < MinimumVoltage(list, p.c)

\* frozen_rung_block_reason: a rung at or above the clock of a freeze stays
\* closed up to three bins over the freeze, for climbs that start below it.
FrozenRung(list, start, p) ==
    \E e \in list :
        /\ e.why = "freeze" /\ e.v > 0 /\ e.c > 0
        /\ e.v >= start
        /\ p.c >= e.c
        /\ p.v <= BinsAbove(e.v, 3)

-----------------------------------------------------------------------------
(* The steps of a descent. *)

\* select_next_lower_voltage: two or three bins at a time in the upper tenth,
\* one below it. Only the first voltage of its list is ever used, and the
\* effective-voltage filter always keeps the first; min lies above the voltage
\* that unsafe_min_search_voltage found to have failed.
NextLower(start, stable, min) ==
    LET below   == Lower(stable, min)
        stride  == IF 10 * Max(below) >= 9 * start THEN 3 ELSE 1
        near    == {b \in below : Cardinality({a \in below : a > b}) < stride}
    IN  IF near = {} THEN 0 ELSE Min(near)

-----------------------------------------------------------------------------
(* The rungs of a climb. *)

\* Python's round() of a / b: halves go to the even neighbour.
Rounded(a, b) ==
    LET q == a \div b
        r == 2 * (a % b)
    IN  IF r > b \/ (r = b /\ q % 2 = 1) THEN q + 1 ELSE q

\* bounded_clock: the step of the GPU's clocks, between start and endpoint.
BoundedClock(requested, from, to) ==
    IF requested >= to THEN to
    ELSE Max({from, Min({to, ClockStep * Rounded(requested, ClockStep)})})

\* The clock that lies i steps of n between two clocks.
Between(from, to, i, n) == BoundedClock(Rounded(n * from + (to - from) * i, n), from, to)

\* interpolated_voltage: the bin nearest to i steps of n, the lower of two.
NearestBin(from, to, i, n) ==
    LET far(b) == Distance(n * b, n * from + (to - from) * i)
        bins   == {b \in Bins : from <= b /\ b <= to}
    IN  CHOOSE b \in bins : \A a \in bins : far(b) < far(a) \/ (far(b) = far(a) /\ b <= a)

\* build_auto_oc_ladder at one voltage: clocks only.
ClockLadder(start, to, n) ==
    LET clocks == {Between(start.c, to.c, i, n) : i \in 1..n} \ 1..start.c
    IN  [i \in 1..Cardinality(clocks) |-> [v |-> start.v, c |-> Ascending(clocks)[i]]]

\* build_auto_oc_ladder: one rung for a voltage, but the last is the endpoint.
VoltageLadder(start, to, n) ==
    LET at(i) == [v |-> NearestBin(start.v, to.v, i, n), c |-> Between(start.c, to.c, i, n)]
        first == {i \in 1..n : at(i).v > start.v /\ \A j \in 1..(i - 1) : at(j).v # at(i).v}
    IN  [k \in 1..Cardinality(first) |->
            LET i == Ascending(first)[k]
            IN  IF at(i).v = at(n).v THEN at(n) ELSE at(i)]

Ladder(start, to, n) ==
    IF start.v > to.v \/ start.c > to.c \/ start = to \/ n = 0 THEN <<>>
    ELSE IF start.v = to.v THEN ClockLadder(start, to, n)
    ELSE VoltageLadder(start, to, n)

\* auto_oc_retry_voltages, in the order in which they are tried.
RetryVoltages(failed, cap) == Ascending({b \in Bins : failed < b /\ b <= cap})

-----------------------------------------------------------------------------
(* Resuming an interrupted tier. *)

\* recovery_candidate for one passed point: its clock, one bin higher.
ResumeFrom(p) == [v |-> NextHigher(p.v), c |-> p.c]

\* A passed point that a tier may resume from, past the failure that ended it.
Resumable(passed, list, failed, tier) ==
    {i \in DOMAIN passed :
        LET p == passed[i]
        IN  /\ failed.c > 0 => p.c < failed.c \/ (p.c = failed.c /\ failed.v > 0 /\ p.v > failed.v)
            /\ ~Blocked(list, p, tier)
            /\ NextHigher(p.v) > 0
            /\ ~Blocked(list, ResumeFrom(p), tier)}

\* recovery_candidate: from the last of them; NoPoint is the error.
ResumePoint(passed, list, failed, tier) ==
    LET sources == Resumable(passed, list, failed, tier)
    IN  IF sources = {} THEN NoPoint ELSE ResumeFrom(passed[Max(sources)])

\* failure_condemns_candidate: a later failure at no higher clock and no lower
\* voltage tells against a candidate. A failure without a clock says nothing.
Condemns(failed, p) ==
    /\ failed.v > 0 /\ failed.c > 0
    /\ failed.c <= p.c /\ failed.v >= p.v

=============================================================================
