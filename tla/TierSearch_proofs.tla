------------------------- MODULE TierSearch_proofs -------------------------
(***************************************************************************)
(* For any curve, blacklist, target and settings: the soak gets what was   *)
(* tried, the climb crosses the edge once, a pass at the floor is left     *)
(* alone, and the fallbacks retreat.                                       *)
(***************************************************************************)
EXTENDS TierSearch, FiniteSetTheorems, SequenceTheorems, TLAPS

-----------------------------------------------------------------------------
(* Sets of naturals. *)

\* A set of naturals has a smallest member.
LEMMA LeastIsMember ==
    ASSUME NEW S \in SUBSET Nat, S # {}
    PROVE  Min(S) \in S /\ \A y \in S : Min(S) <= y
<1> DEFINE R == {ss \in Nat \X Nat : ss[1] < ss[2]}
<1>1. IsWellFoundedOn(R, Nat)
  BY NatLessThanWellFounded, Zenon DEF OpToRel
<1>2. PICK x \in S : \A y \in S : ~ (<<y, x>> \in R)
  <2> HIDE DEF R
  <2> QED BY <1>1, WFMin
<1>3. ASSUME NEW y \in S PROVE x <= y
  <2>1. ~ (<<y, x>> \in R)
    BY <1>2
  <2>2. <<y, x>>[1] = y /\ <<y, x>>[2] = x /\ <<y, x>> \in Nat \X Nat
    OBVIOUS
  <2> QED BY <2>1, <2>2
<1> QED BY <1>3 DEF Min

\* The larger of two numbers.
LEMMA LargerOfTwo ==
    ASSUME NEW a \in Int, NEW b \in Int
    PROVE  Max({a, b}) = IF a >= b THEN a ELSE b
<1>1. \E x \in {a, b} : \A y \in {a, b} : x >= y
  OBVIOUS
<1>2. Max({a, b}) \in {a, b} /\ \A y \in {a, b} : Max({a, b}) >= y
  BY <1>1 DEF Max
<1> QED BY <1>2

LEMMA SmallerOfTwo ==
    ASSUME NEW a \in Int, NEW b \in Int
    PROVE  Min({a, b}) = IF a <= b THEN a ELSE b
<1>1. \E x \in {a, b} : \A y \in {a, b} : x <= y
  OBVIOUS
<1>2. Min({a, b}) \in {a, b} /\ \A y \in {a, b} : Min({a, b}) <= y
  BY <1>1 DEF Min
<1> QED BY <1>2

\* The members of S under x are as many as its place in S says.
Under(S, x) == {y \in S : y < x}

LEMMA RankGrows ==
    ASSUME NEW S \in SUBSET Nat, IsFiniteSet(S), NEW x \in S
    PROVE  /\ IsFiniteSet(Under(S, x))
           /\ Cardinality(Under(S, x)) \in 0..(Cardinality(S) - 1)
           /\ \A y \in S : x < y => Cardinality(Under(S, x)) < Cardinality(Under(S, y))
<1>1. \A T \in SUBSET S : IsFiniteSet(T) /\ Cardinality(T) \in Nat /\ Cardinality(T) <= Cardinality(S)
  BY FS_Subset, FS_CardinalityType
<1>2. Cardinality(S) \in Nat
  BY FS_CardinalityType
<1>3. ASSUME NEW T \in SUBSET S, Under(S, x) \subseteq T, x \in T
      PROVE  Cardinality(Under(S, x)) < Cardinality(T)
  <2>1. x \notin Under(S, x)
    BY DEF Under
  <2>2. IsFiniteSet(T) /\ Cardinality(T) \in Nat /\ Under(S, x) \in SUBSET T
    BY <1>1, <1>3
  <2>3. Cardinality(Under(S, x)) <= Cardinality(T)
    BY <2>2, FS_Subset
  <2>4. Cardinality(Under(S, x)) # Cardinality(T)
    BY <2>1, <2>2, <1>3, FS_Subset
  <2>5. Cardinality(Under(S, x)) \in Nat
    BY <1>1 DEF Under
  <2> QED BY <2>2, <2>3, <2>4, <2>5
<1>4. Under(S, x) \in SUBSET S
  BY DEF Under
<1>5. Cardinality(Under(S, x)) < Cardinality(S)
  BY <1>3, <1>4
<1>6. ASSUME NEW y \in S, x < y PROVE Cardinality(Under(S, x)) < Cardinality(Under(S, y))
  <2>1. x \in Nat /\ y \in Nat /\ \A z \in S : z \in Nat
    OBVIOUS
  <2>2. \A z \in S : z < x => z < y
    BY <1>6, <2>1
  <2>3. Under(S, y) \in SUBSET S /\ Under(S, x) \subseteq Under(S, y) /\ x \in Under(S, y)
    BY <1>6, <2>2 DEF Under
  <2> QED BY <1>3, <2>3
<1> QED BY <1>1, <1>2, <1>4, <1>5, <1>6

\* Every place of a finite set is taken.
LEMMA RankIsTaken ==
    ASSUME NEW S \in SUBSET Nat, IsFiniteSet(S), NEW k \in 0..(Cardinality(S) - 1)
    PROVE  \E x \in S : Cardinality(Under(S, x)) = k
<1> DEFINE n == Cardinality(S)
           T == 0..(n - 1)
           rank == [x \in S |-> Cardinality(Under(S, x))]
<1>1. n \in Nat
  BY FS_CardinalityType
<1>2. IsFiniteSet(T) /\ Cardinality(T) = n
  BY <1>1, FS_Interval
<1>3. \A x \in S : rank[x] \in T
  BY RankGrows
<1>4. \A x, y \in S : rank[x] = rank[y] => x = y
  <2> SUFFICES ASSUME NEW x \in S, NEW y \in S, x # y PROVE rank[x] # rank[y]
    OBVIOUS
  <2>1. CASE x < y
    BY <2>1, <1>3, RankGrows
  <2>2. CASE y < x
    BY <2>2, <1>3, RankGrows
  <2> QED BY <2>1, <2>2
<1>5. rank \in Injection(S, T)
  BY <1>3, <1>4 DEF Injection, IsInjective
<1>6. rank \in Surjection(S, T)
  <2> HIDE DEF rank, T
  <2> QED BY <1>2, <1>5, FS_Injection
<1>7. \E x \in S : rank[x] = k
  BY <1>6 DEF Surjection
<1> QED BY <1>7

\* Ascending lists the members of a finite set, and only them.
LEMMA AscendingIsSeq ==
    ASSUME NEW S \in SUBSET Nat, IsFiniteSet(S)
    PROVE  Ascending(S) \in Seq(S) /\ Len(Ascending(S)) = Cardinality(S)
<1>1. Cardinality(S) \in Nat
  BY FS_CardinalityType
<1>2. ASSUME NEW i \in 1..Cardinality(S) PROVE Ascending(S)[i] \in S
  <2>1. i - 1 \in 0..(Cardinality(S) - 1)
    BY <1>1
  <2>2. \E x \in S : Cardinality({y \in S : y < x}) = i - 1
    BY <2>1, RankIsTaken DEF Under
  <2>3. Ascending(S)[i] = CHOOSE x \in S : Cardinality({y \in S : y < x}) = i - 1
    BY DEF Ascending
  <2> QED BY <2>2, <2>3
<1>3. Ascending(S) = [i \in 1..Cardinality(S) |-> Ascending(S)[i]]
  BY DEF Ascending
<1>4. Ascending(S) \in [1..Cardinality(S) -> S]
  BY <1>2, <1>3
<1> QED BY <1>1, <1>4

\* A finite set of naturals has a greatest member.
LEMMA GreatestIsMember ==
    ASSUME NEW S \in SUBSET Nat, IsFiniteSet(S), S # {}
    PROVE  Max(S) \in S
<1>1. Cardinality(S) \in Nat /\ Cardinality(S) # 0
  BY FS_CardinalityType, FS_EmptySet
<1>2. PICK x \in S : Cardinality(Under(S, x)) = Cardinality(S) - 1
  BY <1>1, RankIsTaken
<1>3. ASSUME NEW y \in S PROVE x >= y
  <2>1. ~ (x < y)
    BY <1>1, <1>2, RankGrows
  <2> QED BY <2>1
<1> QED BY <1>3 DEF Max

-----------------------------------------------------------------------------
(* The points that a search turns to. *)

LEMMA BinsAreNats ==
    /\ Bins \in SUBSET Nat /\ IsFiniteSet(Bins) /\ \A v \in Bins \cup {0} : v \in Nat
    /\ \A S \in SUBSET Bins : S \in SUBSET Nat /\ IsFiniteSet(S)
    /\ \A p \in Points : p.v \in Bins /\ p.v \in Nat /\ p.v > 0 /\ p.c \in Nat
<1>1. \A v \in Bins : v \in Nat /\ v > 0
  BY CurveAssumption
<1>2. \A p \in Points : p.v \in Bins /\ p.c \in Nat
  BY DEF Points
<1>3. IsFiniteSet(Bins) /\ \A S \in SUBSET Bins : IsFiniteSet(S)
  BY CurveAssumption, FS_Subset
<1>4. Bins \in SUBSET Nat /\ \A v \in Bins \cup {0} : v \in Nat
  BY <1>1
<1> QED BY <1>1, <1>2, <1>3, <1>4

LEMMA NextHigherIsBin == ASSUME NEW v PROVE NextHigher(v) \in Bins \cup {0}
<1>1. Higher(v) \in SUBSET Bins
  BY DEF Higher
<1> QED BY <1>1, BinsAreNats, LeastIsMember DEF NextHigher

LEMMA BinsAboveType == ASSUME NEW v \in Nat, NEW n PROVE BinsAbove(v, n) \in Nat
<1> DEFINE near == {b \in Higher(v) : Cardinality({a \in Higher(v) : a < b}) < n}
<1>1. near \in SUBSET Bins
  BY DEF Higher
<1>2. BinsAbove(v, n) = IF near = {} THEN v ELSE Max(near)
  BY DEF BinsAbove
<1> HIDE DEF near
<1>3. near # {} => Max(near) \in Nat
  BY <1>1, BinsAreNats, GreatestIsMember
<1> QED BY <1>2, <1>3

\* The next point of a descent lies on the curve, and lower.
LEMMA LoweredPoint ==
    ASSUME stable \in Points, NEW p \in Lowered
    PROVE  p \in Points /\ p.v < stable.v /\ p.v >= LowestVoltage
<1> DEFINE below == Lower(stable.v, LowestVoltage)
           stride == IF 10 * Max(below) >= 9 * Start.v THEN 3 ELSE 1
           near == {b \in below : Cardinality({a \in below : a > b}) < stride}
           v == NextLower(Start.v, stable.v, LowestVoltage)
<1>1. near \in SUBSET Bins /\ \A b \in near : b < stable.v /\ b >= LowestVoltage
  BY DEF Lower
<1>2. v = IF near = {} THEN 0 ELSE Min(near)
  BY DEF NextLower
<1>3. v # 0 /\ p = [v |-> v, c |-> stable.c]
  BY DEF Lowered
<1> HIDE DEF near, v
<1>4. v \in near
  BY <1>1, <1>2, <1>3, BinsAreNats, LeastIsMember
<1> QED BY <1>1, <1>3, <1>4, BinsAreNats DEF Points

LEMMA RoundedType == ASSUME NEW a \in Int, NEW b \in Nat \ {0} PROVE Rounded(a, b) \in Int
<1> DEFINE q == a \div b
<1>1. q \in Int
  OBVIOUS
<1>2. Rounded(a, b) = q \/ Rounded(a, b) = q + 1
  BY DEF Rounded
<1> QED BY <1>1, <1>2

\* A clock on the way is never below the one that the way starts from.
LEMMA BetweenBounds ==
    ASSUME NEW from \in Nat, NEW to \in Nat, from <= to, NEW i \in Nat, NEW n \in Nat \ {0}
    PROVE  Between(from, to, i, n) \in Nat /\ Between(from, to, i, n) >= from
<1> DEFINE asked == Rounded(n * from + (to - from) * i, n)
           stepped == ClockStep * Rounded(asked, ClockStep)
           low == Min({to, stepped})
<1>1. n * from + (to - from) * i \in Int
  OBVIOUS
<1>2. asked \in Int
  BY <1>1, RoundedType
<1> HIDE DEF asked
<1>3. Rounded(asked, ClockStep) \in Int /\ ClockStep \in Int
  BY <1>2, RoundedType, CurveAssumption
<1>4. stepped \in Int
  BY <1>3
<1>5. Between(from, to, i, n) = IF asked >= to THEN to ELSE Max({from, low})
  BY DEF Between, BoundedClock, asked
<1> HIDE DEF stepped
<1>6. low \in Int
  BY <1>4, SmallerOfTwo
<1> HIDE DEF low
<1>7. Max({from, low}) = IF from >= low THEN from ELSE low
  BY <1>6, LargerOfTwo
<1> QED BY <1>5, <1>6, <1>7

\* Some bin is the nearest: least distance first, then least voltage.
LEMMA NearestBinBounds ==
    ASSUME NEW from \in Bins, NEW to \in Nat, from <= to, NEW i \in Nat, NEW n \in Nat
    PROVE  NearestBin(from, to, i, n) \in Bins /\ NearestBin(from, to, i, n) >= from
<1> DEFINE far(b) == Distance(n * b, n * from + (to - from) * i)
           bins == {b \in Bins : from <= b /\ b <= to}
           fars == {far(b) : b \in bins}
           nearest == {b \in bins : far(b) = Min(fars)}
<1>1. from \in bins /\ \A b \in bins : b \in Nat
  BY BinsAreNats
<1>2. \A b \in bins : far(b) \in Nat
  <2> SUFFICES ASSUME NEW b \in bins PROVE far(b) \in Nat
    OBVIOUS
  <2> DEFINE x == n * b
             y == n * from + (to - from) * i
  <2>1. b \in Nat /\ from \in Nat
    BY <1>1
  <2>2. x \in Int /\ y \in Int
    BY <2>1
  <2> HIDE DEF x, y
  <2>3. Distance(x, y) \in Nat
    BY <2>2 DEF Distance
  <2> QED BY <2>3 DEF x, y
<1> HIDE DEF far
<1>3. fars \in SUBSET Nat /\ fars # {}
  BY <1>1, <1>2
<1>4. Min(fars) \in fars /\ \A d \in fars : Min(fars) <= d
  BY <1>3, LeastIsMember
<1>5. nearest \in SUBSET Nat /\ nearest # {} /\ nearest \subseteq bins
  BY <1>1, <1>4
<1>6. PICK b \in nearest : \A a \in nearest : b <= a
  <2> HIDE DEF nearest
  <2> QED BY <1>5, LeastIsMember
<1>7. ASSUME NEW a \in bins PROVE far(b) < far(a) \/ (far(b) = far(a) /\ b <= a)
  <2>1. far(b) \in Nat /\ far(a) \in Nat /\ far(b) <= far(a)
    BY <1>2, <1>4, <1>5
  <2>2. far(b) = far(a) => a \in nearest
    BY <1>5
  <2> QED BY <1>6, <2>1, <2>2
<1>8. \E x \in bins : \A a \in bins : far(x) < far(a) \/ (far(x) = far(a) /\ x <= a)
  BY <1>5, <1>7
<1>9. NearestBin(from, to, i, n) = CHOOSE x \in bins :
          \A a \in bins : far(x) < far(a) \/ (far(x) = far(a) /\ x <= a)
  BY DEF NearestBin, far
<1>10. NearestBin(from, to, i, n) \in bins
  <2> HIDE DEF bins
  <2> QED BY <1>8, <1>9
<1> QED BY <1>10

LEMMA SomeOfInterval ==
    ASSUME NEW n \in Nat, NEW S \in SUBSET (1..n)
    PROVE  S \in SUBSET Nat /\ IsFiniteSet(S)
<1>1. IsFiniteSet(1..n) /\ 1..n \in SUBSET Nat
  BY FS_Interval
<1> QED BY <1>1, FS_Subset

\* The rungs of a ladder lie on the curve, none of them lower than its start.
LEMMA LadderRises ==
    ASSUME NEW start \in Points, NEW to \in [v : Nat, c : Nat], NEW n \in Nat
    PROVE  /\ Ladder(start, to, n) \in Seq(Points)
           /\ \A k \in 1..Len(Ladder(start, to, n)) : Ladder(start, to, n)[k].v >= start.v
<1>0. start.v \in Bins /\ start.v \in Nat /\ start.c \in Nat /\ to.v \in Nat /\ to.c \in Nat
  BY BinsAreNats
<1>1. CASE start.v > to.v \/ start.c > to.c \/ start = to \/ n = 0
  BY <1>1 DEF Ladder
<1>2. CASE /\ start.v = to.v /\ n # 0 /\ Ladder(start, to, n) = ClockLadder(start, to, n)
           /\ start.c <= to.c
  <2> DEFINE clocks == {Between(start.c, to.c, i, n) : i \in 1..n} \ 1..start.c
             rungs == Ascending(clocks)
  <2>1. clocks \in SUBSET Nat /\ IsFiniteSet(clocks)
    <3> DEFINE ways == {Between(start.c, to.c, i, n) : i \in 1..n}
               way == [i \in 1..n |-> Between(start.c, to.c, i, n)]
    <3>1. way \in Surjection(1..n, ways)
      BY DEF Surjection
    <3>2. IsFiniteSet(1..n)
      BY FS_Interval
    <3>3. IsFiniteSet(ways)
      <4> HIDE DEF way, ways
      <4> QED BY <3>1, <3>2, FS_Surjection
    <3>4. \A i \in 1..n : Between(start.c, to.c, i, n) \in Nat
      <4>1. n \in Nat \ {0} /\ \A i \in 1..n : i \in Nat
        BY <1>2
      <4> QED BY <1>0, <1>2, <4>1, BetweenBounds
    <3>5. clocks \in SUBSET ways
      OBVIOUS
    <3> HIDE DEF clocks
    <3> QED BY <3>3, <3>4, <3>5, FS_Subset
  <2> HIDE DEF clocks
  <2>2. rungs \in Seq(clocks) /\ Len(rungs) = Cardinality(clocks)
    BY <2>1, AscendingIsSeq
  <2>3. Cardinality(clocks) \in Nat
    BY <2>1, FS_CardinalityType
  <2>4. \A i \in 1..Cardinality(clocks) : rungs[i] \in Nat
    BY <2>1, <2>2, <2>3, ElementOfSeq
  <2> HIDE DEF rungs
  <2> DEFINE ladder == [i \in 1..Cardinality(clocks) |-> [v |-> start.v, c |-> rungs[i]]]
  <2>5. Ladder(start, to, n) = ladder
    BY <1>2 DEF ClockLadder, clocks, rungs
  <2>6. ladder \in [1..Cardinality(clocks) -> Points] /\ \A i \in 1..Cardinality(clocks) : ladder[i].v = start.v
    BY <2>4, <1>0 DEF Points
  <2>7. ladder \in Seq(Points) /\ Len(ladder) = Cardinality(clocks)
    <3> HIDE DEF ladder
    <3> QED BY <2>3, <2>6
  <2> HIDE DEF ladder
  <2> QED BY <1>0, <2>5, <2>6, <2>7
<1>3. CASE /\ start.v < to.v /\ n # 0 /\ Ladder(start, to, n) = VoltageLadder(start, to, n)
           /\ start.c <= to.c
  <2> DEFINE at(i) == [v |-> NearestBin(start.v, to.v, i, n), c |-> Between(start.c, to.c, i, n)]
             first == {i \in 1..n : at(i).v > start.v /\ \A j \in 1..(i - 1) : at(j).v # at(i).v}
             places == Ascending(first)
             m == Cardinality(first)
             rung(i) == IF at(i).v = at(n).v THEN at(n) ELSE at(i)
             ladder == [k \in 1..m |-> rung(places[k])]
  <2>1. \A i \in 1..n : at(i) \in Points /\ at(i).v >= start.v
    <3> SUFFICES ASSUME NEW i \in 1..n PROVE at(i) \in Points /\ at(i).v >= start.v
      OBVIOUS
    <3>0. i \in Nat /\ n \in Nat \ {0} /\ start.v <= to.v
      BY <1>0, <1>3
    <3>1. NearestBin(start.v, to.v, i, n) \in Bins /\ NearestBin(start.v, to.v, i, n) >= start.v
      BY <1>0, <3>0, NearestBinBounds
    <3>2. Between(start.c, to.c, i, n) \in Nat
      BY <1>0, <1>3, <3>0, BetweenBounds
    <3> QED BY <3>1, <3>2 DEF Points
  <2>2. first \in SUBSET (1..n)
    OBVIOUS
  <2>3. Ladder(start, to, n) = ladder
    BY <1>3 DEF VoltageLadder
  <2> HIDE DEF at, first
  <2>4. m \in Nat /\ places \in Seq(first) /\ Len(places) = m
    BY <2>2, SomeOfInterval, AscendingIsSeq, FS_CardinalityType
  <2> HIDE DEF m, places
  <2>5. \A k \in 1..m : places[k] \in 1..n
    BY <2>2, <2>4, ElementOfSeq
  <2>6. n \in 1..n
    BY <1>3
  <2>7. \A k \in 1..m : rung(places[k]) \in Points /\ rung(places[k]).v >= start.v
    BY <2>1, <2>5, <2>6
  <2> HIDE DEF rung
  <2>8. ladder \in [1..m -> Points] /\ \A k \in 1..m : ladder[k].v >= start.v
    BY <2>7
  <2>9. ladder \in Seq(Points) /\ Len(ladder) = m
    <3> HIDE DEF ladder
    <3> QED BY <2>4, <2>8
  <2> HIDE DEF ladder
  <2> QED BY <2>3, <2>8, <2>9
<1>4. CASE ~(start.v > to.v \/ start.c > to.c \/ start = to \/ n = 0)
  BY <1>0, <1>2, <1>3, <1>4 DEF Ladder
<1> QED BY <1>1, <1>4

\* So do the voltages of a retry, above the one that failed.
LEMMA RetriesRise ==
    ASSUME NEW v \in Nat, NEW cap
    PROVE  /\ RetryVoltages(v, cap) \in Seq(Bins)
           /\ \A k \in 1..Len(RetryVoltages(v, cap)) : RetryVoltages(v, cap)[k] > v
<1> DEFINE open == {b \in Bins : v < b /\ b <= cap}
<1>1. open \in SUBSET Nat /\ IsFiniteSet(open) /\ open \subseteq Bins /\ \A b \in open : b > v
  BY BinsAreNats
<1>2. RetryVoltages(v, cap) = Ascending(open)
  BY DEF RetryVoltages
<1> HIDE DEF open
<1>3. RetryVoltages(v, cap) \in Seq(open)
  BY <1>1, <1>2, AscendingIsSeq
<1>4. \A k \in 1..Len(RetryVoltages(v, cap)) : RetryVoltages(v, cap)[k] \in open
  BY <1>3, ElementOfSeq
<1>5. RetryVoltages(v, cap) \in Seq(Bins)
  BY <1>1, <1>3, SeqMonotonic
<1> QED BY <1>1, <1>4, <1>5

-----------------------------------------------------------------------------
(***************************************************************************)
(* The inductive invariant, beside the types.                              *)
(***************************************************************************)

\* What the search holds is there when it is taken.
ShapeInv ==
    /\ pc \in {"descend", "climb"} => climb = NoClimb /\ runoff = <<>>
    /\ pc \in {"rung", "retry"} => climb.rung > 0
    /\ pc = "retry" => climb.rung <= Len(climb.ladder) /\ climb.retries # <<>>
    /\ pc \in {"rung", "retry", "backoff"} => climb.ladder # <<>>
    /\ pc = "compare" => runoff # <<>>

Before == {"descend", "climb", "rung", "retry", "backoff", "settle", "choose", "compare", "dialog"}

\* What the GPU has passed in this search, the measured baseline included.
Proven == {Start} \cup {log[i].at : i \in {j \in 1..Len(log) : log[j].sev = "pass"}}

\* Every point from which the search may choose was passed.
ProvenInv ==
    /\ tested \cup climb.passed \cup climb.done \cup {chosen} \subseteq Proven
    /\ \A i \in 1..Len(passes) : passes[i] \in Proven
    /\ \A i \in 1..Len(runoff) : runoff[i] \in Proven

\* While the climb may still go up, nothing was unsafe; it steps back once.
EdgeInv ==
    /\ pc \in {"descend", "climb"} => \A i \in 1..Len(log) : log[i].for \notin {"climb", "backoff"}
    /\ pc \in {"rung", "retry"} =>
          \A i \in 1..Len(log) : log[i].for \in {"climb", "backoff"} =>
              log[i].for = "climb" /\ log[i].sev # "unsafe"
    /\ pc = "backoff" => \A i \in 1..Len(log) : log[i].for # "backoff"

\* What was soaked and did not pass was rejected, and what is soaked next
\* is not, at a clock no higher.
RetreatInv ==
    /\ pc \in Before => failed = {} /\ \A i \in 1..Len(log) : log[i].for # "soak"
    /\ pc = "soak" =>
          /\ chosen \notin failed
          /\ \A i \in 1..Len(log) : log[i].for = "soak" =>
                log[i].at \in failed /\ chosen.c <= log[i].at.c

\* The descent passed everywhere, and the floor last.
AtFloor ==
    /\ Len(passes) >= 2
    /\ \A i \in 1..Len(log) : log[i].for = "descent" => log[i].sev = "pass"
    /\ wall = [streak |-> 0, pending |-> FALSE]
    /\ passes[Len(passes)].v = Floor

\* A descent goes down, so that its last pass is the only one at its voltage;
\* after it, nothing that may still be chosen or climbed from is at the floor.
FloorInv ==
    /\ pc = "descend" =>
          /\ \A p \in tested : p = stable \/ p.v > stable.v
          /\ \A i, j \in 1..Len(passes) : i < j => passes[i].v > passes[j].v
          /\ passes # <<>> => /\ stable = passes[Len(passes)]
                              /\ wall = [streak |-> 0, pending |-> FALSE] => chosen = stable
    /\ pc # "descend" /\ AtFloor =>
          /\ \A p \in tested \cup climb.passed \cup climb.done \cup {chosen} : p.v > Floor
          /\ \A i \in 1..Len(climb.ladder) : climb.ladder[i].v > Floor
          /\ \A i \in 1..Len(climb.retries) : climb.retries[i] > Floor
          /\ \A i \in 1..Len(runoff) : runoff[i].v > Floor
    /\ AtFloor => \A i \in 1..Len(log) : log[i].for = "soak" => log[i].at.v > Floor

-----------------------------------------------------------------------------
(* Types. *)

LEMMA VerdictTypes ==
    ASSUME NEW verdict \in Verdicts
    PROVE  /\ verdict.sev \in {"pass", "recoverable", "unsafe", "critical"}
           /\ verdict.why \in {"", "fault", "freeze"}
<1>1. \/ verdict = [sev |-> "pass", why |-> ""] \/ verdict = [sev |-> "critical", why |-> ""]
      \/ verdict \in [sev : {"recoverable"}, why : {"", "fault"}]
      \/ verdict \in [sev : {"unsafe"}, why : {"fault", "freeze"}]
  BY Zenon DEF Verdicts
<1>2. CASE verdict = [sev |-> "pass", why |-> ""]
  BY <1>2
<1>3. CASE verdict = [sev |-> "critical", why |-> ""]
  BY <1>3
<1>4. CASE verdict \in [sev : {"recoverable"}, why : {"", "fault"}]
  BY <1>4
<1>5. CASE verdict \in [sev : {"unsafe"}, why : {"fault", "freeze"}]
  BY <1>5
<1> QED BY <1>1, <1>2, <1>3, <1>4, <1>5

LEMMA PassIsVerdict == [sev |-> "pass", why |-> ""] \in Verdicts
BY DEF Verdicts

\* The band that an entry closes begins at or below its own clock.
LEMMA BandFloorType == ASSUME NEW c \in Nat PROVE BandFloor(c) \in Nat
<1> DEFINE below == {Curve[b] : b \in Bins} \cap (1..(c - 1))
           near  == {k \in below : Cardinality({j \in below : j > k}) < 2}
<1>1. near \cup {c} \in SUBSET Nat /\ near \cup {c} # {}
  OBVIOUS
<1> HIDE DEF near
<1>2. Min(near \cup {c}) \in near \cup {c}
  BY <1>1, LeastIsMember
<1>3. BandFloor(c) = Min(near \cup {c})
  BY DEF BandFloor, near
<1> QED BY <1>1, <1>2, <1>3

\* A probe on the GPU is logged after the others, and its failure recorded.
LEMMA OnGpuLogs ==
    ASSUME TypeOK, NEW p \in Points, NEW verdict \in Verdicts,
           NEW purpose \in {"descent", "climb", "backoff", "compare", "soak"},
           OnGpu(p, purpose, verdict)
    PROVE  /\ log' \in Seq(Runs) /\ file' \in SUBSET Entries
           /\ Len(log) \in Nat /\ Len(log') = Len(log) + 1
           /\ \A i \in 1..Len(log) : log'[i] = log[i]
           /\ log'[Len(log) + 1] = [at |-> p, for |-> purpose, sev |-> verdict.sev]
<1> DEFINE run == [at |-> p, for |-> purpose, sev |-> verdict.sev]
           entry == [v |-> p.v, c |-> p.c, floor |-> BandFloor(p.c), tier |-> "", why |-> verdict.why]
<1>1. run \in Runs
  BY VerdictTypes DEF Runs
<1>2. log \in Seq(Runs) /\ log' = Append(log, run)
  BY DEF TypeOK, OnGpu
<1>3. file' \in SUBSET Entries
  <2>1. CASE verdict.why = ""
    BY <2>1 DEF OnGpu, Recorded, TypeOK
  <2>2. CASE verdict.why # ""
    <3>1. entry \in Entries
      BY <2>2, VerdictTypes, BinsAreNats, BandFloorType DEF Entries, Reasons
    <3>2. file' = {e \in file : e.why # "controlled"} \cup {entry}
      BY <2>2 DEF OnGpu, Recorded, RecordUnsafe
    <3> QED BY <3>1, <3>2 DEF TypeOK
  <2> QED BY <2>1, <2>2
<1> HIDE DEF run
<1>4. /\ log' \in Seq(Runs) /\ Len(log) \in Nat /\ Len(log') = Len(log) + 1
      /\ \A i \in 1..Len(log) : log'[i] = log[i]
      /\ log'[Len(log) + 1] = run
  BY <1>1, <1>2, AppendProperties
<1> QED BY <1>3, <1>4 DEF run

LEMMA MarkedType ==
    ASSUME TypeOK, NEW p \in Points, NEW verdict \in Verdicts
    PROVE  Marked(p, verdict) \in SUBSET Entries
<1> DEFINE entry == [v |-> p.v, c |-> p.c, floor |-> p.c, tier |-> "", why |-> verdict.why]
<1>1. CASE verdict.why # ""
  <2>1. entry \in Entries
    BY <1>1, VerdictTypes, BinsAreNats DEF Entries, Reasons
  <2> QED BY <1>1, <2>1 DEF Marked, TypeOK
<1> QED BY <1>1 DEF Marked, TypeOK

\* A rung that the climb may take, at no less than the voltage of its ladder.
LEMMA RungPoint ==
    ASSUME TypeOK, climb.rung \in 1..Len(climb.ladder)
    PROVE  Rung \in Points /\ Rung.v >= climb.ladder[climb.rung].v
<1> DEFINE step == climb.ladder[climb.rung]
<1>1. climb.ladder \in Seq(Points) /\ climb.raised \in Bins \cup {0}
  BY DEF TypeOK, Climbs
<1>2. step \in Points
  BY <1>1, ElementOfSeq
<1>3. Rung = [step EXCEPT !.v = Max({step.v, climb.raised})]
  BY DEF Rung
<1> HIDE DEF step
<1>4. step.v \in Nat /\ climb.raised \in Nat /\ step.v \in Bins /\ step.c \in Nat
  <2>1. climb.raised \in Nat
    BY <1>1, BinsAreNats
  <2> QED BY <1>2, <2>1, BinsAreNats
<1> DEFINE v == Max({step.v, climb.raised})
<1>5. v = IF step.v >= climb.raised THEN step.v ELSE climb.raised
  BY <1>4, LargerOfTwo
<1> HIDE DEF v
<1>6. v \in Bins /\ v >= step.v
  BY <1>1, <1>4, <1>5, BinsAreNats
<1>7. Rung = [step EXCEPT !.v = v]
  BY <1>3 DEF v
<1> QED BY <1>2, <1>6, <1>7 DEF Points, step

\* The climb turns to points of the curve, over any voltage that its ladder
\* and its retries are over.
LEMMA TurnedPoint ==
    ASSUME TypeOK, ShapeInv, NEW p \in Turned
    PROVE  /\ pc \in {"rung", "retry", "backoff"} /\ p \in Points
           /\ pc = "rung" => climb.rung <= Len(climb.ladder)
           /\ \A floor \in Nat :
                 /\ \A i \in 1..Len(climb.ladder) : climb.ladder[i].v > floor
                 /\ \A i \in 1..Len(climb.retries) : climb.retries[i] > floor
                 => p.v > floor
<1>1. climb.ladder \in Seq(Points) /\ climb.retries \in Seq(Bins) /\ climb.rung \in Nat
  BY DEF TypeOK, Climbs
<1>2. Len(climb.ladder) \in Nat /\ \A i \in 1..Len(climb.ladder) :
          climb.ladder[i] \in Points /\ climb.ladder[i].v \in Nat
  BY <1>1, ElementOfSeq, BinsAreNats
<1>3. CASE pc = "rung" /\ climb.rung <= Len(climb.ladder)
  <2>1. climb.rung \in 1..Len(climb.ladder)
    BY <1>1, <1>2, <1>3 DEF ShapeInv
  <2>2. p = Rung
    BY <1>3 DEF Turned
  <2>3. Rung \in Points /\ Rung.v >= climb.ladder[climb.rung].v /\ Rung.v \in Nat
    BY <2>1, RungPoint, BinsAreNats
  <2> QED BY <1>2, <1>3, <2>1, <2>2, <2>3
<1>4. CASE pc = "retry"
  <2>1. climb.rung \in 1..Len(climb.ladder) /\ climb.retries # <<>>
    BY <1>1, <1>2, <1>4 DEF ShapeInv
  <2>2. p = [v |-> Head(climb.retries), c |-> Rung.c]
    BY <1>4 DEF Turned
  <2>3. Rung.c \in Nat
    BY <2>1, RungPoint, BinsAreNats
  <2>4. Head(climb.retries) = climb.retries[1] /\ 1 \in 1..Len(climb.retries)
    BY <1>1, <2>1
  <2>5. climb.retries[1] \in Bins
    BY <1>1, <2>4, ElementOfSeq
  <2> QED BY <1>4, <2>2, <2>3, <2>4, <2>5 DEF Points
<1>5. CASE pc = "backoff"
  <2>1. Len(climb.ladder) \in 1..Len(climb.ladder)
    BY <1>1, <1>2, <1>5 DEF ShapeInv
  <2>2. p = [v |-> climb.ladder[Len(climb.ladder)].v, c |-> chosen.c]
    BY <1>5 DEF Turned, Last
  <2>3. p \in Points
    BY <1>2, <2>1, <2>2, BinsAreNats DEF TypeOK, Points
  <2> QED BY <1>5, <2>1, <2>2, <2>3
<1>6. CASE pc \notin {"retry", "backoff"} /\ ~(pc = "rung" /\ climb.rung <= Len(climb.ladder))
  BY <1>6 DEF Turned
<1> QED BY <1>3, <1>4, <1>5, <1>6

LEMMA ClimbLadderRises ==
    ASSUME TypeOK
    PROVE  /\ ClimbLadder \in Seq(Points) /\ Endpoint.v \in Nat
           /\ \A k \in 1..Len(ClimbLadder) : ClimbLadder[k].v >= chosen.v
<1>1. chosen \in Points /\ chosen.v \in Nat /\ Target \in [v : Nat, c : Nat] /\ Steps \in Nat
  BY BinsAreNats, SearchAssumption DEF TypeOK
<1>2. Endpoint \in [v : Nat, c : Nat]
  BY <1>1 DEF Endpoint
<1> QED BY <1>1, <1>2, LadderRises DEF ClimbLadder

LEMMA NoClimbType == NoClimb \in Climbs
BY BinsAreNats DEF NoClimb, Climbs

-----------------------------------------------------------------------------
(* Every step keeps the types, and has what it takes. *)

\* Climbs, one field at a time.
LEMMA ClimbFields ==
    ASSUME climb \in Climbs
    PROVE  /\ climb.ladder \in Seq(Points) /\ climb.retries \in Seq(Bins)
           /\ climb.rung \in Nat /\ climb.closed \in Nat /\ climb.raised \in Bins \cup {0}
           /\ climb.passed \in SUBSET Points /\ climb.done \in SUBSET Points
           /\ climb.tried \in SUBSET Points /\ climb.cached \in BOOLEAN
           /\ Len(climb.ladder) \in Nat /\ Len(climb.retries) \in Nat
<1>1. climb.ladder \in Seq(Points) /\ climb.retries \in Seq(Bins)
  BY DEF Climbs
<1>2. climb.rung \in Nat /\ climb.closed \in Nat /\ climb.raised \in Bins \cup {0}
  BY DEF Climbs
<1>3. /\ climb.passed \in SUBSET Points /\ climb.done \in SUBSET Points
      /\ climb.tried \in SUBSET Points /\ climb.cached \in BOOLEAN
  BY DEF Climbs
<1> QED BY <1>1, <1>2, <1>3

\* What a climb does when a point was not passed.
LEMMA NextVoltageSteps ==
    ASSUME TypeOK, ShapeInv, NEW p \in Turned, NEW closed \in BOOLEAN, pc # "backoff",
           NextVoltage(p, closed)
    PROVE  /\ climb' \in Climbs
           /\ climb'.ladder = climb.ladder /\ climb'.rung > 0
           /\ climb'.passed = climb.passed /\ climb'.done = climb.done
           /\ pc' \in {"rung", "retry", "backoff", "settle"}
           /\ pc' = "retry" => climb'.retries # <<>> /\ climb'.rung <= Len(climb.ladder)
           /\ \A floor \in Nat :
                 /\ \A i \in 1..Len(climb.ladder) : climb.ladder[i].v > floor
                 /\ \A i \in 1..Len(climb.retries) : climb.retries[i] > floor
                 => \A i \in 1..Len(climb'.retries) : climb'.retries[i] > floor
<1> DEFINE rest   == IF pc = "rung" THEN RetryVoltages(p.v, climb.cap) ELSE Tail(climb.retries)
           cached == IF pc = "rung" THEN closed ELSE climb.cached
           rung   == IF rest = <<>> THEN climb.rung + 1 ELSE climb.rung
           top    == IF pc = "retry" /\ closed THEN climb.closed ELSE Max({climb.closed, p.v})
<1>1. p \in Points /\ pc \in {"rung", "retry"} /\ (pc = "rung" => climb.rung <= Len(climb.ladder))
  BY TurnedPoint
<1>2. climb \in Climbs
  BY DEF TypeOK
<1>3. climb.rung \in Nat /\ climb.rung > 0 /\ climb.rung <= Len(climb.ladder)
  BY <1>1, <1>2, ClimbFields DEF ShapeInv
<1>4. rest \in Seq(Bins) /\ \A floor \in Nat :
          /\ \A i \in 1..Len(climb.ladder) : climb.ladder[i].v > floor
          /\ \A i \in 1..Len(climb.retries) : climb.retries[i] > floor
          => \A i \in 1..Len(rest) : rest[i] > floor
  <2>1. CASE pc = "rung"
    <3> DEFINE up == RetryVoltages(p.v, climb.cap)
    <3>1. p.v \in Nat
      BY <1>1, BinsAreNats
    <3>2. up \in Seq(Bins) /\ \A i \in 1..Len(up) : up[i] > p.v
      BY <3>1, RetriesRise
    <3>3. \A i \in 1..Len(up) : up[i] \in Nat
      BY <3>2, ElementOfSeq, BinsAreNats
    <3> HIDE DEF up
    <3>4. ASSUME NEW floor \in Nat, p.v > floor, NEW i \in 1..Len(up) PROVE up[i] > floor
      BY <3>1, <3>2, <3>3, <3>4
    <3>5. rest = up
      BY <2>1 DEF up
    <3> HIDE DEF rest
    <3> QED BY <3>2, <3>4, <3>5, TurnedPoint
  <2>2. CASE pc = "retry"
    <3>1. climb.retries \in Seq(Bins) /\ climb.retries # <<>>
      BY <1>2, <2>2, ClimbFields DEF ShapeInv
    <3>2. /\ Tail(climb.retries) \in Seq(Bins) /\ Len(climb.retries) \in Nat \ {0}
          /\ Len(Tail(climb.retries)) = Len(climb.retries) - 1
          /\ \A i \in 1..Len(Tail(climb.retries)) : Tail(climb.retries)[i] = climb.retries[i + 1]
      BY <3>1, HeadTailProperties
    <3>3. rest = Tail(climb.retries)
      BY <2>2
    <3> HIDE DEF rest
    <3> QED BY <3>2, <3>3
  <2> QED BY <1>1, <2>1, <2>2
<1>5. cached \in BOOLEAN
  BY <1>2, ClimbFields
<1>6. top \in Nat
  <2>1. climb.closed \in Nat /\ p.v \in Nat
    BY <1>1, <1>2, ClimbFields, BinsAreNats
  <2>2. Max({climb.closed, p.v}) \in Nat
    BY <2>1, LargerOfTwo
  <2> QED BY <2>1, <2>2
<1>7. climb' = [climb EXCEPT !.tried = climb.tried \cup {p}, !.retries = rest, !.cached = cached,
                             !.rung = rung, !.closed = top]
  BY DEF NextVoltage
<1>8. /\ rest # <<>> => pc' = "retry"
      /\ rest = <<>> => pc' \in {"rung", "backoff", "settle"}
  BY DEF NextVoltage, BacksOff
<1>9. rung \in Nat /\ rung > 0 /\ (rest # <<>> => rung <= Len(climb.ladder))
  BY <1>3
<1>10. climb.tried \cup {p} \in SUBSET Points
  BY <1>1, <1>2, ClimbFields
<1> HIDE DEF rest, cached, rung, top
<1>11. climb' \in Climbs
  BY <1>2, <1>4, <1>5, <1>6, <1>7, <1>9, <1>10 DEF Climbs
<1>12. /\ climb'.ladder = climb.ladder /\ climb'.passed = climb.passed /\ climb'.done = climb.done
       /\ climb'.retries = rest /\ climb'.rung = rung
  BY <1>2, <1>7 DEF Climbs
<1> QED BY <1>4, <1>8, <1>9, <1>11, <1>12

\* What a climb does when a point was passed.
LEMMA ClimbPassesSteps ==
    ASSUME TypeOK, ShapeInv, NEW p \in Turned, NEW better \in BOOLEAN, NEW walled \in BOOLEAN,
           ClimbPasses(p, better, walled)
    PROVE  /\ climb' \in Climbs
           /\ climb'.ladder = climb.ladder /\ climb'.rung > 0 /\ climb'.retries = <<>>
           /\ climb'.passed \subseteq climb.passed \cup {p} /\ climb'.done = climb.done \cup {p}
           /\ chosen' \in {chosen, p}
           /\ pc' \in {"rung", "settle"}
<1> DEFINE passed == IF walled THEN climb.passed ELSE climb.passed \cup {p}
           raised == IF pc = "retry" THEN Max({climb.raised, p.v}) ELSE climb.raised
<1>1. p \in Points /\ climb \in Climbs /\ p.v \in Nat /\ p.v \in Bins
  BY TurnedPoint, BinsAreNats DEF TypeOK
<1>2. climb.raised \in Bins \cup {0} /\ climb.raised \in Nat
  BY <1>1, ClimbFields, BinsAreNats
<1>3. raised \in Bins \cup {0}
  <2>1. Max({climb.raised, p.v}) \in {climb.raised, p.v}
    BY <1>1, <1>2, LargerOfTwo
  <2> QED BY <1>1, <1>2, <2>1
<1>4. passed \in SUBSET Points /\ climb.done \cup {p} \in SUBSET Points
      /\ climb.tried \cup {p} \in SUBSET Points
  BY <1>1, ClimbFields
<1>5. climb.rung + 1 \in Nat /\ climb.rung + 1 > 0 /\ <<>> \in Seq(Bins)
  BY <1>1, ClimbFields
<1>6. climb' = [climb EXCEPT !.tried = climb.tried \cup {p}, !.done = climb.done \cup {p},
                             !.retries = <<>>, !.rung = climb.rung + 1, !.passed = passed,
                             !.raised = raised]
  BY DEF ClimbPasses
<1>7. passed \subseteq climb.passed \cup {p}
  OBVIOUS
<1> HIDE DEF passed, raised
<1>8. climb' \in Climbs
  BY <1>1, <1>3, <1>4, <1>5, <1>6 DEF Climbs
<1>9. /\ climb'.ladder = climb.ladder /\ climb'.rung = climb.rung + 1 /\ climb'.retries = <<>>
      /\ climb'.passed = passed /\ climb'.done = climb.done \cup {p}
  BY <1>1, <1>6 DEF Climbs
<1>10. chosen' \in {chosen, p} /\ pc' \in {"rung", "settle"}
  BY DEF ClimbPasses
<1> QED BY <1>5, <1>7, <1>8, <1>9, <1>10

\* What a climb does when a point failed.
LEMMA ClimbFailsSteps ==
    ASSUME TypeOK, ShapeInv, NEW p \in Turned, NEW verdict \in Verdicts, ClimbFails(p, verdict)
    PROVE  /\ climb' \in Climbs
           /\ climb'.ladder = climb.ladder
           /\ climb'.passed = climb.passed /\ climb'.done = climb.done
           /\ pc' \in {"rung", "retry", "backoff", "settle", "error"}
           /\ pc' \in {"rung", "retry"} => climb'.rung > 0 /\ verdict.sev = "recoverable"
           /\ pc' = "retry" => climb'.retries # <<>> /\ climb'.rung <= Len(climb.ladder)
           /\ pc = "backoff" => pc' \in {"settle", "error"}
           /\ \A floor \in Nat :
                 /\ \A i \in 1..Len(climb.ladder) : climb.ladder[i].v > floor
                 /\ \A i \in 1..Len(climb.retries) : climb.retries[i] > floor
                 => \A i \in 1..Len(climb'.retries) : climb'.retries[i] > floor
<1>0. p \in Points /\ climb \in Climbs /\ pc \in {"rung", "retry", "backoff"}
  BY TurnedPoint DEF TypeOK
<1>1. CASE verdict.sev = "critical" \/ pc = "backoff"
  BY <1>0, <1>1 DEF ClimbFails
<1>2. CASE verdict.sev = "unsafe" /\ pc # "backoff"
  <2>1. climb' = [climb EXCEPT !.tried = climb.tried \cup {p}, !.retries = <<>>]
    BY <1>2 DEF ClimbFails
  <2>2. climb.tried \cup {p} \in SUBSET Points /\ <<>> \in Seq(Bins)
    BY <1>0, ClimbFields
  <2>3. climb' \in Climbs
    BY <1>0, <2>1, <2>2 DEF Climbs
  <2>4. /\ climb'.ladder = climb.ladder /\ climb'.passed = climb.passed /\ climb'.done = climb.done
        /\ climb'.retries = <<>>
    BY <1>0, <2>1 DEF Climbs
  <2>5. pc' \in {"backoff", "settle"}
    BY <1>2 DEF ClimbFails, BacksOff
  <2> QED BY <1>2, <2>3, <2>4, <2>5
<1>3. CASE verdict.sev \notin {"critical", "unsafe"} /\ pc # "backoff"
  <2>1. NextVoltage(p, FALSE) /\ verdict.sev = "recoverable"
    BY <1>3, VerdictTypes DEF ClimbFails
  <2> QED BY <1>3, <2>1, NextVoltageSteps
<1> QED BY <1>1, <1>2, <1>3

\* What a descent does when a point was passed: it is the choice unless a
\* streak of passes without gain has begun.
LEMMA DescentPassesSteps ==
    ASSUME TypeOK, NEW p \in Lowered, NEW gain \in BOOLEAN, NEW noWorse \in BOOLEAN,
           DescentPasses(p, gain, noWorse)
    PROVE  /\ wall' \in [streak : Nat, pending : BOOLEAN]
           /\ pc' \in {"descend", "climb"}
           /\ chosen' \in {chosen, p}
           /\ wall' = [streak |-> 0, pending |-> FALSE] => pc' = "descend" /\ chosen' = p
<1> DEFINE streak == wall.streak + 1
           stops == WallReached(p, streak)
           pending == ~(stops /\ noWorse)
<1>1. streak \in Nat /\ streak # 0
  BY DEF TypeOK
<1>2. CASE gain \/ Tier # "balanced"
  <2>1. Accept(p) /\ pc' = "descend"
    BY <1>2 DEF DescentPasses
  <2>2. chosen' = p /\ wall' = [streak |-> 0, pending |-> FALSE]
    BY <2>1 DEF Accept
  <2> QED BY <2>1, <2>2
<1>3. CASE ~(gain \/ Tier # "balanced")
  <2>1. /\ wall' = [streak |-> streak, pending |-> pending]
        /\ chosen' \in {chosen, p} /\ pc' \in {"descend", "climb"}
    BY <1>3 DEF DescentPasses
  <2>2. pending \in BOOLEAN
    OBVIOUS
  <2> HIDE DEF streak, pending
  <2>3. wall' \in [streak : Nat, pending : BOOLEAN] /\ wall'.streak # 0
    BY <1>1, <2>1, <2>2
  <2> QED BY <2>1, <2>3
<1> QED BY <1>2, <1>3

WellFormed == TypeOK /\ ShapeInv

LEMMA DescentTypes ==
    ASSUME WellFormed,
           \/ \E p \in Lowered, gain, noWorse \in BOOLEAN : DescentPasses(p, gain, noWorse)
           \/ \E p \in Lowered, verdict \in Verdicts : DescentFails(p, verdict)
           \/ DescentEnds
    PROVE  WellFormed'
<1> USE DEF WellFormed
<1>1. CASE \E p \in Lowered, gain, noWorse \in BOOLEAN : DescentPasses(p, gain, noWorse)
  <2>1. PICK p \in Lowered, gain \in BOOLEAN, noWorse \in BOOLEAN : DescentPasses(p, gain, noWorse)
    BY <1>1
  <2>2. p \in Points
    BY LoweredPoint DEF TypeOK
  <2>3. log' \in Seq(Runs) /\ file' \in SUBSET Entries
    BY <2>1, <2>2, PassIsVerdict, OnGpuLogs DEF DescentPasses
  <2>4. /\ stable' = p /\ passes' = Append(passes, p) /\ tested' = tested \cup {p}
        /\ UNCHANGED <<setup, mem, climb, runoff, failed>> /\ pc = "descend"
    BY <2>1 DEF DescentPasses
  <2>5. passes' \in Seq(Points)
    BY <2>2, <2>4, AppendProperties DEF TypeOK
  <2>6. /\ wall' \in [streak : Nat, pending : BOOLEAN]
        /\ pc' \in {"descend", "climb"} /\ chosen' \in {chosen, p}
    BY <2>1, DescentPassesSteps
  <2>7. TypeOK'
    BY <2>2, <2>3, <2>4, <2>5, <2>6 DEF TypeOK
  <2> QED BY <2>4, <2>6, <2>7 DEF ShapeInv
<1>2. CASE \E p \in Lowered, verdict \in Verdicts : DescentFails(p, verdict)
  <2>1. PICK p \in Lowered, verdict \in Verdicts : DescentFails(p, verdict)
    BY <1>2
  <2>2. p \in Points
    BY LoweredPoint DEF TypeOK
  <2>3. log' \in Seq(Runs) /\ file' \in SUBSET Entries
    BY <2>1, <2>2, OnGpuLogs DEF DescentFails
  <2>4. /\ mem' = Marked(p, verdict) /\ pc' \in {"climb", "error"} /\ pc = "descend"
        /\ UNCHANGED <<setup, stable, chosen, passes, wall, tested, climb, runoff, failed>>
    BY <2>1 DEF DescentFails
  <2>5. mem' \in SUBSET Entries
    BY <2>2, <2>4, MarkedType
  <2>6. TypeOK'
    BY <2>3, <2>4, <2>5 DEF TypeOK
  <2> QED BY <2>4, <2>6 DEF ShapeInv
<1>3. CASE DescentEnds
  <2>1. /\ pc = "descend" /\ pc' = "climb"
        /\ UNCHANGED <<setup, file, mem, stable, passes, wall, climb, runoff, failed, log>>
    BY <1>3 DEF DescentEnds
  <2>2. UNCHANGED <<chosen, tested>> \/ FloorCaution
    BY <1>3 DEF DescentEnds
  <2>3. chosen' \in Points /\ tested' \in SUBSET Points
    <3>1. CASE UNCHANGED <<chosen, tested>>
      BY <3>1 DEF TypeOK
    <3>2. CASE ~UNCHANGED <<chosen, tested>>
      <4>1. Len(passes) >= 2 /\ chosen' = passes[Len(passes) - 1] /\ tested' \subseteq tested
        BY <2>2, <3>2 DEF FloorCaution
      <4>2. passes \in Seq(Points) /\ Len(passes) - 1 \in 1..Len(passes)
        BY <4>1 DEF TypeOK
      <4> QED BY <4>1, <4>2, ElementOfSeq DEF TypeOK
    <3> QED BY <3>1, <3>2
  <2>4. TypeOK'
    BY <2>1, <2>3 DEF TypeOK
  <2> QED BY <2>1, <2>4 DEF ShapeInv
<1> QED BY <1>1, <1>2, <1>3

LEMMA ClimbStartsSteps ==
    ASSUME WellFormed, ClimbStarts
    PROVE  /\ climb' \in Climbs
           /\ climb'.ladder = ClimbLadder /\ ClimbLadder # <<>> /\ climb'.rung = 1
           /\ climb'.passed = {chosen} /\ climb'.done = {} /\ climb'.retries = <<>>
<1> DEFINE cap == IF RaisedEndpoint THEN BinsAbove(chosen.v, Headroom) ELSE Endpoint.v
<1>1. chosen \in Points /\ chosen.v \in Nat /\ climb \in Climbs
  BY BinsAreNats DEF TypeOK, WellFormed
<1>2. ClimbLadder \in Seq(Points) /\ Endpoint.v \in Nat
  BY ClimbLadderRises DEF WellFormed
<1>3. cap \in Nat
  BY <1>1, <1>2, BinsAboveType
<1>4. climb' = [NoClimb EXCEPT !.from = chosen, !.ladder = ClimbLadder, !.rung = 1,
                               !.passed = {chosen}, !.cap = cap]
  BY DEF ClimbStarts
<1> HIDE DEF cap
<1>5. climb' \in Climbs
  BY <1>1, <1>2, <1>3, <1>4, NoClimbType DEF Climbs
<1>6. /\ climb'.ladder = ClimbLadder /\ climb'.rung = 1 /\ climb'.passed = {chosen}
      /\ climb'.done = NoClimb.done /\ climb'.retries = NoClimb.retries
  BY <1>4, NoClimbType DEF Climbs
<1>7. NoClimb.done = {} /\ NoClimb.retries = <<>>
  BY DEF NoClimb
<1> QED BY <1>5, <1>6, <1>7 DEF ClimbStarts

LEMMA ClimbSettlesSteps ==
    ASSUME WellFormed, ClimbSettles
    PROVE  /\ climb' \in Climbs
           /\ climb'.passed = {} /\ climb'.done = {} /\ climb'.ladder = <<>> /\ climb'.retries = <<>>
           /\ tested' = tested \cup climb.done
           /\ chosen' \in {chosen} \cup climb.passed \cup tested
           /\ pc = "settle" /\ pc' \in {"choose", "error"}
<1>1. climb' = [NoClimb EXCEPT !.from = climb.from] /\ climb \in Climbs
  BY DEF ClimbSettles, WellFormed, TypeOK
<1>2. climb.from \in Points \cup {NoPoint}
  BY <1>1 DEF Climbs
<1>3. climb' \in Climbs
  BY <1>1, <1>2, NoClimbType DEF Climbs
<1>4. /\ climb'.passed = NoClimb.passed /\ climb'.done = NoClimb.done
      /\ climb'.ladder = NoClimb.ladder /\ climb'.retries = NoClimb.retries
  BY <1>1, NoClimbType DEF Climbs
<1>5. NoClimb.passed = {} /\ NoClimb.done = {} /\ NoClimb.ladder = <<>> /\ NoClimb.retries = <<>>
  BY DEF NoClimb
<1>6. Eligible \subseteq {chosen} \cup climb.passed \cup tested
  BY DEF Eligible, Allowed
<1> QED BY <1>3, <1>4, <1>5, <1>6 DEF ClimbSettles

\* The steps of the climb that touch no point.
LEMMA ClimbTypes ==
    ASSUME WellFormed, ClimbStarts \/ ClimbSkipped \/ SkipRung \/ LadderEnds \/ ClimbSettles
    PROVE  WellFormed'
<1> USE DEF WellFormed
<1>1. CASE ClimbStarts
  <2>1. /\ pc = "climb" /\ pc' = "rung"
        /\ UNCHANGED <<setup, file, mem, stable, chosen, passes, wall, tested, runoff, failed, log>>
    BY <1>1 DEF ClimbStarts
  <2>2. climb' \in Climbs /\ climb'.ladder # <<>> /\ climb'.rung = 1
    BY <1>1, ClimbStartsSteps
  <2>3. TypeOK'
    BY <2>1, <2>2 DEF TypeOK
  <2> QED BY <2>1, <2>2, <2>3 DEF ShapeInv
<1>2. CASE ClimbSkipped
  <2>1. TypeOK'
    BY <1>2 DEF ClimbSkipped, TypeOK
  <2> QED BY <1>2, <2>1 DEF ClimbSkipped, ShapeInv
<1>3. CASE SkipRung
  <2>1. /\ climb \in Climbs /\ climb' = [climb EXCEPT !.rung = climb.rung + 1] /\ pc = "rung"
        /\ UNCHANGED <<setup, pc, file, mem, stable, chosen, passes, wall, tested, runoff, failed, log>>
    BY <1>3 DEF SkipRung, TypeOK
  <2>2. climb.rung + 1 \in Nat /\ climb.rung + 1 > 0
    BY <2>1, ClimbFields
  <2>3. climb' \in Climbs /\ climb'.rung > 0 /\ climb'.ladder = climb.ladder
    BY <2>1, <2>2 DEF Climbs
  <2>4. TypeOK'
    BY <2>1, <2>3 DEF TypeOK
  <2> QED BY <2>1, <2>3, <2>4 DEF ShapeInv
<1>4. CASE LadderEnds
  <2>1. TypeOK'
    BY <1>4 DEF LadderEnds, TypeOK
  <2> QED BY <1>4, <2>1 DEF LadderEnds, ShapeInv
<1>5. CASE ClimbSettles
  <2>1. UNCHANGED <<setup, file, mem, stable, passes, wall, runoff, failed, log>>
    BY <1>5 DEF ClimbSettles
  <2>2. /\ climb' \in Climbs /\ tested' = tested \cup climb.done /\ pc' \in {"choose", "error"}
        /\ chosen' \in {chosen} \cup climb.passed \cup tested
    BY <1>5, ClimbSettlesSteps
  <2>3. climb.passed \in SUBSET Points /\ climb.done \in SUBSET Points
    BY ClimbFields DEF TypeOK
  <2>4. TypeOK'
    BY <2>1, <2>2, <2>3 DEF TypeOK
  <2> QED BY <2>2, <2>4 DEF ShapeInv
<1> QED BY <1>1, <1>2, <1>3, <1>4, <1>5

\* The steps of the climb at a point.
LEMMA TurnedTypes ==
    ASSUME WellFormed, NEW p \in Turned,
           \/ ClimbClosed(p)
           \/ \E better, walled \in BOOLEAN : ClimbPasses(p, better, walled)
           \/ \E verdict \in Verdicts : ClimbFails(p, verdict)
    PROVE  WellFormed'
<1> USE DEF WellFormed
<1>0. p \in Points /\ pc \in {"rung", "retry", "backoff"}
  BY TurnedPoint
<1>1. CASE ClimbClosed(p)
  <2>1. UNCHANGED <<setup, file, mem, stable, chosen, passes, wall, tested, runoff, failed, log>>
    BY <1>1 DEF ClimbClosed
  <2>2. CASE pc = "backoff"
    <3>1. pc' = "settle" /\ climb' = climb
      BY <1>1, <2>2 DEF ClimbClosed
    <3>2. TypeOK'
      BY <2>1, <3>1 DEF TypeOK
    <3> QED BY <3>1, <3>2 DEF ShapeInv
  <2>3. CASE pc # "backoff"
    <3>1. NextVoltage(p, TRUE)
      BY <1>1, <2>3 DEF ClimbClosed
    <3>2. /\ climb' \in Climbs /\ climb'.ladder = climb.ladder /\ climb'.rung > 0
          /\ pc' \in {"rung", "retry", "backoff", "settle"}
          /\ pc' = "retry" => climb'.retries # <<>> /\ climb'.rung <= Len(climb.ladder)
      BY <2>3, <3>1, NextVoltageSteps
    <3>3. TypeOK'
      BY <2>1, <3>2 DEF TypeOK
    <3> QED BY <1>0, <3>2, <3>3 DEF ShapeInv
  <2> QED BY <2>2, <2>3
<1>2. ASSUME NEW better \in BOOLEAN, NEW walled \in BOOLEAN, ClimbPasses(p, better, walled)
      PROVE  WellFormed'
  <2>1. /\ climb' \in Climbs /\ climb'.ladder = climb.ladder /\ climb'.rung > 0
        /\ chosen' \in {chosen, p} /\ pc' \in {"rung", "settle"}
    BY <1>2, ClimbPassesSteps
  <2>2. log' \in Seq(Runs) /\ file' \in SUBSET Entries
    BY <1>0, <1>2, PassIsVerdict, OnGpuLogs DEF ClimbPasses
  <2>3. UNCHANGED <<setup, mem, stable, passes, wall, tested, runoff, failed>>
    BY <1>2 DEF ClimbPasses
  <2>4. TypeOK'
    BY <1>0, <2>1, <2>2, <2>3 DEF TypeOK
  <2> QED BY <1>0, <2>1, <2>4 DEF ShapeInv
<1>3. ASSUME NEW verdict \in Verdicts, ClimbFails(p, verdict)
      PROVE  WellFormed'
  <2>1. /\ climb' \in Climbs /\ climb'.ladder = climb.ladder
        /\ pc' \in {"rung", "retry", "backoff", "settle", "error"}
        /\ pc' \in {"rung", "retry"} => climb'.rung > 0
        /\ pc' = "retry" => climb'.retries # <<>> /\ climb'.rung <= Len(climb.ladder)
    BY <1>3, ClimbFailsSteps
  <2>2. log' \in Seq(Runs) /\ file' \in SUBSET Entries
    BY <1>0, <1>3, OnGpuLogs DEF ClimbFails
  <2>3. UNCHANGED <<setup, mem, stable, chosen, passes, wall, tested, runoff, failed>>
    BY <1>3 DEF ClimbFails
  <2>4. TypeOK'
    BY <2>1, <2>2, <2>3 DEF TypeOK
  <2> QED BY <1>0, <2>1, <2>4 DEF ShapeInv
<1> QED BY <1>1, <1>2, <1>3

\* What a soak that failed does.
LEMMA FallsBackSteps ==
    ASSUME TypeOK, FallsBack
    PROVE  /\ failed' = failed \cup {chosen}
           /\ \/ pc' = "error" /\ chosen' = chosen
              \/ /\ pc' = pc
                 /\ chosen' \in tested /\ chosen' \notin failed' /\ chosen'.c <= chosen.c
BY DEF FallsBack, Fallbacks

\* The comparison of two finalists.
LEMMA CompareSteps ==
    ASSUME WellFormed, NEW verdict \in Verdicts, Compare(verdict)
    PROVE  /\ UNCHANGED <<setup, mem, stable, passes, wall, tested, climb, failed>>
           /\ pc = "compare" /\ pc' \in {"compare", "dialog", "error"}
           /\ Len(runoff) \in Nat /\ Head(runoff) = runoff[1] /\ 1 \in 1..Len(runoff)
           /\ chosen' \in {chosen, Head(runoff)}
           /\ \/ UNCHANGED <<file, runoff, log>> /\ pc' = "error"
              \/ OnGpu(Head(runoff), "compare", verdict) /\ runoff' = Tail(runoff)
           /\ pc' = "compare" => runoff' # <<>>
<1>1. runoff \in Seq(Points) /\ runoff # <<>> /\ pc = "compare"
  BY DEF Compare, WellFormed, TypeOK, ShapeInv
<1>2. Len(runoff) \in Nat /\ Head(runoff) = runoff[1] /\ 1 \in 1..Len(runoff)
  BY <1>1, HeadTailProperties
<1>3. CASE Blocked(file, Head(runoff), Tier)
  BY <1>2, <1>3 DEF Compare
<1>4. CASE ~Blocked(file, Head(runoff), Tier)
  BY <1>2, <1>4 DEF Compare
<1> QED BY <1>3, <1>4

\* The steps after the climb.
LEMMA ChoiceTypes ==
    ASSUME WellFormed,
           \/ Choose \/ Dialog \/ SoakBlocked
           \/ \E verdict \in Verdicts : Compare(verdict) \/ Soak(verdict)
    PROVE  WellFormed'
<1> USE DEF WellFormed
<1>0. Allowed(tested) \subseteq tested /\ tested \in SUBSET Points /\ chosen \in Points
  BY DEF Allowed, TypeOK
<1>1. CASE Choose
  <2>1. /\ pc = "choose" /\ chosen' \in {chosen} \cup tested
        /\ UNCHANGED <<setup, file, mem, stable, passes, wall, tested, climb, failed, log>>
    BY <1>0, <1>1 DEF Choose
  <2>2. \/ pc' = "dialog" /\ runoff' = runoff
        \/ pc' = "compare" /\ \E a, b \in Points : runoff' = <<a, b, b, a>>
    BY <1>0, <1>1 DEF Choose
  <2>3. runoff' \in Seq(Points) /\ (pc' = "compare" => runoff' # <<>>) /\ pc' \in {"dialog", "compare"}
    <3>1. CASE pc' = "compare" /\ \E a, b \in Points : runoff' = <<a, b, b, a>>
      <4>1. PICK a \in Points, b \in Points : runoff' = <<a, b, b, a>>
        BY <3>1
      <4>2. <<a, b, b, a>> \in Seq(Points) /\ <<a, b, b, a>> # <<>>
        OBVIOUS
      <4> QED BY <3>1, <4>1, <4>2
    <3> QED BY <2>2, <3>1 DEF TypeOK
  <2>4. TypeOK'
    BY <1>0, <2>1, <2>3 DEF TypeOK
  <2> QED BY <2>3, <2>4 DEF ShapeInv
<1>2. CASE Dialog
  <2>1. /\ pc' \in {"soak", "discarded"} /\ chosen' \in {chosen} \cup tested
        /\ UNCHANGED <<setup, file, mem, stable, passes, wall, tested, climb, runoff, failed, log>>
    BY <1>0, <1>2 DEF Dialog
  <2>2. TypeOK'
    BY <1>0, <2>1 DEF TypeOK
  <2> QED BY <2>1, <2>2 DEF ShapeInv
<1>3. CASE SoakBlocked
  <2>1. /\ pc = "soak" /\ pc' \in {"soak", "error"} /\ chosen' \in {chosen} \cup tested
        /\ failed' = failed \cup {chosen}
        /\ UNCHANGED <<setup, file, mem, stable, passes, wall, tested, climb, runoff, log>>
    BY <1>3, FallsBackSteps DEF SoakBlocked
  <2>2. TypeOK'
    BY <1>0, <2>1 DEF TypeOK
  <2> QED BY <2>1, <2>2 DEF ShapeInv
<1>4. ASSUME NEW verdict \in Verdicts, Compare(verdict) PROVE WellFormed'
  <2>1. /\ UNCHANGED <<setup, mem, stable, passes, wall, tested, climb, failed>>
        /\ pc' \in {"compare", "dialog", "error"} /\ (pc' = "compare" => runoff' # <<>>)
        /\ chosen' \in {chosen, Head(runoff)} /\ Head(runoff) = runoff[1] /\ 1 \in 1..Len(runoff)
    BY <1>4, CompareSteps
  <2>2. Head(runoff) \in Points
    BY <2>1, ElementOfSeq DEF TypeOK
  <2>3. log' \in Seq(Runs) /\ file' \in SUBSET Entries /\ runoff' \in Seq(Points)
    <3>1. CASE UNCHANGED <<file, runoff, log>>
      BY <3>1 DEF TypeOK
    <3>2. CASE OnGpu(Head(runoff), "compare", verdict) /\ runoff' = Tail(runoff)
      <4>1. runoff \in Seq(Points) /\ runoff # <<>>
        BY <2>1 DEF TypeOK
      <4>2. Tail(runoff) \in Seq(Points)
        BY <4>1, HeadTailProperties
      <4> QED BY <2>2, <3>2, <4>2, OnGpuLogs
    <3> QED BY <1>4, <3>1, <3>2, CompareSteps
  <2>4. TypeOK'
    BY <1>0, <2>1, <2>2, <2>3 DEF TypeOK
  <2> QED BY <2>1, <2>4 DEF ShapeInv
<1>5. ASSUME NEW verdict \in Verdicts, Soak(verdict) PROVE WellFormed'
  <2>1. log' \in Seq(Runs) /\ file' \in SUBSET Entries
    BY <1>0, <1>5, OnGpuLogs DEF Soak
  <2>2. UNCHANGED <<setup, mem, stable, passes, wall, tested, climb, runoff>> /\ pc = "soak"
    BY <1>5 DEF Soak
  <2>3. /\ pc' \in {"soak", "done", "error"} /\ chosen' \in {chosen} \cup tested
        /\ failed' \subseteq failed \cup {chosen}
    BY <1>5, FallsBackSteps DEF Soak
  <2>4. TypeOK'
    BY <1>0, <2>1, <2>2, <2>3 DEF TypeOK
  <2> QED BY <2>3, <2>4 DEF ShapeInv
<1> QED BY <1>1, <1>2, <1>3, <1>4, <1>5

LEMMA InitTypes == Init => WellFormed
<1> SUFFICES ASSUME Init PROVE WellFormed
  OBVIOUS
<1>1. setup \in Setup /\ file \in SUBSET Entries /\ mem = file
  BY SearchAssumption DEF Init
<1>2. Start \in Points
  BY <1>1 DEF Setup, Start
<1>3. TypeOK
  BY <1>1, <1>2, NoClimbType DEF Init, TypeOK
<1> QED BY <1>3 DEF Init, ShapeInv, WellFormed

LEMMA StutterTypes == ASSUME WellFormed, UNCHANGED vars PROVE WellFormed'
BY DEF WellFormed, TypeOK, ShapeInv, vars

LEMMA StepTypes == ASSUME WellFormed, [Next]_vars PROVE WellFormed'
BY DescentTypes, ClimbTypes, TurnedTypes, ChoiceTypes, StutterTypes DEF Next, Ended

\* Types. The state of a search is well formed, whatever its probes say: in
\* particular every point that it probes or keeps lies on the curve.
THEOREM SearchTypes == Spec => []TypeOK
<1>1. WellFormed => TypeOK
  BY DEF WellFormed
<1> QED BY <1>1, InitTypes, StepTypes, PTL DEF Spec

-----------------------------------------------------------------------------
(***************************************************************************)
(* What a step of the search may do to the log, and where it leads from    *)
(* there.                                                                  *)
(***************************************************************************)
Quiet ==
    /\ log' = log
    /\ \/ pc' = pc
       \/ pc = "descend" /\ pc' = "climb"
       \/ pc = "climb" /\ pc' \in {"rung", "choose"}
       \/ pc \in {"rung", "retry"} /\ pc' \in {"rung", "retry", "backoff", "settle"}
       \/ pc = "backoff" /\ pc' = "settle"
       \/ pc = "settle" /\ pc' \in {"choose", "error"}
       \/ pc = "choose" /\ pc' \in {"compare", "dialog"}
       \/ pc = "compare" /\ pc' = "error"
       \/ pc = "dialog" /\ pc' \in {"soak", "discarded"}
       \/ pc = "soak" /\ pc' = "error"

\* A probe at p leads from where it is made.
Probing(p, verdict) ==
    \/ pc = "descend" /\ pc' \in {"descend", "climb", "error"} /\ OnGpu(p, "descent", verdict)
    \/ /\ pc \in {"rung", "retry"} /\ pc' \in {"rung", "retry", "backoff", "settle", "error"}
       /\ pc' \in {"rung", "retry"} => verdict.sev # "unsafe"
       /\ OnGpu(p, "climb", verdict)
    \/ pc = "backoff" /\ pc' \in {"settle", "error"} /\ OnGpu(p, "backoff", verdict)
    \/ pc = "compare" /\ pc' \in {"compare", "dialog", "error"} /\ OnGpu(p, "compare", verdict)
    \/ /\ pc = "soak" /\ pc' \in {"soak", "done", "error"} /\ OnGpu(p, "soak", verdict)
       /\ p = chosen /\ (FallsBack \/ pc' # "soak")

LEMMA Moves ==
    ASSUME WellFormed, [Next]_vars
    PROVE  Quiet \/ \E p \in Points, verdict \in Verdicts : Probing(p, verdict)
<1> USE DEF WellFormed
<1>1. ASSUME NEW p \in Lowered, NEW gain \in BOOLEAN, NEW noWorse \in BOOLEAN,
             DescentPasses(p, gain, noWorse)
      PROVE  \E q \in Points, verdict \in Verdicts : Probing(q, verdict)
  <2>1. p \in Points /\ pc = "descend" /\ OnGpu(p, "descent", [sev |-> "pass", why |-> ""])
    BY <1>1, LoweredPoint DEF DescentPasses, TypeOK
  <2>2. pc' \in {"descend", "climb"}
    BY <1>1, DescentPassesSteps
  <2> QED BY <2>1, <2>2, PassIsVerdict DEF Probing
<1>2. ASSUME NEW p \in Lowered, NEW verdict \in Verdicts, DescentFails(p, verdict)
      PROVE  \E q \in Points, w \in Verdicts : Probing(q, w)
  <2>1. p \in Points
    BY LoweredPoint DEF TypeOK
  <2>2. pc = "descend" /\ pc' \in {"climb", "error"} /\ OnGpu(p, "descent", verdict)
    BY <1>2 DEF DescentFails
  <2> QED BY <2>1, <2>2 DEF Probing
<1>3. ASSUME NEW p \in Turned, ClimbClosed(p) PROVE Quiet
  <2>1. pc \in {"rung", "retry", "backoff"}
    BY TurnedPoint
  <2>2. CASE pc = "backoff"
    BY <1>3, <2>2 DEF ClimbClosed, Quiet
  <2>3. CASE pc # "backoff"
    <3>1. NextVoltage(p, TRUE) /\ log' = log
      BY <1>3, <2>3 DEF ClimbClosed
    <3>2. pc' \in {"rung", "retry", "backoff", "settle"}
      BY <2>3, <3>1, NextVoltageSteps
    <3> QED BY <2>1, <2>3, <3>1, <3>2 DEF Quiet
  <2> QED BY <2>2, <2>3
<1>4. ASSUME NEW p \in Turned, NEW better \in BOOLEAN, NEW walled \in BOOLEAN,
             ClimbPasses(p, better, walled)
      PROVE  \E q \in Points, verdict \in Verdicts : Probing(q, verdict)
  <2> DEFINE pass == [sev |-> "pass", why |-> ""]
  <2>1. p \in Points /\ pc \in {"rung", "retry", "backoff"}
    BY TurnedPoint
  <2>2. CASE pc = "backoff"
    <3>1. pc' = "settle" /\ OnGpu(p, "backoff", pass)
      BY <1>4, <2>2 DEF ClimbPasses
    <3> QED BY <2>1, <2>2, <3>1, PassIsVerdict DEF Probing
  <2>3. CASE pc # "backoff"
    <3>1. pc' \in {"rung", "settle"} /\ OnGpu(p, "climb", pass)
      BY <1>4, <2>3 DEF ClimbPasses
    <3>2. Probing(p, pass)
      BY <2>1, <2>3, <3>1 DEF Probing
    <3> QED BY <2>1, <3>2, PassIsVerdict
  <2> QED BY <2>2, <2>3
<1>5. ASSUME NEW p \in Turned, NEW verdict \in Verdicts, ClimbFails(p, verdict)
      PROVE  \E q \in Points, w \in Verdicts : Probing(q, w)
  <2>1. p \in Points /\ pc \in {"rung", "retry", "backoff"}
    BY TurnedPoint
  <2>2. /\ pc' \in {"rung", "retry", "backoff", "settle", "error"}
        /\ pc' \in {"rung", "retry"} => verdict.sev = "recoverable"
        /\ pc = "backoff" => pc' \in {"settle", "error"}
    BY <1>5, ClimbFailsSteps
  <2>3. OnGpu(p, IF pc = "backoff" THEN pc ELSE "climb", verdict)
    BY <1>5 DEF ClimbFails
  <2>4. CASE pc = "backoff"
    <3>1. OnGpu(p, "backoff", verdict)
      BY <2>3, <2>4
    <3> QED BY <2>1, <2>2, <2>4, <3>1 DEF Probing
  <2>5. CASE pc # "backoff"
    <3>1. OnGpu(p, "climb", verdict)
      BY <2>3, <2>5
    <3> QED BY <2>1, <2>2, <2>5, <3>1 DEF Probing
  <2> QED BY <2>4, <2>5
<1>6. ASSUME NEW verdict \in Verdicts, Compare(verdict)
      PROVE  Quiet \/ \E q \in Points, w \in Verdicts : Probing(q, w)
  <2>1. /\ pc = "compare" /\ pc' \in {"compare", "dialog", "error"}
        /\ Head(runoff) = runoff[1] /\ 1 \in 1..Len(runoff)
        /\ (log' = log /\ pc' = "error") \/ OnGpu(Head(runoff), "compare", verdict)
    BY <1>6, CompareSteps
  <2>2. Head(runoff) \in Points
    BY <2>1, ElementOfSeq DEF TypeOK
  <2> QED BY <2>1, <2>2 DEF Quiet, Probing
<1>7. ASSUME NEW verdict \in Verdicts, Soak(verdict)
      PROVE  \E q \in Points, w \in Verdicts : Probing(q, w)
  <2>1. chosen \in Points /\ pc = "soak" /\ OnGpu(chosen, "soak", verdict)
    BY <1>7 DEF Soak, TypeOK
  <2>2. pc' \in {"done", "error"} \/ FallsBack
    BY <1>7 DEF Soak
  <2>3. FallsBack => pc' \in {"soak", "error"}
    BY <2>1, FallsBackSteps
  <2> QED BY <2>1, <2>2, <2>3 DEF Probing
<1>8. CASE \/ DescentEnds \/ ClimbStarts \/ ClimbSkipped \/ SkipRung \/ LadderEnds
           \/ ClimbSettles \/ Choose \/ Dialog \/ SoakBlocked
  <2>1. SoakBlocked => pc = "soak" /\ pc' \in {"soak", "error"} /\ log' = log
    BY FallsBackSteps DEF SoakBlocked
  <2>2. ClimbSettles => pc = "settle" /\ pc' \in {"choose", "error"} /\ log' = log
    BY DEF ClimbSettles
  <2>3. DescentEnds => Quiet
    BY DEF DescentEnds, Quiet
  <2>4. ClimbStarts \/ ClimbSkipped \/ SkipRung \/ LadderEnds => Quiet
    BY DEF ClimbStarts, ClimbSkipped, SkipRung, LadderEnds, Quiet
  <2>5. Choose \/ Dialog => Quiet
    BY DEF Choose, Dialog, Quiet
  <2> QED BY <1>8, <2>1, <2>2, <2>3, <2>4, <2>5 DEF Quiet
<1>9. CASE Ended \/ UNCHANGED vars
  BY <1>9 DEF Ended, vars, Quiet
<1> QED BY <1>1, <1>2, <1>3, <1>4, <1>5, <1>6, <1>7, <1>8, <1>9 DEF Next

\* The log after a probe.
LEMMA LogGrows ==
    ASSUME WellFormed, NEW p \in Points, NEW verdict \in Verdicts,
           NEW purpose \in {"descent", "climb", "backoff", "compare", "soak"},
           OnGpu(p, purpose, verdict)
    PROVE  /\ Len(log) \in Nat /\ Len(log') = Len(log) + 1
           /\ \A i \in 1..Len(log) : log'[i] = log[i]
           /\ log'[Len(log')].at = p /\ log'[Len(log')].for = purpose
           /\ log'[Len(log')].sev = verdict.sev
<1>1. /\ Len(log) \in Nat /\ Len(log') = Len(log) + 1
      /\ \A i \in 1..Len(log) : log'[i] = log[i]
      /\ log'[Len(log) + 1] = [at |-> p, for |-> purpose, sev |-> verdict.sev]
  BY OnGpuLogs DEF WellFormed
<1> QED BY <1>1

-----------------------------------------------------------------------------
(* The edge is crossed once. *)

EdgeOrder ==
    \A i, j \in 1..Len(log) :
        /\ log[i].for \in {"climb", "backoff"} /\ log[j].for \in {"climb", "backoff"}
        /\ log[i].sev = "unsafe" /\ j > i
        => log[j].for = "backoff" /\ log[i].for = "climb"

LEMMA QuietKeepsEdge ==
    ASSUME WellFormed, EdgeInv, EdgeOrder, Quiet PROVE EdgeInv' /\ EdgeOrder'
BY DEF Quiet, EdgeInv, EdgeOrder

LEMMA ProbingKeepsEdge ==
    ASSUME WellFormed, EdgeInv, EdgeOrder, NEW p \in Points, NEW verdict \in Verdicts,
           Probing(p, verdict)
    PROVE  EdgeInv' /\ EdgeOrder'
<1>1. PICK purpose \in {"descent", "climb", "backoff", "compare", "soak"} :
          /\ OnGpu(p, purpose, verdict)
          /\ purpose = "climb" => pc \in {"rung", "retry"} /\ (pc' \in {"rung", "retry"} => verdict.sev # "unsafe")
          /\ purpose = "backoff" => pc = "backoff"
          /\ purpose \in {"compare", "soak"} => pc \in {"compare", "soak"}
          /\ purpose = "descent" => pc = "descend"
  BY DEF Probing
<1>2. /\ pc \in {"descend", "rung", "retry", "backoff", "compare", "soak"}
      /\ pc' \in {"descend", "climb"} => pc = "descend"
      /\ pc' \in {"rung", "retry", "backoff"} => pc \in {"rung", "retry"}
  BY DEF Probing
<1> DEFINE n == Len(log)
<1>3. /\ n \in Nat /\ Len(log') = n + 1
      /\ \A i \in 1..n : log'[i] = log[i]
      /\ log'[n + 1].for = purpose /\ log'[n + 1].sev = verdict.sev
  BY <1>1, LogGrows
<1> HIDE DEF n
<1>4. \A i \in 1..n + 1 : i \in 1..n \/ i = n + 1
  BY <1>3
<1>5. EdgeInv'
  <2>1. CASE pc' \in {"descend", "climb"}
    <3>1. purpose = "descent" /\ pc = "descend"
      BY <1>1, <1>2, <2>1
    <3> QED BY <1>3, <1>4, <2>1, <3>1 DEF EdgeInv, n
  <2>2. CASE pc' \in {"rung", "retry", "backoff"}
    <3>1. purpose = "climb" /\ pc \in {"rung", "retry"}
      BY <1>1, <1>2, <2>2
    <3> QED BY <1>1, <1>3, <1>4, <2>2, <3>1 DEF EdgeInv, n
  <2>3. CASE pc' \notin {"descend", "climb", "rung", "retry", "backoff"}
    BY <2>3 DEF EdgeInv
  <2> QED BY <2>1, <2>2, <2>3
<1>6. EdgeOrder'
  <2> SUFFICES ASSUME NEW i \in 1..(n + 1), NEW j \in 1..(n + 1),
                      log'[i].for \in {"climb", "backoff"}, log'[j].for \in {"climb", "backoff"},
                      log'[i].sev = "unsafe", j > i
               PROVE  log'[j].for = "backoff" /\ log'[i].for = "climb"
    BY <1>3 DEF EdgeOrder
  <2>1. i \in 1..n
    BY <1>3
  <2>2. CASE j \in 1..n
    BY <1>3, <2>1, <2>2 DEF EdgeOrder, n
  <2>3. CASE j = n + 1
    <3>1. purpose \in {"climb", "backoff"} /\ pc \in {"rung", "retry", "backoff"}
      BY <1>1, <1>3, <2>3
    <3> QED BY <1>1, <1>3, <2>1, <2>3, <3>1 DEF EdgeInv, n
  <2> QED BY <1>4, <2>2, <2>3
<1> QED BY <1>5, <1>6

\* The climb's care. However a climb goes, it makes at most one probe after one
\* that was unsafe, and that one steps back: an edge found is never probed
\* again, nor from another rung.
THEOREM EdgeIsCrossedOnce == Spec => []OneUnsafePerClimb
<1> DEFINE Inv == WellFormed /\ EdgeInv /\ EdgeOrder
<1>1. Init => Inv
  <2>1. Init => EdgeInv /\ EdgeOrder
    BY DEF Init, EdgeInv, EdgeOrder
  <2> QED BY <2>1, InitTypes
<1>2. Inv /\ [Next]_vars => Inv'
  BY StepTypes, Moves, QuietKeepsEdge, ProbingKeepsEdge
<1>3. Inv => OneUnsafePerClimb
  <2> SUFFICES ASSUME Inv PROVE OneUnsafePerClimb
    OBVIOUS
  <2>1. DOMAIN log = 1..Len(log)
    BY DEF WellFormed, TypeOK
  <2> QED BY <2>1 DEF OneUnsafePerClimb, Probes, EdgeOrder
<1> HIDE DEF Inv
<1> QED BY <1>1, <1>2, <1>3, PTL DEF Spec

-----------------------------------------------------------------------------
(* The soaks retreat. *)

SoakOrder ==
    \A i, j \in 1..Len(log) :
        /\ log[i].for = "soak" /\ log[j].for = "soak" /\ i < j
        => log[i].at # log[j].at /\ log[j].at.c <= log[i].at.c

\* Only a soak rejects a point.
LEMMA OnlySoaksReject ==
    ASSUME WellFormed, [Next]_vars
    PROVE  \/ pc # "soak" /\ failed' = failed
           \/ SoakBlocked
           \/ \E verdict \in Verdicts : Soak(verdict)
           \/ UNCHANGED vars
<1>1. \A p \in Turned : pc # "soak"
  BY TurnedPoint DEF WellFormed
<1>2. ASSUME NEW p \in Lowered, NEW gain \in BOOLEAN, NEW noWorse \in BOOLEAN,
             DescentPasses(p, gain, noWorse)
      PROVE  pc # "soak" /\ failed' = failed
  BY <1>2 DEF DescentPasses
<1>3. ASSUME NEW p \in Lowered, NEW verdict \in Verdicts, DescentFails(p, verdict)
      PROVE  pc # "soak" /\ failed' = failed
  BY <1>3 DEF DescentFails
<1>4. ASSUME NEW p \in Turned, ClimbClosed(p) PROVE failed' = failed
  BY <1>4 DEF ClimbClosed
<1>5. ASSUME NEW p \in Turned, NEW better \in BOOLEAN, NEW walled \in BOOLEAN,
             ClimbPasses(p, better, walled)
      PROVE  failed' = failed
  BY <1>5 DEF ClimbPasses
<1>6. ASSUME NEW p \in Turned, NEW verdict \in Verdicts, ClimbFails(p, verdict) PROVE failed' = failed
  BY <1>6 DEF ClimbFails
<1>7. ASSUME NEW verdict \in Verdicts, Compare(verdict) PROVE pc # "soak" /\ failed' = failed
  BY <1>7 DEF Compare
<1>8. ASSUME DescentEnds \/ ClimbStarts \/ ClimbSkipped \/ SkipRung \/ LadderEnds \/ ClimbSettles
      PROVE  pc # "soak" /\ failed' = failed
  BY <1>8 DEF DescentEnds, ClimbStarts, ClimbSkipped, SkipRung, LadderEnds, ClimbSettles
<1>9. ASSUME Choose \/ Dialog PROVE pc # "soak" /\ failed' = failed
  BY <1>9 DEF Choose, Dialog
<1>10. Ended => UNCHANGED vars
  BY DEF Ended
<1> QED BY <1>1, <1>2, <1>3, <1>4, <1>5, <1>6, <1>7, <1>8, <1>9, <1>10 DEF Next

LEMMA BeforeSoakRetreat ==
    ASSUME WellFormed, RetreatInv, SoakOrder, pc # "soak", failed' = failed, [Next]_vars
    PROVE  RetreatInv' /\ SoakOrder'
<1>1. CASE Quiet
  <2>1. log' = log
    BY <1>1 DEF Quiet
  <2>2. pc' \in Before => pc \in Before
    BY <1>1 DEF Quiet, Before
  <2>3. pc' = "soak" => pc = "dialog"
    BY <1>1 DEF Quiet
  <2> QED BY <2>1, <2>2, <2>3 DEF RetreatInv, SoakOrder, Before
<1>2. ASSUME NEW p \in Points, NEW verdict \in Verdicts, Probing(p, verdict)
      PROVE  RetreatInv' /\ SoakOrder'
  <2>1. PICK purpose \in {"descent", "climb", "backoff", "compare"} : OnGpu(p, purpose, verdict)
    BY <1>2 DEF Probing
  <2>2. pc \in Before /\ pc' # "soak"
    BY <1>2 DEF Probing, Before
  <2>3. /\ Len(log) \in Nat /\ Len(log') = Len(log) + 1
        /\ \A i \in 1..Len(log) : log'[i] = log[i]
        /\ log'[Len(log')].for = purpose
    BY <2>1, LogGrows
  <2>4. \A i \in 1..Len(log') : log'[i].for # "soak"
    <3> SUFFICES ASSUME NEW i \in 1..Len(log') PROVE log'[i].for # "soak"
      OBVIOUS
    <3>1. i \in 1..Len(log) \/ i = Len(log')
      BY <2>3
    <3> QED BY <2>2, <2>3, <3>1 DEF RetreatInv
  <2> QED BY <2>2, <2>4 DEF RetreatInv, SoakOrder
<1> QED BY <1>1, <1>2, Moves

LEMMA SoakRetreats ==
    ASSUME WellFormed, RetreatInv, SoakOrder, NEW verdict \in Verdicts, Soak(verdict)
    PROVE  RetreatInv' /\ SoakOrder'
<1>1. chosen \in Points /\ pc = "soak" /\ OnGpu(chosen, "soak", verdict) /\ chosen.c \in Nat
  BY BinsAreNats DEF Soak, WellFormed, TypeOK
<1> DEFINE n == Len(log)
<1>2. /\ n \in Nat /\ Len(log') = n + 1
      /\ \A i \in 1..n : log'[i] = log[i]
      /\ log'[n + 1].at = chosen
  BY <1>1, LogGrows
<1>3. /\ chosen \notin failed
      /\ \A i \in 1..n : log[i].for = "soak" => log[i].at \in failed /\ chosen.c <= log[i].at.c
  BY <1>1 DEF RetreatInv
<1>4. \A i \in 1..n : log[i].at.c \in Nat
  <2> SUFFICES ASSUME NEW i \in 1..n PROVE log[i].at.c \in Nat
    OBVIOUS
  <2>1. log[i] \in Runs
    BY ElementOfSeq DEF WellFormed, TypeOK
  <2> QED BY <2>1, BinsAreNats DEF Runs
<1> HIDE DEF n
<1>5. SoakOrder'
  <2> SUFFICES ASSUME NEW i \in 1..(n + 1), NEW j \in 1..(n + 1), i < j,
                      log'[i].for = "soak", log'[j].for = "soak"
               PROVE  log'[i].at # log'[j].at /\ log'[j].at.c <= log'[i].at.c
    BY <1>2 DEF SoakOrder
  <2>1. i \in 1..n /\ log'[i] = log[i] /\ (j \in 1..n \/ j = n + 1)
    BY <1>2
  <2>2. CASE j \in 1..n
    BY <1>2, <2>1, <2>2 DEF SoakOrder, n
  <2>3. CASE j = n + 1
    BY <1>2, <1>3, <2>1, <2>3
  <2> QED BY <2>1, <2>2, <2>3
<1>6. RetreatInv'
  <2>1. pc' \notin Before
    BY <1>1, FallsBackSteps DEF Soak, Before, WellFormed
  <2>2. CASE pc' = "soak"
    <3>1. FallsBack
      BY <2>2 DEF Soak
    <3>2. /\ failed' = failed \cup {chosen} /\ chosen' \notin failed'
          /\ chosen' \in tested /\ chosen'.c <= chosen.c
      BY <2>2, <3>1, FallsBackSteps DEF WellFormed
    <3>3. chosen'.c \in Nat
      BY <3>2, BinsAreNats DEF WellFormed, TypeOK
    <3>4. ASSUME NEW i \in 1..(n + 1), log'[i].for = "soak"
          PROVE  log'[i].at \in failed' /\ chosen'.c <= log'[i].at.c
      <4>1. i \in 1..n \/ i = n + 1
        BY <1>2
      <4>2. CASE i \in 1..n
        <5>1. log[i].at \in failed /\ chosen.c <= log[i].at.c /\ log[i].at.c \in Nat
          BY <1>2, <1>3, <1>4, <3>4, <4>2
        <5> QED BY <1>1, <1>2, <3>2, <3>3, <4>2, <5>1
      <4>3. CASE i = n + 1
        BY <1>2, <3>2, <4>3
      <4> QED BY <4>1, <4>2, <4>3
    <3> QED BY <1>2, <2>1, <3>2, <3>4 DEF RetreatInv
  <2> QED BY <2>1, <2>2 DEF RetreatInv
<1> QED BY <1>5, <1>6

LEMMA BlockedRetreats ==
    ASSUME WellFormed, RetreatInv, SoakOrder, SoakBlocked
    PROVE  RetreatInv' /\ SoakOrder'
<1>1. /\ pc = "soak" /\ log' = log /\ pc' \in {"soak", "error"}
      /\ failed' = failed \cup {chosen}
      /\ pc' = "soak" => chosen' \in tested /\ chosen' \notin failed' /\ chosen'.c <= chosen.c
  BY FallsBackSteps DEF SoakBlocked, WellFormed
<1>2. chosen.c \in Nat /\ \A q \in tested : q.c \in Nat
  BY BinsAreNats DEF WellFormed, TypeOK
<1>3. ASSUME pc' = "soak", NEW i \in 1..Len(log), log[i].for = "soak"
      PROVE  log[i].at \in failed' /\ chosen'.c <= log[i].at.c
  <2>1. log[i] \in Runs
    BY ElementOfSeq DEF WellFormed, TypeOK
  <2>2. log[i].at.c \in Nat
    BY <2>1, BinsAreNats DEF Runs
  <2>3. log[i].at \in failed /\ chosen.c <= log[i].at.c
    BY <1>1, <1>3 DEF RetreatInv
  <2> QED BY <1>1, <1>2, <1>3, <2>2, <2>3
<1>4. pc' \notin Before
  BY <1>1 DEF Before
<1> QED BY <1>1, <1>3, <1>4 DEF RetreatInv, SoakOrder

LEMMA StepRetreats ==
    ASSUME WellFormed, RetreatInv, SoakOrder, [Next]_vars
    PROVE  RetreatInv' /\ SoakOrder'
<1>1. UNCHANGED vars => RetreatInv' /\ SoakOrder'
  BY DEF vars, RetreatInv, SoakOrder
<1> QED BY <1>1, OnlySoaksReject, BeforeSoakRetreat, SoakRetreats, BlockedRetreats

\* The soak's care. Whatever fails or is closed by what failed, the point that
\* is soaked next was not soaked before and asks for no higher clock.
THEOREM FallbacksRetreat == Spec => []SoaksRetreat
<1> DEFINE Inv == WellFormed /\ RetreatInv /\ SoakOrder
<1>1. Init => Inv
  <2>1. Init => RetreatInv /\ SoakOrder
    BY DEF Init, RetreatInv, SoakOrder
  <2> QED BY <2>1, InitTypes
<1>2. Inv /\ [Next]_vars => Inv'
  BY StepTypes, StepRetreats
<1>3. Inv => SoaksRetreat
  <2> SUFFICES ASSUME Inv PROVE SoaksRetreat
    OBVIOUS
  <2>1. DOMAIN log = 1..Len(log)
    BY DEF WellFormed, TypeOK
  <2> QED BY <2>1 DEF SoaksRetreat, Probes, SoakOrder
<1> HIDE DEF Inv
<1> QED BY <1>1, <1>2, <1>3, PTL DEF Spec

-----------------------------------------------------------------------------
(* What is soaked was passed. *)

SoakProven ==
    \A i \in 1..Len(log) : log[i].for = "soak" =>
        log[i].at = Start \/ \E j \in 1..(i - 1) : log[j].at = log[i].at /\ log[j].sev = "pass"

LEMMA SetupStays ==
    ASSUME WellFormed, [Next]_vars
    PROVE  Start' = Start
<1>1. ASSUME NEW p \in Lowered, NEW gain \in BOOLEAN, NEW noWorse \in BOOLEAN,
             DescentPasses(p, gain, noWorse)
      PROVE  setup' = setup
  BY <1>1 DEF DescentPasses
<1>2. ASSUME NEW p \in Lowered, NEW verdict \in Verdicts, DescentFails(p, verdict)
      PROVE  setup' = setup
  BY <1>2 DEF DescentFails
<1>3. ASSUME NEW p \in Turned, ClimbClosed(p) PROVE setup' = setup
  BY <1>3 DEF ClimbClosed
<1>4. ASSUME NEW p \in Turned, NEW better \in BOOLEAN, NEW walled \in BOOLEAN,
             ClimbPasses(p, better, walled)
      PROVE  setup' = setup
  BY <1>4 DEF ClimbPasses
<1>5. ASSUME NEW p \in Turned, NEW verdict \in Verdicts, ClimbFails(p, verdict) PROVE setup' = setup
  BY <1>5 DEF ClimbFails
<1>6. ASSUME NEW verdict \in Verdicts, Compare(verdict) PROVE setup' = setup
  BY <1>6 DEF Compare
<1>7. ASSUME NEW verdict \in Verdicts, Soak(verdict) PROVE setup' = setup
  BY <1>7 DEF Soak
<1>8. ASSUME DescentEnds \/ ClimbStarts \/ ClimbSkipped \/ SkipRung \/ LadderEnds \/ ClimbSettles
      PROVE  setup' = setup
  BY <1>8 DEF DescentEnds, ClimbStarts, ClimbSkipped, SkipRung, LadderEnds, ClimbSettles
<1>9. ASSUME Choose \/ Dialog \/ SoakBlocked PROVE setup' = setup
  BY <1>9 DEF Choose, Dialog, SoakBlocked
<1>10. Ended \/ UNCHANGED vars => setup' = setup
  BY DEF Ended, vars
<1>11. setup' = setup
  BY <1>1, <1>2, <1>3, <1>4, <1>5, <1>6, <1>7, <1>8, <1>9, <1>10 DEF Next
<1> QED BY <1>11 DEF Start

\* The log only grows, and so does what it proves.
LEMMA ProvenGrows ==
    ASSUME WellFormed, [Next]_vars
    PROVE  /\ Proven \subseteq Proven'
           /\ \A p \in Points, purpose \in {"descent", "climb", "backoff", "compare", "soak"} :
                 OnGpu(p, purpose, [sev |-> "pass", why |-> ""]) => p \in Proven'
<1>1. \/ log' = log
      \/ \E p \in Points, verdict \in Verdicts,
            purpose \in {"descent", "climb", "backoff", "compare", "soak"} :
                OnGpu(p, purpose, verdict)
  BY Moves DEF Quiet, Probing
<1>2. Len(log) \in Nat /\ Len(log') \in Nat /\ Len(log) <= Len(log')
      /\ \A i \in 1..Len(log) : log'[i] = log[i]
  <2>1. Len(log) \in Nat
    BY DEF WellFormed, TypeOK
  <2>2. CASE log' = log
    BY <2>1, <2>2
  <2>3. CASE log' # log
    BY <1>1, <2>3, LogGrows
  <2> QED BY <2>2, <2>3
<1>3. Proven \subseteq Proven'
  BY <1>2, SetupStays DEF Proven
<1>4. ASSUME NEW p \in Points, NEW purpose \in {"descent", "climb", "backoff", "compare", "soak"},
             OnGpu(p, purpose, [sev |-> "pass", why |-> ""])
      PROVE  p \in Proven'
  <2>1. /\ Len(log') = Len(log) + 1 /\ log'[Len(log')].at = p
        /\ log'[Len(log')].sev = "pass"
    BY <1>4, PassIsVerdict, LogGrows
  <2>2. Len(log') \in 1..Len(log')
    BY <1>2, <2>1
  <2> QED BY <2>1, <2>2 DEF Proven
<1> QED BY <1>3, <1>4

\* ProvenInv, for a step whose points were proven before or are proven by it.
LEMMA StaysProven ==
    ASSUME WellFormed, ProvenInv, [Next]_vars,
           tested' \cup climb'.passed \cup climb'.done \cup {chosen'} \subseteq
               tested \cup climb.passed \cup climb.done \cup {chosen} \cup Proven',
           \A i \in 1..Len(passes') : passes'[i] \in Proven',
           \A i \in 1..Len(runoff') : runoff'[i] \in Proven'
    PROVE  ProvenInv'
BY ProvenGrows DEF ProvenInv

LEMMA SamePassesProven ==
    ASSUME WellFormed, ProvenInv, [Next]_vars
    PROVE  /\ passes' = passes => \A i \in 1..Len(passes') : passes'[i] \in Proven'
           /\ runoff' = runoff => \A i \in 1..Len(runoff') : runoff'[i] \in Proven'
BY ProvenGrows DEF ProvenInv

LEMMA DescentProven ==
    ASSUME WellFormed, ProvenInv, [Next]_vars,
           \/ \E p \in Lowered, gain, noWorse \in BOOLEAN : DescentPasses(p, gain, noWorse)
           \/ \E p \in Lowered, verdict \in Verdicts : DescentFails(p, verdict)
           \/ DescentEnds
    PROVE  ProvenInv'
<1>1. ASSUME NEW p \in Lowered, NEW gain \in BOOLEAN, NEW noWorse \in BOOLEAN,
             DescentPasses(p, gain, noWorse)
      PROVE  ProvenInv'
  <2>1. /\ p \in Points /\ OnGpu(p, "descent", [sev |-> "pass", why |-> ""])
        /\ passes' = Append(passes, p) /\ tested' = tested \cup {p}
        /\ climb' = climb /\ runoff' = runoff
    BY <1>1, LoweredPoint DEF DescentPasses, WellFormed, TypeOK
  <2>2. chosen' \in {chosen, p}
    BY <1>1, DescentPassesSteps DEF WellFormed
  <2>3. p \in Proven'
    BY <2>1, ProvenGrows
  <2>4. /\ Len(passes) \in Nat /\ Len(passes') = Len(passes) + 1
        /\ \A i \in 1..Len(passes) : passes'[i] = passes[i]
        /\ passes'[Len(passes) + 1] = p
    <3>1. passes \in Seq(Points)
      BY DEF WellFormed, TypeOK
    <3>2. passes' = Append(passes, p)
      BY <2>1
    <3>3. p \in Points
      BY <2>1
    <3> QED BY <3>1, <3>2, <3>3, AppendProperties
  <2>5. ASSUME NEW i \in 1..Len(passes') PROVE passes'[i] \in Proven'
    <3>1. i \in 1..Len(passes) \/ i = Len(passes) + 1
      BY <2>4
    <3> QED BY <2>3, <2>4, <3>1, ProvenGrows DEF ProvenInv
  <2> QED BY <2>1, <2>2, <2>3, <2>5, StaysProven, SamePassesProven
<1>2. ASSUME NEW p \in Lowered, NEW verdict \in Verdicts, DescentFails(p, verdict)
      PROVE  ProvenInv'
  <2>1. UNCHANGED <<chosen, passes, tested, climb, runoff>>
    BY <1>2 DEF DescentFails
  <2> QED BY <2>1, StaysProven, SamePassesProven
<1>3. CASE DescentEnds
  <2>1. UNCHANGED <<passes, climb, runoff>>
    BY <1>3 DEF DescentEnds
  <2>2. UNCHANGED <<chosen, tested>> \/ FloorCaution
    BY <1>3 DEF DescentEnds
  <2>3. tested' \subseteq tested /\ chosen' \in {chosen} \cup Proven'
    <3>1. CASE UNCHANGED <<chosen, tested>>
      BY <3>1
    <3>2. CASE ~UNCHANGED <<chosen, tested>>
      <4>1. Len(passes) >= 2 /\ chosen' = passes[Len(passes) - 1] /\ tested' \subseteq tested
        BY <2>2, <3>2 DEF FloorCaution
      <4>2. Len(passes) - 1 \in 1..Len(passes)
        BY <4>1 DEF WellFormed, TypeOK
      <4> QED BY <4>1, <4>2, ProvenGrows DEF ProvenInv
    <3> QED BY <3>1, <3>2
  <2> QED BY <2>1, <2>3, StaysProven, SamePassesProven
<1> QED BY <1>1, <1>2, <1>3

LEMMA ClimbProven ==
    ASSUME WellFormed, ProvenInv, [Next]_vars,
           \/ ClimbStarts \/ ClimbSkipped \/ SkipRung \/ LadderEnds \/ ClimbSettles
           \/ \E p \in Turned : ClimbClosed(p)
           \/ \E p \in Turned, better, walled \in BOOLEAN : ClimbPasses(p, better, walled)
           \/ \E p \in Turned, verdict \in Verdicts : ClimbFails(p, verdict)
    PROVE  ProvenInv'
<1>0. climb \in Climbs
  BY DEF WellFormed, TypeOK
<1>1. CASE ClimbStarts
  <2>1. UNCHANGED <<chosen, passes, tested, runoff>>
    BY <1>1 DEF ClimbStarts
  <2>2. climb'.passed = {chosen} /\ climb'.done = {}
    BY <1>1, ClimbStartsSteps
  <2> QED BY <2>1, <2>2, StaysProven, SamePassesProven
<1>2. CASE ClimbSkipped \/ LadderEnds
  <2>1. UNCHANGED <<chosen, passes, tested, climb, runoff>>
    BY <1>2 DEF ClimbSkipped, LadderEnds
  <2> QED BY <2>1, StaysProven, SamePassesProven
<1>3. CASE SkipRung
  <2>1. UNCHANGED <<chosen, passes, tested, runoff>> /\ climb' = [climb EXCEPT !.rung = climb.rung + 1]
    BY <1>3 DEF SkipRung
  <2>2. climb'.passed = climb.passed /\ climb'.done = climb.done
    BY <1>0, <2>1 DEF Climbs
  <2> QED BY <2>1, <2>2, StaysProven, SamePassesProven
<1>4. CASE ClimbSettles
  <2>1. UNCHANGED <<passes, runoff>>
    BY <1>4 DEF ClimbSettles
  <2>2. /\ climb'.passed = {} /\ climb'.done = {} /\ tested' = tested \cup climb.done
        /\ chosen' \in {chosen} \cup climb.passed \cup tested
    BY <1>4, ClimbSettlesSteps
  <2> QED BY <2>1, <2>2, StaysProven, SamePassesProven
<1>5. ASSUME NEW p \in Turned, ClimbClosed(p) PROVE ProvenInv'
  <2>1. UNCHANGED <<chosen, passes, tested, runoff>>
    BY <1>5 DEF ClimbClosed
  <2>2. climb'.passed = climb.passed /\ climb'.done = climb.done
    <3>1. CASE pc = "backoff"
      BY <1>5, <3>1 DEF ClimbClosed
    <3>2. CASE pc # "backoff"
      <4>1. NextVoltage(p, TRUE)
        BY <1>5, <3>2 DEF ClimbClosed
      <4> QED BY <3>2, <4>1, NextVoltageSteps DEF WellFormed
    <3> QED BY <3>1, <3>2
  <2> QED BY <2>1, <2>2, StaysProven, SamePassesProven
<1>6. ASSUME NEW p \in Turned, NEW better \in BOOLEAN, NEW walled \in BOOLEAN,
             ClimbPasses(p, better, walled)
      PROVE  ProvenInv'
  <2>1. p \in Points /\ pc \in {"rung", "retry", "backoff"}
    BY TurnedPoint DEF WellFormed
  <2>2. UNCHANGED <<passes, tested, runoff>>
        /\ OnGpu(p, IF pc = "backoff" THEN pc ELSE "climb", [sev |-> "pass", why |-> ""])
    BY <1>6 DEF ClimbPasses
  <2>3. p \in Proven'
    BY <2>1, <2>2, ProvenGrows
  <2>4. /\ climb'.passed \subseteq climb.passed \cup {p} /\ climb'.done = climb.done \cup {p}
        /\ chosen' \in {chosen, p}
    BY <1>6, ClimbPassesSteps DEF WellFormed
  <2> QED BY <2>2, <2>3, <2>4, StaysProven, SamePassesProven
<1>7. ASSUME NEW p \in Turned, NEW verdict \in Verdicts, ClimbFails(p, verdict) PROVE ProvenInv'
  <2>1. UNCHANGED <<chosen, passes, tested, runoff>>
    BY <1>7 DEF ClimbFails
  <2>2. climb'.passed = climb.passed /\ climb'.done = climb.done
    BY <1>7, ClimbFailsSteps DEF WellFormed
  <2> QED BY <2>1, <2>2, StaysProven, SamePassesProven
<1> QED BY <1>1, <1>2, <1>3, <1>4, <1>5, <1>6, <1>7

LEMMA ChoiceProven ==
    ASSUME WellFormed, ProvenInv, [Next]_vars,
           \/ Choose \/ Dialog \/ SoakBlocked
           \/ \E verdict \in Verdicts : Compare(verdict) \/ Soak(verdict)
    PROVE  ProvenInv'
<1>0. Allowed(tested) \subseteq tested
  BY DEF Allowed
<1>1. CASE Choose
  <2>1. UNCHANGED <<passes, tested, climb>> /\ chosen' \in {chosen} \cup tested
    BY <1>0, <1>1 DEF Choose
  <2>2. \A i \in 1..Len(runoff') : runoff'[i] \in Proven'
    <3>1. CASE runoff' = runoff
      BY <3>1, SamePassesProven
    <3>2. CASE \E a, b \in tested : runoff' = <<a, b, b, a>>
      <4>1. PICK a \in tested, b \in tested : runoff' = <<a, b, b, a>>
        BY <3>2
      <4>2. a \in Proven' /\ b \in Proven'
        BY ProvenGrows DEF ProvenInv
      <4>3. \A i \in 1..Len(<<a, b, b, a>>) : <<a, b, b, a>>[i] \in {a, b}
        OBVIOUS
      <4> QED BY <4>1, <4>2, <4>3
    <3> QED BY <1>0, <1>1, <3>1, <3>2 DEF Choose
  <2> QED BY <2>1, <2>2, StaysProven, SamePassesProven
<1>2. CASE Dialog \/ SoakBlocked
  <2>1. UNCHANGED <<passes, tested, climb, runoff>> /\ chosen' \in {chosen} \cup tested
    BY <1>0, <1>2, FallsBackSteps DEF Dialog, SoakBlocked, WellFormed
  <2> QED BY <2>1, StaysProven, SamePassesProven
<1>3. ASSUME NEW verdict \in Verdicts, Compare(verdict) PROVE ProvenInv'
  <2>1. /\ UNCHANGED <<passes, tested, climb>> /\ chosen' \in {chosen, Head(runoff)}
        /\ runoff' \in {runoff, Tail(runoff)} /\ Head(runoff) = runoff[1] /\ 1 \in 1..Len(runoff)
    BY <1>3, CompareSteps
  <2>2. Head(runoff) \in Proven'
    BY <2>1, ProvenGrows DEF ProvenInv
  <2>3. \A i \in 1..Len(runoff') : runoff'[i] \in Proven'
    <3>1. CASE runoff' = runoff
      BY <3>1, SamePassesProven
    <3>2. CASE runoff' = Tail(runoff)
      <4>1. runoff \in Seq(Points) /\ runoff # <<>>
        BY <2>1 DEF WellFormed, TypeOK
      <4>2. /\ Len(Tail(runoff)) = Len(runoff) - 1 /\ Len(runoff) \in Nat
            /\ \A i \in 1..Len(Tail(runoff)) : Tail(runoff)[i] = runoff[i + 1]
        BY <4>1, HeadTailProperties
      <4>3. \A i \in 1..Len(Tail(runoff)) : Tail(runoff)[i] \in Proven
        BY <4>2 DEF ProvenInv
      <4> QED BY <3>2, <4>3, ProvenGrows
    <3> QED BY <2>1, <3>1, <3>2
  <2> QED BY <2>1, <2>2, <2>3, StaysProven, SamePassesProven
<1>4. ASSUME NEW verdict \in Verdicts, Soak(verdict) PROVE ProvenInv'
  <2>1. UNCHANGED <<passes, tested, climb, runoff>> /\ chosen' \in {chosen} \cup tested
    BY <1>4, FallsBackSteps DEF Soak, WellFormed
  <2> QED BY <2>1, StaysProven, SamePassesProven
<1> QED BY <1>1, <1>2, <1>3, <1>4

LEMMA StepProven == ASSUME WellFormed, ProvenInv, [Next]_vars PROVE ProvenInv'
<1>1. CASE UNCHANGED vars \/ Ended
  <2>1. UNCHANGED <<chosen, passes, tested, climb, runoff>>
    BY <1>1 DEF vars, Ended
  <2> QED BY <2>1, StaysProven, SamePassesProven
<1> QED BY <1>1, DescentProven, ClimbProven, ChoiceProven DEF Next

LEMMA SoaksProven ==
    ASSUME WellFormed, ProvenInv, SoakProven, [Next]_vars
    PROVE  SoakProven'
<1>1. CASE Quiet
  BY <1>1, SetupStays DEF Quiet, SoakProven
<1>2. ASSUME NEW p \in Points, NEW verdict \in Verdicts, Probing(p, verdict)
      PROVE  SoakProven'
  <2>1. PICK purpose \in {"descent", "climb", "backoff", "compare", "soak"} :
            OnGpu(p, purpose, verdict) /\ (purpose = "soak" => p = chosen)
    BY <1>2 DEF Probing
  <2> DEFINE n == Len(log)
  <2>2. /\ n \in Nat /\ Len(log') = n + 1
        /\ \A i \in 1..n : log'[i] = log[i]
        /\ log'[n + 1].for = purpose /\ log'[n + 1].at = p
    BY <2>1, LogGrows
  <2> HIDE DEF n
  <2> SUFFICES ASSUME NEW i \in 1..(n + 1), log'[i].for = "soak"
               PROVE  \/ log'[i].at = Start'
                      \/ \E j \in 1..(i - 1) : log'[j].at = log'[i].at /\ log'[j].sev = "pass"
    BY <2>2 DEF SoakProven
  <2>3. i \in 1..n \/ i = n + 1
    BY <2>2
  <2>4. CASE i \in 1..n
    <3>1. \A j \in 1..(i - 1) : j \in 1..n
      BY <2>2, <2>4
    <3> QED BY <2>2, <2>4, <3>1, SetupStays DEF SoakProven, n
  <2>5. CASE i = n + 1
    <3>1. chosen \in Proven /\ log'[i].at = chosen
      BY <2>1, <2>2, <2>5 DEF ProvenInv
    <3>2. chosen = Start \/ \E j \in 1..n : log[j].at = chosen /\ log[j].sev = "pass"
      BY <3>1 DEF Proven, n
    <3>3. 1..(i - 1) = 1..n
      BY <2>2, <2>5
    <3> QED BY <2>2, <3>1, <3>2, <3>3, SetupStays
  <2> QED BY <2>3, <2>4, <2>5
<1> QED BY <1>1, <1>2, Moves

\* The soak's ground. Through retries, back-offs, comparisons, points closed by
\* later failures, the user's choice and fallbacks: what is soaked was passed
\* before in this search, at its very voltage and clock.
THEOREM OnlyProvenIsSoaked == Spec => []TestedBeforeSoak
<1> DEFINE Inv == WellFormed /\ ProvenInv /\ SoakProven
<1>1. Init => Inv
  <2>1. Init => ProvenInv /\ SoakProven
    BY DEF Init, ProvenInv, SoakProven, Proven, NoClimb
  <2> QED BY <2>1, InitTypes
<1>2. Inv /\ [Next]_vars => Inv'
  BY StepTypes, StepProven, SoaksProven
<1>3. Inv => TestedBeforeSoak
  <2> SUFFICES ASSUME Inv PROVE TestedBeforeSoak
    OBVIOUS
  <2>1. DOMAIN log = 1..Len(log)
    BY DEF WellFormed, TypeOK
  <2> QED BY <2>1 DEF TestedBeforeSoak, Probes, SoakProven
<1> HIDE DEF Inv
<1> QED BY <1>1, <1>2, <1>3, PTL DEF Spec

-----------------------------------------------------------------------------
(* A pass at the floor is left alone. *)

Above ==
    /\ \A p \in tested \cup climb.passed \cup climb.done \cup {chosen} : p.v > Floor
    /\ \A i \in 1..Len(climb.ladder) : climb.ladder[i].v > Floor
    /\ \A i \in 1..Len(climb.retries) : climb.retries[i] > Floor
    /\ \A i \in 1..Len(runoff) : runoff[i].v > Floor

LEMMA LowestOverFloor ==
    LowestVoltage \in Nat /\ LowestVoltage >= Floor /\ Floor \in Nat
<1>1. Floor \in Nat
  BY SearchAssumption
<1>2. MinSearch(mem, Start.v, Tier) \in Nat
  BY NextHigherIsBin, BinsAreNats DEF MinSearch
<1> DEFINE low == MinSearch(mem, Start.v, Tier)
<1>3. LowestVoltage = Max({Floor, low})
  BY DEF LowestVoltage
<1> HIDE DEF low
<1>4. low \in Nat
  BY <1>2 DEF low
<1>5. Max({Floor, low}) = IF Floor >= low THEN Floor ELSE low
  BY <1>1, <1>4, LargerOfTwo
<1> QED BY <1>1, <1>3, <1>4, <1>5

\* After the descent nothing changes whether it passed down to the floor.
LEMMA FloorStays ==
    ASSUME WellFormed, pc # "descend", [Next]_vars
    PROVE  (AtFloor' => AtFloor) /\ pc' # "descend"
<1>1. passes' = passes /\ wall' = wall
  <2>1. \A p \in Turned : pc # "descend"
    BY TurnedPoint DEF WellFormed
  <2>2. ASSUME NEW p \in Turned, ClimbClosed(p) PROVE passes' = passes /\ wall' = wall
    BY <2>2 DEF ClimbClosed
  <2>3. ASSUME NEW p \in Turned, NEW better \in BOOLEAN, NEW walled \in BOOLEAN,
               ClimbPasses(p, better, walled)
        PROVE  passes' = passes /\ wall' = wall
    BY <2>3 DEF ClimbPasses
  <2>4. ASSUME NEW p \in Turned, NEW verdict \in Verdicts, ClimbFails(p, verdict)
        PROVE  passes' = passes /\ wall' = wall
    BY <2>4 DEF ClimbFails
  <2>5. ASSUME NEW verdict \in Verdicts, Compare(verdict) \/ Soak(verdict)
        PROVE  passes' = passes /\ wall' = wall
    BY <2>5 DEF Compare, Soak
  <2>6. ASSUME ClimbStarts \/ ClimbSkipped \/ SkipRung \/ LadderEnds \/ ClimbSettles
        PROVE  passes' = passes /\ wall' = wall
    BY <2>6 DEF ClimbStarts, ClimbSkipped, SkipRung, LadderEnds, ClimbSettles
  <2>7. ASSUME Choose \/ Dialog \/ SoakBlocked \/ Ended \/ UNCHANGED vars
        PROVE  passes' = passes /\ wall' = wall
    BY <2>7 DEF Choose, Dialog, SoakBlocked, Ended, vars
  <2>8. /\ ~ \E p \in Lowered, gain, noWorse \in BOOLEAN : DescentPasses(p, gain, noWorse)
        /\ ~ \E p \in Lowered, verdict \in Verdicts : DescentFails(p, verdict)
        /\ ~ DescentEnds
    BY DEF DescentPasses, DescentFails, DescentEnds
  <2> QED BY <2>2, <2>3, <2>4, <2>5, <2>6, <2>7, <2>8 DEF Next
<1>2. \/ log' = log /\ pc' # "descend"
      \/ /\ pc' # "descend"
         /\ \E p \in Points, verdict \in Verdicts, purpose \in {"climb", "backoff", "compare", "soak"} :
               OnGpu(p, purpose, verdict)
  BY Moves DEF Quiet, Probing
<1>3. Len(log) \in Nat /\ Len(log) <= Len(log') /\ \A i \in 1..Len(log) : log'[i] = log[i]
  <2>1. Len(log) \in Nat
    BY DEF WellFormed, TypeOK
  <2>2. CASE log' = log
    BY <2>1, <2>2
  <2>3. CASE log' # log
    BY <1>2, <2>3, LogGrows
  <2> QED BY <2>2, <2>3
<1>4. \A i \in 1..Len(log) : i \in 1..Len(log')
  BY <1>3, Moves, LogGrows DEF Quiet, Probing
<1> QED BY <1>1, <1>2, <1>3, <1>4 DEF AtFloor

LEMMA ClimbAbove ==
    ASSUME WellFormed, Above, [Next]_vars,
           \/ ClimbStarts \/ ClimbSkipped \/ SkipRung \/ LadderEnds \/ ClimbSettles
           \/ \E p \in Turned : ClimbClosed(p)
           \/ \E p \in Turned, better, walled \in BOOLEAN : ClimbPasses(p, better, walled)
           \/ \E p \in Turned, verdict \in Verdicts : ClimbFails(p, verdict)
    PROVE  Above'
<1>0. climb \in Climbs /\ Floor \in Nat
  BY LowestOverFloor DEF WellFormed, TypeOK
<1>1. CASE ClimbStarts
  <2>1. UNCHANGED <<chosen, tested, runoff>>
    BY <1>1 DEF ClimbStarts
  <2>2. /\ climb'.passed = {chosen} /\ climb'.done = {} /\ climb'.ladder = ClimbLadder
        /\ climb'.retries = <<>>
    BY <1>1, ClimbStartsSteps
  <2>3. \A k \in 1..Len(ClimbLadder) : ClimbLadder[k].v > Floor
    <3> SUFFICES ASSUME NEW k \in 1..Len(ClimbLadder) PROVE ClimbLadder[k].v > Floor
      OBVIOUS
    <3>1. ClimbLadder[k] \in Points /\ ClimbLadder[k].v >= chosen.v
      BY ClimbLadderRises, ElementOfSeq DEF WellFormed
    <3>2. ClimbLadder[k].v \in Nat /\ chosen.v \in Nat /\ chosen.v > Floor
      BY <3>1, BinsAreNats DEF Above, WellFormed, TypeOK
    <3> QED BY <1>0, <3>1, <3>2
  <2> QED BY <2>1, <2>2, <2>3 DEF Above
<1>2. CASE ClimbSkipped \/ LadderEnds
  <2>1. UNCHANGED <<chosen, tested, climb, runoff>>
    BY <1>2 DEF ClimbSkipped, LadderEnds
  <2> QED BY <2>1 DEF Above
<1>3. CASE SkipRung
  <2>1. UNCHANGED <<chosen, tested, runoff>> /\ climb' = [climb EXCEPT !.rung = climb.rung + 1]
    BY <1>3 DEF SkipRung
  <2>2. /\ climb'.passed = climb.passed /\ climb'.done = climb.done
        /\ climb'.ladder = climb.ladder /\ climb'.retries = climb.retries
    BY <1>0, <2>1 DEF Climbs
  <2> QED BY <2>1, <2>2 DEF Above
<1>4. CASE ClimbSettles
  <2>1. runoff' = runoff
    BY <1>4 DEF ClimbSettles
  <2>2. /\ climb'.passed = {} /\ climb'.done = {} /\ climb'.ladder = <<>> /\ climb'.retries = <<>>
        /\ tested' = tested \cup climb.done
        /\ chosen' \in {chosen} \cup climb.passed \cup tested
    BY <1>4, ClimbSettlesSteps
  <2> QED BY <2>1, <2>2 DEF Above
<1>5. ASSUME NEW p \in Turned, ClimbClosed(p) PROVE Above'
  <2>1. UNCHANGED <<chosen, tested, runoff>>
    BY <1>5 DEF ClimbClosed
  <2>2. CASE pc = "backoff"
    <3>1. climb' = climb
      BY <1>5, <2>2 DEF ClimbClosed
    <3> QED BY <2>1, <3>1 DEF Above
  <2>3. CASE pc # "backoff"
    <3>1. NextVoltage(p, TRUE)
      BY <1>5, <2>3 DEF ClimbClosed
    <3>2. /\ climb'.passed = climb.passed /\ climb'.done = climb.done /\ climb'.ladder = climb.ladder
          /\ \A i \in 1..Len(climb'.retries) : climb'.retries[i] > Floor
      BY <1>0, <2>3, <3>1, NextVoltageSteps DEF WellFormed, Above
    <3> QED BY <2>1, <3>2 DEF Above
  <2> QED BY <2>2, <2>3
<1>6. ASSUME NEW p \in Turned, NEW better \in BOOLEAN, NEW walled \in BOOLEAN,
             ClimbPasses(p, better, walled)
      PROVE  Above'
  <2>1. UNCHANGED <<tested, runoff>>
    BY <1>6 DEF ClimbPasses
  <2>2. /\ climb'.passed \subseteq climb.passed \cup {p} /\ climb'.done = climb.done \cup {p}
        /\ climb'.ladder = climb.ladder /\ climb'.retries = <<>>
        /\ chosen' \in {chosen, p}
    BY <1>6, ClimbPassesSteps DEF WellFormed
  <2>3. p.v > Floor
    BY <1>0, TurnedPoint DEF WellFormed, Above
  <2> QED BY <2>1, <2>2, <2>3 DEF Above
<1>7. ASSUME NEW p \in Turned, NEW verdict \in Verdicts, ClimbFails(p, verdict) PROVE Above'
  <2>1. UNCHANGED <<chosen, tested, runoff>>
    BY <1>7 DEF ClimbFails
  <2>2. /\ climb'.passed = climb.passed /\ climb'.done = climb.done /\ climb'.ladder = climb.ladder
        /\ \A i \in 1..Len(climb'.retries) : climb'.retries[i] > Floor
    BY <1>0, <1>7, ClimbFailsSteps DEF WellFormed, Above
  <2> QED BY <2>1, <2>2 DEF Above
<1> QED BY <1>1, <1>2, <1>3, <1>4, <1>5, <1>6, <1>7

LEMMA ChoiceAbove ==
    ASSUME WellFormed, Above,
           \/ Choose \/ Dialog \/ SoakBlocked
           \/ \E verdict \in Verdicts : Compare(verdict) \/ Soak(verdict)
    PROVE  Above'
<1>0. Allowed(tested) \subseteq tested
  BY DEF Allowed
<1>1. CASE Choose
  <2>1. UNCHANGED <<tested, climb>> /\ chosen' \in {chosen} \cup tested
    BY <1>0, <1>1 DEF Choose
  <2>2. \A i \in 1..Len(runoff') : runoff'[i].v > Floor
    <3>1. CASE runoff' = runoff
      BY <3>1 DEF Above
    <3>2. CASE \E a, b \in tested : runoff' = <<a, b, b, a>>
      <4>1. PICK a \in tested, b \in tested : runoff' = <<a, b, b, a>>
        BY <3>2
      <4>2. \A i \in 1..Len(<<a, b, b, a>>) : <<a, b, b, a>>[i] \in {a, b}
        OBVIOUS
      <4> QED BY <4>1, <4>2 DEF Above
    <3> QED BY <1>0, <1>1, <3>1, <3>2 DEF Choose
  <2> QED BY <2>1, <2>2 DEF Above
<1>2. CASE Dialog \/ SoakBlocked
  <2>1. UNCHANGED <<tested, climb, runoff>> /\ chosen' \in {chosen} \cup tested
    BY <1>0, <1>2, FallsBackSteps DEF Dialog, SoakBlocked, WellFormed
  <2> QED BY <2>1 DEF Above
<1>3. ASSUME NEW verdict \in Verdicts, Compare(verdict) PROVE Above'
  <2>1. /\ UNCHANGED <<tested, climb>> /\ chosen' \in {chosen, Head(runoff)}
        /\ runoff' \in {runoff, Tail(runoff)} /\ Head(runoff) = runoff[1] /\ 1 \in 1..Len(runoff)
    BY <1>3, CompareSteps
  <2>2. runoff \in Seq(Points) /\ runoff # <<>>
    BY <2>1 DEF WellFormed, TypeOK
  <2>3. /\ Len(Tail(runoff)) = Len(runoff) - 1 /\ Len(runoff) \in Nat
        /\ \A i \in 1..Len(Tail(runoff)) : Tail(runoff)[i] = runoff[i + 1]
    BY <2>2, HeadTailProperties
  <2>4. \A i \in 1..Len(Tail(runoff)) : Tail(runoff)[i].v > Floor
    BY <2>3 DEF Above
  <2>5. \A i \in 1..Len(runoff') : runoff'[i].v > Floor
    BY <2>1, <2>4 DEF Above
  <2> QED BY <2>1, <2>5 DEF Above
<1>4. ASSUME NEW verdict \in Verdicts, Soak(verdict) PROVE Above'
  <2>1. UNCHANGED <<tested, climb, runoff>> /\ chosen' \in {chosen} \cup tested
    BY <1>4, FallsBackSteps DEF Soak, WellFormed
  <2> QED BY <2>1 DEF Above
<1> QED BY <1>1, <1>2, <1>3, <1>4

\* A descent that goes on.
LEMMA DescentGoesDown ==
    ASSUME WellFormed, FloorInv, NEW p \in Lowered, NEW gain \in BOOLEAN, NEW noWorse \in BOOLEAN,
           DescentPasses(p, gain, noWorse)
    PROVE  /\ \A q \in tested' : q = stable' \/ q.v > stable'.v
           /\ \A i, j \in 1..Len(passes') : i < j => passes'[i].v > passes'[j].v
           /\ stable' = passes'[Len(passes')]
           /\ wall' = [streak |-> 0, pending |-> FALSE] => chosen' = stable' /\ pc' = "descend"
<1>1. /\ stable' = p /\ passes' = Append(passes, p) /\ tested' = tested \cup {p} /\ pc = "descend"
  BY DEF DescentPasses
<1>2. /\ p \in Points /\ p.v < stable.v /\ p.v \in Nat /\ stable.v \in Nat
      /\ passes \in Seq(Points) /\ \A q \in tested : q.v \in Nat
  BY LoweredPoint, BinsAreNats DEF WellFormed, TypeOK
<1>3. wall' = [streak |-> 0, pending |-> FALSE] => chosen' = p /\ pc' = "descend"
  BY DescentPassesSteps DEF WellFormed
<1> DEFINE n == Len(passes)
<1>4. /\ n \in Nat /\ Len(passes') = n + 1
      /\ \A i \in 1..n : passes'[i] = passes[i]
      /\ passes'[n + 1] = p
  BY <1>1, <1>2, AppendProperties
<1>5. \A i \in 1..n : passes[i] \in Points /\ passes[i].v \in Nat
  BY <1>2, ElementOfSeq, BinsAreNats
<1>6. \A q \in tested' : q = p \/ q.v > p.v
  <2> SUFFICES ASSUME NEW q \in tested PROVE q.v > p.v
    BY <1>1
  <2>1. q = stable \/ q.v > stable.v
    BY <1>1 DEF FloorInv
  <2> QED BY <1>2, <2>1
<1>7. ASSUME NEW i \in 1..n PROVE passes[i].v > p.v
  <2>1. passes # <<>> /\ stable = passes[n] /\ n \in 1..n
    BY <1>1, <1>2, <1>4 DEF FloorInv
  <2>2. i = n \/ passes[i].v > passes[n].v
    BY <1>1, <1>4, <2>1 DEF FloorInv
  <2> QED BY <1>2, <1>5, <2>1, <2>2
<1>8. \A i, j \in 1..n : i < j => passes[i].v > passes[j].v
  BY <1>1 DEF FloorInv
<1> HIDE DEF n
<1>9. ASSUME NEW i \in 1..(n + 1), NEW j \in 1..(n + 1), i < j
      PROVE  passes'[i].v > passes'[j].v
  <2>1. i \in 1..n /\ (j \in 1..n \/ j = n + 1)
    BY <1>4, <1>9
  <2> QED BY <1>4, <1>7, <1>8, <1>9, <2>1
<1> QED BY <1>1, <1>3, <1>4, <1>6, <1>9

\* A descent that has ended at the floor has left it.
LEMMA DescentLeavesFloor ==
    ASSUME WellFormed, FloorInv, DescentEnds, AtFloor
    PROVE  Above'
<1>1. /\ pc = "descend" /\ UNCHANGED <<climb, runoff>> /\ climb = NoClimb /\ runoff = <<>>
  BY DEF DescentEnds, WellFormed, ShapeInv
<1>2. /\ passes \in Seq(Points) /\ Len(passes) \in Nat /\ Len(passes) >= 2
      /\ passes[Len(passes)].v = Floor
  BY DEF AtFloor, WellFormed, TypeOK
<1>3. stable = passes[Len(passes)] /\ chosen = stable /\ stable \in Points
  BY <1>1, <1>2 DEF FloorInv, AtFloor, WellFormed, TypeOK
<1>4. LowestVoltage \in Nat /\ LowestVoltage >= Floor /\ Floor \in Nat /\ Floor > 0
  BY <1>2, <1>3, LowestOverFloor, BinsAreNats
<1>5. Lowered = {}
  <2> SUFFICES ASSUME NEW p \in Lowered PROVE FALSE
    OBVIOUS
  <2>1. p \in Points /\ p.v < stable.v /\ p.v >= LowestVoltage /\ p.v \in Nat
    BY <1>3, LoweredPoint, BinsAreNats
  <2> QED BY <1>2, <1>3, <1>4, <2>1
<1>6. FloorCaution
  BY <1>5 DEF DescentEnds
<1>7. chosen' = passes[Len(passes) - 1] /\ tested' = tested \ {stable}
  BY <1>2, <1>3, <1>4, <1>6 DEF FloorCaution, Last
<1>8. chosen'.v > Floor
  <2>1. Len(passes) - 1 \in 1..Len(passes) /\ Len(passes) \in 1..Len(passes) /\ Len(passes) - 1 < Len(passes)
    BY <1>2
  <2> QED BY <1>1, <1>2, <1>7, <2>1 DEF FloorInv
<1>9. \A q \in tested' : q.v > Floor
  BY <1>1, <1>2, <1>3, <1>7 DEF FloorInv
<1>10. NoClimb.passed = {} /\ NoClimb.done = {} /\ NoClimb.ladder = <<>> /\ NoClimb.retries = <<>>
  BY DEF NoClimb
<1> QED BY <1>1, <1>8, <1>9, <1>10 DEF Above

LEMMA DescentKeepsFloor ==
    ASSUME WellFormed, RetreatInv, FloorInv, pc = "descend", [Next]_vars
    PROVE  FloorInv'
<1>1. \A i \in 1..Len(log') : log'[i].for # "soak"
  <2>1. Len(log) \in Nat /\ \A i \in 1..Len(log) : log[i].for # "soak"
    BY DEF RetreatInv, Before, WellFormed, TypeOK
  <2>2. CASE Quiet
    BY <2>1, <2>2 DEF Quiet
  <2>3. ASSUME NEW p \in Points, NEW verdict \in Verdicts, Probing(p, verdict)
        PROVE  \A i \in 1..Len(log') : log'[i].for # "soak"
    <3>1. OnGpu(p, "descent", verdict)
      BY <2>3 DEF Probing
    <3>2. /\ Len(log') = Len(log) + 1
          /\ \A i \in 1..Len(log) : log'[i] = log[i]
          /\ log'[Len(log')].for = "descent"
      BY <3>1, LogGrows
    <3> SUFFICES ASSUME NEW i \in 1..Len(log') PROVE log'[i].for # "soak"
      OBVIOUS
    <3>3. i \in 1..Len(log) \/ i = Len(log')
      BY <2>1, <3>2
    <3> QED BY <2>1, <3>2, <3>3
  <2> QED BY <2>2, <2>3, Moves
<1>2. ASSUME NEW p \in Lowered, NEW gain \in BOOLEAN, NEW noWorse \in BOOLEAN,
             DescentPasses(p, gain, noWorse)
      PROVE  FloorInv'
  <2>1. /\ \A q \in tested' : q = stable' \/ q.v > stable'.v
        /\ \A i, j \in 1..Len(passes') : i < j => passes'[i].v > passes'[j].v
        /\ stable' = passes'[Len(passes')]
        /\ wall' = [streak |-> 0, pending |-> FALSE] => chosen' = stable' /\ pc' = "descend"
    BY <1>2, DescentGoesDown
  <2>2. AtFloor' => pc' = "descend"
    BY <2>1 DEF AtFloor
  <2> QED BY <1>1, <2>1, <2>2 DEF FloorInv
<1>3. ASSUME NEW p \in Lowered, NEW verdict \in Verdicts, DescentFails(p, verdict)
      PROVE  FloorInv'
  <2>1. p \in Points
    BY LoweredPoint DEF WellFormed, TypeOK
  <2>2. pc' # "descend" /\ OnGpu(p, "descent", verdict) /\ verdict.sev # "pass"
    BY <1>3 DEF DescentFails
  <2>3. /\ Len(log) \in Nat /\ Len(log') = Len(log) + 1
        /\ log'[Len(log')].for = "descent" /\ log'[Len(log')].sev # "pass"
    BY <2>1, <2>2, LogGrows
  <2>4. Len(log') \in 1..Len(log')
    BY <2>3
  <2>5. ~AtFloor'
    BY <2>3, <2>4 DEF AtFloor
  <2> QED BY <2>2, <2>5 DEF FloorInv
<1>4. CASE DescentEnds
  <2>1. pc' # "descend" /\ UNCHANGED <<passes, wall, log>>
    BY <1>4 DEF DescentEnds
  <2>2. AtFloor' => AtFloor
    BY <2>1 DEF AtFloor
  <2>3. AtFloor => Above'
    BY <1>4, DescentLeavesFloor
  <2>4. AtFloor' => Above'
    BY <2>2, <2>3
  <2> QED BY <1>1, <2>1, <2>4 DEF FloorInv, Above
<1>5. CASE UNCHANGED vars
  BY <1>5 DEF vars, FloorInv, AtFloor
<1>6. \A p \in Turned : FALSE
  BY TurnedPoint DEF WellFormed
<1>7. /\ \A verdict \in Verdicts : ~Compare(verdict) /\ ~Soak(verdict)
      /\ ~ClimbStarts /\ ~ClimbSkipped /\ ~SkipRung /\ ~LadderEnds /\ ~ClimbSettles
      /\ ~Choose /\ ~Dialog /\ ~SoakBlocked /\ ~Ended
  BY DEF Compare, Soak, ClimbStarts, ClimbSkipped, SkipRung, LadderEnds, ClimbSettles,
         Choose, Dialog, SoakBlocked, Ended
<1> QED BY <1>2, <1>3, <1>4, <1>5, <1>6, <1>7 DEF Next

\* Past the descent, whatever is climbed from or chosen stays over the floor.
LEMMA StaysAbove ==
    ASSUME WellFormed, Above, pc # "descend", [Next]_vars
    PROVE  Above'
<1>1. /\ ~ \E p \in Lowered, gain, noWorse \in BOOLEAN : DescentPasses(p, gain, noWorse)
      /\ ~ \E p \in Lowered, verdict \in Verdicts : DescentFails(p, verdict)
      /\ ~ DescentEnds
  BY DEF DescentPasses, DescentFails, DescentEnds
<1>2. CASE UNCHANGED vars \/ Ended
  BY <1>2 DEF vars, Ended, Above
<1>3. CASE Choose \/ Dialog \/ SoakBlocked
  BY <1>3, ChoiceAbove
<1>4. ASSUME NEW verdict \in Verdicts, Compare(verdict) \/ Soak(verdict) PROVE Above'
  BY <1>4, ChoiceAbove
<1>5. CASE ClimbStarts \/ ClimbSkipped \/ SkipRung \/ LadderEnds \/ ClimbSettles
  BY <1>5, ClimbAbove
<1>6. ASSUME NEW p \in Turned, ClimbClosed(p) PROVE Above'
  BY <1>6, ClimbAbove
<1>7. ASSUME NEW p \in Turned, NEW better \in BOOLEAN, NEW walled \in BOOLEAN,
             ClimbPasses(p, better, walled)
      PROVE  Above'
  BY <1>7, ClimbAbove
<1>8. ASSUME NEW p \in Turned, NEW verdict \in Verdicts, ClimbFails(p, verdict) PROVE Above'
  BY <1>8, ClimbAbove
<1> QED BY <1>1, <1>2, <1>3, <1>4, <1>5, <1>6, <1>7, <1>8 DEF Next

LEMMA LaterKeepsFloor ==
    ASSUME WellFormed, FloorInv, pc # "descend", [Next]_vars
    PROVE  FloorInv'
<1>1. pc' # "descend" /\ (AtFloor' => AtFloor)
  BY FloorStays
<1>2. AtFloor => Above /\ \A i \in 1..Len(log) : log[i].for = "soak" => log[i].at.v > Floor
  BY DEF FloorInv, Above
<1>3. AtFloor => Above'
  BY <1>2, StaysAbove
<1>4. AtFloor => \A i \in 1..Len(log') : log'[i].for = "soak" => log'[i].at.v > Floor
  <2> SUFFICES ASSUME AtFloor
               PROVE  \A i \in 1..Len(log') : log'[i].for = "soak" => log'[i].at.v > Floor
    OBVIOUS
  <2>1. CASE Quiet
    BY <1>2, <2>1 DEF Quiet
  <2>2. ASSUME NEW p \in Points, NEW verdict \in Verdicts, Probing(p, verdict)
        PROVE  \A i \in 1..Len(log') : log'[i].for = "soak" => log'[i].at.v > Floor
    <3>1. PICK purpose \in {"climb", "backoff", "compare", "soak"} :
             OnGpu(p, purpose, verdict) /\ (purpose = "soak" => p = chosen)
      BY <2>2 DEF Probing
    <3>2. /\ Len(log) \in Nat /\ Len(log') = Len(log) + 1
          /\ \A i \in 1..Len(log) : log'[i] = log[i]
          /\ log'[Len(log')].for = purpose /\ log'[Len(log')].at = p
      BY <3>1, LogGrows
    <3>3. purpose = "soak" => p.v > Floor
      BY <1>2, <3>1 DEF Above
    <3> SUFFICES ASSUME NEW i \in 1..Len(log'), log'[i].for = "soak" PROVE log'[i].at.v > Floor
      OBVIOUS
    <3>4. i \in 1..Len(log) \/ i = Len(log')
      BY <3>2
    <3> QED BY <1>2, <3>2, <3>3, <3>4
  <2> QED BY <2>1, <2>2, Moves
<1>5. AtFloor' => Above' /\ \A i \in 1..Len(log') : log'[i].for = "soak" => log'[i].at.v > Floor
  BY <1>1, <1>3, <1>4
<1> QED BY <1>1, <1>5 DEF FloorInv, Above

\* The floor's caution. When every probe passed down to the lowest voltage that
\* the settings allow, nothing has shown where the edge is: neither the choice,
\* nor the climb that starts from it, nor a fallback brings that point back.
THEOREM FloorIsLeftAlone == Spec => []FloorNotSoaked
<1> DEFINE Inv == WellFormed /\ RetreatInv /\ SoakOrder /\ FloorInv
<1>1. Init => Inv
  <2> SUFFICES ASSUME Init PROVE Inv
    OBVIOUS
  <2>1. RetreatInv /\ SoakOrder
    BY DEF Init, RetreatInv, SoakOrder
  <2>2. /\ pc = "descend" /\ passes = <<>> /\ tested = {Start} /\ stable = Start /\ log = <<>>
    BY DEF Init
  <2>3. FloorInv
    BY <2>2 DEF FloorInv, AtFloor
  <2> QED BY <2>1, <2>3, InitTypes
<1>2. Inv /\ [Next]_vars => Inv'
  <2> SUFFICES ASSUME Inv, [Next]_vars PROVE Inv'
    OBVIOUS
  <2>1. WellFormed' /\ RetreatInv' /\ SoakOrder'
    BY StepTypes, StepRetreats
  <2>2. FloorInv'
    BY DescentKeepsFloor, LaterKeepsFloor
  <2> QED BY <2>1, <2>2
<1>3. Inv => FloorNotSoaked
  <2> SUFFICES ASSUME Inv PROVE FloorNotSoaked
    OBVIOUS
  <2>1. DOMAIN log = 1..Len(log) /\ Floor \in Nat
    BY LowestOverFloor DEF WellFormed, TypeOK
  <2>2. AtFloor => \A i \in 1..Len(log) : log[i].for = "soak" => log[i].at.v > Floor
    BY DEF FloorInv
  <2> QED BY <2>1, <2>2 DEF FloorNotSoaked, Probes, AtFloor
<1> HIDE DEF Inv
<1> QED BY <1>1, <1>2, <1>3, PTL DEF Spec

=============================================================================
